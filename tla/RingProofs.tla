----------------------------- MODULE RingProofs -----------------------------
(***************************************************************************)
(* Proofs about Ring, for every ring size, header layout, set of payload   *)
(* lengths and sequence modulus that RingAssumption allows.                *)
(***************************************************************************)
EXTENDS Ring, SequenceTheorems, TLAPS

(***************************************************************************)
(* Arithmetic of the ring.                                                 *)
(***************************************************************************)
\* Sizes are natural numbers, and a header is not empty.
LEMMA Sizes ==
  /\ HeaderSize \in Nat \ {0}
  /\ RingSize \in Nat \ {0}
  /\ \A len \in Nat : MessageSize(len) \in Nat /\ MessageSize(len) >= HeaderSize
  /\ \A len \in PayloadLens : len \in Nat
  BY RingAssumption DEF HeaderSize, MessageSize

\* A cursor is some whole number of laps plus its cell.
LEMMA IndexLap ==
  ASSUME NEW c \in Nat
  PROVE  /\ Index(c) \in 0 .. RingSize - 1
         /\ \E q \in Int : c = RingSize * q + Index(c)
<1>1. RingSize \in Nat /\ RingSize > 0
  BY Sizes
<1>2. c % RingSize \in 0 .. RingSize - 1
  BY <1>1
<1>3. \E q \in Int : c = RingSize * q + (c % RingSize)
  BY <1>1
<1> QED
  BY <1>2, <1>3 DEF Index

\* Two cursors less than a lap apart are different cells.
LEMMA IndexDistinct ==
  ASSUME NEW a \in Nat, NEW b \in Nat, a < b, b - a < RingSize
  PROVE  Index(a) # Index(b)
<1> SUFFICES ASSUME Index(a) = Index(b) PROVE FALSE
  OBVIOUS
<1>1. PICK q \in Int : a = RingSize * q + Index(a)
  BY IndexLap
<1>2. PICK p \in Int : b = RingSize * p + Index(b)
  BY IndexLap
<1>3. Index(a) \in Int
  BY IndexLap
<1>4. b - a = RingSize * p - RingSize * q
  BY <1>1, <1>2, <1>3, Sizes
<1>5. RingSize * p - RingSize * q = RingSize * (p - q)
  BY Sizes
<1>6. p - q \in Int
  OBVIOUS
<1>7. CASE p - q <= 0
  BY <1>7, <1>4, <1>5, <1>6, Sizes
<1>8. CASE p - q >= 1
  BY <1>8, <1>4, <1>5, <1>6, Sizes
<1> QED
  BY <1>6, <1>7, <1>8

\* wrapping_add keeps a sequence number in its width.
LEMMA NextSeqType ==
  ASSUME NEW seq \in 0 .. SeqMod - 1
  PROVE  NextSeq(seq) \in 0 .. SeqMod - 1
  BY RingAssumption DEF NextSeq

\* What the sender stores is a byte.
LEMMA MessageByteType ==
  ASSUME NEW m \in Messages, NEW seq \in 0 .. SeqMod - 1,
         NEW k \in 0 .. MessageSize(m.len) - 1
  PROVE  MessageByte(k, m, seq) \in Byte
<1> m.len \in PayloadLens /\ m.content \in Contents /\ m.len \in Nat
  BY Sizes DEF Messages
<1>1. CASE k < LenSize
  BY <1>1, RingAssumption DEF MessageByte, HeaderByte, LenByte, HeaderSize, Byte
<1>2. CASE ~(k < LenSize) /\ k < HeaderSize
  BY <1>2, RingAssumption, Sizes
  DEF MessageByte, HeaderByte, SeqByte, HeaderSize, Byte, MessageSize
<1>3. CASE ~(k < HeaderSize)
  BY <1>3, RingAssumption, Sizes DEF MessageByte, PayloadByte, Byte, MessageSize
<1> QED
  BY <1>1, <1>2, <1>3

\* A header whose bytes are all of one message reads as that message's length
\* and sequence number: read_msg_header decodes what publish_message encoded.
LEMMA HeaderDecodes ==
  ASSUME NEW cursor \in Nat, NEW len \in PayloadLens, NEW seq \in 0 .. SeqMod - 1,
         HeaderHolds(cursor, len, seq)
  PROVE  HeaderAt(cursor) = [len |-> len, seq |-> seq]
<1> DEFINE Headers == [len : PayloadLens, seq : 0 .. SeqMod - 1]
           Holds(h) == HeaderHolds(cursor, h.len, h.seq)
           h0 == [len |-> len, seq |-> seq]
<1>1. h0 \in Headers /\ Holds(h0)
  OBVIOUS
<1>2. ASSUME NEW h \in Headers, Holds(h) PROVE h = h0
  <2>1. 0 \in 0 .. HeaderSize - 1 /\ LenSize \in 0 .. HeaderSize - 1
    BY RingAssumption DEF HeaderSize
  <2>2. HeaderByte(0, h.len, h.seq) = HeaderByte(0, len, seq)
    BY <1>2, <2>1 DEF HeaderHolds
  <2>3. HeaderByte(LenSize, h.len, h.seq) = HeaderByte(LenSize, len, seq)
    BY <1>2, <2>1 DEF HeaderHolds
  <2>4. LenByte(0, h.len) = LenByte(0, len)
    BY <2>2, RingAssumption DEF HeaderByte
  <2>5. SeqByte(LenSize - LenSize, h.seq) = SeqByte(LenSize - LenSize, seq)
    BY <2>3, RingAssumption DEF HeaderByte
  <2>6. h.len = len
    BY <2>4 DEF LenByte
  <2>7. h.seq = seq
    BY <2>5 DEF SeqByte
  <2> QED
    BY <2>6, <2>7
<1>3. HeaderAt(cursor) = CHOOSE h \in Headers : Holds(h)
  BY <1>1 DEF HeaderAt
<1> HIDE DEF Headers, Holds, h0
<1>4. (CHOOSE h \in Headers : Holds(h)) = h0
  BY <1>1, <1>2
<1> QED
  BY <1>3, <1>4 DEF h0

(***************************************************************************)
(* The initial state, and the steps one after the other.                   *)
(***************************************************************************)
LEMMA InvInit == Init => IInv
<1> SUFFICES ASSUME Init PROVE IInv
  OBVIOUS
<1>1. TypeOK
  <2>1. ring \in [0 .. RingSize - 1 -> Byte]
    BY DEF Init, Byte
  <2>2. 1 \in 0 .. SeqMod - 1
    BY RingAssumption
  <2>3. queue \in Seq(Entries)
    BY DEF Init
  <2> QED
    BY <2>1, <2>2, <2>3 DEF Init, TypeOK
<1>2. SenderInv
  BY DEF Init, SenderInv
<1>3. QueueInv
  BY DEF Init, QueueInv, PublishedIntact
<1>4. ReceiverInv /\ NeverCorrupt
  BY DEF Init, ReceiverInv, NeverCorrupt
<1> QED
  BY <1>1, <1>2, <1>3, <1>4 DEF IInv

\* The queue is a sequence of entries of this shape.
LEMMA QueueType ==
  ASSUME IInv
  PROVE  /\ queue \in Seq(Entries)
         /\ DOMAIN queue = 1 .. Len(queue) /\ Len(queue) \in Nat
         /\ \A i \in DOMAIN queue :
              /\ queue[i] \in Entries
              /\ queue[i].msg \in Messages /\ queue[i].at \in Nat
              /\ queue[i].seq \in 0 .. SeqMod - 1
              /\ queue[i].msg.len \in PayloadLens
              /\ MessageSize(queue[i].msg.len) \in Nat
              /\ End(queue[i]) \in Nat
<1>1. queue \in Seq(Entries)
  BY DEF IInv, TypeOK
<1>2. DOMAIN queue = 1 .. Len(queue) /\ Len(queue) \in Nat
  BY <1>1
<1>3. ASSUME NEW i \in DOMAIN queue PROVE queue[i] \in Entries
  BY <1>1, <1>2, ElementOfSeq
<1>4. ASSUME NEW e \in Entries
      PROVE  /\ e.msg \in Messages /\ e.at \in Nat /\ e.seq \in 0 .. SeqMod - 1
             /\ e.msg.len \in PayloadLens
             /\ MessageSize(e.msg.len) \in Nat
             /\ End(e) \in Nat
  BY Sizes DEF Messages, End, Entries
<1> QED
  BY <1>1, <1>2, <1>3, <1>4

\* A step that changes only the sender's private state.
LEMMA SenderLocal ==
  ASSUME IInv, UNCHANGED <<shared, receiver, history, s_cached_wc, next_seq>>,
         s_cached_rc' \in Nat, s_cached_rc' <= read_cursor, s_copied' \in Nat,
         s_pc' \in {"idle", "space", "full", "write"},
         s_pc' = "idle" => s_msg' = NoMessage,
         s_pc' # "idle" => s_msg' \in Messages /\ MessageSize(s_msg'.len) <= RingSize,
         s_pc' = "write" =>
           /\ s_copied' = 0
           /\ write_cursor + MessageSize(s_msg'.len) <= read_cursor + RingSize
  PROVE  IInv'
<1>1. TypeOK'
  BY DEF IInv, TypeOK, shared, receiver, history
<1>2. SenderInv'
  <2>1. UNCHANGED <<ring, write_cursor, read_cursor, s_cached_wc, next_seq>>
    BY DEF shared
  <2>2. /\ s_cached_wc' = write_cursor'
        /\ s_cached_rc' <= read_cursor'
        /\ read_cursor' <= write_cursor'
    BY <2>1 DEF IInv, SenderInv
  <2>3. s_pc' # "idle" => MessageSize(s_msg'.len) <= RingSize
    OBVIOUS
  <2>4. ASSUME s_pc' = "write"
        PROVE  /\ write_cursor' + MessageSize(s_msg'.len) <= read_cursor' + RingSize
               /\ s_copied' <= MessageSize(s_msg'.len)
               /\ 0 .. s_copied' - 1 = {}
    <3>1. MessageSize(s_msg'.len) \in Nat
      BY <2>4, Sizes DEF Messages
    <3> QED
      BY <2>1, <2>4, <3>1
  <2> QED
    BY <2>2, <2>3, <2>4 DEF SenderInv
<1>3. QueueInv'
  BY DEF IInv, QueueInv, PublishedIntact, shared, receiver, history
<1>4. ReceiverInv' /\ NeverCorrupt'
  BY DEF IInv, ReceiverInv, NeverCorrupt, shared, receiver, history
<1> QED
  BY <1>1, <1>2, <1>3, <1>4 DEF IInv

\* try_send_once looks at a read cursor that may be old; the free space it
\* computes is then too small, never too large.
LEMMA SpaceIsReal ==
  ASSUME IInv, s_pc # "idle", NEW rc \in Nat, rc <= read_cursor,
         HasSpace(s_cached_wc, rc, s_msg.len)
  PROVE  write_cursor + MessageSize(s_msg.len) <= read_cursor + RingSize
<1> DEFINE size == MessageSize(s_msg.len)
<1>1. /\ size \in Nat /\ RingSize \in Nat
      /\ write_cursor \in Nat /\ read_cursor \in Nat /\ s_cached_wc = write_cursor
  BY Sizes DEF IInv, TypeOK, SenderInv, Messages
<1>2. RingSize - (s_cached_wc - rc) >= size
  BY DEF HasSpace
<1> HIDE DEF size
<1>3. write_cursor + size <= read_cursor + RingSize
  BY <1>1, <1>2
<1> QED
  BY <1>3 DEF size

\* send accepts only what the ring can ever hold.
LEMMA InvSendCall == ASSUME IInv, NEW m \in Messages, SendCall(m) PROVE IInv'
  BY SenderLocal DEF SendCall, IInv, TypeOK, SenderInv

\* Space that the cached read cursor shows is there.
LEMMA InvSpaceInCache == ASSUME IInv, SpaceInCache PROVE IInv'
<1>1. write_cursor + MessageSize(s_msg.len) <= read_cursor + RingSize
  BY SpaceIsReal DEF SpaceInCache, IInv, TypeOK, SenderInv
<1> QED
  BY <1>1, SenderLocal DEF SpaceInCache, IInv, TypeOK, SenderInv

\* So is space that the fresh one shows.
LEMMA InvRefreshReadCursor == ASSUME IInv, RefreshReadCursor PROVE IInv'
<1>1. HasSpace(s_cached_wc, read_cursor, s_msg.len) =>
        write_cursor + MessageSize(s_msg.len) <= read_cursor + RingSize
  BY SpaceIsReal DEF RefreshReadCursor, IInv, TypeOK
<1> QED
  BY <1>1, SenderLocal DEF RefreshReadCursor, IInv, TypeOK, SenderInv

\* A sender that waits, tries again or gives up touches nothing shared.
LEMMA InvSendWaits ==
  ASSUME IInv, SpaceFreed \/ SendRetries \/ SendGivesUp
  PROVE  IInv'
<1>1. CASE SpaceFreed
  BY <1>1, SenderLocal DEF SpaceFreed, IInv, TypeOK, SenderInv
<1>2. CASE SendRetries
  BY <1>2, SenderLocal DEF SendRetries, IInv, TypeOK, SenderInv
<1>3. CASE SendGivesUp
  BY <1>3, SenderLocal DEF SendGivesUp, IInv, TypeOK, SenderInv
<1> QED
  BY <1>1, <1>2, <1>3

(***************************************************************************)
(* The sender's copy and its publication.                                  *)
(***************************************************************************)
\* While the sender writes, its next cell differs from every cell that is not
\* read yet and from every cell of the message that is already written.
LEMMA NextCellFree ==
  ASSUME IInv, s_pc = "write", s_copied < MessageSize(s_msg.len),
         NEW c \in Nat, read_cursor <= c, c < write_cursor + s_copied
  PROVE  Index(c) # Index(write_cursor + s_copied)
<1>1. MessageSize(s_msg.len) \in Nat
  BY Sizes DEF IInv, TypeOK, Messages
<1>2. /\ write_cursor \in Nat /\ read_cursor \in Nat /\ s_copied \in Nat
      /\ write_cursor + MessageSize(s_msg.len) <= read_cursor + RingSize
  BY DEF IInv, TypeOK, SenderInv
<1>3. write_cursor + s_copied - c < RingSize
  BY <1>1, <1>2, Sizes
<1> QED
  BY <1>2, <1>3, IndexDistinct

\* The byte goes to a cell of no unread message.
LEMMA InvWriteByte == ASSUME IInv, WriteByte PROVE IInv'
<1> DEFINE cell == Index(s_cached_wc + s_copied)
           byte == MessageByte(s_copied, s_msg, next_seq)
<1>1. /\ s_pc = "write" /\ s_msg \in Messages
      /\ s_copied \in Nat /\ s_copied < MessageSize(s_msg.len)
      /\ MessageSize(s_msg.len) \in Nat
      /\ write_cursor \in Nat /\ read_cursor \in Nat
      /\ s_cached_wc = write_cursor
      /\ next_seq \in 0 .. SeqMod - 1
  BY Sizes DEF WriteByte, IInv, TypeOK, SenderInv, Messages
<1>2. ring \in [0 .. RingSize - 1 -> Byte] /\ ring' = [ring EXCEPT ![cell] = byte]
  BY DEF WriteByte, IInv, TypeOK
<1>3. cell \in 0 .. RingSize - 1
  BY <1>1, IndexLap
<1>4. byte \in Byte
  BY <1>1, MessageByteType
<1>5. UNCHANGED <<write_cursor, read_cursor, s_pc, s_msg, s_cached_wc, s_cached_rc, next_seq>>
      /\ UNCHANGED <<r_pc, r_seen, r_peeked, r_buf, r_copied, r_cached_rc, expected_seq>>
      /\ UNCHANGED <<queue, got>> /\ s_copied' = s_copied + 1
  BY DEF WriteByte, receiver, history
<1>6. ASSUME NEW c \in Nat, read_cursor <= c, c < write_cursor + s_copied
      PROVE  ring'[Index(c)] = ring[Index(c)]
  <2>1. Index(c) \in 0 .. RingSize - 1
    BY IndexLap
  <2>2. Index(c) # cell
    BY <1>1, <1>6, NextCellFree
  <2> QED
    BY <1>2, <2>1, <2>2
<1>7. TypeOK'
  <2>1. ring' \in [0 .. RingSize - 1 -> Byte]
    BY <1>2, <1>3, <1>4
  <2> QED
    BY <1>1, <1>5, <2>1 DEF IInv, TypeOK
<1>8. SenderInv'
  <2>1. ASSUME NEW k \in 0 .. s_copied' - 1
        PROVE  ring'[Index(write_cursor + k)] = MessageByte(k, s_msg, next_seq)
    <3>1. CASE k = s_copied
      BY <1>1, <1>2, <1>3, <3>1
    <3>2. CASE k # s_copied
      <4>1. k \in 0 .. s_copied - 1 /\ k \in Nat
        BY <1>1, <1>5, <3>2
      <4>2. ring[Index(write_cursor + k)] = MessageByte(k, s_msg, next_seq)
        BY <1>1, <4>1 DEF IInv, SenderInv
      <4>3. read_cursor <= write_cursor + k /\ write_cursor + k < write_cursor + s_copied
        BY <1>1, <4>1 DEF IInv, SenderInv
      <4> QED
        BY <1>1, <1>6, <4>1, <4>2, <4>3
    <3> QED
      BY <3>1, <3>2
  <2>2. s_copied' <= MessageSize(s_msg.len)
    BY <1>1, <1>5
  <2> QED
    BY <1>1, <1>5, <2>1, <2>2 DEF IInv, SenderInv
<1>9. QueueInv'
  <2>1. ASSUME NEW i \in DOMAIN queue, NEW k \in 0 .. MessageSize(queue[i].msg.len) - 1
        PROVE  ring'[Index(queue[i].at + k)] = MessageByte(k, queue[i].msg, queue[i].seq)
    <3>1. queue[i] \in Entries /\ queue[i].at \in Nat /\ queue[i].msg \in Messages
      BY QueueType
    <3>2. MessageSize(queue[i].msg.len) \in Nat /\ queue[i].at + k \in Nat
      BY <3>1, Sizes DEF Messages
    <3>3. read_cursor <= queue[i].at + k /\ queue[i].at + k < write_cursor + s_copied
      <4>1. read_cursor <= queue[i].at /\ End(queue[i]) <= write_cursor
        BY DEF IInv, QueueInv
      <4>2. queue[i].at + k < End(queue[i])
        BY <3>1, <3>2 DEF End
      <4>3. End(queue[i]) \in Nat
        BY QueueType
      <4> HIDE DEF End
      <4> QED
        BY <1>1, <3>1, <3>2, <4>1, <4>2, <4>3
    <3>4. ring[Index(queue[i].at + k)] = MessageByte(k, queue[i].msg, queue[i].seq)
      BY DEF IInv, QueueInv, PublishedIntact
    <3> QED
      BY <1>6, <3>2, <3>3, <3>4
  <2> QED
    BY <1>5, <2>1 DEF IInv, QueueInv, PublishedIntact
<1>10. ReceiverInv' /\ NeverCorrupt'
  BY <1>5 DEF IInv, ReceiverInv, NeverCorrupt
<1> QED
  BY <1>7, <1>8, <1>9, <1>10 DEF IInv

\* The message written becomes the last of the queue.
LEMMA InvPublish == ASSUME IInv, Publish PROVE IInv'
<1> DEFINE n == Len(queue)
           e == [msg |-> s_msg, at |-> s_cached_wc, seq |-> next_seq]
<1>1. /\ s_pc = "write" /\ s_msg \in Messages
      /\ s_copied = MessageSize(s_msg.len) /\ MessageSize(s_msg.len) \in Nat
      /\ write_cursor \in Nat /\ read_cursor \in Nat /\ read_cursor <= write_cursor
      /\ s_cached_wc = write_cursor
      /\ next_seq \in 0 .. SeqMod - 1
      /\ MessageSize(s_msg.len) <= RingSize
  BY Sizes DEF Publish, IInv, TypeOK, SenderInv, Messages
<1>2. UNCHANGED <<ring, read_cursor, s_cached_rc, got>>
      /\ UNCHANGED <<r_pc, r_seen, r_peeked, r_buf, r_copied, r_cached_rc, expected_seq>>
      /\ s_pc' = "idle" /\ s_msg' = NoMessage /\ s_copied' = 0
      /\ s_cached_wc' = write_cursor' /\ next_seq' = NextSeq(next_seq)
  BY DEF Publish, receiver
<1>3. write_cursor' = End(e) /\ End(e) = write_cursor + MessageSize(s_msg.len)
  BY <1>1 DEF Publish, End
<1>4. queue \in Seq(Entries) /\ e \in Entries
  BY <1>1, QueueType DEF Entries
<1>5. /\ queue' \in Seq(Entries) /\ queue' # <<>>
      /\ n \in Nat /\ Len(queue') = n + 1 /\ DOMAIN queue = 1 .. n /\ DOMAIN queue' = 1 .. n + 1
      /\ \A i \in 1 .. n : queue'[i] = queue[i]
      /\ queue'[n + 1] = e
      /\ queue = <<>> <=> n = 0
  <2>1. queue' = Append(queue, e)
    BY DEF Publish
  <2> QED
    BY <1>4, <2>1, AppendProperties
<1>6. TypeOK'
  <2>1. write_cursor' \in Nat
    BY <1>1, <1>3
  <2>2. next_seq' \in 0 .. SeqMod - 1
    BY <1>1, <1>2, NextSeqType
  <2> HIDE DEF e, n
  <2> QED
    BY <1>2, <1>5, <2>1, <2>2 DEF IInv, TypeOK
<1>7. SenderInv'
  BY <1>1, <1>2, <1>3 DEF IInv, TypeOK, SenderInv
<1>8. QueueInv'
  <2> HIDE DEF e
  <2>0. e.msg = s_msg /\ e.at = write_cursor /\ e.seq = next_seq
    BY <1>1 DEF e
  <2>1. ASSUME NEW i \in DOMAIN queue', NEW k \in 0 .. MessageSize(queue'[i].msg.len) - 1
        PROVE  ring[Index(queue'[i].at + k)] = MessageByte(k, queue'[i].msg, queue'[i].seq)
    <3>1. CASE i = n + 1
      BY <1>1, <1>5, <2>0, <3>1 DEF IInv, SenderInv
    <3>2. CASE i \in 1 .. n
      BY <1>5, <3>2 DEF IInv, QueueInv, PublishedIntact
    <3> QED
      BY <1>5, <3>1, <3>2
  <2>2. ASSUME NEW i \in DOMAIN queue'
        PROVE  queue'[i].at = IF i = 1 THEN read_cursor ELSE End(queue'[i - 1])
    <3>1. CASE i = n + 1
      BY <1>5, <2>0, <3>1 DEF IInv, QueueInv, PublishedIntact
    <3>2. CASE i \in 1 .. n
      BY <1>5, <3>2 DEF IInv, QueueInv, PublishedIntact
    <3> QED
      BY <1>5, <3>1, <3>2
  <2>3. write_cursor' = End(queue'[Len(queue')])
    BY <1>3, <1>5
  <2>4. ASSUME NEW i \in DOMAIN queue'
        PROVE  /\ MessageSize(queue'[i].msg.len) <= RingSize
               /\ read_cursor <= queue'[i].at
               /\ End(queue'[i]) <= write_cursor'
    <3>1. CASE i = n + 1
      BY <1>1, <1>3, <1>5, <2>0, <3>1
    <3>2. CASE i \in 1 .. n
      <4>1. /\ MessageSize(queue[i].msg.len) <= RingSize
            /\ read_cursor <= queue[i].at
            /\ End(queue[i]) <= write_cursor
            /\ End(queue[i]) \in Nat
        BY <1>5, <3>2, QueueType DEF IInv, QueueInv
      <4> QED
        BY <1>1, <1>3, <1>5, <3>2, <4>1
    <3> QED
      BY <1>5, <3>1, <3>2
  <2>5. ASSUME NEW i \in DOMAIN queue', NEW j \in DOMAIN queue', i < j
        PROVE  End(queue'[i]) <= queue'[j].at
    <3>0. i \in 1 .. n
      BY <1>5, <2>5
    <3>1. CASE j = n + 1
      BY <1>5, <2>0, <3>0, <3>1 DEF IInv, QueueInv
    <3>2. CASE j \in 1 .. n
      BY <1>5, <2>5, <3>0, <3>2 DEF IInv, QueueInv
    <3> QED
      BY <1>5, <3>1, <3>2
  <2>6. ASSUME NEW i \in DOMAIN queue'
        PROVE  queue'[i].seq = IF i = 1 THEN expected_seq ELSE NextSeq(queue'[i - 1].seq)
    <3>1. CASE i = n + 1
      BY <1>5, <2>0, <3>1 DEF IInv, QueueInv
    <3>2. CASE i \in 1 .. n
      <4>1. queue[i].seq = IF i = 1 THEN expected_seq ELSE NextSeq(queue[i - 1].seq)
        BY <1>5, <3>2 DEF IInv, QueueInv
      <4>2. queue'[i] = queue[i] /\ (i # 1 => queue'[i - 1] = queue[i - 1])
        BY <1>5, <3>2
      <4> QED
        BY <4>1, <4>2
    <3> QED
      BY <1>5, <3>1, <3>2
  <2>7. next_seq' = NextSeq(queue'[Len(queue')].seq)
    BY <1>2, <1>5, <2>0
  <2> QED
    BY <1>2, <1>5, <2>1, <2>2, <2>3, <2>4, <2>5, <2>6, <2>7
    DEF QueueInv, PublishedIntact
<1>9. ReceiverInv' /\ NeverCorrupt'
  BY <1>2, <1>5 DEF IInv, ReceiverInv, NeverCorrupt
<1> QED
  BY <1>6, <1>7, <1>8, <1>9 DEF IInv

(***************************************************************************)
(* The receiver's steps.                                                   *)
(***************************************************************************)
\* A step that changes only the receiver's private state.
LEMMA ReceiverLocal ==
  ASSUME IInv, UNCHANGED <<shared, sender, history, r_cached_rc, expected_seq>>,
         r_pc' \in {"idle", "header", "ready", "copy", "discard"},
         r_seen' \in Nat, r_copied' \in Nat,
         r_pc' # "idle" => queue # <<>>,
         r_pc' \in {"ready", "copy", "discard"} =>
           r_peeked' = [len |-> queue[1].msg.len, seq |-> queue[1].seq],
         r_pc' = "copy" =>
           /\ r_buf' \in [0 .. r_peeked'.len - 1 -> Byte]
           /\ r_copied' <= r_peeked'.len
           /\ \A k \in 0 .. r_copied' - 1 : r_buf'[k] = PayloadByte(k, queue[1].msg.content)
  PROVE  IInv'
<1>1. r_pc' \in {"ready", "copy", "discard"} =>
        r_peeked' \in [len : PayloadLens, seq : 0 .. SeqMod - 1]
  BY QueueType
<1>2. TypeOK'
  BY <1>1 DEF IInv, TypeOK, shared, sender, history
<1>3. SenderInv'
  BY DEF IInv, SenderInv, shared, sender
<1>4. QueueInv'
  BY DEF IInv, QueueInv, PublishedIntact, shared, sender, history
<1>5. ReceiverInv' /\ NeverCorrupt'
  BY DEF IInv, ReceiverInv, NeverCorrupt, shared, history
<1> QED
  BY <1>2, <1>3, <1>4, <1>5 DEF IInv

\* A header behind the write cursor is the header of the first message.
LEMMA InvPeekCursor == ASSUME IInv, PeekCursor PROVE IInv'
<1>1. queue # <<>>
  <2>1. write_cursor # read_cursor
    BY Sizes DEF PeekCursor, IInv, TypeOK, ReceiverInv
  <2> QED
    BY <2>1 DEF IInv, QueueInv, PublishedIntact
<1> QED
  BY <1>1, ReceiverLocal DEF PeekCursor, IInv, TypeOK

\* The oldest message starts at the read cursor, and its header reads as what
\* it is: its length fits in the ring, and its number is the one expected.
LEMMA HeadReadable ==
  ASSUME IInv, queue # <<>>
  PROVE  /\ HeaderAt(r_cached_rc) = [len |-> queue[1].msg.len, seq |-> queue[1].seq]
         /\ queue[1].at = r_cached_rc
         /\ queue[1].msg.len <= RingSize - HeaderSize
         /\ queue[1].seq = expected_seq
<1>1. 1 \in DOMAIN queue
  BY QueueType
<1>2. /\ queue[1].at = r_cached_rc /\ r_cached_rc \in Nat
      /\ queue[1].seq = expected_seq
      /\ MessageSize(queue[1].msg.len) <= RingSize
  BY <1>1 DEF IInv, TypeOK, QueueInv, PublishedIntact, ReceiverInv
<1>3. /\ queue[1].msg.len \in PayloadLens /\ queue[1].seq \in 0 .. SeqMod - 1
      /\ queue[1].msg.len \in Nat
  BY <1>1, QueueType, Sizes
<1>4. HeaderHolds(r_cached_rc, queue[1].msg.len, queue[1].seq)
  <2>1. ASSUME NEW k \in 0 .. HeaderSize - 1
        PROVE  ring[Index(r_cached_rc + k)] = HeaderByte(k, queue[1].msg.len, queue[1].seq)
    <3>1. k \in 0 .. MessageSize(queue[1].msg.len) - 1
      <4>1. /\ MessageSize(queue[1].msg.len) \in Nat
            /\ MessageSize(queue[1].msg.len) >= HeaderSize
        BY <1>3, Sizes
      <4> QED
        BY <4>1, Sizes
    <3>2. ring[Index(queue[1].at + k)] = MessageByte(k, queue[1].msg, queue[1].seq)
      BY <1>1, <3>1 DEF IInv, QueueInv, PublishedIntact
    <3> QED
      BY <1>2, <3>2, Sizes DEF MessageByte
  <2> QED
    BY <2>1 DEF HeaderHolds
<1> QED
  BY <1>2, <1>3, <1>4, HeaderDecodes, Sizes DEF MessageSize

\* The header decodes to the first message of the queue.
LEMMA InvPeekHeader == ASSUME IInv, PeekHeader PROVE IInv'
<1>1. queue # <<>>
  BY DEF PeekHeader, IInv, ReceiverInv
<1>2. /\ r_peeked' = [len |-> queue[1].msg.len, seq |-> queue[1].seq]
      /\ queue[1].msg.len <= RingSize - HeaderSize
      /\ queue[1].msg.len \in PayloadLens /\ queue[1].msg.len \in Nat
      /\ queue[1].seq \in 0 .. SeqMod - 1
  <2>1. r_peeked' = HeaderAt(r_cached_rc)
    BY DEF PeekHeader
  <2>2. 1 \in DOMAIN queue
    BY <1>1, QueueType
  <2> QED
    BY <1>1, <2>1, <2>2, HeadReadable, QueueType, Sizes
<1>3. r_peeked' # TornHeader
  BY <1>2, RingAssumption
<1>4. ~(r_peeked'.len > RingSize - HeaderSize)
  BY <1>2, Sizes
<1>5. r_pc' \in {"idle", "ready"}
  <2>1. r_pc' = IF r_seen - r_cached_rc < MessageSize(r_peeked'.len) THEN "idle" ELSE "ready"
    BY <1>3, <1>4 DEF PeekHeader
  <2> QED
    BY <2>1
<1>6. /\ UNCHANGED <<shared, sender, history, r_cached_rc, expected_seq>>
      /\ r_seen' \in Nat /\ r_copied' \in Nat
  BY DEF PeekHeader, IInv, TypeOK
<1> QED
  BY <1>1, <1>2, <1>5, <1>6, ReceiverLocal

\* A receiver that picks a buffer touches nothing shared.
LEMMA InvBuffer == ASSUME IInv, BufferFits \/ BufferShort PROVE IInv'
<1>1. CASE BufferFits
  <2>1. r_peeked.len \in Nat /\ r_peeked' = r_peeked
    BY <1>1, Sizes DEF BufferFits, IInv, TypeOK
  <2>2. r_buf' \in [0 .. r_peeked'.len - 1 -> Byte]
    BY <1>1, <2>1 DEF BufferFits, Byte
  <2>3. /\ queue # <<>>
        /\ r_peeked' = [len |-> queue[1].msg.len, seq |-> queue[1].seq]
    BY <1>1 DEF BufferFits, IInv, ReceiverInv
  <2>4. /\ UNCHANGED <<shared, sender, history, r_cached_rc, expected_seq>>
        /\ r_pc' = "copy" /\ r_seen' \in Nat /\ r_copied' = 0
    BY <1>1 DEF BufferFits, IInv, TypeOK
  <2>5. 0 .. r_copied' - 1 = {} /\ r_copied' <= r_peeked'.len
    BY <2>1, <2>4
  <2> QED
    BY <2>2, <2>3, <2>4, <2>5, ReceiverLocal
<1>2. CASE BufferShort
  BY <1>2, ReceiverLocal DEF BufferShort, IInv, TypeOK, ReceiverInv
<1> QED
  BY <1>1, <1>2

\* read_ring copies a byte of the oldest message.
LEMMA InvReadByte == ASSUME IInv, ReadByte PROVE IInv'
<1> DEFINE byte == ring[Index(r_cached_rc + HeaderSize + r_copied)]
<1>1. /\ queue # <<>> /\ 1 \in DOMAIN queue
      /\ r_peeked = [len |-> queue[1].msg.len, seq |-> queue[1].seq]
      /\ r_copied \in Nat /\ r_copied < r_peeked.len /\ r_peeked.len \in Nat
      /\ r_buf \in [0 .. r_peeked.len - 1 -> Byte]
      /\ \A k \in 0 .. r_copied - 1 : r_buf[k] = PayloadByte(k, queue[1].msg.content)
      /\ r_cached_rc \in Nat
  <2>1. r_pc = "copy" /\ r_copied < r_peeked.len
    BY DEF ReadByte
  <2>2. TypeOK /\ ReceiverInv
    BY DEF IInv
  <2>3. queue # <<>> /\ r_peeked = [len |-> queue[1].msg.len, seq |-> queue[1].seq]
    BY <2>1, <2>2 DEF ReceiverInv
  <2>4. 1 \in DOMAIN queue
    BY <2>3, QueueType
  <2>5. r_peeked.len \in Nat
    BY <2>1, <2>2, Sizes DEF TypeOK
  <2>6. \A k \in 0 .. r_copied - 1 : r_buf[k] = PayloadByte(k, queue[1].msg.content)
    BY <2>1, <2>2 DEF ReceiverInv
  <2> QED
    BY <2>1, <2>2, <2>3, <2>4, <2>5, <2>6 DEF TypeOK
<1>2. byte = PayloadByte(r_copied, queue[1].msg.content)
  <2> DEFINE k == HeaderSize + r_copied
  <2>1. k \in 0 .. MessageSize(queue[1].msg.len) - 1 /\ ~(k < HeaderSize)
    BY <1>1, Sizes DEF MessageSize
  <2>2. ring[Index(queue[1].at + k)] = MessageByte(k, queue[1].msg, queue[1].seq)
    BY <1>1, <2>1 DEF IInv, QueueInv, PublishedIntact
  <2>3. queue[1].at + k = r_cached_rc + HeaderSize + r_copied
    <3>1. queue[1].at = r_cached_rc
      BY <1>1, HeadReadable
    <3> QED
      BY <1>1, <3>1, Sizes
  <2>4. k - HeaderSize = r_copied
    BY <1>1, Sizes
  <2> QED
    BY <2>1, <2>2, <2>3, <2>4 DEF MessageByte
<1>3. byte \in Byte
  <2>1. r_cached_rc + HeaderSize + r_copied \in Nat
    BY <1>1, Sizes
  <2>2. Index(r_cached_rc + HeaderSize + r_copied) \in 0 .. RingSize - 1
    BY <2>1, IndexLap
  <2> QED
    BY <2>2 DEF IInv, TypeOK
<1>4. /\ r_buf' = [r_buf EXCEPT ![r_copied] = byte] /\ r_copied' = r_copied + 1
      /\ UNCHANGED <<r_pc, r_seen, r_peeked, r_cached_rc, expected_seq>>
      /\ UNCHANGED <<shared, sender, history>> /\ r_pc = "copy"
  BY DEF ReadByte
<1> HIDE DEF byte
<1>5. r_buf' \in [0 .. r_peeked'.len - 1 -> Byte]
  BY <1>1, <1>3, <1>4
<1>6. \A k \in 0 .. r_copied' - 1 : r_buf'[k] = PayloadByte(k, queue[1].msg.content)
  BY <1>1, <1>2, <1>4
<1>7. /\ r_seen' \in Nat /\ r_copied' \in Nat /\ r_copied' <= r_peeked'.len
      /\ r_pc' = "copy"
  BY <1>1, <1>4 DEF IInv, TypeOK
<1> QED
  BY <1>1, <1>4, <1>5, <1>6, <1>7, ReceiverLocal

\* commit_current_message: the sequence number is the one expected, so the
\* read cursor moves to the end of the oldest message and no further.
LEMMA InvCommit ==
  ASSUME IInv, NEW result, r_pc \in {"copy", "discard"}, Commit(result)
  PROVE  IInv'
<1> DEFINE n == Len(queue)
<1>1. /\ queue # <<>>
      /\ r_peeked = [len |-> queue[1].msg.len, seq |-> queue[1].seq]
      /\ r_cached_rc = read_cursor
  BY DEF IInv, ReceiverInv
<1>2. /\ r_peeked.seq = expected_seq
      /\ queue[1].at = read_cursor
  BY <1>1, HeadReadable
<1>3. /\ expected_seq' = NextSeq(expected_seq)
      /\ read_cursor' = r_cached_rc + MessageSize(r_peeked.len)
      /\ r_cached_rc' = read_cursor'
      /\ queue' = Tail(queue)
      /\ r_pc' = "idle" /\ r_seen' = 0 /\ r_copied' = 0
      /\ UNCHANGED <<ring, write_cursor>>
      /\ UNCHANGED <<s_pc, s_msg, s_copied, s_cached_wc, s_cached_rc, next_seq>>
  BY <1>2 DEF Commit, sender
<1>4. /\ queue \in Seq(Entries) /\ n \in Nat /\ DOMAIN queue = 1 .. n /\ 1 \in 1 .. n
      /\ \A i \in 1 .. n : End(queue[i]) \in Nat /\ queue[i].at \in Nat
  BY <1>1, QueueType
<1>5. /\ queue' \in Seq(Entries) /\ Len(queue') = n - 1 /\ DOMAIN queue' = 1 .. n - 1
      /\ \A i \in 1 .. n - 1 : i + 1 \in 1 .. n /\ queue'[i] = queue[i + 1]
      /\ queue' = <<>> <=> n = 1
  <2>1. Tail(queue) \in Seq(Entries) /\ Len(Tail(queue)) = n - 1
        /\ \A i \in 1 .. Len(Tail(queue)) : Tail(queue)[i] = queue[i + 1]
    BY <1>1, <1>4, HeadTailProperties
  <2>2. DOMAIN Tail(queue) = 1 .. n - 1
    BY <2>1
  <2>3. \A i \in 1 .. n - 1 : i + 1 \in 1 .. n
    BY <1>4
  <2>4. Tail(queue) = <<>> <=> n = 1
    <3>1. Len(Tail(queue)) = 0 <=> n = 1
      BY <2>1, <1>4
    <3>2. Tail(queue) = <<>> <=> Len(Tail(queue)) = 0
      BY <2>1, EmptySeq
    <3> QED
      BY <3>1, <3>2
  <2> QED
    BY <1>3, <2>1, <2>2, <2>3, <2>4
<1> HIDE DEF n
<1>shift. \A i \in DOMAIN queue' :
            /\ i \in 1 .. n - 1 /\ i + 1 \in 1 .. n /\ i + 1 # 1 /\ (i + 1) - 1 = i
            /\ queue'[i] = queue[i + 1]
            /\ i # 1 => queue'[i - 1] = queue[i]
  <2> SUFFICES ASSUME NEW i \in 1 .. n - 1
               PROVE  /\ i + 1 # 1 /\ (i + 1) - 1 = i
                      /\ i # 1 => queue'[i - 1] = queue[i]
    BY <1>5
  <2>1. i # 1 => i - 1 \in 1 .. n - 1 /\ (i - 1) + 1 = i
    BY <1>4
  <2> QED
    BY <1>5, <2>1
<1>6. read_cursor' = End(queue[1])
  BY <1>1, <1>2, <1>3 DEF End
<1>7. /\ read_cursor \in Nat /\ write_cursor \in Nat /\ read_cursor' \in Nat
      /\ read_cursor <= read_cursor' /\ read_cursor' <= write_cursor
  <2>1. MessageSize(queue[1].msg.len) \in Nat
    BY <1>4, QueueType
  <2>2. read_cursor \in Nat /\ write_cursor \in Nat
    BY DEF IInv, TypeOK
  <2>3. End(queue[1]) <= write_cursor
    BY <1>4 DEF IInv, QueueInv
  <2>4. End(queue[1]) = read_cursor + MessageSize(queue[1].msg.len)
    BY <1>2 DEF End
  <2> QED
    BY <1>6, <2>1, <2>2, <2>3, <2>4
<1>8. TypeOK'
  <2>1. expected_seq' \in 0 .. SeqMod - 1
    BY <1>3, NextSeqType DEF IInv, TypeOK
  <2> QED
    BY <1>3, <1>5, <1>7, <2>1 DEF IInv, TypeOK
<1>9. SenderInv'
  <2>1. TypeOK /\ SenderInv
    BY DEF IInv
  <2>2. s_cached_rc' <= read_cursor' /\ read_cursor' <= write_cursor'
    BY <1>3, <1>7, <2>1 DEF TypeOK, SenderInv
  <2>3. ASSUME s_pc = "write"
        PROVE  write_cursor + MessageSize(s_msg.len) <= read_cursor' + RingSize
    <3>1. MessageSize(s_msg.len) \in Nat
      BY <2>1, <2>3, Sizes DEF TypeOK, Messages
    <3> QED
      BY <1>7, <2>1, <2>3, <3>1, Sizes DEF SenderInv
  <2> QED
    BY <1>3, <2>1, <2>2, <2>3 DEF SenderInv
<1>10. QueueInv'
  <2>0. QueueInv /\ PublishedIntact
    BY DEF IInv, QueueInv
  <2>1. ASSUME NEW i \in DOMAIN queue', NEW k \in 0 .. MessageSize(queue'[i].msg.len) - 1
        PROVE  ring[Index(queue'[i].at + k)] = MessageByte(k, queue'[i].msg, queue'[i].seq)
    <3>1. queue'[i] = queue[i + 1] /\ i + 1 \in DOMAIN queue
      BY <1>4, <1>shift
    <3> QED
      BY <2>0, <3>1 DEF PublishedIntact
  <2>2. ASSUME NEW i \in DOMAIN queue'
        PROVE  queue'[i].at = IF i = 1 THEN read_cursor' ELSE End(queue'[i - 1])
    <3>1. queue[i + 1].at = End(queue[i])
      BY <1>4, <1>shift, <2>0 DEF PublishedIntact
    <3> QED
      BY <1>6, <1>shift, <3>1
  <2>3. write_cursor = IF queue' = <<>> THEN read_cursor' ELSE End(queue'[Len(queue')])
    <3>1. write_cursor = End(queue[n])
      BY <1>1, <2>0 DEF PublishedIntact, n
    <3>2. CASE n = 1
      BY <1>5, <1>6, <3>1, <3>2
    <3>3. CASE n # 1
      <4>1. n - 1 \in 1 .. n - 1 /\ (n - 1) + 1 = n
        BY <1>4, <3>3
      <4> QED
        BY <1>5, <3>1, <3>3, <4>1
    <3> QED
      BY <3>2, <3>3
  <2>4. ASSUME NEW i \in DOMAIN queue'
        PROVE  /\ MessageSize(queue'[i].msg.len) <= RingSize
               /\ read_cursor' <= queue'[i].at
               /\ End(queue'[i]) <= write_cursor
    <3>1. queue'[i] = queue[i + 1] /\ i + 1 \in 1 .. n /\ 1 < i + 1
      BY <1>shift
    <3>2. End(queue[1]) <= queue[i + 1].at
      BY <1>4, <2>0, <3>1 DEF QueueInv
    <3>3. MessageSize(queue[i + 1].msg.len) <= RingSize /\ End(queue[i + 1]) <= write_cursor
      BY <1>4, <2>0, <3>1 DEF QueueInv
    <3> QED
      BY <1>6, <3>1, <3>2, <3>3
  <2>5. ASSUME NEW i \in DOMAIN queue', NEW j \in DOMAIN queue', i < j
        PROVE  End(queue'[i]) <= queue'[j].at
    <3>1. /\ queue'[i] = queue[i + 1] /\ i + 1 \in DOMAIN queue
          /\ queue'[j] = queue[j + 1] /\ j + 1 \in DOMAIN queue
          /\ i + 1 < j + 1
      BY <1>4, <1>shift, <2>5
    <3>2. End(queue[i + 1]) <= queue[j + 1].at
      BY <2>0, <3>1 DEF QueueInv
    <3> QED
      BY <3>1, <3>2
  <2>6. ASSUME NEW i \in DOMAIN queue'
        PROVE  queue'[i].seq = IF i = 1 THEN expected_seq' ELSE NextSeq(queue'[i - 1].seq)
    <3>1. queue[i + 1].seq = NextSeq(queue[i].seq)
      <4>1. \A j \in 1 .. n :
              queue[j].seq = IF j = 1 THEN expected_seq ELSE NextSeq(queue[j - 1].seq)
        BY <1>4, <2>0 DEF QueueInv
      <4> QED
        BY <1>shift, <4>1
    <3>2. queue[1].seq = expected_seq
      BY <1>1, HeadReadable
    <3> QED
      BY <1>3, <1>shift, <3>1, <3>2
  <2>7. next_seq = IF queue' = <<>> THEN expected_seq' ELSE NextSeq(queue'[Len(queue')].seq)
    <3>1. next_seq = NextSeq(queue[n].seq)
      BY <1>1, <2>0 DEF QueueInv, n
    <3>2. CASE n = 1
      BY <1>1, <1>3, <1>5, <3>1, <3>2, HeadReadable
    <3>3. CASE n # 1
      <4>1. n - 1 \in 1 .. n - 1 /\ (n - 1) + 1 = n
        BY <1>4, <3>3
      <4> QED
        BY <1>5, <3>1, <3>3, <4>1
    <3> QED
      BY <3>2, <3>3
  <2> QED
    BY <1>3, <2>1, <2>2, <2>3, <2>4, <2>5, <2>6, <2>7 DEF QueueInv, PublishedIntact
<1>11. ReceiverInv' /\ NeverCorrupt'
  BY <1>3 DEF ReceiverInv, NeverCorrupt
<1> QED
  BY <1>8, <1>9, <1>10, <1>11 DEF IInv

\* No step leaves the invariant.
LEMMA InvNext == ASSUME IInv, [Next]_vars PROVE IInv'
<1>1. CASE Send
  BY <1>1, InvSendCall, InvSpaceInCache, InvRefreshReadCursor, InvSendWaits,
     InvWriteByte, InvPublish DEF Send
<1>2. CASE Recv
  <2>1. CASE RecvReturns
    BY <2>1, InvCommit DEF RecvReturns
  <2>2. CASE RecvTooLarge
    BY <2>2, InvCommit DEF RecvTooLarge
  <2> QED
    BY <1>2, <2>1, <2>2, InvPeekCursor, InvPeekHeader, InvBuffer, InvReadByte DEF Recv
<1>3. CASE UNCHANGED vars
  BY <1>3 DEF vars, shared, sender, receiver, history, IInv, TypeOK, SenderInv,
              QueueInv, PublishedIntact, ReceiverInv, NeverCorrupt
<1> QED
  BY <1>1, <1>2, <1>3 DEF Next

(***************************************************************************)
(* The theorems.                                                           *)
(***************************************************************************)
\* The inductive invariant holds in every reachable state of the ring of
\* src/ring.rs.
THEOREM Invariance == Spec => []IInv
  BY InvInit, InvNext, PTL DEF Spec

\* Every variable keeps its type.
THEOREM Typing == Spec => []TypeOK
<1>1. IInv => TypeOK
  BY DEF IInv
<1> QED
  BY <1>1, Invariance, PTL

\* The sender never stores into a cell the receiver may still read, however
\* old its copy of the read cursor is (has_space, publish_message).
THEOREM NoOverwriteHolds == Spec => []NoOverwrite
<1>1. IInv => NoOverwrite
  <2> SUFFICES ASSUME IInv, s_pc = "write", s_copied < MessageSize(s_msg.len),
                      NEW c \in read_cursor .. write_cursor - 1
               PROVE  Index(c) # Index(s_cached_wc + s_copied)
    BY DEF NoOverwrite
  <2>1. /\ read_cursor \in Nat /\ write_cursor \in Nat /\ s_copied \in Nat
        /\ s_cached_wc = write_cursor
    BY DEF IInv, TypeOK, SenderInv
  <2>2. c \in Nat /\ read_cursor <= c /\ c < write_cursor + s_copied
    BY <2>1
  <2> QED
    BY <2>1, <2>2, NextCellFree
<1> QED
  BY <1>1, Invariance, PTL

\* The bytes between the cursors are the messages sent, in order.
THEOREM PublishedIntactHolds == Spec => []PublishedIntact
<1>1. IInv => PublishedIntact
  BY DEF IInv, QueueInv
<1> QED
  BY <1>1, Invariance, PTL

\* The receiver never reads a torn header, an impossible length or a sequence
\* number it does not expect.
THEOREM NeverCorruptHolds == Spec => []NeverCorrupt
<1>1. IInv => NeverCorrupt
  BY DEF IInv
<1> QED
  BY <1>1, Invariance, PTL

(***************************************************************************)
(* The ring implements Fifo.                                               *)
(***************************************************************************)
\* The messages of a longer queue, and of a shorter one.
LEMMA MessagesOfType ==
  ASSUME NEW q \in Seq(Entries)
  PROVE  /\ MessagesOf(q) \in Seq(Messages)
         /\ Len(MessagesOf(q)) = Len(q)
         /\ \A i \in 1 .. Len(q) : MessagesOf(q)[i] = q[i].msg
         /\ MessagesOf(q) = <<>> <=> q = <<>>
<1>1. DOMAIN q = 1 .. Len(q) /\ Len(q) \in Nat
  BY LenProperties
<1>2. ASSUME NEW i \in 1 .. Len(q) PROVE q[i].msg \in Messages
  <2>1. q[i] \in Entries
    BY ElementOfSeq
  <2> QED
    BY <2>1 DEF Entries
<1>3. MessagesOf(q) = [i \in 1 .. Len(q) |-> q[i].msg]
  BY <1>1 DEF MessagesOf
<1>4. MessagesOf(q) \in Seq(Messages)
  BY <1>1, <1>2, <1>3, IsASeq
<1>5. Len(MessagesOf(q)) = Len(q)
  BY <1>1, <1>3, <1>4
<1>6. MessagesOf(q) = <<>> <=> q = <<>>
  BY <1>4, <1>5, EmptySeq
<1> QED
  BY <1>3, <1>4, <1>5, <1>6

\* A message appended to the queue is appended to the abstract one.
LEMMA MessagesOfAppend ==
  ASSUME NEW q \in Seq(Entries), NEW e \in Entries
  PROVE  MessagesOf(Append(q, e)) = Append(MessagesOf(q), e.msg)
<1> DEFINE s == MessagesOf(Append(q, e))
           t == Append(MessagesOf(q), e.msg)
<1>1. /\ Append(q, e) \in Seq(Entries) /\ Len(Append(q, e)) = Len(q) + 1 /\ Len(q) \in Nat
      /\ \A i \in 1 .. Len(q) : Append(q, e)[i] = q[i]
      /\ Append(q, e)[Len(q) + 1] = e
  BY AppendProperties, LenProperties
<1>2. s \in Seq(Messages) /\ Len(s) = Len(q) + 1
      /\ \A i \in 1 .. Len(q) + 1 : s[i] = Append(q, e)[i].msg
  BY <1>1, MessagesOfType
<1>3. e.msg \in Messages /\ MessagesOf(q) \in Seq(Messages) /\ Len(MessagesOf(q)) = Len(q)
      /\ \A i \in 1 .. Len(q) : MessagesOf(q)[i] = q[i].msg
  BY MessagesOfType DEF Entries
<1>4. /\ t \in Seq(Messages) /\ Len(t) = Len(q) + 1
      /\ \A i \in 1 .. Len(q) : t[i] = MessagesOf(q)[i]
      /\ t[Len(q) + 1] = e.msg
  BY <1>3, AppendProperties
<1> HIDE DEF s, t
<1>5. \A i \in 1 .. Len(q) : s[i] = t[i]
  BY <1>1, <1>2, <1>3, <1>4
<1>6. s[Len(q) + 1] = t[Len(q) + 1]
  <2>1. Len(q) + 1 \in 1 .. Len(q) + 1
    BY <1>1
  <2> QED
    BY <1>1, <1>2, <1>4, <2>1
<1>7. \A i \in 1 .. Len(s) : s[i] = t[i]
  BY <1>1, <1>2, <1>5, <1>6
<1>8. s = t
  BY <1>2, <1>4, <1>7, SeqEqual
<1> QED
  BY <1>8 DEF s, t

\* And so with the first one taken.
LEMMA MessagesOfTail ==
  ASSUME NEW q \in Seq(Entries), q # <<>>
  PROVE  MessagesOf(Tail(q)) = Tail(MessagesOf(q)) /\ Head(MessagesOf(q)) = q[1].msg
<1> DEFINE s == MessagesOf(Tail(q))
           t == Tail(MessagesOf(q))
<1>1. Len(q) \in Nat \ {0}
  BY EmptySeq
<1>2. /\ Tail(q) \in Seq(Entries) /\ Len(Tail(q)) = Len(q) - 1
      /\ \A i \in 1 .. Len(q) - 1 : Tail(q)[i] = q[i + 1]
  BY HeadTailProperties
<1>3. s \in Seq(Messages) /\ Len(s) = Len(q) - 1
      /\ \A i \in 1 .. Len(q) - 1 : s[i] = Tail(q)[i].msg
  BY <1>2, MessagesOfType
<1>4. MessagesOf(q) \in Seq(Messages) /\ MessagesOf(q) # <<>> /\ Len(MessagesOf(q)) = Len(q)
      /\ \A i \in 1 .. Len(q) : MessagesOf(q)[i] = q[i].msg
  BY MessagesOfType
<1>5. t \in Seq(Messages) /\ Len(t) = Len(q) - 1
      /\ \A i \in 1 .. Len(q) - 1 : t[i] = MessagesOf(q)[i + 1]
  BY <1>4, HeadTailProperties
<1> HIDE DEF s, t
<1>6. ASSUME NEW i \in 1 .. Len(q) - 1 PROVE s[i] = t[i]
  <2>1. i + 1 \in 1 .. Len(q)
    BY <1>1
  <2> QED
    BY <1>2, <1>3, <1>4, <1>5, <2>1
<1>7. s = t
  BY <1>3, <1>5, <1>6, SeqEqual
<1>8. Head(MessagesOf(q)) = q[1].msg
  BY <1>1, <1>4
<1> QED
  BY <1>7, <1>8 DEF s, t

\* Steps of the ring that neither publish nor commit are stutters of Fifo.
LEMMA Stutter ==
  ASSUME UNCHANGED <<queue, write_cursor, read_cursor, got>>
  PROVE  UNCHANGED Abstract!vars
  BY DEF Abstract!vars, MessagesOf

\* Publish implements Put.
LEMMA PublishIsPut == ASSUME IInv, Publish PROVE \E m \in Messages : Abstract!Put(m)
<1> DEFINE e == [msg |-> s_msg, at |-> s_cached_wc, seq |-> next_seq]
<1>1. /\ s_msg \in Messages /\ e \in Entries /\ queue \in Seq(Entries)
      /\ write_cursor \in Nat /\ read_cursor \in Nat
      /\ MessageSize(s_msg.len) \in Nat
      /\ s_cached_wc = write_cursor
      /\ s_copied = MessageSize(s_msg.len)
      /\ write_cursor + MessageSize(s_msg.len) <= read_cursor + RingSize
  BY Sizes DEF Publish, IInv, TypeOK, SenderInv, Entries, Messages
<1>2. /\ queue' = Append(queue, e) /\ UNCHANGED <<read_cursor, got>>
      /\ write_cursor' = write_cursor + MessageSize(s_msg.len)
  BY <1>1 DEF Publish
<1>3. MessagesOf(queue') = Append(MessagesOf(queue), s_msg)
  BY <1>1, <1>2, MessagesOfAppend
<1>4. Abstract!Size(s_msg) = MessageSize(s_msg.len)
  BY DEF Abstract!Size, MessageSize
<1>5. /\ (write_cursor - read_cursor) + MessageSize(s_msg.len) <= RingSize
      /\ write_cursor' - read_cursor' = (write_cursor - read_cursor) + MessageSize(s_msg.len)
  <2> HIDE DEF e
  <2> DEFINE size == MessageSize(s_msg.len)
  <2>1. /\ size \in Nat /\ write_cursor \in Nat /\ read_cursor \in Nat /\ RingSize \in Nat
        /\ write_cursor + size <= read_cursor + RingSize
        /\ write_cursor' = write_cursor + size /\ read_cursor' = read_cursor
    BY <1>1, <1>2, Sizes
  <2> HIDE DEF size
  <2>2. (write_cursor - read_cursor) + size <= RingSize
    BY <2>1
  <2>3. write_cursor' - read_cursor' = (write_cursor - read_cursor) + size
    BY <2>1
  <2> QED
    BY <2>2, <2>3 DEF size
<1>6. Abstract!Put(s_msg)
  BY <1>2, <1>3, <1>4, <1>5 DEF Abstract!Put
<1> QED
  BY <1>1, <1>6

\* A commit removes the oldest message.
LEMMA CommitIsRemove ==
  ASSUME IInv, NEW result, r_pc \in {"copy", "discard"}, Commit(result)
  PROVE  Abstract!Remove /\ got' = result /\ Head(MessagesOf(queue)) = queue[1].msg
<1>1. /\ queue # <<>> /\ queue \in Seq(Entries)
      /\ r_peeked = [len |-> queue[1].msg.len, seq |-> queue[1].seq]
      /\ r_cached_rc = read_cursor
  BY QueueType DEF IInv, ReceiverInv
<1>2. r_peeked.seq = expected_seq
  BY <1>1, HeadReadable
<1>3. /\ read_cursor' = read_cursor + MessageSize(queue[1].msg.len)
      /\ queue' = Tail(queue) /\ got' = result
      /\ UNCHANGED write_cursor
  BY <1>1, <1>2 DEF Commit
<1>4. /\ MessagesOf(queue') = Tail(MessagesOf(queue))
      /\ Head(MessagesOf(queue)) = queue[1].msg
      /\ MessagesOf(queue) # <<>>
  BY <1>1, <1>3, MessagesOfTail, MessagesOfType
<1>5. Abstract!Size(queue[1].msg) = MessageSize(queue[1].msg.len)
  BY DEF Abstract!Size, MessageSize
<1>6. /\ write_cursor \in Nat /\ read_cursor \in Nat
      /\ MessageSize(queue[1].msg.len) \in Nat
  <2>1. 1 \in DOMAIN queue
    BY <1>1, QueueType
  <2> QED
    BY <2>1, QueueType DEF IInv, TypeOK
<1>7. write_cursor' - read_cursor'
        = (write_cursor - read_cursor) - Abstract!Size(Head(MessagesOf(queue)))
  BY <1>3, <1>4, <1>5, <1>6
<1> QED
  BY <1>3, <1>4, <1>7 DEF Abstract!Remove

\* RecvReturns implements Take: the buffer holds the payload.
LEMMA RecvReturnsIsTake == ASSUME IInv, RecvReturns PROVE Abstract!Take
<1>1. Abstract!Remove /\ got' = r_buf /\ Head(MessagesOf(queue)) = queue[1].msg
  BY CommitIsRemove DEF RecvReturns
<1>2. /\ r_pc = "copy" /\ r_copied = r_peeked.len
      /\ r_peeked = [len |-> queue[1].msg.len, seq |-> queue[1].seq]
      /\ r_buf \in [0 .. r_peeked.len - 1 -> Byte]
      /\ \A k \in 0 .. r_copied - 1 : r_buf[k] = PayloadByte(k, queue[1].msg.content)
  BY DEF RecvReturns, IInv, TypeOK, ReceiverInv
<1>3. r_buf = Payload(queue[1].msg)
  BY <1>2 DEF Payload
<1> QED
  BY <1>1, <1>3 DEF Abstract!Take

\* Every step of the ring is a step of Fifo or changes nothing of it.
LEMMA StepImplements == ASSUME IInv, [Next]_vars PROVE [Abstract!Next]_Abstract!vars
<1>1. CASE Publish
  BY <1>1, PublishIsPut DEF Abstract!Next
<1>2. CASE RecvReturns
  BY <1>2, RecvReturnsIsTake DEF Abstract!Next
<1>3. CASE RecvTooLarge
  BY <1>3, CommitIsRemove DEF RecvTooLarge, Abstract!Discard, Abstract!Next
<1>4. CASE Send /\ ~Publish
  BY <1>4, Stutter DEF Send, SendCall, SpaceInCache, RefreshReadCursor, SpaceFreed,
     SendRetries, SendGivesUp, WriteByte, shared, history
<1>5. CASE Recv /\ ~RecvReturns /\ ~RecvTooLarge
  BY <1>5, Stutter DEF Recv, PeekCursor, PeekHeader, BufferFits, BufferShort, ReadByte,
     shared, history
<1>6. CASE UNCHANGED vars
  BY <1>6, Stutter DEF vars, shared, history
<1> QED
  BY <1>1, <1>2, <1>3, <1>4, <1>5, <1>6 DEF Next

\* What is received is what was sent, whole, once and in order, and the ring
\* is never overfilled: src/ring.rs implements a bounded FIFO.
THEOREM Refinement == Spec => ImplementsFifo
<1>1. Init => Abstract!Init
  BY DEF Init, Abstract!Init, MessagesOf
<1>2. IInv /\ [Next]_vars => [Abstract!Next]_Abstract!vars
  BY StepImplements
<1> QED
  BY <1>1, <1>2, Invariance, PTL DEF Spec, ImplementsFifo, Abstract!Spec
=============================================================================
