-------------------------------- MODULE Ring --------------------------------
(***************************************************************************)
(* The data plane of one direction of a channel: the lock-free ring of     *)
(* src/ring.rs between one RingSender and one RingReceiver, each in its    *)
(* own process, over memory that both map.                                 *)
(*                                                                         *)
(* Every byte of the data area is a cell of its own, messages wrap around  *)
(* its end at any byte, and the sender stores them one byte at a time, so  *)
(* a receiver that looks too early, or a sender that trusts a stale cursor *)
(* too much, shows.  The cursors count bytes since the channel was made    *)
(* (u64, never wrapped in practice: 2^64 bytes); sequence numbers wrap     *)
(* (u32).                                                                  *)
(*                                                                         *)
(* The looks at the channel state that send and recv make between these    *)
(* steps are in RingDirection, parking and waking in WaitWake.             *)
(***************************************************************************)
EXTENDS Integers, Sequences

CONSTANTS
  RingSize,     \* ring_data_size: bytes of the data area (a power of two)
  LenSize,      \* bytes of the length word of a header (4)
  SeqSize,      \* bytes of the sequence word of a header (4)
  SeqMod,       \* sequence numbers wrap at this value (2^32)
  PayloadLens,  \* payload lengths the callers try
  Contents,     \* payload contents the callers try
  MaxCursor,    \* bound: no send starts that would pass this cursor
  NoMessage,    \* the sender is in no send
  TornHeader,   \* what a header reads as when its bytes are not of one header
  NoPayload,    \* nothing received yet
  BufferTooSmall \* Error::MessageTooLarge of a receive into a short buffer

HeaderSize == LenSize + SeqSize

ASSUME RingAssumption ==
  /\ LenSize \in Nat \ {0}
  /\ SeqSize \in Nat \ {0}
  /\ RingSize \in Nat
  /\ LenSize + SeqSize <= RingSize
  /\ SeqMod \in Nat \ {0, 1}
  /\ PayloadLens \subseteq Nat
  /\ MaxCursor \in Nat
  /\ TornHeader \notin [len : PayloadLens, seq : 0 .. SeqMod - 1]

Messages == [len : PayloadLens, content : Contents]

(***************************************************************************)
(* A byte is known by the word it belongs to, its place in that word and   *)
(* the value the word holds; a header decodes to a value only if every one *)
(* of its bytes belongs to that value.                                     *)
(***************************************************************************)
LenByte(k, len)         == [word |-> "len", place |-> k, value |-> len]
SeqByte(k, seq)         == [word |-> "seq", place |-> k, value |-> seq]
PayloadByte(k, content) == [word |-> "payload", place |-> k, value |-> content]
ZeroByte                == [word |-> "zero"]

HeaderByte(k, len, seq) ==
  IF k < LenSize THEN LenByte(k, len) ELSE SeqByte(k - LenSize, seq)

MessageByte(k, m, seq) ==
  IF k < HeaderSize THEN HeaderByte(k, m.len, seq)
                    ELSE PayloadByte(k - HeaderSize, m.content)

Payload(m) == [k \in 0 .. m.len - 1 |-> PayloadByte(k, m.content)]

VARIABLES
  \* Shared memory.
  ring,           \* the data area
  write_cursor,   \* bytes published, stored by the sender only
  read_cursor,    \* bytes consumed, stored by the receiver only
  \* The RingSender.
  s_pc,           \* idle | space | full | write
  s_msg,          \* the message being sent
  s_copied,       \* bytes of it stored so far
  s_cached_wc,    \* cached_wc
  s_cached_rc,    \* cached_rc, refreshed only when it shows too little space
  next_seq,
  \* The RingReceiver.
  r_pc,           \* idle | header | ready | copy | discard | corrupt
  r_seen,         \* write_cursor as loaded by this peek
  r_peeked,       \* PeekedMessage: payload_len and seq
  r_buf,          \* the caller's buffer
  r_copied,       \* payload bytes copied into it so far
  r_cached_rc,    \* cached_rc
  expected_seq,
  \* History: what has been published and not consumed, and the last result.
  queue,
  got

shared   == <<ring, write_cursor, read_cursor>>
sender   == <<s_pc, s_msg, s_copied, s_cached_wc, s_cached_rc, next_seq>>
receiver == <<r_pc, r_seen, r_peeked, r_buf, r_copied, r_cached_rc, expected_seq>>
history  == <<queue, got>>
vars     == <<shared, sender, receiver, history>>

(***************************************************************************)
(* Cursor arithmetic.                                                      *)
(***************************************************************************)
\* The cell of a cursor; ring_mask is ring_data_size - 1.
Index(cursor) == cursor % RingSize

MessageSize(len) == HeaderSize + len

HasSpace_PayloadOnly(wc, rc, len) == RingSize - (wc - rc) >= len
HasSpace_Strict(wc, rc, len) == RingSize - (wc - rc) > MessageSize(len)
HasSpace(wc, rc, len) == RingSize - (wc - rc) >= MessageSize(len)

NextSeq_NoWrap(seq) == seq + 1
NextSeq(seq) == IF seq = SeqMod - 1 THEN 0 ELSE seq + 1

Init ==
  /\ ring = [i \in 0 .. RingSize - 1 |-> ZeroByte]
  /\ write_cursor = 0
  /\ read_cursor = 0
  /\ s_pc = "idle"
  /\ s_msg = NoMessage
  /\ s_copied = 0
  /\ s_cached_wc = 0
  /\ s_cached_rc = 0
  /\ next_seq = 1
  /\ r_pc = "idle"
  /\ r_seen = 0
  /\ r_peeked = NoMessage
  /\ r_buf = NoPayload
  /\ r_copied = 0
  /\ r_cached_rc = 0
  /\ expected_seq = 1
  /\ queue = <<>>
  /\ got = NoPayload

(***************************************************************************)
(* The sender.                                                             *)
(***************************************************************************)
\* send and try_send_once: a message larger than the ring is refused at once.
SendCall(m) ==
  /\ s_pc = "idle"
  /\ MessageSize(m.len) <= RingSize
  /\ s_cached_wc + MessageSize(m.len) <= MaxCursor
  /\ s_pc' = "space"
  /\ s_msg' = m
  /\ UNCHANGED <<s_copied, s_cached_wc, s_cached_rc, next_seq>>
  /\ UNCHANGED <<shared, receiver, history>>

\* try_send_once, the cached read cursor shows enough space.
SpaceInCache ==
  /\ s_pc = "space"
  /\ HasSpace(s_cached_wc, s_cached_rc, s_msg.len)
  /\ s_pc' = "write"
  /\ s_copied' = 0
  /\ UNCHANGED <<s_msg, s_cached_wc, s_cached_rc, next_seq>>
  /\ UNCHANGED <<shared, receiver, history>>

\* try_send_once, it does not: load read_cursor, look again, else Full.
RefreshReadCursor ==
  /\ s_pc = "space"
  /\ ~HasSpace(s_cached_wc, s_cached_rc, s_msg.len)
  /\ s_cached_rc' = read_cursor
  /\ s_pc' = IF HasSpace(s_cached_wc, read_cursor, s_msg.len) THEN "write" ELSE "full"
  /\ s_copied' = 0
  /\ UNCHANGED <<s_msg, s_cached_wc, next_seq>>
  /\ UNCHANGED <<shared, receiver, history>>

\* send: wait_until returns the read cursor that made enough space, retry.
SpaceFreed ==
  /\ s_pc = "full"
  /\ HasSpace(s_cached_wc, read_cursor, s_msg.len)
  /\ s_pc' = "space"
  /\ s_cached_rc' = read_cursor
  /\ UNCHANGED <<s_msg, s_copied, s_cached_wc, next_seq>>
  /\ UNCHANGED <<shared, receiver, history>>

\* send_async: something changed, perhaps not the space; try again.
SendRetries ==
  /\ s_pc = "full"
  /\ s_pc' = "space"
  /\ UNCHANGED <<s_msg, s_copied, s_cached_wc, s_cached_rc, next_seq>>
  /\ UNCHANGED <<shared, receiver, history>>

\* send: check_ready fails before the space is looked for; or the wait times
\* out; or the future of send_async is dropped in it.
SendGivesUp ==
  /\ s_pc \in {"space", "full"}
  /\ s_pc' = "idle"
  /\ s_msg' = NoMessage
  /\ UNCHANGED <<s_copied, s_cached_wc, s_cached_rc, next_seq>>
  /\ UNCHANGED <<shared, receiver, history>>

\* write_ring: one byte of the length, the sequence number or the payload.
WriteByte ==
  /\ s_pc = "write"
  /\ s_copied < MessageSize(s_msg.len)
  /\ ring' = [ring EXCEPT ![Index(s_cached_wc + s_copied)] =
                MessageByte(s_copied, s_msg, next_seq)]
  /\ s_copied' = s_copied + 1
  /\ UNCHANGED <<write_cursor, read_cursor>>
  /\ UNCHANGED <<s_pc, s_msg, s_cached_wc, s_cached_rc, next_seq>>
  /\ UNCHANGED <<receiver, history>>

Publish_AfterHeader ==
  /\ s_pc = "write"
  /\ s_copied >= HeaderSize
  /\ write_cursor' = s_cached_wc + MessageSize(s_msg.len)
  /\ s_cached_wc' = s_cached_wc + MessageSize(s_msg.len)
  /\ next_seq' = NextSeq(next_seq)
  /\ queue' = Append(queue, [msg |-> s_msg, at |-> s_cached_wc, seq |-> next_seq])
  /\ s_pc' = "idle"
  /\ s_msg' = NoMessage
  /\ s_copied' = 0
  /\ UNCHANGED s_cached_rc
  /\ UNCHANGED <<ring, read_cursor, receiver, got>>

\* publish_message: the release store that makes the bytes the receiver's.
Publish ==
  /\ s_pc = "write"
  /\ s_copied = MessageSize(s_msg.len)
  /\ write_cursor' = s_cached_wc + s_copied
  /\ s_cached_wc' = s_cached_wc + s_copied
  /\ next_seq' = NextSeq(next_seq)
  /\ queue' = Append(queue, [msg |-> s_msg, at |-> s_cached_wc, seq |-> next_seq])
  /\ s_pc' = "idle"
  /\ s_msg' = NoMessage
  /\ s_copied' = 0
  /\ UNCHANGED s_cached_rc
  /\ UNCHANGED <<ring, read_cursor, receiver, got>>

(***************************************************************************)
(* The receiver.                                                           *)
(***************************************************************************)
PeekCursor_Strict ==
  /\ r_pc = "idle"
  /\ write_cursor - r_cached_rc > HeaderSize
  /\ r_seen' = write_cursor
  /\ r_pc' = "header"
  /\ UNCHANGED <<r_peeked, r_buf, r_copied, r_cached_rc, expected_seq>>
  /\ UNCHANGED <<shared, sender, history>>

\* try_peek_message: load write_cursor; there is at least a header.  When
\* there is less it returns Empty and changes nothing.
PeekCursor ==
  /\ r_pc = "idle"
  /\ write_cursor - r_cached_rc >= HeaderSize
  /\ r_seen' = write_cursor
  /\ r_pc' = "header"
  /\ UNCHANGED <<r_peeked, r_buf, r_copied, r_cached_rc, expected_seq>>
  /\ UNCHANGED <<shared, sender, history>>

\* read_msg_header: the length and the sequence number that the bytes hold.
HeaderHolds(cursor, len, seq) ==
  \A k \in 0 .. HeaderSize - 1 : ring[Index(cursor + k)] = HeaderByte(k, len, seq)

HeaderAt(cursor) ==
  IF \E h \in [len : PayloadLens, seq : 0 .. SeqMod - 1] : HeaderHolds(cursor, h.len, h.seq)
  THEN CHOOSE h \in [len : PayloadLens, seq : 0 .. SeqMod - 1] : HeaderHolds(cursor, h.len, h.seq)
  ELSE TornHeader

\* try_peek_message: what the header says of the bytes seen; a length that
\* cannot be is an error, one that reaches past the bytes seen is Empty.
PeekHeader ==
  /\ r_pc = "header"
  /\ r_peeked' = HeaderAt(r_cached_rc)
  /\ r_pc' = IF r_peeked' = TornHeader \/ r_peeked'.len > RingSize - HeaderSize
             THEN "corrupt"
             ELSE IF r_seen - r_cached_rc < MessageSize(r_peeked'.len) THEN "idle"
             ELSE "ready"
  /\ UNCHANGED <<r_seen, r_buf, r_copied, r_cached_rc, expected_seq>>
  /\ UNCHANGED <<shared, sender, history>>

\* recv, recv_into: the buffer is as long as the message or longer.
BufferFits ==
  /\ r_pc = "ready"
  /\ r_pc' = "copy"
  /\ r_buf' = [k \in 0 .. r_peeked.len - 1 |-> ZeroByte]
  /\ r_copied' = 0
  /\ UNCHANGED <<r_seen, r_peeked, r_cached_rc, expected_seq>>
  /\ UNCHANGED <<shared, sender, history>>

\* recv_into: it is shorter.
BufferShort ==
  /\ r_pc = "ready"
  /\ r_pc' = "discard"
  /\ UNCHANGED <<r_seen, r_peeked, r_buf, r_copied, r_cached_rc, expected_seq>>
  /\ UNCHANGED <<shared, sender, history>>

\* read_ring: one byte of the payload.
ReadByte ==
  /\ r_pc = "copy"
  /\ r_copied < r_peeked.len
  /\ r_buf' = [r_buf EXCEPT ![r_copied] = ring[Index(r_cached_rc + HeaderSize + r_copied)]]
  /\ r_copied' = r_copied + 1
  /\ UNCHANGED <<r_pc, r_seen, r_peeked, r_cached_rc, expected_seq>>
  /\ UNCHANGED <<shared, sender, history>>

Commit_DiscardKeepsSeq(result) ==
  IF r_peeked.seq = expected_seq
  THEN /\ expected_seq' = IF result = BufferTooSmall THEN expected_seq ELSE NextSeq(expected_seq)
       /\ read_cursor' = r_cached_rc + MessageSize(r_peeked.len)
       /\ r_cached_rc' = r_cached_rc + MessageSize(r_peeked.len)
       /\ queue' = Tail(queue)
       /\ got' = result
       /\ r_pc' = "idle"
       /\ r_seen' = 0
       /\ r_peeked' = NoMessage
       /\ r_buf' = NoPayload
       /\ r_copied' = 0
       /\ UNCHANGED <<ring, write_cursor, sender>>
  ELSE /\ r_pc' = "corrupt"
       /\ UNCHANGED <<r_seen, r_peeked, r_buf, r_copied, r_cached_rc, expected_seq>>
       /\ UNCHANGED <<shared, sender, history>>

\* commit_current_message: validate_seq, then give the bytes back.
Commit(result) ==
  IF r_peeked.seq = expected_seq
  THEN /\ expected_seq' = NextSeq(expected_seq)
       /\ read_cursor' = r_cached_rc + MessageSize(r_peeked.len)
       /\ r_cached_rc' = r_cached_rc + MessageSize(r_peeked.len)
       /\ queue' = Tail(queue)
       /\ got' = result
       /\ r_pc' = "idle"
       /\ r_seen' = 0
       /\ r_peeked' = NoMessage
       /\ r_buf' = NoPayload
       /\ r_copied' = 0
       /\ UNCHANGED <<ring, write_cursor, sender>>
  ELSE /\ r_pc' = "corrupt"
       /\ UNCHANGED <<r_seen, r_peeked, r_buf, r_copied, r_cached_rc, expected_seq>>
       /\ UNCHANGED <<shared, sender, history>>

RecvReturns_BeforeCopy ==
  /\ r_pc = "copy"
  /\ Commit(r_buf)

RecvReturns ==
  /\ r_pc = "copy"
  /\ r_copied = r_peeked.len
  /\ Commit(r_buf)

RecvTooLarge ==
  /\ r_pc = "discard"
  /\ Commit(BufferTooSmall)

Send == (\E m \in Messages : SendCall(m)) \/ SpaceInCache \/ RefreshReadCursor
          \/ SpaceFreed \/ SendRetries \/ SendGivesUp \/ WriteByte \/ Publish

Recv == PeekCursor \/ PeekHeader \/ BufferFits \/ BufferShort \/ ReadByte
          \/ RecvReturns \/ RecvTooLarge

Next == Send \/ Recv

Spec == Init /\ [][Next]_vars

(***************************************************************************)
(* Types.                                                                  *)
(***************************************************************************)
Byte == [word : {"len"}, place : 0 .. LenSize - 1, value : PayloadLens]
          \cup [word : {"seq"}, place : 0 .. SeqSize - 1, value : 0 .. SeqMod - 1]
          \cup [word : {"payload"}, place : Nat, value : Contents]
          \cup {ZeroByte}

\* A message in the ring: where its header starts and the number it carries.
Entries == [msg : Messages, at : Nat, seq : 0 .. SeqMod - 1]

\* The shape of every variable.
TypeOK ==
  /\ ring \in [0 .. RingSize - 1 -> Byte]
  /\ write_cursor \in Nat
  /\ read_cursor \in Nat
  /\ s_pc \in {"idle", "space", "full", "write"}
  /\ s_pc = "idle" => s_msg = NoMessage
  /\ s_pc # "idle" => s_msg \in Messages
  /\ s_copied \in Nat
  /\ s_cached_wc \in Nat
  /\ s_cached_rc \in Nat
  /\ next_seq \in 0 .. SeqMod - 1
  /\ r_pc \in {"idle", "header", "ready", "copy", "discard", "corrupt"}
  /\ r_seen \in Nat
  /\ r_pc \in {"ready", "copy", "discard"} =>
       r_peeked \in [len : PayloadLens, seq : 0 .. SeqMod - 1]
  /\ r_pc = "copy" => r_buf \in [0 .. r_peeked.len - 1 -> Byte]
  /\ r_copied \in Nat
  /\ r_cached_rc \in Nat
  /\ expected_seq \in 0 .. SeqMod - 1
  /\ queue \in Seq(Entries)

(***************************************************************************)
(* Safety.                                                                 *)
(***************************************************************************)
\* The cell the sender is about to store to belongs to no byte the receiver
\* may still read: the sender's stale copy of the read cursor never lets it
\* lap the receiver (has_space, try_send_once).
NoOverwrite ==
  s_pc = "write" /\ s_copied < MessageSize(s_msg.len) =>
    \A cursor \in read_cursor .. write_cursor - 1 :
      Index(cursor) # Index(s_cached_wc + s_copied)

\* What send published is what the ring holds, byte for byte and without a
\* gap, from the read cursor to the write cursor, numbered in order: no send
\* damages a message sent earlier, wherever it wraps (write_ring, Publish).
End(e) == e.at + MessageSize(e.msg.len)

PublishedIntact ==
  /\ \A i \in DOMAIN queue : \A k \in 0 .. MessageSize(queue[i].msg.len) - 1 :
       ring[Index(queue[i].at + k)] = MessageByte(k, queue[i].msg, queue[i].seq)
  /\ \A i \in DOMAIN queue :
       queue[i].at = IF i = 1 THEN read_cursor ELSE End(queue[i - 1])
  /\ write_cursor = IF queue = <<>> THEN read_cursor ELSE End(queue[Len(queue)])

\* The receiver, which trusts a header it reads in memory that another process
\* writes, never meets a torn header, a length past the bytes published, or a
\* sequence number it does not expect (try_peek_message, validate_seq).
NeverCorrupt == r_pc # "corrupt"

\* Why these hold, as one inductive invariant.
\* The sender: its copy of the read cursor is never ahead, and while it writes
\* the whole message fits behind the receiver.
SenderInv ==
  /\ s_cached_wc = write_cursor
  /\ s_cached_rc <= read_cursor
  /\ read_cursor <= write_cursor
  /\ s_pc # "idle" => MessageSize(s_msg.len) <= RingSize
  /\ s_pc = "write" =>
       /\ write_cursor + MessageSize(s_msg.len) <= read_cursor + RingSize
       /\ s_copied <= MessageSize(s_msg.len)
       /\ \A k \in 0 .. s_copied - 1 :
            ring[Index(write_cursor + k)] = MessageByte(k, s_msg, next_seq)

\* The messages in the ring lie in order between the cursors and are numbered
\* from the receiver's expected_seq to the sender's next_seq.
QueueInv ==
  /\ PublishedIntact
  /\ \A i \in DOMAIN queue :
       /\ MessageSize(queue[i].msg.len) <= RingSize
       /\ read_cursor <= queue[i].at
       /\ End(queue[i]) <= write_cursor
  /\ \A i, j \in DOMAIN queue : i < j => End(queue[i]) <= queue[j].at
  /\ \A i \in DOMAIN queue :
       queue[i].seq = IF i = 1 THEN expected_seq ELSE NextSeq(queue[i - 1].seq)
  /\ next_seq = IF queue = <<>> THEN expected_seq ELSE NextSeq(queue[Len(queue)].seq)

\* The receiver: what it peeked is the head of the queue, and so is as much
\* of the payload as it has copied.
ReceiverInv ==
  /\ r_cached_rc = read_cursor
  /\ r_pc # "idle" => queue # <<>>
  /\ r_pc \in {"ready", "copy", "discard"} =>
       r_peeked = [len |-> queue[1].msg.len, seq |-> queue[1].seq]
  /\ r_pc = "copy" =>
       /\ r_copied <= r_peeked.len
       /\ \A k \in 0 .. r_copied - 1 : r_buf[k] = PayloadByte(k, queue[1].msg.content)

IInv == TypeOK /\ SenderInv /\ QueueInv /\ ReceiverInv /\ NeverCorrupt

\* A receive delivers the payload the sender gave, once, in the order sent,
\* and no send or receive exceeds the ring: the ring implements Fifo.
MessagesOf(q) == [i \in DOMAIN q |-> q[i].msg]

Abstract == INSTANCE Fifo WITH
  Capacity <- RingSize,
  queue    <- MessagesOf(queue),
  used     <- write_cursor - read_cursor

ImplementsFifo == Abstract!Spec
=============================================================================
