------------------------ MODULE RingDirectionProofs ------------------------
(***************************************************************************)
(* RingDirection keeps what Ring promises, and implements Direction, for   *)
(* every ring, header layout and set of messages.                          *)
(*                                                                         *)
(* That the composition only runs steps of Ring carries Ring's invariant   *)
(* over.  With it, the looks are enough: whoever has looked at the state   *)
(* after an empty look, and has seen the end, looks once more; what that   *)
(* look finds empty was consumed, all of it, so nothing is owed.           *)
(***************************************************************************)
EXTENDS RingDirection, RingProofs

(***************************************************************************)
(* The composition runs Ring.                                              *)
(***************************************************************************)
\* Every step of a sender is one of Ring, or leaves its variables alone.
LEMMA SenderRuns ==
  ASSUME SenderNext
  PROVE  [Next]_vars
<1>1. ASSUME NEW m \in Messages, CallsSend(m) PROVE [Next]_vars
  BY <1>1 DEF CallsSend, Next, Send
<1>2. CASE SenderReady \/ NoSpaceYet
  BY <1>2 DEF SenderReady, NoSpaceYet
<1>3. CASE LooksForSpace \/ Retries \/ SendFails
  BY <1>3 DEF LooksForSpace, Retries, SendFails, Next, Send
<1>4. CASE Writes \/ Publishes
  BY <1>4 DEF Writes, Publishes, Next, Send
<1>. QED  BY <1>1, <1>2, <1>3, <1>4 DEF SenderNext

\* And every step of a receiver.
LEMMA ReceiverRuns ==
  ASSUME ReceiverNext
  PROVE  [Next]_vars
<1>1. CASE CallsRecv \/ PeeksNothing \/ ReceiverChecks
  BY <1>1 DEF CallsRecv, PeeksNothing, ReceiverChecks
<1>2. CASE Peeks \/ PeeksHeader
  BY <1>2 DEF Peeks, PeeksHeader, Next, Recv
<1>3. CASE Copies \/ Receives
  BY <1>3 DEF Copies, Receives, Next, Recv
<1>. QED  BY <1>1, <1>2, <1>3 DEF ReceiverNext

\* So does every step.
LEMMA StepRuns ==
  ASSUME [DirectionNext]_allvars
  PROVE  [Next]_vars
<1>1. CASE Ends \/ UNCHANGED allvars
  BY <1>1 DEF Ends, allvars
<1>. QED  BY <1>1, SenderRuns, ReceiverRuns DEF DirectionNext

\* The looks at the state take nothing from Ring: its safety, and Fifo, hold
\* until the end of the channel and beyond.
THEOREM KeepsRing == DirectionSpec => Spec
<1>1. DirectionInit => Init
  BY DEF DirectionInit
<1>2. [DirectionNext]_allvars => [Next]_vars
  BY StepRuns
<1>. QED  BY <1>1, <1>2, PTL DEF DirectionSpec, Spec

(***************************************************************************)
(* The invariant of the looks.                                             *)
(***************************************************************************)
\* What the queue is, and what the steps that change it make of it.
LEMMA QueueOf ==
  ASSUME IInv
  PROVE  /\ queue \in Seq(Entries) /\ Len(queue) \in Nat
         /\ Len(queue) = 0 => queue = <<>>
BY DEF IInv, TypeOK

LEMMA PublishGrows ==
  ASSUME IInv, Publish
  PROVE  /\ s_pc = "write" /\ s_pc' = "idle"
         /\ Len(queue') = Len(queue) + 1
         /\ UNCHANGED r_pc
BY QueueOf DEF Publish, receiver

LEMMA ReceiveShrinks ==
  ASSUME IInv, RecvReturns \/ RecvTooLarge
  PROVE  /\ r_pc \in {"copy", "discard"} /\ r_pc' = "idle"
         /\ Len(queue) > 0 /\ Len(queue') = Len(queue) - 1 /\ queue' # queue
         /\ UNCHANGED s_pc
<1>1. PICK result : Commit(result)
  BY DEF RecvReturns, RecvTooLarge
<1>2. r_pc \in {"copy", "discard"}
  BY DEF RecvReturns, RecvTooLarge
<1>3. /\ queue # <<>> /\ queue \in Seq(Entries)
      /\ r_peeked = [len |-> queue[1].msg.len, seq |-> queue[1].seq]
  BY <1>2, QueueOf DEF IInv, ReceiverInv
<1>4. r_peeked.seq = expected_seq
  BY <1>3, HeadReadable
<1>5. queue' = Tail(queue) /\ r_pc' = "idle" /\ UNCHANGED s_pc
  BY <1>1, <1>4 DEF Commit, sender
<1>6. Len(queue) > 0 /\ Len(queue') = Len(queue) - 1
  BY <1>3, <1>5, HeadTailProperties
<1>. QED  BY <1>2, <1>5, <1>6, QueueOf

\* The steps of a sender keep the invariant.
LEMMA SenderLooks ==
  ASSUME IInv, LooksInv, SenderNext
  PROVE  LooksInv'
<1>1. ASSUME NEW m \in Messages, CallsSend(m) PROVE LooksInv'
  BY <1>1 DEF CallsSend, SendCall, LooksInv, looks, ending, receiver, history
<1>2. CASE SenderReady \/ NoSpaceYet
  <2>1. /\ s_pc \in {"space", "full"} /\ s_ready' \in BOOLEAN
        /\ UNCHANGED <<s_pc, r_pc, queue, r_look, told, ended, owed>>
    BY <1>2 DEF SenderReady, NoSpaceYet, vars, sender, receiver, history, ending
  <2>. QED  BY <2>1 DEF LooksInv
<1>3. CASE LooksForSpace
  BY <1>3 DEF LooksForSpace, SpaceInCache, RefreshReadCursor, SpaceFreed, LooksInv, receiver,
              history, ending
<1>4. CASE Retries \/ SendFails
  BY <1>4 DEF Retries, SendFails, SendRetries, SendGivesUp, LooksInv, looks, receiver, history,
              ending
<1>5. CASE Writes
  BY <1>5 DEF Writes, WriteByte, LooksInv, looks, receiver, history, ending
<1>6. CASE Publishes
  <2>1. /\ ~s_ready' /\ s_ready' \in BOOLEAN
        /\ s_pc' = "idle" /\ Len(queue') = Len(queue) + 1 /\ Len(queue) \in Nat
        /\ UNCHANGED <<r_pc, r_look, told, ended, owed>>
    BY <1>6, PublishGrows, QueueOf DEF Publishes, ending
  <2>. QED  BY <2>1 DEF LooksInv
<1>. QED  BY <1>1, <1>2, <1>3, <1>4, <1>5, <1>6 DEF SenderNext

\* And the steps of a receiver: an empty look after the end owes nothing.
LEMMA ReceiverLooks ==
  ASSUME IInv, LooksInv, ReceiverNext
  PROVE  LooksInv'
<1>0. CASE CallsRecv
  <2>1. /\ ~told' /\ told' \in BOOLEAN
        /\ UNCHANGED <<s_pc, r_pc, queue, s_ready, r_look, ended, owed>>
    BY <1>0 DEF CallsRecv, vars, sender, receiver, history, ending
  <2>. QED  BY <2>1 DEF LooksInv
<1>1. CASE ReceiverChecks
  BY <1>1 DEF ReceiverChecks, LooksInv, vars, sender, receiver, history, ending
<1>2. CASE Peeks
  BY <1>2 DEF Peeks, PeekCursor, LooksInv, looks, sender, history, ending
<1>3. CASE PeeksNothing
  BY <1>3 DEF PeeksNothing, Empty, LooksInv, vars, sender, receiver, history, ending
<1>4. CASE PeeksHeader
  BY <1>4 DEF PeeksHeader, PeekHeader, Empty, LooksInv, sender, history, ending
<1>5. CASE Copies
  BY <1>5 DEF Copies, BufferFits, BufferShort, ReadByte, LooksInv, looks, sender, history, ending
<1>6. CASE Receives
  BY <1>6, ReceiveShrinks, QueueOf DEF Receives, LooksInv
<1>. QED  BY <1>0, <1>1, <1>2, <1>3, <1>4, <1>5, <1>6 DEF ReceiverNext

\* The end owes what is in the ring.
LEMMA LooksStep == IInv /\ LooksInv /\ [DirectionNext]_allvars => LooksInv'
<1>. SUFFICES ASSUME IInv, LooksInv, [DirectionNext]_allvars PROVE LooksInv'
  OBVIOUS
<1>1. CASE Ends
  BY <1>1, QueueOf DEF Ends, LooksInv, vars, looks, sender, receiver, history
<1>2. CASE UNCHANGED allvars
  BY <1>2 DEF allvars, LooksInv, vars, looks, sender, receiver, history, ending
<1>. QED  BY <1>1, <1>2, SenderLooks, ReceiverLooks DEF DirectionNext

(***************************************************************************)
(* Whole messages.                                                         *)
(***************************************************************************)
\* The oldest message ends at or before the write cursor.
LEMMA FirstEnds ==
  ASSUME IInv, queue # <<>>
  PROVE  /\ MessageSize(queue[1].msg.len) <= write_cursor - r_cached_rc
         /\ HeaderSize <= write_cursor - r_cached_rc
<1>1. /\ queue[1].at = r_cached_rc /\ r_cached_rc \in Nat /\ write_cursor \in Nat
  BY HeadReadable DEF IInv, TypeOK
<1>2. 1 \in DOMAIN queue /\ queue[1].msg.len \in Nat
  <2>1. 1 \in DOMAIN queue
    BY QueueType
  <2>. QED  BY <2>1, QueueType, Sizes
<1>3. End(queue[1]) <= write_cursor
  BY <1>2 DEF IInv, QueueInv
<1>4. /\ MessageSize(queue[1].msg.len) \in Nat /\ HeaderSize \in Nat
      /\ MessageSize(queue[1].msg.len) >= HeaderSize
  BY <1>2, Sizes
<1>. QED  BY <1>1, <1>3, <1>4 DEF End

\* The steps that touch neither the receiver nor the head of the queue.
LEMMA SeenStays ==
  ASSUME SeenWhole, UNCHANGED <<r_pc, r_seen, r_cached_rc>>,
         queue # <<>> => queue' # <<>> /\ queue'[1] = queue[1]
  PROVE  SeenWhole'
BY DEF SeenWhole

\* Publish does not touch the head.
LEMMA PublishKeepsHead ==
  ASSUME IInv, Publish
  PROVE  queue # <<>> => queue' # <<>> /\ queue'[1] = queue[1]
<1>1. /\ queue \in Seq(Entries)
      /\ \E e : queue' = Append(queue, e)
  BY QueueOf DEF Publish
<1>. QED  BY <1>1

\* The invariant is kept.
LEMMA SeenStep == IInv /\ SeenWhole /\ [Next]_vars => SeenWhole'
<1>. SUFFICES ASSUME IInv, SeenWhole, [Next]_vars PROVE SeenWhole'
  OBVIOUS
<1>1. CASE Send /\ ~Publish
  <2>1. UNCHANGED <<r_pc, r_seen, r_cached_rc, queue>>
    BY <1>1 DEF Send, SendCall, SpaceInCache, RefreshReadCursor, SpaceFreed, SendRetries,
                SendGivesUp, WriteByte, receiver, history
  <2>. QED  BY <2>1, SeenStays
<1>2. CASE Publish
  BY <1>2, PublishKeepsHead, SeenStays DEF Publish, receiver
<1>3. CASE PeekCursor
  <2>1. /\ r_seen' = write_cursor /\ UNCHANGED <<r_cached_rc, queue>>
        /\ HeaderSize <= write_cursor - r_cached_rc
    BY <1>3, Sizes DEF PeekCursor, history, IInv, TypeOK
  <2>2. queue = <<>> => write_cursor = r_cached_rc
    BY DEF IInv, QueueInv, PublishedIntact, ReceiverInv
  <2>3. queue # <<>>
    BY <2>1, <2>2, Sizes DEF IInv, TypeOK
  <2>. QED  BY <2>1, <2>3, FirstEnds DEF SeenWhole
<1>4. CASE Recv /\ ~PeekCursor
  <2>1. r_pc' # "header"
    <3>1. CASE RecvReturns \/ RecvTooLarge
      BY <3>1, ReceiveShrinks
    <3>2. CASE PeekHeader \/ BufferFits \/ BufferShort \/ ReadByte
      BY <3>2 DEF PeekHeader, BufferFits, BufferShort, ReadByte
    <3>. QED  BY <1>4, <3>1, <3>2 DEF Recv
  <2>. QED  BY <2>1 DEF SeenWhole
<1>5. CASE UNCHANGED vars
  BY <1>5, SeenStays DEF vars, receiver, history
<1>. QED  BY <1>1, <1>2, <1>3, <1>4, <1>5 DEF Next

\* The invariants of the composition hold in every state.
THEOREM DirectionInvariance == DirectionSpec => []DirectionInv
<1>1. DirectionInit => LooksInv /\ SeenWhole
  <2>. SUFFICES ASSUME DirectionInit PROVE LooksInv /\ SeenWhole
    OBVIOUS
  <2>1. /\ ended \in BOOLEAN /\ s_ready \in BOOLEAN /\ told \in BOOLEAN
        /\ ~ended /\ ~s_ready /\ ~told
        /\ s_pc = "idle" /\ r_pc = "idle" /\ r_look = "peek" /\ owed = 0 /\ queue = <<>>
    BY DEF DirectionInit, Init
  <2>. QED  BY <2>1 DEF LooksInv, SeenWhole
<1>2. DirectionSpec => []IInv
  BY KeepsRing, Invariance
<1>3. IInv /\ LooksInv /\ SeenWhole /\ [DirectionNext]_allvars => LooksInv' /\ SeenWhole'
  BY LooksStep, SeenStep, StepRuns
<1>. QED  BY <1>1, <1>2, <1>3, PTL DEF DirectionSpec, DirectionInv

(***************************************************************************)
(* The refinement.                                                         *)
(***************************************************************************)
\* What a step does to Direction.
Mapped == [Promise!Next]_Promise!vars

\* The queue of Direction is that of Fifo, as Ring maps it.
LEMMA QueueOfPromise ==
  ASSUME IInv
  PROVE  Len(MessagesOf(queue)) = Len(queue)
BY QueueOf, MessagesOfType

\* A step that leaves queue, cursors and result alone.
LEMMA StillStutters ==
  ASSUME UNCHANGED <<queue, write_cursor, read_cursor, got>>
  PROVE  UNCHANGED Promise!fifo
BY DEF Promise!fifo, MessagesOf

\* Put, Take and Discard of Fifo, one level up.
LEMMA PublishIsPromised ==
  ASSUME IInv, Publish
  PROVE  \E m \in Messages : Promise!Queue!Put(m)
<1>1. PICK m \in Messages : Abstract!Put(m)
  BY PublishIsPut
<1>2. Promise!Queue!Put(m)
  BY <1>1 DEF Abstract!Put, Abstract!Size, Promise!Queue!Put, Promise!Queue!Size
<1>. QED  BY <1>2

LEMMA ReceiveIsPromised ==
  ASSUME IInv, RecvReturns \/ RecvTooLarge
  PROVE  Promise!Queue!Take \/ Promise!Queue!Discard
<1>1. CASE RecvReturns
  <2>1. Abstract!Take
    BY <1>1, RecvReturnsIsTake
  <2>. QED  BY <2>1 DEF Abstract!Take, Abstract!Remove, Abstract!Size, Promise!Queue!Take,
                    Promise!Queue!Remove, Promise!Queue!Size
<1>2. CASE RecvTooLarge
  <2>1. Abstract!Remove /\ got' = BufferTooSmall
    BY <1>2, CommitIsRemove DEF RecvTooLarge
  <2>. QED  BY <2>1 DEF Abstract!Remove, Abstract!Size, Promise!Queue!Discard,
                    Promise!Queue!Remove, Promise!Queue!Size
<1>. QED  BY <1>1, <1>2

\* A sender that has looked is admitted; it puts one message, or gives up.
LEMMA SenderMaps ==
  ASSUME IInv, LooksInv, SenderNext
  PROVE  Mapped
<1>1. ASSUME NEW m \in Messages, CallsSend(m) PROVE Mapped
  <2>1. UNCHANGED Promise!vars
    BY <1>1, StillStutters DEF CallsSend, SendCall, shared, history, looks, ending, Promise!vars
  <2>. QED  BY <2>1 DEF Mapped
<1>2. CASE SenderReady
  <2>1. UNCHANGED Promise!fifo
    BY <1>2, StillStutters DEF SenderReady, vars, shared, history
  <2>2. Promise!Admit
    BY <1>2, <2>1 DEF SenderReady, ending, Promise!Admit
  <2>. QED  BY <2>2 DEF Mapped, Promise!Next
<1>3. CASE LooksForSpace \/ NoSpaceYet
  <2>1. UNCHANGED Promise!fifo /\ UNCHANGED <<told, ended, owed>>
    BY <1>3, StillStutters DEF LooksForSpace, NoSpaceYet, SpaceInCache, RefreshReadCursor,
                               SpaceFreed, vars, shared, history, ending
  <2>2. s_ready' = FALSE \/ UNCHANGED s_ready
    BY <1>3 DEF LooksForSpace, NoSpaceYet, LooksInv
  <2>3. CASE s_ready' = FALSE
    <3>1. Promise!GiveUp
      BY <2>1, <2>3 DEF Promise!GiveUp
    <3>. QED  BY <3>1 DEF Mapped, Promise!Next
  <2>4. CASE UNCHANGED s_ready
    <3>1. UNCHANGED Promise!vars
      BY <2>1, <2>4 DEF Promise!vars
    <3>. QED  BY <3>1 DEF Mapped
  <2>. QED  BY <2>2, <2>3, <2>4
<1>4. CASE Retries \/ SendFails \/ Writes
  <2>1. UNCHANGED Promise!vars
    BY <1>4, StillStutters DEF Retries, SendFails, Writes, SendRetries, SendGivesUp, WriteByte,
                               shared, history, looks, ending, Promise!vars
  <2>. QED  BY <2>1 DEF Mapped
<1>5. CASE Publishes
  <2>1. PICK m \in Messages : Promise!Queue!Put(m)
    BY <1>5, PublishIsPromised DEF Publishes
  <2>2. s_ready
    BY <1>5, PublishGrows DEF Publishes, LooksInv
  <2>3. Promise!Put(m)
    BY <1>5, <2>1, <2>2 DEF Publishes, ending, Promise!Put
  <2>. QED  BY <2>3 DEF Mapped, Promise!Next
<1>. QED  BY <1>1, <1>2, <1>3, <1>4, <1>5 DEF SenderNext

\* An empty look finds an empty ring: it stutters, or reports the end with
\* nothing owed.
LEMMA EmptyMaps ==
  ASSUME DirectionInv, PeeksNothing \/ (PeeksHeader /\ r_pc' = "idle")
  PROVE  Mapped
<1>1. /\ UNCHANGED <<queue, write_cursor, read_cursor, got, s_ready, ended, owed>> /\ Empty
  BY DEF PeeksNothing, PeeksHeader, PeekHeader, vars, shared, history, ending
<1>2. queue = <<>>
  <2>1. CASE PeeksNothing
    BY <2>1, FirstEnds, Sizes DEF PeeksNothing, DirectionInv, IInv, TypeOK
  <2>2. CASE PeeksHeader /\ r_pc' = "idle"
    <3>1. queue # <<>> /\ MessageSize(queue[1].msg.len) <= r_seen - r_cached_rc
      BY <2>2 DEF PeeksHeader, PeekHeader, DirectionInv, SeenWhole
    <3>2. r_peeked' = [len |-> queue[1].msg.len, seq |-> queue[1].seq]
      BY <2>2, <3>1, HeadReadable DEF PeeksHeader, PeekHeader, DirectionInv
    <3>3. /\ r_seen - r_cached_rc \in Int
          /\ MessageSize(queue[1].msg.len) \in Nat
      BY <3>1, QueueType DEF DirectionInv, IInv, TypeOK
    <3>4. ~(r_seen - r_cached_rc < MessageSize(r_peeked'.len))
      BY <3>1, <3>2, <3>3
    <3>. QED  BY <2>2, <3>4 DEF PeeksHeader, PeekHeader
  <2>. QED  BY <2>1, <2>2
<1>3. owed = 0
  BY <1>2, QueueOf DEF DirectionInv, LooksInv
<1>4. UNCHANGED Promise!fifo
  BY <1>1, StillStutters
<1>5. CASE r_look = "repeek"
  <2>1. Promise!Report
    BY <1>1, <1>3, <1>4, <1>5 DEF Empty, Promise!Report, DirectionInv, LooksInv
  <2>. QED  BY <2>1 DEF Mapped, Promise!Next
<1>6. CASE r_look # "repeek"
  <2>1. Promise!Ask
    BY <1>1, <1>4, <1>6 DEF Empty, Promise!Ask
  <2>. QED  BY <2>1 DEF Mapped, Promise!Next
<1>. QED  BY <1>5, <1>6

\* A receiver takes what there is, and is told of the end after it.
LEMMA ReceiverMaps ==
  ASSUME DirectionInv, ReceiverNext
  PROVE  Mapped
<1>1. CASE CallsRecv
  <2>1. UNCHANGED Promise!fifo
    BY <1>1, StillStutters DEF CallsRecv, vars, shared, history
  <2>2. Promise!Ask
    BY <1>1, <2>1 DEF CallsRecv, ending, Promise!Ask
  <2>. QED  BY <2>2 DEF Mapped, Promise!Next
<1>2. CASE Peeks \/ ReceiverChecks \/ Copies
  <2>1. UNCHANGED Promise!vars
    BY <1>2, StillStutters
    DEF Peeks, ReceiverChecks, Copies, PeekCursor, BufferFits, BufferShort, ReadByte, vars, shared,
        history, looks, ending, Promise!vars
  <2>. QED  BY <2>1 DEF Mapped
<1>3. CASE PeeksNothing \/ (PeeksHeader /\ r_pc' = "idle")
  BY <1>3, EmptyMaps
<1>4. CASE PeeksHeader /\ r_pc' # "idle"
  <2>1. UNCHANGED Promise!vars
    BY <1>4, StillStutters DEF PeeksHeader, PeekHeader, shared, history, ending, Promise!vars
  <2>. QED  BY <2>1 DEF Mapped
<1>5. CASE Receives
  <2>1. Promise!Queue!Take \/ Promise!Queue!Discard
    BY <1>5, ReceiveIsPromised DEF Receives, DirectionInv
  <2>2. ~told /\ owed \in Nat /\ queue' # queue
    BY <1>5, ReceiveShrinks DEF Receives, DirectionInv, LooksInv
  <2>3. owed' = IF owed > 0 THEN owed - 1 ELSE 0
    BY <1>5, <2>2 DEF Receives
  <2>4. Promise!Receive
    BY <1>5, <2>1, <2>2, <2>3 DEF Receives, Promise!Receive
  <2>. QED  BY <2>4 DEF Mapped, Promise!Next
<1>. QED  BY <1>1, <1>2, <1>3, <1>4, <1>5 DEF ReceiverNext

\* Every step maps to a step, or to none.
LEMMA DirectionStepMaps == DirectionInv /\ [DirectionNext]_allvars => [Promise!Next]_Promise!vars
<1>. SUFFICES ASSUME DirectionInv, [DirectionNext]_allvars PROVE Mapped
  BY DEF Mapped
<1>1. CASE Ends
  <2>1. UNCHANGED Promise!fifo /\ Len(MessagesOf(queue)) = Len(queue)
    BY <1>1, StillStutters, QueueOfPromise DEF Ends, vars, shared, history, DirectionInv
  <2>2. Promise!End
    BY <1>1, <2>1 DEF Ends, looks, Promise!End
  <2>. QED  BY <2>2 DEF Mapped, Promise!Next
<1>2. CASE UNCHANGED allvars
  <2>1. UNCHANGED Promise!vars
    BY <1>2, StillStutters DEF allvars, vars, shared, history, looks, ending, Promise!vars
  <2>. QED  BY <2>1 DEF Mapped
<1>. QED  BY <1>1, <1>2, SenderMaps, ReceiverMaps DEF DirectionNext, DirectionInv

\* Whatever ends the channel and when: what was published before the end is
\* received, whole and in order, before recv reports it, and a send that looks
\* after the end publishes nothing (try_send_once, try_peek_or_closed).
THEOREM DirectionRefinement == DirectionSpec => ImplementsDirection
<1>1. DirectionInit => Promise!Init
  <2>. SUFFICES ASSUME DirectionInit PROVE Promise!Init
    OBVIOUS
  <2>1. Promise!Queue!Init
    BY DEF DirectionInit, Init, Promise!Queue!Init, MessagesOf
  <2>. QED  BY <2>1 DEF DirectionInit, Promise!Init
<1>. QED  BY <1>1, DirectionStepMaps, DirectionInvariance, PTL
          DEF DirectionSpec, ImplementsDirection, Promise!Spec

(***************************************************************************)
(* What follows from Direction for every implementation, here for the      *)
(* bytes of the ring.                                                      *)
(***************************************************************************)
Promised == INSTANCE DirectionProofs WITH
  Capacity <- RingSize,
  queue    <- MessagesOf(queue),
  used     <- write_cursor - read_cursor,
  admitted <- s_ready

\* Direction is the same under its own name and under that of its theorems.
LEMMA SamePromise == Promise!Spec => Promised!Spec
<1>1. Promise!Init => Promised!Init
  BY DEF Promise!Init, Promised!Init, Promise!Queue!Init, Promised!Queue!Init
<1>2. [Promise!Next]_Promise!vars => [Promised!Next]_Promised!vars
  BY DEF Promise!Next, Promised!Next, Promise!vars, Promised!vars, Promise!fifo, Promised!fifo,
         Promise!Admit, Promised!Admit, Promise!GiveUp, Promised!GiveUp, Promise!Put, Promised!Put,
         Promise!Receive, Promised!Receive, Promise!End, Promised!End,
         Promise!Report, Promised!Report, Promise!Ask, Promised!Ask,
         Promise!Queue!Put, Promised!Queue!Put, Promise!Queue!Take, Promised!Queue!Take,
         Promise!Queue!Discard, Promised!Queue!Discard, Promise!Queue!Remove, Promised!Queue!Remove,
         Promise!Queue!Size, Promised!Queue!Size
<1>. QED  BY <1>1, <1>2, PTL DEF Promise!Spec, Promised!Spec

\* Nothing is owed to a receiver that was told of the end.
DrainBeforeClosed == told => owed = 0

\* At most one message is published after the end.
AtMostOneLate == ended => Len(queue) <= owed + 1

\* recv reports the end only after the last message published before it, whose
\* bytes Direction says are those that were sent; and a close that the sender
\* did not see lets at most one more message into the ring, whatever its size
\* and the sizes of the messages (try_peek_or_closed, try_send_once).
THEOREM EndOfRing == DirectionSpec => [](DrainBeforeClosed /\ AtMostOneLate)
<1>1. DirectionInv /\ Promised!OneLate => AtMostOneLate
  BY QueueOfPromise DEF Promised!OneLate, AtMostOneLate, DirectionInv
<1>2. Promised!ToldLast => DrainBeforeClosed
  BY DEF Promised!ToldLast, DrainBeforeClosed
<1>. QED  BY <1>1, <1>2, DirectionRefinement, DirectionInvariance, SamePromise, Promised!EndOfDirection, PTL
          DEF ImplementsDirection
=============================================================================
