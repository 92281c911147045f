--------------------------- MODULE DirectionProofs ---------------------------
(***************************************************************************)
(* What follows from the promise of Direction alone, for whoever           *)
(* implements it: a receiver that was told of the end has received all     *)
(* that it was owed, and at most one message overtakes the end.            *)
(*                                                                         *)
(* The second is not inductive: a sender that was admitted before the end  *)
(* may still put its message.  It counts as if the message were there.     *)
(***************************************************************************)
EXTENDS Direction, SequenceTheorems, TLAPS

\* The messages that an admitted sender may still put.
Coming == IF admitted THEN 1 ELSE 0

\* The receiver was told of the end only with nothing owed to it.
ToldLast == told => ended /\ owed = 0

\* At most one message came after the end.
OneLate == ended => Len(queue) <= owed + 1

PromiseInv ==
  /\ queue \in Seq(Messages)
  /\ admitted \in BOOLEAN
  /\ owed \in Nat
  /\ owed <= Len(queue)
  /\ ~ended => owed = 0
  /\ ended => Len(queue) + Coming <= owed + 1
  /\ ToldLast

\* A message that is put makes the queue one longer.
LEMMA PutGrows ==
  ASSUME queue \in Seq(Messages), NEW m \in Messages, Queue!Put(m)
  PROVE  queue' \in Seq(Messages) /\ Len(queue') = Len(queue) + 1
BY AppendProperties DEF Queue!Put

\* One that is received makes it one shorter.
LEMMA ReceiveShrinks ==
  ASSUME queue \in Seq(Messages), Queue!Take \/ Queue!Discard
  PROVE  /\ Len(queue) \in Nat \ {0}
         /\ queue' \in Seq(Messages) /\ Len(queue') = Len(queue) - 1
<1>1. queue # <<>> /\ queue' = Tail(queue)
  BY DEF Queue!Take, Queue!Discard, Queue!Remove
<1>2. Len(queue) \in Nat /\ Len(queue) # 0
  BY <1>1, LenProperties, EmptySeq
<1>. QED  BY <1>1, <1>2, HeadTailProperties

\* No step breaks the invariant.
LEMMA PromiseKept == PromiseInv /\ [Next]_vars => PromiseInv'
<1>. SUFFICES ASSUME PromiseInv, [Next]_vars
              PROVE  PromiseInv'
  OBVIOUS
<1>0. queue \in Seq(Messages) /\ Len(queue) \in Nat /\ owed \in Nat
  BY LenProperties DEF PromiseInv
<1>1. CASE Admit
  <2>1. UNCHANGED <<queue, ended, owed, told>> /\ ~ended /\ admitted' \in BOOLEAN
    BY <1>1 DEF Admit, fifo
  <2>. QED  BY <2>1 DEF PromiseInv, ToldLast
<1>2. CASE GiveUp
  <2>1. UNCHANGED <<queue, ended, owed, told>> /\ ~admitted' /\ admitted' \in BOOLEAN
    BY <1>2 DEF GiveUp, fifo
  <2>2. ended => Len(queue) <= owed + 1
    BY <1>0 DEF PromiseInv, Coming
  <2>. QED  BY <1>0, <2>1, <2>2 DEF PromiseInv, ToldLast, Coming
<1>3. ASSUME NEW m \in Messages, Put(m)
      PROVE  PromiseInv'
  <2>1. UNCHANGED <<ended, owed, told>> /\ admitted /\ ~admitted' /\ admitted' \in BOOLEAN
    BY <1>3 DEF Put
  <2>2. queue' \in Seq(Messages) /\ Len(queue') = Len(queue) + 1
    BY <1>0, <1>3, PutGrows DEF Put
  <2>. QED  BY <1>0, <2>1, <2>2 DEF PromiseInv, ToldLast, Coming
<1>4. CASE Receive
  <2>1. UNCHANGED <<ended, admitted, told>> /\ ~told /\ owed' = IF owed > 0 THEN owed - 1 ELSE 0
    BY <1>4 DEF Receive
  <2>2. queue' \in Seq(Messages) /\ Len(queue') = Len(queue) - 1 /\ Len(queue) > 0
    BY <1>0, <1>4, ReceiveShrinks DEF Receive
  <2>3. Coming' = Coming /\ Coming \in {0, 1}
    BY <2>1 DEF Coming
  <2>4. CASE owed > 0
    BY <1>0, <2>1, <2>2, <2>3, <2>4 DEF PromiseInv, ToldLast
  <2>5. CASE owed = 0
    BY <1>0, <2>1, <2>2, <2>3, <2>5 DEF PromiseInv, ToldLast
  <2>. QED  BY <1>0, <2>4, <2>5
<1>5. CASE End
  <2>1. UNCHANGED <<queue, admitted, told>> /\ ~ended /\ ended' /\ owed' = Len(queue)
    BY <1>5 DEF End, fifo
  <2>2. Coming' \in {0, 1} /\ ~told
    BY <2>1 DEF Coming, PromiseInv, ToldLast
  <2>. QED  BY <1>0, <2>1, <2>2 DEF PromiseInv, ToldLast
<1>6. CASE Report
  <2>1. UNCHANGED <<queue, ended, admitted, owed>> /\ ended /\ owed = 0
    BY <1>6 DEF Report, fifo
  <2>. QED  BY <2>1 DEF PromiseInv, ToldLast, Coming
<1>7. CASE Ask
  <2>1. UNCHANGED <<queue, ended, admitted, owed>> /\ ~told'
    BY <1>7 DEF Ask, fifo
  <2>. QED  BY <2>1 DEF PromiseInv, ToldLast, Coming
<1>8. CASE UNCHANGED vars
  BY <1>8 DEF vars, fifo, PromiseInv, ToldLast, Coming
<1>. QED  BY <1>1, <1>2, <1>3, <1>4, <1>5, <1>6, <1>7, <1>8 DEF Next

\* The promise implies that nothing is owed to a receiver that was told of the
\* end, and that at most one message came after it.
THEOREM EndOfDirection == Spec => [](ToldLast /\ OneLate)
<1>1. Init => PromiseInv
  <2>. SUFFICES ASSUME Init
                PROVE  PromiseInv
    OBVIOUS
  <2>1. queue = <<>> /\ ~ended /\ ~admitted /\ admitted \in BOOLEAN /\ owed = 0 /\ ~told
    BY DEF Init, Queue!Init
  <2>2. queue \in Seq(Messages) /\ Len(queue) = 0
    BY <2>1, EmptySeq
  <2>. QED  BY <2>1, <2>2 DEF PromiseInv, ToldLast
<1>2. PromiseInv => ToldLast /\ OneLate
  <2>. SUFFICES ASSUME PromiseInv
                PROVE  OneLate
    BY DEF PromiseInv
  <2>1. Len(queue) \in Nat /\ owed \in Nat /\ Coming \in {0, 1}
    BY LenProperties DEF PromiseInv, Coming
  <2>. QED  BY <2>1 DEF PromiseInv, OneLate
<1>. QED  BY <1>1, <1>2, PromiseKept, PTL DEF Spec
=============================================================================
