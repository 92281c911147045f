--------------------------- MODULE WaitWakeProofs ---------------------------
(***************************************************************************)
(* Proofs about WaitWake, on either platform, for every capacity of the    *)
(* ring and every width of the notify words that WaitWakeAssumption        *)
(* allows, and whichever side may crash.                                   *)
(*                                                                         *)
(* That nobody sleeps on news is not inductive. What makes it so is what   *)
(* each side has been told since its last look that found nothing          *)
(* (ToldNews, ToldClosed): its notify word has moved, or its event is set, *)
(* or whoever has the news out still has the bump or the wake before it.   *)
(* That needs the parked word to be visible from the fence on (Armed), and *)
(* the notify word not to have come around to the snapshot (NotAround):    *)
(* the other side can bump it no more often than the ring takes messages,  *)
(* plus once for the close.                                                *)
(*                                                                         *)
(* The same invariant then shows that the model implements Direction.      *)
(***************************************************************************)
EXTENDS WaitWake, SequenceTheorems, TLAPS

(***************************************************************************)
(* The two sides, and what the helpers of the model do to one and to the   *)
(* other.                                                                  *)
(***************************************************************************)
\* There are two sides, each the peer of the other.
LEMMA PeerFacts ==
  ASSUME NEW e \in Sides
  PROVE  /\ Peer(e) \in Sides
         /\ Peer(e) # e
         /\ Peer(Peer(e)) = e
         /\ Sides = {e, Peer(e)}
         /\ e # Receiver <=> e = Sender
         /\ Peer(e) = Receiver <=> e = Sender
         /\ Peer(e) = Sender <=> e = Receiver
         /\ Sender \in Sides /\ Receiver \in Sides
BY DEF Sides, Sender, Receiver, Peer

\* The same, by name.
LEMMA TwoSides ==
  /\ Sender \in Sides /\ Receiver \in Sides /\ Receiver # Sender
  /\ Peer(Sender) = Receiver /\ Peer(Receiver) = Sender
BY DEF Sides, Sender, Receiver, Peer

\* The invariant, from its parts for one side and for the other.
LEMMA BothSides ==
  ASSUME NEW e \in Sides, TypeOK, CountInv, SideInv(e), SideInv(Peer(e))
  PROVE  IInv
BY PeerFacts DEF IInv

\* What Goto does to the program counters.
LEMMA GotoEffect ==
  ASSUME TypeOK, NEW e \in Sides, NEW l \in Labels, Goto(e, l)
  PROVE  /\ pc' \in [Sides -> Labels]
         /\ pc'[e] = l
         /\ pc'[Peer(e)] = pc[Peer(e)]
BY PeerFacts DEF TypeOK, Goto

\* What Store does to the buffers: the last entry of e is b.
LEMMA StoreEffect ==
  ASSUME TypeOK, NEW e \in Sides, NEW b \in {0, 1}, Store(e, b)
  PROVE  /\ buffer' \in [Sides -> Seq({0, 1})]
         /\ buffer'[e] # <<>>
         /\ buffer'[e][Len(buffer'[e])] = b
         /\ buffer'[Peer(e)] = buffer[Peer(e)]
<1>1. /\ buffer[e] \in Seq({0, 1})
      /\ buffer'[e] = Append(buffer[e], b)
      /\ buffer'[Peer(e)] = buffer[Peer(e)]
  BY PeerFacts DEF TypeOK, Store
<1>2. /\ Append(buffer[e], b) \in Seq({0, 1})
      /\ Len(Append(buffer[e], b)) = Len(buffer[e]) + 1
      /\ Append(buffer[e], b)[Len(buffer[e]) + 1] = b
  BY <1>1, AppendProperties
<1>3. buffer' \in [Sides -> Seq({0, 1})]
  BY <1>1, <1>2 DEF TypeOK, Store
<1>4. Append(buffer[e], b) # <<>>
  BY <1>1, AppendProperties
<1>. QED  BY <1>1, <1>2, <1>3, <1>4

\* What Flush does: the last store of e is visible, none is on its way.
LEMMA FlushEffect ==
  ASSUME TypeOK, NEW e \in Sides, Flush(e)
  PROVE  /\ parked' \in [Sides -> {0, 1}]
         /\ parked'[e] = IF buffer[e] = <<>> THEN parked[e] ELSE buffer[e][Len(buffer[e])]
         /\ parked'[Peer(e)] = parked[Peer(e)]
         /\ buffer' \in [Sides -> Seq({0, 1})]
         /\ buffer'[e] = <<>>
         /\ buffer'[Peer(e)] = buffer[Peer(e)]
<1>1. buffer[e] \in Seq({0, 1})
  BY DEF TypeOK
<1>2. <<>> \in Seq({0, 1})
  BY EmptySeq
<1>3. buffer[e] # <<>> => buffer[e][Len(buffer[e])] \in {0, 1}
  BY <1>1
<1>. QED  BY <1>1, <1>2, <1>3, PeerFacts DEF TypeOK, Flush

\* What Forget does to the snapshots.
LEMMA ForgetEffect ==
  ASSUME TypeOK, NEW e \in Sides, Forget(e)
  PROVE  /\ stage' \in [Sides -> {"try", "first", "second"}]
         /\ moved' \in [Sides -> 0 .. NotifyMod - 1]
         /\ stage'[e] = "try" /\ moved'[e] = 0
         /\ stage'[Peer(e)] = stage[Peer(e)] /\ moved'[Peer(e)] = moved[Peer(e)]
BY PeerFacts, WaitWakeAssumption DEF TypeOK, Forget

\* What LeaveWait does to the snapshots and the buffers.
LEMMA LeaveEffect ==
  ASSUME TypeOK, NEW e \in Sides, LeaveWait(e)
  PROVE  /\ stage' \in [Sides -> {"try", "first", "second"}]
         /\ moved' \in [Sides -> 0 .. NotifyMod - 1]
         /\ stage'[e] = "try" /\ moved'[e] = 0
         /\ stage'[Peer(e)] = stage[Peer(e)] /\ moved'[Peer(e)] = moved[Peer(e)]
         /\ buffer' \in [Sides -> Seq({0, 1})]
         /\ buffer'[Peer(e)] = buffer[Peer(e)]
<1>1. Forget(e)
  BY DEF LeaveWait
<1>2. CASE stage[e] = "second"
  BY <1>1, <1>2, ForgetEffect, StoreEffect DEF LeaveWait
<1>3. CASE stage[e] # "second"
  BY <1>1, <1>3, ForgetEffect DEF LeaveWait, TypeOK
<1>. QED  BY <1>2, <1>3

\* What LookOn moves, and what it leaves alone.
LEMMA LookOnEffect ==
  ASSUME TypeOK, NEW e \in Sides, NEW l \in Labels, LookOn(e, l)
  PROVE  /\ pc' \in [Sides -> Labels]
         /\ pc'[e] = l
         /\ pc'[Peer(e)] = pc[Peer(e)]
         /\ UNCHANGED <<buffer, moved, stage>>
BY GotoEffect DEF LookOn, wait

\* Where a look that found nothing leads, by its stage.
LEMMA NothingEffect ==
  ASSUME TypeOK, NEW e \in Sides, Nothing(e)
  PROVE  /\ pc' \in [Sides -> Labels]
         /\ stage[e] = "try" => pc'[e] = "snap"
         /\ stage[e] = "first" => pc'[e] = "deadline"
         /\ stage[e] = "second" => pc'[e] = "sleep"
         /\ pc'[Peer(e)] = pc[Peer(e)]
         /\ UNCHANGED <<buffer, moved, stage>>
<1>1. stage[e] \in {"try", "first", "second"}
  BY DEF TypeOK
<1>2. CASE stage[e] = "try"
  BY <1>2, GotoEffect DEF Nothing, wait, Labels
<1>3. CASE stage[e] = "first"
  BY <1>3, GotoEffect DEF Nothing, wait, Labels
<1>4. CASE stage[e] = "second"
  BY <1>4, GotoEffect DEF Nothing, wait, Labels
<1>. QED  BY <1>1, <1>2, <1>3, <1>4

\* Where a look that found the end leads.
LEMMA FailedEffect ==
  ASSUME TypeOK, NEW e \in Sides, Failed(e)
  PROVE  /\ pc' \in [Sides -> Labels]
         /\ pc'[e] = "failed"
         /\ pc'[Peer(e)] = pc[Peer(e)]
BY GotoEffect DEF Failed, Labels

\* Where a look that found news leads.
LEMMA FoundEffect ==
  ASSUME TypeOK, NEW e \in Sides, Found(e)
  PROVE  /\ pc' \in [Sides -> Labels]
         /\ pc'[e] = IF e = Sender /\ stage[e] # "try" THEN "ready" ELSE "commit"
         /\ pc'[Peer(e)] = pc[Peer(e)]
BY GotoEffect DEF Found, Labels

\* A bump adds one to a snapshot that is not about to wrap.
LEMMA BumpEffect ==
  ASSUME TypeOK, NEW e \in Sides, Bump(e), moved[e] < NotifyMod - 1
  PROVE  /\ moved' \in [Sides -> 0 .. NotifyMod - 1]
         /\ moved'[e] = IF stage[e] = "try" THEN moved[e] ELSE moved[e] + 1
         /\ moved'[Peer(e)] = moved[Peer(e)]
BY PeerFacts, WaitWakeAssumption DEF TypeOK, Bump

\* A wake ends a sleep, or sets the event.
LEMMA WakeEffect ==
  ASSUME TypeOK, NEW e \in Sides, NEW next \in [Sides -> Labels], WakeHandle(e, next)
  PROVE  /\ pc' \in [Sides -> Labels]
         /\ pc'[e] = IF pc[e] = "asleep" THEN "unpark" ELSE next[e]
         /\ pc'[Peer(e)] = next[Peer(e)]
         /\ event' \in [Sides -> BOOLEAN]
         /\ event'[e] = IF pc[e] = "asleep" THEN event[e] ELSE Platform = "windows"
         /\ event'[Peer(e)] = event[Peer(e)]
BY PeerFacts DEF TypeOK, WakeHandle, Labels

(***************************************************************************)
(* Numbers.                                                                *)
(***************************************************************************)
\* The counters as numbers, for the arithmetic below.
LEMMA Counts ==
  ASSUME TypeOK
  PROVE  /\ Cap \in Nat /\ Cap > 0
         /\ count \in Nat /\ count <= Cap
         /\ owed \in Nat /\ owed <= Cap
BY WaitWakeAssumption DEF TypeOK

\* The same in the next state.
LEMMA CountsNext ==
  ASSUME TypeOK'
  PROVE  /\ count' \in Nat /\ count' <= Cap
         /\ owed' \in Nat /\ owed' <= Cap
BY WaitWakeAssumption DEF TypeOK

\* A close that has not bumped e's word yet will wake e.
LEMMA NotBumpedYet ==
  ASSUME NEW e \in Sides, ClosedBump(e) = 0, closer # "none"
  PROVE  CloserWillWake(e)
<1>1. ToBeBumped(e)
  BY DEF ClosedBump
<1>. QED  BY <1>1 DEF ToBeBumped, CloserWillWake, Closing

\* The terms of NotAround as numbers.
LEMMA Ranges ==
  ASSUME NEW e \in Sides, TypeOK
  PROVE  /\ moved[e] \in Nat
         /\ Unbumped(e) \in {0, 1} /\ ClosedBump(e) \in {0, 1}
         /\ Room(e) \in 0 .. Cap
<1>1. count \in 0 .. Cap /\ Cap \in Nat
  BY WaitWakeAssumption DEF TypeOK
<1>2. \A n \in 0 .. Cap : Cap - n \in 0 .. Cap
  BY <1>1
<1>3. moved[e] \in Nat
  BY WaitWakeAssumption DEF TypeOK
<1>. QED  BY <1>1, <1>2, <1>3 DEF Room, Unbumped, ClosedBump

\* The same in the next state.
LEMMA RangesNext ==
  ASSUME NEW e \in Sides, TypeOK'
  PROVE  /\ moved'[e] \in Nat
         /\ Unbumped(e)' \in {0, 1} /\ ClosedBump(e)' \in {0, 1}
         /\ Room(e)' \in 0 .. Cap
<1>1. count' \in 0 .. Cap /\ Cap \in Nat
  BY WaitWakeAssumption DEF TypeOK
<1>2. \A n \in 0 .. Cap : Cap - n \in 0 .. Cap
  BY <1>1
<1>3. moved'[e] \in Nat
  BY WaitWakeAssumption DEF TypeOK
<1>. QED  BY <1>1, <1>2, <1>3 DEF Room, Unbumped, ClosedBump

\* A word that has not moved has not gone around.
LEMMA AtRest ==
  ASSUME NEW e \in Sides, TypeOK', moved'[e] = 0
  PROVE  NotAround(e)'
BY RangesNext, WaitWakeAssumption DEF NotAround

(***************************************************************************)
(* A look at the condition.  What it does to the other side, and to the    *)
(* side that looks when the wait ends and when it goes on.                 *)
(***************************************************************************)
Looks == {"peek", "ready", "repeek", "space"}

ProbedOrNot ==
  \/ UNCHANGED <<closed, closer>>
  \/ closer = "none" /\ closed' = TRUE /\ closer' = "bump receiver"

OthersStay(e) ==
  /\ pc'[Peer(e)] = pc[Peer(e)]
  /\ stage'[Peer(e)] = stage[Peer(e)] /\ moved'[Peer(e)] = moved[Peer(e)]
  /\ buffer'[Peer(e)] = buffer[Peer(e)]
  /\ UNCHANGED <<count, parked, event>>
  /\ ProbedOrNot

\* A look of e keeps what the invariant says of the other side.
LEMMA LookSparesPeer ==
  ASSUME IInv, NEW e \in Sides, pc[e] \in Looks, pc'[e] # "bump", OthersStay(e)
  PROVE  SideInv(Peer(e))'
<1>0. TypeOK /\ CountInv /\ SideInv(Peer(e))
  BY PeerFacts DEF IInv
<1>1. ClosedBump(Peer(e))' = ClosedBump(Peer(e))
  BY DEF OthersStay, ProbedOrNot, ClosedBump, ToBeBumped
<1>2. StageOf(Peer(e))' /\ Armed(Peer(e))'
  BY <1>0 DEF OthersStay, SideInv, StageOf, Armed
<1>3. NotAround(Peer(e))'
  BY <1>0, <1>1, PeerFacts DEF OthersStay, Looks, SideInv, NotAround, Unbumped, Room
<1>4. ToldNews(Peer(e))'
  BY <1>0, PeerFacts DEF OthersStay, Looks, SideInv, ToldNews, SawNoNews, News, Signalled
<1>5. ToldClosed(Peer(e))'
  <2>1. CASE UNCHANGED <<closed, closer>>
    BY <1>0, <1>1, <2>1 DEF OthersStay, SideInv, ToldClosed, SawOpen, Signalled, CloserWillWake
  <2>2. CASE closer = "none" /\ closed' = TRUE /\ closer' = "bump receiver"
    BY <1>1, <2>2 DEF ToldClosed, ClosedBump
  <2>. QED  BY <2>1, <2>2 DEF OthersStay, ProbedOrNot
<1>6. WokenOnNews(Peer(e))'
  <2>1. (pc[Peer(e)] = "asleep" /\ News(Peer(e)) => pc[Peer(e)] # "asleep")'
    BY <1>0, PeerFacts DEF OthersStay, Looks, SideInv, WokenOnNews, News, PeerWillWake
  <2>2. CASE UNCHANGED <<closed, closer>>
    BY <1>0, <2>1, <2>2 DEF OthersStay, SideInv, WokenOnNews, CloserWillWake
  <2>3. CASE closer = "none" /\ closed' = TRUE /\ closer' = "bump receiver"
    BY <2>1, <2>3 DEF WokenOnNews, CloserWillWake, Closing
  <2>. QED  BY <2>2, <2>3 DEF OthersStay, ProbedOrNot
<1>. QED  BY <1>2, <1>3, <1>4, <1>5, <1>6 DEF SideInv

\* A look that ends the wait of e keeps the invariant: e owes and is owed nothing.
LEMMA LookThatEndsTheWait ==
  ASSUME IInv, NEW e \in Sides, pc[e] \in Looks, OthersStay(e), TypeOK', CountInv',
         pc'[e] \in {"ready", "commit", "failed"}, stage'[e] = "try", moved'[e] = 0
  PROVE  IInv'
<1>1. SideInv(Peer(e))'
  BY LookSparesPeer
<1>2. NotAround(e)'
  BY AtRest
<1>3. SideInv(e)'
  BY <1>2 DEF SideInv, StageOf, Armed, ToldNews, SawNoNews, ToldClosed, SawOpen, WokenOnNews
<1>. QED  BY <1>1, <1>3, PeerFacts DEF IInv

\* A look that found nothing keeps it: e saw no news, or it was open, just now.
LEMMA LookThatGoesOn ==
  ASSUME IInv, NEW e \in Sides, pc[e] \in Looks, OthersStay(e), TypeOK', CountInv',
         UNCHANGED <<stage, moved, buffer>>,
         pc'[e] \in {"ready", "repeek", "space", "snap", "deadline", "sleep"},
         pc'[e] = "snap" => stage[e] = "try",
         pc'[e] = "deadline" => stage[e] = "first",
         pc'[e] = "sleep" => stage[e] = "second",
         pc'[e] \in {"ready", "sleep"} => ~News(e) \/ SawNoNews(e),
         pc'[e] \in {"space", "sleep"} => ~closed' \/ (closed /\ SawOpen(e))
  PROVE  IInv'
<1>0. TypeOK /\ CountInv /\ SideInv(e)
  BY DEF IInv
<1>1. SideInv(Peer(e))'
  BY LookSparesPeer
<1>2. StageOf(e)' /\ Armed(e)'
  BY <1>0 DEF OthersStay, SideInv, StageOf, Armed
<1>3. NotAround(e)'
  BY <1>0 DEF OthersStay, ProbedOrNot, SideInv, NotAround, Unbumped, Room, ClosedBump, ToBeBumped
<1>4. ToldNews(e)'
  BY <1>0 DEF OthersStay, SideInv, ToldNews, SawNoNews, News, Signalled
<1>5. ToldClosed(e)'
  <2>1. CASE ~closed' \/ ~SawOpen(e)'
    BY <2>1 DEF ToldClosed
  <2>2. CASE closed /\ SawOpen(e)
    <3>1. UNCHANGED <<closed, closer>>
      BY <1>0, <2>2 DEF OthersStay, ProbedOrNot, CountInv
    <3>. QED  BY <1>0, <2>2, <3>1 DEF OthersStay, SideInv, ToldClosed, Signalled, ClosedBump, ToBeBumped, CloserWillWake
  <2>. QED  BY <2>1, <2>2 DEF SawOpen
<1>6. WokenOnNews(e)'
  BY DEF WokenOnNews
<1>. QED  BY <1>1, <1>2, <1>3, <1>4, <1>5, <1>6, PeerFacts DEF SideInv, IInv

\* What the receiver finds before it looks at the state.
LEMMA PeekKeeps ==
  ASSUME IInv, Peek
  PROVE  IInv'
<1>0. TypeOK /\ CountInv /\ Receiver \in Sides /\ Receiver # Sender /\ Peer(Receiver) = Sender
  BY TwoSides DEF IInv
<1>. USE DEF memory, ending
<1>1. CASE count > 0
  <2>1. /\ Found(Receiver) /\ LeaveWait(Receiver) /\ pc[Receiver] = "peek"
        /\ UNCHANGED <<memory, event, due, ending>>
    BY <1>1 DEF Peek, Found
  <2>2. /\ pc' \in [Sides -> Labels] /\ pc'[Receiver] = "commit"
        /\ pc'[Sender] = pc[Sender]
    BY <1>0, <2>1, FoundEffect
  <2>3. TypeOK'
    BY <1>0, <2>1, <2>2, LeaveEffect DEF TypeOK
  <2>4. CountInv'
    BY <1>0, <1>1, <2>1, <2>2 DEF CountInv, DrainBeforeClosed
  <2>5. OthersStay(Receiver) /\ stage'[Receiver] = "try" /\ moved'[Receiver] = 0
    BY <1>0, <2>1, <2>2, LeaveEffect DEF OthersStay, ProbedOrNot
  <2>. QED  BY <1>0, <2>1, <2>2, <2>3, <2>4, <2>5, LookThatEndsTheWait DEF Looks
<1>2. CASE ~(count > 0)
  <2>1. /\ LookOn(Receiver, "ready") /\ pc[Receiver] = "peek"
        /\ UNCHANGED <<memory, event, due, ending>>
    BY <1>2 DEF Peek
  <2>2. /\ pc' \in [Sides -> Labels] /\ pc'[Receiver] = "ready"
        /\ pc'[Sender] = pc[Sender] /\ UNCHANGED <<buffer, moved, stage>>
    BY <1>0, <2>1, LookOnEffect DEF Labels
  <2>3. TypeOK'
    BY <1>0, <2>1, <2>2 DEF TypeOK
  <2>4. CountInv'
    BY <1>0, <2>1, <2>2 DEF CountInv, DrainBeforeClosed
  <2>5. OthersStay(Receiver)
    BY <1>0, <2>1, <2>2 DEF OthersStay, ProbedOrNot
  <2>6. ~News(Receiver)
    BY <1>0, <1>2 DEF News
  <2>. QED  BY <1>0, <2>1, <2>2, <2>3, <2>4, <2>5, <2>6, LookThatGoesOn DEF Looks
<1>. QED  BY <1>1, <1>2

\* From here e has seen the channel open, or leaves.
LEMMA CheckReadyKeeps ==
  ASSUME IInv, NEW e \in Sides, CheckReady(e)
  PROVE  IInv'
<1>0. /\ TypeOK /\ CountInv /\ pc[e] = "ready"
      /\ UNCHANGED <<memory, event, due, ending>>
  BY DEF IInv, CheckReady
<1>. USE DEF memory, ending
<1>1. CASE closed /\ e = Sender
  <2>1. Failed(e) /\ LeaveWait(e)
    BY <1>1 DEF CheckReady, Failed
  <2>2. /\ pc' \in [Sides -> Labels] /\ pc'[e] = "failed"
        /\ pc'[Peer(e)] = pc[Peer(e)]
    BY <1>0, <2>1, FailedEffect
  <2>3. TypeOK'
    BY <1>0, <2>1, <2>2, LeaveEffect DEF TypeOK
  <2>4. CountInv'
    BY <1>0, <1>1, <2>2, PeerFacts DEF CountInv, DrainBeforeClosed
  <2>5. OthersStay(e) /\ stage'[e] = "try" /\ moved'[e] = 0
    BY <1>0, <2>1, <2>2, LeaveEffect DEF OthersStay, ProbedOrNot
  <2>. QED  BY <1>0, <2>2, <2>3, <2>4, <2>5, LookThatEndsTheWait DEF Looks
<1>2. CASE ~closed /\ e # Sender
  <2>1. Nothing(e) /\ e = Receiver /\ Peer(e) = Sender
    BY <1>2, PeerFacts DEF CheckReady
  <2>2. /\ pc' \in [Sides -> Labels]
        /\ stage[e] = "try" => pc'[e] = "snap"
        /\ stage[e] = "first" => pc'[e] = "deadline"
        /\ stage[e] = "second" => pc'[e] = "sleep"
        /\ pc'[Peer(e)] = pc[Peer(e)] /\ UNCHANGED <<buffer, moved, stage>>
    BY <1>0, <2>1, NothingEffect
  <2>3. stage[e] \in {"try", "first", "second"}
    BY <1>0 DEF TypeOK
  <2>4. pc'[e] \in {"snap", "deadline", "sleep"}
    BY <2>2, <2>3
  <2>5. TypeOK'
    BY <1>0, <2>2 DEF TypeOK
  <2>6. CountInv'
    BY <1>0, <2>1, <2>2, <2>4 DEF CountInv, DrainBeforeClosed
  <2>7. OthersStay(e)
    BY <1>0, <2>2 DEF OthersStay, ProbedOrNot
  <2>8. /\ pc'[e] = "sleep" => stage[e] = "second"
        /\ pc'[e] = "snap" => stage[e] = "try"
        /\ pc'[e] = "deadline" => stage[e] = "first"
    BY <2>2, <2>3
  <2>9. pc'[e] = "sleep" => SawNoNews(e)
    BY <1>0, <2>1, <2>8 DEF SawNoNews
  <2>. QED
    BY <1>0, <1>2, <2>2, <2>4, <2>5, <2>6, <2>7, <2>8, <2>9, LookThatGoesOn DEF Looks
<1>3. CASE (closed /\ e # Sender) \/ (~closed /\ e = Sender)
  <2>1. PICK l \in {"repeek", "space"} :
           LookOn(e, l) /\ (l = "repeek" => closed /\ e = Receiver) /\ (l = "space" => ~closed /\ e = Sender)
    BY <1>3, PeerFacts DEF CheckReady
  <2>2. /\ pc' \in [Sides -> Labels] /\ pc'[e] = l
        /\ pc'[Peer(e)] = pc[Peer(e)] /\ UNCHANGED <<buffer, moved, stage>>
    BY <1>0, <2>1, LookOnEffect DEF Labels
  <2>3. TypeOK'
    BY <1>0, <2>2 DEF TypeOK
  <2>4. CountInv'
    BY <1>0, <2>1, <2>2, PeerFacts DEF CountInv, DrainBeforeClosed
  <2>5. OthersStay(e)
    BY <1>0, <2>2 DEF OthersStay, ProbedOrNot
  <2>6. pc'[e] \in {"repeek", "space"} /\ (pc'[e] = "space" => ~closed')
    BY <1>0, <2>1, <2>2
  <2>. QED  BY <1>0, <2>2, <2>3, <2>4, <2>5, <2>6, LookThatGoesOn DEF Looks
<1>. QED  BY <1>1, <1>2, <1>3, PeerFacts

\* The peer is dead: the side that finds it becomes the closer.
LEMMA ProbeFindsDeathKeeps ==
  ASSUME IInv, NEW e \in Sides, ProbeFindsDeath(e)
  PROVE  IInv'
<1>0. /\ TypeOK /\ CountInv /\ pc[e] = "ready"
      /\ ~closed /\ closer = "none"
      /\ closed' = TRUE /\ owed' = count /\ closer' = "bump receiver" /\ owner' = e
      /\ due' \in [Sides -> BOOLEAN]
      /\ UNCHANGED <<count, parked, event>>
  BY DEF IInv, CountInv, TypeOK, ProbeFindsDeath
<1>a. count' \in 0 .. Cap /\ owed' \in 0 .. Cap
  BY <1>0 DEF TypeOK
<1>b. owed' <= count' /\ closed' /\ closer' # "none"
  <2>1. count' = count /\ owed' = count
    BY <1>0
  <2>2. owed' <= count'
    <3>1. count \in Nat
      BY <1>0, Counts
    <3>. QED  BY <2>1, <3>1
  <2>3. closed' /\ closer' # "none"
    BY <1>0
  <2>. QED  BY <2>2, <2>3
<1>1. CASE e = Sender
  <2>1. Failed(e) /\ LeaveWait(e)
    BY <1>1 DEF ProbeFindsDeath, Failed
  <2>2. /\ pc' \in [Sides -> Labels] /\ pc'[e] = "failed"
        /\ pc'[Peer(e)] = pc[Peer(e)]
    BY <1>0, <2>1, FailedEffect
  <2>3. TypeOK'
    BY <1>0, <1>a, <2>1, <2>2, LeaveEffect DEF TypeOK, Closing
  <2>4. pc'[Sender] = "failed" /\ pc'[Receiver] = pc[Receiver] /\ pc[Receiver] # "failed"
    BY <1>0, <1>1, <2>2, PeerFacts DEF CountInv
  <2>5. CountInv'
    BY <1>0, <1>b, <2>4 DEF CountInv, DrainBeforeClosed
  <2>6. OthersStay(e) /\ stage'[e] = "try" /\ moved'[e] = 0
    BY <1>0, <2>1, <2>2, LeaveEffect DEF OthersStay, ProbedOrNot
  <2>. QED  BY <1>0, <2>2, <2>3, <2>5, <2>6, LookThatEndsTheWait DEF Looks
<1>2. CASE e # Sender
  <2>1. LookOn(e, "repeek") /\ e = Receiver /\ Peer(e) = Sender
    BY <1>2, PeerFacts DEF ProbeFindsDeath
  <2>2. /\ pc' \in [Sides -> Labels] /\ pc'[e] = "repeek"
        /\ pc'[Peer(e)] = pc[Peer(e)] /\ UNCHANGED <<buffer, moved, stage>>
    BY <1>0, <2>1, LookOnEffect DEF Labels
  <2>3. TypeOK'
    BY <1>0, <1>a, <2>2 DEF TypeOK, Closing
  <2>4. CountInv'
    BY <1>0, <1>b, <2>1, <2>2 DEF CountInv, DrainBeforeClosed
  <2>5. OthersStay(e)
    BY <1>0, <2>2 DEF OthersStay, ProbedOrNot
  <2>. QED  BY <1>0, <2>2, <2>3, <2>4, <2>5, LookThatGoesOn DEF Looks
<1>. QED  BY <1>1, <1>2

\* The last look of a receiver that found the end.
LEMMA RePeekKeeps ==
  ASSUME IInv, RePeek
  PROVE  IInv'
<1>0. /\ TypeOK /\ CountInv /\ Receiver \in Sides /\ Receiver # Sender /\ Peer(Receiver) = Sender
      /\ pc[Receiver] = "repeek"
      /\ UNCHANGED <<memory, event, due, ending>>
  BY TwoSides DEF IInv, RePeek
<1>. USE DEF memory, ending
<1>1. LeaveWait(Receiver) /\ (Found(Receiver) \/ Failed(Receiver))
  BY DEF RePeek, Found, Failed
<1>2. /\ pc' \in [Sides -> Labels] /\ pc'[Sender] = pc[Sender]
      /\ pc'[Receiver] = IF count > 0 THEN "commit" ELSE "failed"
  BY <1>0, FoundEffect, FailedEffect DEF RePeek
<1>3. TypeOK'
  BY <1>0, <1>1, <1>2, LeaveEffect DEF TypeOK
<1>4. CountInv'
  BY <1>0, <1>2, Counts DEF CountInv, DrainBeforeClosed
<1>5. OthersStay(Receiver) /\ stage'[Receiver] = "try" /\ moved'[Receiver] = 0
  BY <1>0, <1>1, <1>2, LeaveEffect DEF OthersStay, ProbedOrNot
<1>. QED  BY <1>0, <1>2, <1>3, <1>4, <1>5, LookThatEndsTheWait DEF Looks

\* From here the sender has seen a full ring, or commits.
LEMMA LookForSpaceKeeps ==
  ASSUME IInv, LookForSpace
  PROVE  IInv'
<1>0. /\ TypeOK /\ CountInv /\ Sender \in Sides /\ Receiver # Sender /\ Peer(Sender) = Receiver
      /\ pc[Sender] = "space"
      /\ UNCHANGED <<memory, event, due, ending>>
  BY TwoSides DEF IInv, LookForSpace
<1>. USE DEF memory, ending
<1>1. CASE count < Cap
  <2>1. Found(Sender) /\ LeaveWait(Sender)
    BY <1>1 DEF LookForSpace, Found
  <2>2. /\ pc' \in [Sides -> Labels] /\ pc'[Sender] \in {"ready", "commit"}
        /\ pc'[Receiver] = pc[Receiver]
    BY <1>0, <2>1, FoundEffect
  <2>3. TypeOK'
    BY <1>0, <2>1, <2>2, LeaveEffect DEF TypeOK
  <2>4. CountInv'
    BY <1>0, <1>1, <2>1, <2>2 DEF CountInv, DrainBeforeClosed
  <2>5. OthersStay(Sender) /\ stage'[Sender] = "try" /\ moved'[Sender] = 0
    BY <1>0, <2>1, <2>2, LeaveEffect DEF OthersStay, ProbedOrNot
  <2>. QED  BY <1>0, <2>1, <2>2, <2>3, <2>4, <2>5, LookThatEndsTheWait DEF Looks
<1>2. CASE ~(count < Cap)
  <2>1. Nothing(Sender)
    BY <1>2 DEF LookForSpace
  <2>2. /\ pc' \in [Sides -> Labels]
        /\ stage[Sender] = "try" => pc'[Sender] = "snap"
        /\ stage[Sender] = "first" => pc'[Sender] = "deadline"
        /\ stage[Sender] = "second" => pc'[Sender] = "sleep"
        /\ pc'[Receiver] = pc[Receiver] /\ UNCHANGED <<buffer, moved, stage>>
    BY <1>0, <2>1, NothingEffect
  <2>3. stage[Sender] \in {"try", "first", "second"}
    BY <1>0 DEF TypeOK
  <2>4. pc'[Sender] \in {"snap", "deadline", "sleep"}
    BY <2>2, <2>3
  <2>5. TypeOK'
    BY <1>0, <2>2 DEF TypeOK
  <2>6. CountInv'
    BY <1>0, <2>2, <2>4 DEF CountInv, DrainBeforeClosed
  <2>7. OthersStay(Sender)
    BY <1>0, <2>2 DEF OthersStay, ProbedOrNot
  <2>8. /\ pc'[Sender] = "sleep" => stage[Sender] = "second"
        /\ pc'[Sender] = "snap" => stage[Sender] = "try"
        /\ pc'[Sender] = "deadline" => stage[Sender] = "first"
    BY <2>2, <2>3
  <2>9. ~News(Sender)
    BY <1>0, <1>2 DEF News
  <2>10. pc'[Sender] = "sleep" => ~closed' \/ (closed /\ SawOpen(Sender))
    BY <1>0, <2>8 DEF SawOpen
  <2>. QED
    BY <1>0, <2>2, <2>4, <2>5, <2>6, <2>7, <2>8, <2>9, <2>10, LookThatGoesOn DEF Looks
<1>. QED  BY <1>1, <1>2

(***************************************************************************)
(* One lemma for every other action, in each of which the parts of the     *)
(* invariant come in the same order.                                       *)
(***************************************************************************)
\* A call starts with nothing snapshot.
LEMMA CallKeeps ==
  ASSUME IInv, NEW e \in Sides, Call(e)
  PROVE  IInv'
<1>0. TypeOK /\ CountInv /\ SideInv(e) /\ SideInv(Peer(e))
  BY PeerFacts DEF IInv
<1>1. /\ pc' \in [Sides -> Labels]
      /\ pc[e] \in {"idle", "failed"}
      /\ pc'[e] \in {"ready", "peek"} /\ (e = Receiver => pc'[e] = "peek")
      /\ pc'[Peer(e)] = pc[Peer(e)]
      /\ UNCHANGED <<memory, wait, buffer, event, due, ending>>
  BY <1>0, GotoEffect, PeerFacts DEF Call, FirstLook, Labels
<1>. USE DEF memory, wait, local, ending
<1>2. TypeOK'
  BY <1>0, <1>1 DEF TypeOK
<1>3. CountInv'
  BY <1>0, <1>1, PeerFacts DEF CountInv, DrainBeforeClosed
<1>4. SideInv(e)'
  <2>1. StageOf(e)'
    BY <1>0, <1>1 DEF SideInv, StageOf
  <2>2. Armed(e)'
    BY <1>0, <1>1 DEF SideInv, Armed
  <2>3. NotAround(e)'
    BY <1>0, <1>1 DEF SideInv, NotAround, Unbumped, ClosedBump, ToBeBumped, Room
  <2>4. ToldNews(e)'
    BY <1>1 DEF ToldNews, SawNoNews
  <2>5. ToldClosed(e)'
    BY <1>1 DEF ToldClosed, SawOpen
  <2>6. WokenOnNews(e)'
    BY <1>1 DEF WokenOnNews
  <2>. QED  BY <2>1, <2>2, <2>3, <2>4, <2>5, <2>6 DEF SideInv
<1>5. SideInv(Peer(e))'
  <2>1. StageOf(Peer(e))'
    BY <1>0, <1>1 DEF SideInv, StageOf
  <2>2. Armed(Peer(e))'
    BY <1>0, <1>1 DEF SideInv, Armed
  <2>3. NotAround(Peer(e))'
    BY <1>0, <1>1, PeerFacts DEF SideInv, NotAround, Unbumped, ClosedBump, ToBeBumped, Room
  <2>4. ToldNews(Peer(e))'
    BY <1>0, <1>1, PeerFacts DEF SideInv, ToldNews, SawNoNews, News, Signalled
  <2>5. ToldClosed(Peer(e))'
    BY <1>0, <1>1 DEF SideInv, ToldClosed, SawOpen, Signalled, ClosedBump, ToBeBumped, CloserWillWake
  <2>6. WokenOnNews(Peer(e))'
    BY <1>0, <1>1, PeerFacts DEF SideInv, WokenOnNews, News, PeerWillWake, CloserWillWake
  <2>. QED  BY <2>1, <2>2, <2>3, <2>4, <2>5, <2>6 DEF SideInv
<1>. QED  BY <1>2, <1>3, <1>4, <1>5, PeerFacts DEF IInv

\* The clock moves nothing the invariant speaks of.
LEMMA ProbeDueKeeps ==
  ASSUME IInv, NEW e \in Sides, ProbeDue(e)
  PROVE  IInv'
<1>0. TypeOK /\ CountInv /\ SideInv(e) /\ SideInv(Peer(e))
  BY PeerFacts DEF IInv
<1>1. /\ due' \in [Sides -> BOOLEAN]
      /\ UNCHANGED <<memory, wait, buffer, event, pc, ending>>
  BY <1>0 DEF ProbeDue, TypeOK
<1>. USE DEF memory, wait, local, ending
<1>2. TypeOK'
  BY <1>0, <1>1 DEF TypeOK
<1>3. CountInv'
  BY <1>0, <1>1 DEF CountInv, DrainBeforeClosed
<1>4. SideInv(e)'
  <2>1. StageOf(e)'
    BY <1>0, <1>1 DEF SideInv, StageOf
  <2>2. Armed(e)'
    BY <1>0, <1>1 DEF SideInv, Armed
  <2>3. NotAround(e)'
    BY <1>0, <1>1 DEF SideInv, NotAround, Unbumped, ClosedBump, ToBeBumped, Room
  <2>4. ToldNews(e)'
    BY <1>0, <1>1 DEF SideInv, ToldNews, SawNoNews, News, Signalled
  <2>5. ToldClosed(e)'
    BY <1>0, <1>1 DEF SideInv, ToldClosed, SawOpen, Signalled, ClosedBump, ToBeBumped, CloserWillWake
  <2>6. WokenOnNews(e)'
    BY <1>0, <1>1 DEF SideInv, WokenOnNews, News, PeerWillWake, CloserWillWake
  <2>. QED  BY <2>1, <2>2, <2>3, <2>4, <2>5, <2>6 DEF SideInv
<1>5. SideInv(Peer(e))'
  <2>1. StageOf(Peer(e))'
    BY <1>0, <1>1 DEF SideInv, StageOf
  <2>2. Armed(Peer(e))'
    BY <1>0, <1>1 DEF SideInv, Armed
  <2>3. NotAround(Peer(e))'
    BY <1>0, <1>1 DEF SideInv, NotAround, Unbumped, ClosedBump, ToBeBumped, Room
  <2>4. ToldNews(Peer(e))'
    BY <1>0, <1>1 DEF SideInv, ToldNews, SawNoNews, News, Signalled
  <2>5. ToldClosed(Peer(e))'
    BY <1>0, <1>1 DEF SideInv, ToldClosed, SawOpen, Signalled, ClosedBump, ToBeBumped, CloserWillWake
  <2>6. WokenOnNews(Peer(e))'
    BY <1>0, <1>1 DEF SideInv, WokenOnNews, News, PeerWillWake, CloserWillWake
  <2>. QED  BY <2>1, <2>2, <2>3, <2>4, <2>5, <2>6 DEF SideInv
<1>. QED  BY <1>2, <1>3, <1>4, <1>5, PeerFacts DEF IInv

\* The snapshot: the word has moved by 0 since.
LEMMA SnapshotKeeps ==
  ASSUME IInv, NEW e \in Sides, Snapshot(e)
  PROVE  IInv'
<1>0. TypeOK /\ CountInv /\ SideInv(e) /\ SideInv(Peer(e))
  BY PeerFacts DEF IInv
<1>1. /\ pc' \in [Sides -> Labels]
      /\ pc[e] = "snap"
      /\ pc'[e] \in {"ready", "peek"}
      /\ pc'[Peer(e)] = pc[Peer(e)]
      /\ stage' \in [Sides -> {"try", "first", "second"}]
      /\ stage'[e] = "first" /\ stage'[Peer(e)] = stage[Peer(e)]
      /\ UNCHANGED <<memory, moved, buffer, event, due, ending>>
  BY <1>0, GotoEffect, PeerFacts DEF Snapshot, FirstLook, TypeOK, Labels
<1>. USE DEF memory, wait, local, ending
<1>2. TypeOK'
  BY <1>0, <1>1 DEF TypeOK
<1>3. CountInv'
  BY <1>0, <1>1, PeerFacts DEF CountInv, DrainBeforeClosed
<1>4. SideInv(e)'
  <2>1. StageOf(e)'
    BY <1>1 DEF StageOf
  <2>2. Armed(e)'
    BY <1>1 DEF Armed
  <2>3. NotAround(e)'
    BY <1>0, <1>1 DEF SideInv, NotAround, Unbumped, ClosedBump, ToBeBumped, Room
  <2>4. ToldNews(e)'
    BY <1>1 DEF ToldNews, SawNoNews
  <2>5. ToldClosed(e)'
    BY <1>1 DEF ToldClosed, SawOpen
  <2>6. WokenOnNews(e)'
    BY <1>1 DEF WokenOnNews
  <2>. QED  BY <2>1, <2>2, <2>3, <2>4, <2>5, <2>6 DEF SideInv
<1>5. SideInv(Peer(e))'
  <2>1. StageOf(Peer(e))'
    BY <1>0, <1>1 DEF SideInv, StageOf
  <2>2. Armed(Peer(e))'
    BY <1>0, <1>1 DEF SideInv, Armed
  <2>3. NotAround(Peer(e))'
    BY <1>0, <1>1, PeerFacts DEF SideInv, NotAround, Unbumped, ClosedBump, ToBeBumped, Room
  <2>4. ToldNews(Peer(e))'
    BY <1>0, <1>1, PeerFacts DEF SideInv, ToldNews, SawNoNews, News, Signalled
  <2>5. ToldClosed(Peer(e))'
    BY <1>0, <1>1 DEF SideInv, ToldClosed, SawOpen, Signalled, ClosedBump, ToBeBumped, CloserWillWake
  <2>6. WokenOnNews(Peer(e))'
    BY <1>0, <1>1, PeerFacts DEF SideInv, WokenOnNews, News, PeerWillWake, CloserWillWake
  <2>. QED  BY <2>1, <2>2, <2>3, <2>4, <2>5, <2>6 DEF SideInv
<1>. QED  BY <1>2, <1>3, <1>4, <1>5, PeerFacts DEF IInv

\* The store of parked = 1 is now the last in the buffer.
LEMMA ParkKeeps ==
  ASSUME IInv, NEW e \in Sides, Park(e)
  PROVE  IInv'
<1>0. TypeOK /\ CountInv /\ SideInv(e) /\ SideInv(Peer(e))
  BY PeerFacts DEF IInv
<1>1. /\ pc' \in [Sides -> Labels]
      /\ pc[e] = "deadline" /\ pc'[e] = "fence"
      /\ pc'[Peer(e)] = pc[Peer(e)]
      /\ buffer' \in [Sides -> Seq({0, 1})]
      /\ buffer'[e] # <<>> /\ buffer'[e][Len(buffer'[e])] = 1
      /\ buffer'[Peer(e)] = buffer[Peer(e)]
      /\ UNCHANGED <<memory, wait, event, due, ending>>
  BY <1>0, GotoEffect, StoreEffect DEF Park, Labels
<1>. USE DEF memory, wait, local, ending
<1>2. TypeOK'
  BY <1>0, <1>1 DEF TypeOK
<1>3. CountInv'
  BY <1>0, <1>1, PeerFacts DEF CountInv, DrainBeforeClosed
<1>4. SideInv(e)'
  <2>1. StageOf(e)'
    BY <1>0, <1>1 DEF SideInv, StageOf
  <2>2. Armed(e)'
    BY <1>0, <1>1 DEF SideInv, StageOf, Armed
  <2>3. NotAround(e)'
    BY <1>0, <1>1 DEF SideInv, NotAround, Unbumped, ClosedBump, ToBeBumped, Room
  <2>4. ToldNews(e)'
    BY <1>1 DEF ToldNews, SawNoNews
  <2>5. ToldClosed(e)'
    BY <1>1 DEF ToldClosed, SawOpen
  <2>6. WokenOnNews(e)'
    BY <1>1 DEF WokenOnNews
  <2>. QED  BY <2>1, <2>2, <2>3, <2>4, <2>5, <2>6 DEF SideInv
<1>5. SideInv(Peer(e))'
  <2>1. StageOf(Peer(e))'
    BY <1>0, <1>1 DEF SideInv, StageOf
  <2>2. Armed(Peer(e))'
    BY <1>0, <1>1 DEF SideInv, Armed
  <2>3. NotAround(Peer(e))'
    BY <1>0, <1>1, PeerFacts DEF SideInv, NotAround, Unbumped, ClosedBump, ToBeBumped, Room
  <2>4. ToldNews(Peer(e))'
    BY <1>0, <1>1, PeerFacts DEF SideInv, ToldNews, SawNoNews, News, Signalled
  <2>5. ToldClosed(Peer(e))'
    BY <1>0, <1>1 DEF SideInv, ToldClosed, SawOpen, Signalled, ClosedBump, ToBeBumped, CloserWillWake
  <2>6. WokenOnNews(Peer(e))'
    BY <1>0, <1>1, PeerFacts DEF SideInv, WokenOnNews, News, PeerWillWake, CloserWillWake
  <2>. QED  BY <2>1, <2>2, <2>3, <2>4, <2>5, <2>6 DEF SideInv
<1>. QED  BY <1>2, <1>3, <1>4, <1>5, PeerFacts DEF IInv

\* A call that gives up forgets its snapshot.
LEMMA TimedOutKeeps ==
  ASSUME IInv, NEW e \in Sides, TimedOut(e)
  PROVE  IInv'
<1>0. TypeOK /\ CountInv /\ SideInv(e) /\ SideInv(Peer(e))
  BY PeerFacts DEF IInv
<1>1. /\ pc' \in [Sides -> Labels]
      /\ pc[e] = "deadline" /\ pc'[e] = "idle"
      /\ pc'[Peer(e)] = pc[Peer(e)]
      /\ stage' \in [Sides -> {"try", "first", "second"}]
      /\ moved' \in [Sides -> 0 .. NotifyMod - 1]
      /\ stage'[e] = "try" /\ moved'[e] = 0
      /\ stage'[Peer(e)] = stage[Peer(e)] /\ moved'[Peer(e)] = moved[Peer(e)]
      /\ UNCHANGED <<memory, buffer, event, due, ending>>
  BY <1>0, GotoEffect, ForgetEffect DEF TimedOut, Labels
<1>. USE DEF memory, wait, local, ending
<1>2. TypeOK'
  BY <1>0, <1>1 DEF TypeOK
<1>3. CountInv'
  BY <1>0, <1>1, PeerFacts DEF CountInv, DrainBeforeClosed
<1>4. SideInv(e)'
  <2>1. StageOf(e)'
    BY <1>1 DEF StageOf
  <2>2. Armed(e)'
    BY <1>1 DEF Armed
  <2>3. NotAround(e)'
    BY <1>1, <1>2, AtRest
  <2>4. ToldNews(e)'
    BY <1>1 DEF ToldNews, SawNoNews
  <2>5. ToldClosed(e)'
    BY <1>1 DEF ToldClosed, SawOpen
  <2>6. WokenOnNews(e)'
    BY <1>1 DEF WokenOnNews
  <2>. QED  BY <2>1, <2>2, <2>3, <2>4, <2>5, <2>6 DEF SideInv
<1>5. SideInv(Peer(e))'
  <2>1. StageOf(Peer(e))'
    BY <1>0, <1>1 DEF SideInv, StageOf
  <2>2. Armed(Peer(e))'
    BY <1>0, <1>1 DEF SideInv, Armed
  <2>3. NotAround(Peer(e))'
    BY <1>0, <1>1, PeerFacts DEF SideInv, NotAround, Unbumped, ClosedBump, ToBeBumped, Room
  <2>4. ToldNews(Peer(e))'
    BY <1>0, <1>1, PeerFacts DEF SideInv, ToldNews, SawNoNews, News, Signalled
  <2>5. ToldClosed(Peer(e))'
    BY <1>0, <1>1 DEF SideInv, ToldClosed, SawOpen, Signalled, ClosedBump, ToBeBumped, CloserWillWake
  <2>6. WokenOnNews(Peer(e))'
    BY <1>0, <1>1, PeerFacts DEF SideInv, WokenOnNews, News, PeerWillWake, CloserWillWake
  <2>. QED  BY <2>1, <2>2, <2>3, <2>4, <2>5, <2>6 DEF SideInv
<1>. QED  BY <1>2, <1>3, <1>4, <1>5, PeerFacts DEF IInv

\* From here the other side sees parked = 1.
LEMMA FenceKeeps ==
  ASSUME IInv, NEW e \in Sides, Fence(e)
  PROVE  IInv'
<1>0. TypeOK /\ CountInv /\ SideInv(e) /\ SideInv(Peer(e))
  BY PeerFacts DEF IInv
<1>1. /\ pc' \in [Sides -> Labels]
      /\ pc[e] = "fence" /\ pc'[e] = (IF e = Sender THEN "ready" ELSE "peek")
      /\ pc'[Peer(e)] = pc[Peer(e)]
      /\ parked' \in [Sides -> {0, 1}]
      /\ parked'[e] = (IF buffer[e] = <<>> THEN parked[e] ELSE buffer[e][Len(buffer[e])])
      /\ parked'[Peer(e)] = parked[Peer(e)]
      /\ buffer' \in [Sides -> Seq({0, 1})]
      /\ buffer'[e] = <<>> /\ buffer'[Peer(e)] = buffer[Peer(e)]
      /\ stage' \in [Sides -> {"try", "first", "second"}]
      /\ stage'[e] = "second" /\ stage'[Peer(e)] = stage[Peer(e)]
      /\ UNCHANGED <<count, closed, moved, event, due, ending>>
  <2>1. /\ pc' \in [Sides -> Labels] /\ pc'[e] = FirstLook(e) /\ pc'[Peer(e)] = pc[Peer(e)]
    BY <1>0, GotoEffect DEF Fence, FirstLook, Labels
  <2>2. /\ stage' \in [Sides -> {"try", "first", "second"}]
        /\ stage'[e] = "second" /\ stage'[Peer(e)] = stage[Peer(e)]
    BY <1>0, PeerFacts DEF Fence, TypeOK
  <2>3. /\ Flush(e) /\ pc[e] = "fence"
        /\ UNCHANGED <<count, closed, moved, event, due, ending>>
    BY DEF Fence
  <2>. QED  BY <1>0, <2>1, <2>2, <2>3, FlushEffect DEF FirstLook
<1>. USE DEF memory, wait, local, ending
<1>2. TypeOK'
  BY <1>0, <1>1 DEF TypeOK
<1>3. CountInv'
  BY <1>0, <1>1, PeerFacts DEF CountInv, DrainBeforeClosed
<1>4. SideInv(e)'
  <2>1. StageOf(e)'
    BY <1>1 DEF StageOf
  <2>2. Armed(e)'
    BY <1>0, <1>1 DEF SideInv, Armed
  <2>3. NotAround(e)'
    BY <1>0, <1>1 DEF SideInv, NotAround, Unbumped, ClosedBump, ToBeBumped, Room
  <2>4. ToldNews(e)'
    BY <1>1, PeerFacts DEF ToldNews, SawNoNews
  <2>5. ToldClosed(e)'
    BY <1>1 DEF ToldClosed, SawOpen
  <2>6. WokenOnNews(e)'
    BY <1>1 DEF WokenOnNews
  <2>. QED  BY <2>1, <2>2, <2>3, <2>4, <2>5, <2>6 DEF SideInv
<1>5. SideInv(Peer(e))'
  <2>1. StageOf(Peer(e))'
    BY <1>0, <1>1 DEF SideInv, StageOf
  <2>2. Armed(Peer(e))'
    BY <1>0, <1>1 DEF SideInv, Armed
  <2>3. NotAround(Peer(e))'
    BY <1>0, <1>1, PeerFacts DEF SideInv, NotAround, Unbumped, ClosedBump, ToBeBumped, Room
  <2>4. ToldNews(Peer(e))'
    BY <1>0, <1>1, PeerFacts DEF SideInv, ToldNews, SawNoNews, News, Signalled
  <2>5. ToldClosed(Peer(e))'
    BY <1>0, <1>1 DEF SideInv, ToldClosed, SawOpen, Signalled, ClosedBump, ToBeBumped, CloserWillWake
  <2>6. WokenOnNews(Peer(e))'
    BY <1>0, <1>1, PeerFacts DEF SideInv, WokenOnNews, News, PeerWillWake, CloserWillWake
  <2>. QED  BY <2>1, <2>2, <2>3, <2>4, <2>5, <2>6 DEF SideInv
<1>. QED  BY <1>2, <1>3, <1>4, <1>5, PeerFacts DEF IInv

\* The heart of the argument: what e was told since its last look keeps it awake.
LEMMA SleepKeeps ==
  ASSUME IInv, NEW e \in Sides, Sleep(e)
  PROVE  IInv'
<1>0. TypeOK /\ CountInv /\ SideInv(e) /\ SideInv(Peer(e))
  BY PeerFacts DEF IInv
<1>1. /\ pc' \in [Sides -> Labels]
      /\ pc[e] = "sleep"
      /\ pc'[e] = (IF Signalled(e) THEN "unpark" ELSE "asleep")
      /\ pc'[Peer(e)] = pc[Peer(e)]
      /\ event' \in [Sides -> BOOLEAN]
      /\ event'[Peer(e)] = event[Peer(e)]
      /\ UNCHANGED <<memory, wait, buffer, due, ending>>
  BY <1>0, GotoEffect, PeerFacts, WaitWakeAssumption DEF Sleep, Signalled, TypeOK, Labels
<1>. USE DEF memory, wait, local, ending
<1>2. TypeOK'
  BY <1>0, <1>1 DEF TypeOK
<1>3. CountInv'
  BY <1>0, <1>1, PeerFacts DEF CountInv, DrainBeforeClosed
<1>4. SideInv(e)'
  <2>1. StageOf(e)'
    BY <1>0, <1>1 DEF SideInv, StageOf
  <2>2. Armed(e)'
    BY <1>0, <1>1 DEF SideInv, Armed
  <2>3. NotAround(e)'
    BY <1>0, <1>1 DEF SideInv, NotAround, Unbumped, ClosedBump, ToBeBumped, Room
  <2>4. ToldNews(e)'
    BY <1>1 DEF ToldNews, SawNoNews
  <2>5. ToldClosed(e)'
    BY <1>1 DEF ToldClosed, SawOpen
  <2>6. WokenOnNews(e)'
    <3>. SUFFICES ASSUME pc'[e] = "asleep"
                 PROVE  /\ News(e)' => (PeerWillWake(e) \/ pc[Peer(e)] = "crashed")'
                        /\ closed'  => (CloserWillWake(e) \/ closer = "dead")'
      BY DEF WokenOnNews
    <3>1. ~Signalled(e) /\ SawNoNews(e) /\ SawOpen(e)
      BY <1>0, <1>1 DEF SideInv, StageOf, SawNoNews, SawOpen
    <3>2. News(e)' => (PeerWillWake(e) \/ pc[Peer(e)] = "crashed")'
      BY <1>0, <1>1, <3>1 DEF SideInv, ToldNews, News, PeerWillWake
    <3>3. closed'  => (CloserWillWake(e) \/ closer = "dead")'
      BY <1>0, <1>1, <3>1, NotBumpedYet DEF SideInv, ToldClosed, CountInv, CloserWillWake
    <3>. QED  BY <3>2, <3>3
  <2>. QED  BY <2>1, <2>2, <2>3, <2>4, <2>5, <2>6 DEF SideInv
<1>5. SideInv(Peer(e))'
  <2>1. StageOf(Peer(e))'
    BY <1>0, <1>1 DEF SideInv, StageOf
  <2>2. Armed(Peer(e))'
    BY <1>0, <1>1 DEF SideInv, Armed
  <2>3. NotAround(Peer(e))'
    BY <1>0, <1>1, PeerFacts DEF SideInv, NotAround, Unbumped, ClosedBump, ToBeBumped, Room
  <2>4. ToldNews(Peer(e))'
    BY <1>0, <1>1, PeerFacts DEF SideInv, ToldNews, SawNoNews, News, Signalled
  <2>5. ToldClosed(Peer(e))'
    BY <1>0, <1>1 DEF SideInv, ToldClosed, SawOpen, Signalled, ClosedBump, ToBeBumped, CloserWillWake
  <2>6. WokenOnNews(Peer(e))'
    BY <1>0, <1>1, PeerFacts DEF SideInv, WokenOnNews, News, PeerWillWake, CloserWillWake
  <2>. QED  BY <2>1, <2>2, <2>3, <2>4, <2>5, <2>6 DEF SideInv
<1>. QED  BY <1>2, <1>3, <1>4, <1>5, PeerFacts DEF IInv

\* A sleep that ends by itself.
LEMMA TimeoutKeeps ==
  ASSUME IInv, NEW e \in Sides, Timeout(e)
  PROVE  IInv'
<1>0. TypeOK /\ CountInv /\ SideInv(e) /\ SideInv(Peer(e))
  BY PeerFacts DEF IInv
<1>1. /\ pc' \in [Sides -> Labels]
      /\ pc[e] = "asleep" /\ pc'[e] = "unpark"
      /\ pc'[Peer(e)] = pc[Peer(e)]
      /\ due' \in [Sides -> BOOLEAN]
      /\ UNCHANGED <<memory, wait, buffer, event, ending>>
  BY <1>0, GotoEffect DEF Timeout, TypeOK, Labels
<1>. USE DEF memory, wait, local, ending
<1>2. TypeOK'
  BY <1>0, <1>1 DEF TypeOK
<1>3. CountInv'
  BY <1>0, <1>1, PeerFacts DEF CountInv, DrainBeforeClosed
<1>4. SideInv(e)'
  <2>1. StageOf(e)'
    BY <1>0, <1>1 DEF SideInv, StageOf
  <2>2. Armed(e)'
    BY <1>0, <1>1 DEF SideInv, Armed
  <2>3. NotAround(e)'
    BY <1>0, <1>1 DEF SideInv, NotAround, Unbumped, ClosedBump, ToBeBumped, Room
  <2>4. ToldNews(e)'
    BY <1>1 DEF ToldNews, SawNoNews
  <2>5. ToldClosed(e)'
    BY <1>1 DEF ToldClosed, SawOpen
  <2>6. WokenOnNews(e)'
    BY <1>1 DEF WokenOnNews
  <2>. QED  BY <2>1, <2>2, <2>3, <2>4, <2>5, <2>6 DEF SideInv
<1>5. SideInv(Peer(e))'
  <2>1. StageOf(Peer(e))'
    BY <1>0, <1>1 DEF SideInv, StageOf
  <2>2. Armed(Peer(e))'
    BY <1>0, <1>1 DEF SideInv, Armed
  <2>3. NotAround(Peer(e))'
    BY <1>0, <1>1, PeerFacts DEF SideInv, NotAround, Unbumped, ClosedBump, ToBeBumped, Room
  <2>4. ToldNews(Peer(e))'
    BY <1>0, <1>1, PeerFacts DEF SideInv, ToldNews, SawNoNews, News, Signalled
  <2>5. ToldClosed(Peer(e))'
    BY <1>0, <1>1 DEF SideInv, ToldClosed, SawOpen, Signalled, ClosedBump, ToBeBumped, CloserWillWake
  <2>6. WokenOnNews(Peer(e))'
    BY <1>0, <1>1, PeerFacts DEF SideInv, WokenOnNews, News, PeerWillWake, CloserWillWake
  <2>. QED  BY <2>1, <2>2, <2>3, <2>4, <2>5, <2>6 DEF SideInv
<1>. QED  BY <1>2, <1>3, <1>4, <1>5, PeerFacts DEF IInv

\* The store of parked = 0, after which nobody counts on e.
LEMMA UnparkKeeps ==
  ASSUME IInv, NEW e \in Sides, Unpark(e)
  PROVE  IInv'
<1>0. TypeOK /\ CountInv /\ SideInv(e) /\ SideInv(Peer(e))
  BY PeerFacts DEF IInv
<1>1. /\ pc' \in [Sides -> Labels]
      /\ pc[e] = "unpark" /\ pc'[e] = "snap"
      /\ pc'[Peer(e)] = pc[Peer(e)]
      /\ buffer' \in [Sides -> Seq({0, 1})]
      /\ buffer'[Peer(e)] = buffer[Peer(e)]
      /\ stage' \in [Sides -> {"try", "first", "second"}]
      /\ moved' \in [Sides -> 0 .. NotifyMod - 1]
      /\ stage'[e] = "try" /\ moved'[e] = 0
      /\ stage'[Peer(e)] = stage[Peer(e)] /\ moved'[Peer(e)] = moved[Peer(e)]
      /\ UNCHANGED <<memory, event, due, ending>>
  BY <1>0, GotoEffect, ForgetEffect, StoreEffect DEF Unpark, Labels
<1>. USE DEF memory, wait, local, ending
<1>2. TypeOK'
  BY <1>0, <1>1 DEF TypeOK
<1>3. CountInv'
  BY <1>0, <1>1, PeerFacts DEF TypeOK, CountInv, DrainBeforeClosed
<1>4. SideInv(e)'
  <2>1. StageOf(e)'
    BY <1>1 DEF StageOf
  <2>2. Armed(e)'
    BY <1>1 DEF Armed
  <2>3. NotAround(e)'
    BY <1>1, <1>2, AtRest
  <2>4. ToldNews(e)'
    BY <1>1 DEF ToldNews, SawNoNews
  <2>5. ToldClosed(e)'
    BY <1>1 DEF ToldClosed, SawOpen
  <2>6. WokenOnNews(e)'
    BY <1>1 DEF WokenOnNews
  <2>. QED  BY <2>1, <2>2, <2>3, <2>4, <2>5, <2>6 DEF SideInv
<1>5. SideInv(Peer(e))'
  <2>1. StageOf(Peer(e))'
    BY <1>0, <1>1 DEF SideInv, StageOf
  <2>2. Armed(Peer(e))'
    BY <1>0, <1>1 DEF SideInv, Armed
  <2>3. NotAround(Peer(e))'
    BY <1>0, <1>1, PeerFacts DEF SideInv, NotAround, Unbumped, ClosedBump, ToBeBumped, Room
  <2>4. ToldNews(Peer(e))'
    BY <1>0, <1>1, PeerFacts DEF SideInv, ToldNews, SawNoNews, News, Signalled
  <2>5. ToldClosed(Peer(e))'
    BY <1>0, <1>1 DEF SideInv, ToldClosed, SawOpen, Signalled, ClosedBump, ToBeBumped, CloserWillWake
  <2>6. WokenOnNews(Peer(e))'
    BY <1>0, <1>1, PeerFacts DEF SideInv, WokenOnNews, News, PeerWillWake, CloserWillWake
  <2>. QED  BY <2>1, <2>2, <2>3, <2>4, <2>5, <2>6 DEF SideInv
<1>. QED  BY <1>2, <1>3, <1>4, <1>5, PeerFacts DEF IInv

\* News for the other side, which the bump is still to tell.
LEMMA CommitKeeps ==
  ASSUME IInv, NEW e \in Sides, Commit(e)
  PROVE  IInv'
<1>0. TypeOK /\ CountInv /\ SideInv(e) /\ SideInv(Peer(e))
  BY PeerFacts DEF IInv
<1>1. /\ pc' \in [Sides -> Labels]
      /\ pc[e] = "commit" /\ pc'[e] = "bump"
      /\ pc'[Peer(e)] = pc[Peer(e)]
      /\ count' = (IF e = Sender THEN count + 1 ELSE count - 1)
      /\ owed' = (IF e = Receiver /\ owed > 0 THEN owed - 1 ELSE owed)
      /\ UNCHANGED <<closed, parked, wait, buffer, event, due, closer, owner>>
  BY <1>0, GotoEffect DEF Commit, Labels
<1>. USE DEF memory, wait, local, ending
<1>2. TypeOK'
  <2>1. count' \in 0 .. Cap /\ owed' \in 0 .. Cap
    BY <1>0, <1>1, Counts, PeerFacts DEF CountInv
  <2>. QED  BY <1>0, <1>1, <2>1 DEF TypeOK
<1>3. CountInv'
  <2>1. CASE e = Sender
    <3>1. /\ count' = count + 1 /\ owed' = owed /\ count < Cap
          /\ pc'[Sender] = "bump" /\ pc'[Receiver] = pc[Receiver]
      BY <1>0, <1>1, <2>1, PeerFacts DEF CountInv
    <3>. QED  BY <1>0, <1>1, <3>1, Counts DEF CountInv, DrainBeforeClosed
  <2>2. CASE e = Receiver
    <3>1. /\ count' = count - 1 /\ count > 0
          /\ owed' = (IF owed > 0 THEN owed - 1 ELSE owed)
          /\ pc'[Receiver] = "bump" /\ pc'[Sender] = pc[Sender]
      BY <1>0, <1>1, <2>2, PeerFacts DEF CountInv
    <3>. QED  BY <1>0, <1>1, <3>1, Counts DEF CountInv, DrainBeforeClosed
  <2>. QED  BY <2>1, <2>2, PeerFacts
<1>4. SideInv(e)'
  <2>1. StageOf(e)'
    BY <1>0, <1>1 DEF SideInv, StageOf
  <2>2. Armed(e)'
    BY <1>0, <1>1 DEF SideInv, Armed
  <2>3. NotAround(e)'
    BY <1>0, <1>1, <1>2, AtRest DEF SideInv, StageOf
  <2>4. ToldNews(e)'
    BY <1>1 DEF ToldNews, SawNoNews
  <2>5. ToldClosed(e)'
    BY <1>1 DEF ToldClosed, SawOpen
  <2>6. WokenOnNews(e)'
    BY <1>1 DEF WokenOnNews
  <2>. QED  BY <2>1, <2>2, <2>3, <2>4, <2>5, <2>6 DEF SideInv
<1>5. SideInv(Peer(e))'
  <2>1. StageOf(Peer(e))'
    BY <1>0, <1>1 DEF SideInv, StageOf
  <2>2. Armed(Peer(e))'
    BY <1>0, <1>1 DEF SideInv, Armed
  <2>3. NotAround(Peer(e))'
    <3>1. NotAround(Peer(e)) /\ Unbumped(Peer(e)) = 0 /\ Unbumped(Peer(e))' = 1
      BY <1>0, <1>1, PeerFacts DEF SideInv, Unbumped
    <3>2. Room(Peer(e))' = Room(Peer(e)) + 1
      BY <1>0, <1>1, PeerFacts, WaitWakeAssumption DEF Room, TypeOK
    <3>3. ClosedBump(Peer(e))' = ClosedBump(Peer(e)) /\ moved'[Peer(e)] = moved[Peer(e)]
      BY <1>1 DEF ClosedBump, ToBeBumped
    <3>. QED  BY <1>0, <3>1, <3>2, <3>3, Ranges, PeerFacts, WaitWakeAssumption DEF NotAround
  <2>4. ToldNews(Peer(e))'
    BY <1>1, PeerFacts DEF ToldNews
  <2>5. ToldClosed(Peer(e))'
    BY <1>0, <1>1 DEF SideInv, ToldClosed, SawOpen, Signalled, ClosedBump, ToBeBumped, CloserWillWake
  <2>6. WokenOnNews(Peer(e))'
    BY <1>0, <1>1, PeerFacts DEF SideInv, WokenOnNews, PeerWillWake, CloserWillWake
  <2>. QED  BY <2>1, <2>2, <2>3, <2>4, <2>5, <2>6 DEF SideInv
<1>. QED  BY <1>2, <1>3, <1>4, <1>5, PeerFacts DEF IInv

\* The other side is told; its word cannot come around.
LEMMA BumpNotifyKeeps ==
  ASSUME IInv, NEW e \in Sides, BumpNotify(e)
  PROVE  IInv'
<1>0. TypeOK /\ CountInv /\ SideInv(e) /\ SideInv(Peer(e))
  BY PeerFacts DEF IInv
<1>m. moved[Peer(e)] < NotifyMod - 1
  <2>1. NotAround(Peer(e)) /\ Unbumped(Peer(e)) = 1
    BY <1>0, PeerFacts DEF BumpNotify, SideInv, Unbumped
  <2>. QED  BY <1>0, <2>1, Ranges, PeerFacts, WaitWakeAssumption DEF NotAround
<1>1. /\ pc' \in [Sides -> Labels]
      /\ pc[e] = "bump" /\ pc'[e] = "load"
      /\ pc'[Peer(e)] = pc[Peer(e)]
      /\ moved' \in [Sides -> 0 .. NotifyMod - 1]
      /\ moved'[Peer(e)] = (IF stage[Peer(e)] = "try" THEN moved[Peer(e)] ELSE moved[Peer(e)] + 1)
      /\ moved'[e] = moved[e]
      /\ parked' \in [Sides -> {0, 1}]
      /\ parked'[Peer(e)] = parked[Peer(e)]
      /\ buffer' \in [Sides -> Seq({0, 1})]
      /\ buffer'[e] = <<>> /\ buffer'[Peer(e)] = buffer[Peer(e)]
      /\ UNCHANGED <<count, closed, stage, event, due, ending>>
  BY <1>0, <1>m, GotoEffect, FlushEffect, BumpEffect, PeerFacts DEF BumpNotify, Labels
<1>. USE DEF memory, wait, local, ending
<1>2. TypeOK'
  BY <1>0, <1>1 DEF TypeOK
<1>3. CountInv'
  BY <1>0, <1>1, PeerFacts DEF CountInv, DrainBeforeClosed
<1>4. SideInv(e)'
  <2>1. StageOf(e)'
    BY <1>0, <1>1 DEF SideInv, StageOf
  <2>2. Armed(e)'
    BY <1>0, <1>1 DEF SideInv, StageOf, Armed
  <2>3. NotAround(e)'
    BY <1>0, <1>1 DEF SideInv, NotAround, Unbumped, ClosedBump, ToBeBumped, Room
  <2>4. ToldNews(e)'
    BY <1>1 DEF ToldNews, SawNoNews
  <2>5. ToldClosed(e)'
    BY <1>1 DEF ToldClosed, SawOpen
  <2>6. WokenOnNews(e)'
    BY <1>1 DEF WokenOnNews
  <2>. QED  BY <2>1, <2>2, <2>3, <2>4, <2>5, <2>6 DEF SideInv
<1>5. SideInv(Peer(e))'
  <2>1. StageOf(Peer(e))'
    BY <1>0, <1>1 DEF SideInv, StageOf
  <2>2. Armed(Peer(e))'
    BY <1>0, <1>1 DEF SideInv, Armed
  <2>3. NotAround(Peer(e))'
    <3>1. NotAround(Peer(e)) /\ Unbumped(Peer(e)) = 1 /\ Unbumped(Peer(e))' = 0
      BY <1>0, <1>1, PeerFacts DEF SideInv, Unbumped
    <3>2. moved'[Peer(e)] <= moved[Peer(e)] + 1
      BY <1>1, Ranges, PeerFacts
    <3>3. ClosedBump(Peer(e))' = ClosedBump(Peer(e)) /\ Room(Peer(e))' = Room(Peer(e))
      BY <1>1 DEF ClosedBump, ToBeBumped, Room
    <3>. QED  BY <1>0, <1>2, <3>1, <3>2, <3>3, Ranges, RangesNext, PeerFacts, WaitWakeAssumption DEF NotAround
  <2>4. ToldNews(Peer(e))'
    BY <1>0, <1>1, PeerFacts, WaitWakeAssumption DEF TypeOK, ToldNews, SawNoNews, Signalled
  <2>5. ToldClosed(Peer(e))'
    <3>1. Signalled(Peer(e)) => Signalled(Peer(e))'
      <4>1. moved[Peer(e)] \in Nat /\ (moved[Peer(e)] # 0 => moved'[Peer(e)] # 0)
        BY <1>0, <1>1, Ranges, PeerFacts
      <4>. QED  BY <1>1, <4>1 DEF Signalled
    <3>2. SawOpen(Peer(e))' => SawOpen(Peer(e))
      BY <1>1, PeerFacts DEF SawOpen
    <3>. QED  BY <1>0, <1>1, <3>1, <3>2 DEF SideInv, ToldClosed, ClosedBump, ToBeBumped, CloserWillWake
  <2>6. WokenOnNews(Peer(e))'
    BY <1>0, <1>1, PeerFacts DEF SideInv, WokenOnNews, PeerWillWake, CloserWillWake
  <2>. QED  BY <2>1, <2>2, <2>3, <2>4, <2>5, <2>6 DEF SideInv
<1>. QED  BY <1>2, <1>3, <1>4, <1>5, PeerFacts DEF IInv

\* A waker that reads parked = 0 has told a side that is not yet armed.
LEMMA LoadParkedKeeps ==
  ASSUME IInv, NEW e \in Sides, LoadParked(e)
  PROVE  IInv'
<1>0. TypeOK /\ CountInv /\ SideInv(e) /\ SideInv(Peer(e))
  BY PeerFacts DEF IInv
<1>1. /\ pc' \in [Sides -> Labels]
      /\ pc[e] = "load"
      /\ pc'[e] = (IF parked[Peer(e)] # 0 THEN "wake" ELSE "idle")
      /\ pc'[Peer(e)] = pc[Peer(e)]
      /\ UNCHANGED <<memory, wait, buffer, event, due, ending>>
  BY <1>0, GotoEffect DEF LoadParked, Labels
<1>. USE DEF memory, wait, local, ending
<1>2. TypeOK'
  BY <1>0, <1>1 DEF TypeOK
<1>3. CountInv'
  BY <1>0, <1>1, PeerFacts DEF CountInv, DrainBeforeClosed
<1>4. SideInv(e)'
  <2>1. StageOf(e)'
    BY <1>0, <1>1 DEF SideInv, StageOf
  <2>2. Armed(e)'
    BY <1>0, <1>1 DEF SideInv, Armed
  <2>3. NotAround(e)'
    BY <1>0, <1>1 DEF SideInv, NotAround, Unbumped, ClosedBump, ToBeBumped, Room
  <2>4. ToldNews(e)'
    BY <1>1 DEF ToldNews, SawNoNews
  <2>5. ToldClosed(e)'
    BY <1>1 DEF ToldClosed, SawOpen
  <2>6. WokenOnNews(e)'
    BY <1>1 DEF WokenOnNews
  <2>. QED  BY <2>1, <2>2, <2>3, <2>4, <2>5, <2>6 DEF SideInv
<1>5. SideInv(Peer(e))'
  <2>1. StageOf(Peer(e))'
    BY <1>0, <1>1 DEF SideInv, StageOf
  <2>2. Armed(Peer(e))'
    BY <1>0, <1>1 DEF SideInv, Armed
  <2>3. NotAround(Peer(e))'
    BY <1>0, <1>1, PeerFacts DEF SideInv, NotAround, Unbumped, ClosedBump, ToBeBumped, Room
  <2>4. ToldNews(Peer(e))'
    BY <1>0, <1>1, PeerFacts DEF SideInv, Armed, ToldNews, SawNoNews, News, Signalled
  <2>5. ToldClosed(Peer(e))'
    BY <1>0, <1>1 DEF SideInv, ToldClosed, SawOpen, Signalled, ClosedBump, ToBeBumped, CloserWillWake
  <2>6. WokenOnNews(Peer(e))'
    <3>. SUFFICES ASSUME pc'[Peer(e)] = "asleep"
                 PROVE  /\ News(Peer(e))' => PeerWillWake(Peer(e))'
                        /\ closed'  => (CloserWillWake(Peer(e)) \/ closer = "dead")'
      BY DEF WokenOnNews
    <3>1. parked[Peer(e)] = 1
      BY <1>0, <1>1 DEF SideInv, StageOf, Armed
    <3>2. PeerWillWake(Peer(e))'
      BY <1>1, <3>1, PeerFacts DEF PeerWillWake
    <3>3. closed'  => (CloserWillWake(Peer(e)) \/ closer = "dead")'
      BY <1>0, <1>1 DEF SideInv, WokenOnNews, CloserWillWake
    <3>. QED  BY <3>2, <3>3
  <2>. QED  BY <2>1, <2>2, <2>3, <2>4, <2>5, <2>6 DEF SideInv
<1>. QED  BY <1>2, <1>3, <1>4, <1>5, PeerFacts DEF IInv

\* The wake: the other side is awake, or its event is set.
LEMMA WakePeerKeeps ==
  ASSUME IInv, NEW e \in Sides, WakePeer(e)
  PROVE  IInv'
<1>0. TypeOK /\ CountInv /\ SideInv(e) /\ SideInv(Peer(e))
  BY PeerFacts DEF IInv
<1>m. /\ [pc EXCEPT ![e] = "idle"] \in [Sides -> Labels]
      /\ [pc EXCEPT ![e] = "idle"][e] = "idle"
      /\ [pc EXCEPT ![e] = "idle"][Peer(e)] = pc[Peer(e)]
  BY PeerFacts DEF IInv, TypeOK, Labels
<1>n. /\ pc' \in [Sides -> Labels]
      /\ pc'[e] = "idle"
      /\ pc'[Peer(e)] = (IF pc[Peer(e)] = "asleep" THEN "unpark" ELSE pc[Peer(e)])
      /\ event' \in [Sides -> BOOLEAN]
      /\ event'[Peer(e)] = (IF pc[Peer(e)] = "asleep" THEN event[Peer(e)] ELSE Platform = "windows")
      /\ event'[e] = event[e]
  <2>. DEFINE next == [pc EXCEPT ![e] = "idle"]
  <2>1. WakeHandle(Peer(e), next)
    BY DEF WakePeer
  <2>2. next \in [Sides -> Labels] /\ next[e] = "idle" /\ next[Peer(e)] = pc[Peer(e)]
    BY <1>m
  <2>. HIDE DEF next
  <2>. QED  BY <1>0, <2>1, <2>2, WakeEffect, PeerFacts
<1>1. /\ pc' \in [Sides -> Labels]
      /\ pc[e] = "wake" /\ pc'[e] = "idle"
      /\ pc'[Peer(e)] = (IF pc[Peer(e)] = "asleep" THEN "unpark" ELSE pc[Peer(e)])
      /\ event' \in [Sides -> BOOLEAN]
      /\ event'[Peer(e)] = (IF pc[Peer(e)] = "asleep" THEN event[Peer(e)] ELSE Platform = "windows")
      /\ event'[e] = event[e]
      /\ UNCHANGED <<memory, wait, buffer, due, ending>>
  BY <1>0, <1>n DEF WakePeer
<1>. USE DEF memory, wait, local, ending
<1>2. TypeOK'
  BY <1>0, <1>1 DEF TypeOK
<1>3. CountInv'
  BY <1>0, <1>1, PeerFacts DEF CountInv, DrainBeforeClosed
<1>4. SideInv(e)'
  <2>1. StageOf(e)'
    BY <1>0, <1>1 DEF SideInv, StageOf
  <2>2. Armed(e)'
    BY <1>0, <1>1 DEF SideInv, Armed
  <2>3. NotAround(e)'
    BY <1>0, <1>1 DEF SideInv, NotAround, Unbumped, ClosedBump, ToBeBumped, Room
  <2>4. ToldNews(e)'
    BY <1>1 DEF ToldNews, SawNoNews
  <2>5. ToldClosed(e)'
    BY <1>1 DEF ToldClosed, SawOpen
  <2>6. WokenOnNews(e)'
    BY <1>1 DEF WokenOnNews
  <2>. QED  BY <2>1, <2>2, <2>3, <2>4, <2>5, <2>6 DEF SideInv
<1>5. SideInv(Peer(e))'
  <2>1. StageOf(Peer(e))'
    BY <1>0, <1>1 DEF SideInv, StageOf
  <2>2. Armed(Peer(e))'
    BY <1>0, <1>1 DEF SideInv, Armed
  <2>3. NotAround(Peer(e))'
    BY <1>0, <1>1, PeerFacts DEF SideInv, NotAround, Unbumped, ClosedBump, ToBeBumped, Room
  <2>4. ToldNews(Peer(e))'
    BY <1>0, <1>1, PeerFacts, WaitWakeAssumption DEF SideInv, ToldNews, SawNoNews, News, Signalled
  <2>5. ToldClosed(Peer(e))'
    BY <1>0, <1>1, WaitWakeAssumption DEF SideInv, ToldClosed, SawOpen, Signalled, ClosedBump, ToBeBumped
  <2>6. WokenOnNews(Peer(e))'
    BY <1>1 DEF WokenOnNews
  <2>. QED  BY <2>1, <2>2, <2>3, <2>4, <2>5, <2>6 DEF SideInv
<1>. QED  BY <1>2, <1>3, <1>4, <1>5, PeerFacts DEF IInv

\* The close, whose bumps and wakes are still to come.
LEMMA FinishKeeps ==
  ASSUME IInv, NEW e \in Sides, Finish(e)
  PROVE  IInv'
<1>0. TypeOK /\ CountInv /\ SideInv(e) /\ SideInv(Peer(e))
  BY PeerFacts DEF IInv
<1>1. /\ closer = "none" /\ ~closed
      /\ closed' = TRUE
      /\ owed' = count
      /\ closer' = "bump receiver"
      /\ owner' = e
      /\ UNCHANGED <<count, parked, wait, local>>
  BY <1>0 DEF Finish
<1>. USE DEF memory, wait, local, ending
<1>2. TypeOK'
  BY <1>0, <1>1 DEF TypeOK, Closing
<1>3. CountInv'
  <2>1. count' \in Nat /\ owed' = count'
    BY <1>1, <1>2, CountsNext
  <2>2. (pc[Sender] = "commit" => count < Cap)'
    BY <1>0, <1>1, <1>2 DEF CountInv
  <2>3. (pc[Receiver] = "commit" => count > 0)'
    BY <1>0, <1>1, <1>2 DEF CountInv
  <2>4. (~closed => owed = 0)'
    BY <1>1, <1>2
  <2>5. (closed <=> closer # "none")'
    BY <1>1, <1>2
  <2>6. (pc[Receiver] \in {"repeek", "failed"} => closed)'
    BY <1>1, <1>2
  <2>7. (pc[Receiver] = "failed" => owed = 0)'
    BY <1>0, <1>1, <1>2 DEF CountInv
  <2>. QED  BY <2>1, WaitWakeAssumption, <2>2, <2>3, <2>4, <2>5, <2>6, <2>7 DEF CountInv, DrainBeforeClosed
<1>4. SideInv(e)'
  <2>1. StageOf(e)'
    BY <1>0, <1>1 DEF SideInv, StageOf
  <2>2. Armed(e)'
    BY <1>0, <1>1 DEF SideInv, Armed
  <2>3. NotAround(e)'
    BY <1>0, <1>1 DEF SideInv, NotAround, Unbumped, ClosedBump, ToBeBumped, Room
  <2>4. ToldNews(e)'
    BY <1>0, <1>1 DEF SideInv, ToldNews, SawNoNews, News, Signalled
  <2>5. ToldClosed(e)'
    BY <1>1 DEF ToldClosed, ClosedBump, ToBeBumped
  <2>6. WokenOnNews(e)'
    BY <1>0, <1>1 DEF SideInv, WokenOnNews, News, PeerWillWake, CloserWillWake, Closing
  <2>. QED  BY <2>1, <2>2, <2>3, <2>4, <2>5, <2>6 DEF SideInv
<1>5. SideInv(Peer(e))'
  <2>1. StageOf(Peer(e))'
    BY <1>0, <1>1 DEF SideInv, StageOf
  <2>2. Armed(Peer(e))'
    BY <1>0, <1>1 DEF SideInv, Armed
  <2>3. NotAround(Peer(e))'
    BY <1>0, <1>1 DEF SideInv, NotAround, Unbumped, ClosedBump, ToBeBumped, Room
  <2>4. ToldNews(Peer(e))'
    BY <1>0, <1>1 DEF SideInv, ToldNews, SawNoNews, News, Signalled
  <2>5. ToldClosed(Peer(e))'
    BY <1>1 DEF ToldClosed, ClosedBump, ToBeBumped
  <2>6. WokenOnNews(Peer(e))'
    BY <1>0, <1>1 DEF SideInv, WokenOnNews, News, PeerWillWake, CloserWillWake, Closing
  <2>. QED  BY <2>1, <2>2, <2>3, <2>4, <2>5, <2>6 DEF SideInv
<1>. QED  BY <1>2, <1>3, <1>4, <1>5, PeerFacts DEF IInv

\* A dead side sleeps no more; what it owed is excused.
LEMMA CrashKeeps ==
  ASSUME IInv, NEW e \in Sides, Crash(e)
  PROVE  IInv'
<1>0. TypeOK /\ CountInv /\ SideInv(e) /\ SideInv(Peer(e))
  BY PeerFacts DEF IInv
<1>1. /\ pc' \in [Sides -> Labels]
      /\ pc'[e] = "crashed"
      /\ pc'[Peer(e)] = pc[Peer(e)]
      /\ (closer' = closer \/ (closer \in Closing /\ closer' = "dead"))
      /\ UNCHANGED <<memory, wait, buffer, event, due, owner, owed>>
  BY <1>0, GotoEffect DEF IInv, TypeOK, Closing, Crash, Labels
<1>. USE DEF memory, wait, local, ending
<1>2. TypeOK'
  BY <1>0, <1>1 DEF TypeOK
<1>3. CountInv'
  <2>1. (pc[Sender] = "commit" => count < Cap)'
    BY <1>0, <1>1, <1>2, PeerFacts DEF CountInv
  <2>2. (pc[Receiver] = "commit" => count > 0)'
    BY <1>0, <1>1, <1>2, PeerFacts DEF CountInv
  <2>3. (owed <= count)'
    BY <1>0, <1>1, <1>2 DEF CountInv
  <2>4. (~closed => owed = 0)'
    BY <1>0, <1>1, <1>2 DEF CountInv
  <2>5. (closed <=> closer # "none")'
    BY <1>0, <1>1, <1>2 DEF CountInv, Closing
  <2>6. (pc[Receiver] \in {"repeek", "failed"} => closed)'
    BY <1>0, <1>1, <1>2, PeerFacts DEF CountInv
  <2>7. (pc[Receiver] = "failed" => owed = 0)'
    BY <1>0, <1>1, <1>2, PeerFacts DEF CountInv, DrainBeforeClosed
  <2>. QED  BY <2>1, <2>2, <2>3, <2>4, <2>5, <2>6, <2>7 DEF CountInv, DrainBeforeClosed
<1>4. SideInv(e)'
  <2>1. StageOf(e)'
    BY <1>0, <1>1 DEF SideInv, StageOf
  <2>2. Armed(e)'
    BY <1>0, <1>1 DEF SideInv, Armed
  <2>3. NotAround(e)'
    <3>1. NotAround(e) /\ Unbumped(e)' <= Unbumped(e)
      BY <1>0, <1>1 DEF SideInv, Unbumped
    <3>2. ClosedBump(e)' = ClosedBump(e) \/ ClosedBump(e)' = 1
      BY <1>1 DEF ClosedBump, ToBeBumped
    <3>3. moved'[e] = moved[e] /\ Room(e)' = Room(e)
      BY <1>1 DEF Room
    <3>. QED  BY <1>0, <1>2, <3>1, <3>2, <3>3, Ranges, RangesNext, PeerFacts, WaitWakeAssumption DEF NotAround
  <2>4. ToldNews(e)'
    BY <1>1 DEF ToldNews, SawNoNews
  <2>5. ToldClosed(e)'
    BY <1>1 DEF ToldClosed, SawOpen
  <2>6. WokenOnNews(e)'
    BY <1>1 DEF WokenOnNews
  <2>. QED  BY <2>1, <2>2, <2>3, <2>4, <2>5, <2>6 DEF SideInv
<1>5. SideInv(Peer(e))'
  <2>1. StageOf(Peer(e))'
    BY <1>0, <1>1 DEF SideInv, StageOf
  <2>2. Armed(Peer(e))'
    BY <1>0, <1>1 DEF SideInv, Armed
  <2>3. NotAround(Peer(e))'
    <3>1. NotAround(Peer(e)) /\ Unbumped(Peer(e))' <= Unbumped(Peer(e))
      BY <1>0, <1>1, PeerFacts DEF SideInv, Unbumped
    <3>2. ClosedBump(Peer(e))' = ClosedBump(Peer(e)) \/ ClosedBump(Peer(e))' = 1
      BY <1>1 DEF ClosedBump, ToBeBumped
    <3>3. moved'[Peer(e)] = moved[Peer(e)] /\ Room(Peer(e))' = Room(Peer(e))
      BY <1>1 DEF Room
    <3>. QED  BY <1>0, <1>2, <3>1, <3>2, <3>3, Ranges, RangesNext, PeerFacts, WaitWakeAssumption DEF NotAround
  <2>4. ToldNews(Peer(e))'
    BY <1>1, PeerFacts DEF ToldNews
  <2>5. ToldClosed(Peer(e))'
    BY <1>0, <1>1 DEF SideInv, ToldClosed, SawOpen, Signalled, ClosedBump, ToBeBumped, CloserWillWake
  <2>6. WokenOnNews(Peer(e))'
    BY <1>0, <1>1, PeerFacts DEF SideInv, WokenOnNews, CloserWillWake
  <2>. QED  BY <2>1, <2>2, <2>3, <2>4, <2>5, <2>6 DEF SideInv
<1>. QED  BY <1>2, <1>3, <1>4, <1>5, PeerFacts DEF IInv

\* The closer tells one side.
LEMMA WakeAllBumpKeeps ==
  ASSUME IInv, WakeAllBump
  PROVE  IInv'
<1>1. PICK d \in Sides :
        /\ Bump(d)
        /\ closer  = IF d = Receiver THEN "bump receiver" ELSE "bump sender"
        /\ closer' = IF d = Receiver THEN "wake receiver" ELSE "wake sender"
  BY TwoSides DEF WakeAllBump
<1>2. TypeOK /\ CountInv /\ SideInv(d) /\ SideInv(Peer(d))
  BY PeerFacts DEF IInv
<1>3. UNCHANGED <<memory, stage, local, owner, owed>>
  BY DEF WakeAllBump
<1>. USE DEF memory, local
<1>4. ClosedBump(d) = 0 /\ ClosedBump(d)' = 1 /\ ClosedBump(Peer(d))' = ClosedBump(Peer(d))
  BY <1>1, PeerFacts DEF ClosedBump, ToBeBumped
<1>5. moved[d] < NotifyMod - 1
  BY <1>2, <1>4, Ranges, WaitWakeAssumption DEF SideInv, NotAround
<1>6. /\ moved' \in [Sides -> 0 .. NotifyMod - 1]
      /\ moved'[d] = IF stage[d] = "try" THEN moved[d] ELSE moved[d] + 1
      /\ moved'[Peer(d)] = moved[Peer(d)]
  BY <1>1, <1>2, <1>5, BumpEffect
<1>7. TypeOK'
  BY <1>1, <1>2, <1>3, <1>6 DEF TypeOK, Closing
<1>8. CountInv'
  BY <1>1, <1>2, <1>3 DEF CountInv, DrainBeforeClosed
<1>9. SideInv(d)'
  <2>1. StageOf(d)' /\ Armed(d)'
    BY <1>2, <1>3, <1>6 DEF SideInv, StageOf, Armed
  <2>2. NotAround(d)'
    <3>1. Room(d)' = Room(d) /\ Unbumped(d)' = Unbumped(d)
      BY <1>3 DEF Room, Unbumped
    <3>2. moved'[d] <= moved[d] + 1
      BY <1>2, <1>6, Ranges
    <3>. QED  BY <1>2, <1>4, <1>7, <3>1, <3>2, Ranges, RangesNext DEF SideInv, NotAround
  <2>3. stage[d] = "second" /\ Platform = "linux" => Signalled(d)'
    BY <1>2, <1>6, Ranges DEF Signalled
  <2>4. ToldNews(d)'
    BY <1>2, <1>3, <2>3, WaitWakeAssumption DEF SideInv, ToldNews, SawNoNews, News, Signalled
  <2>5. ToldClosed(d)'
    BY <1>1, <1>2, <1>3, <2>3, WaitWakeAssumption DEF SideInv, ToldClosed, SawOpen, CloserWillWake, Closing
  <2>6. WokenOnNews(d)'
    BY <1>1, <1>2, <1>3 DEF SideInv, WokenOnNews, News, PeerWillWake, CloserWillWake, Closing
  <2>. QED  BY <2>1, <2>2, <2>4, <2>5, <2>6 DEF SideInv
<1>10. SideInv(Peer(d))'
  <2>1. StageOf(Peer(d))' /\ Armed(Peer(d))'
    BY <1>2, <1>3, <1>6 DEF SideInv, StageOf, Armed
  <2>2. NotAround(Peer(d))'
    BY <1>2, <1>3, <1>4, <1>6 DEF SideInv, NotAround, Room, Unbumped
  <2>3. CloserWillWake(Peer(d)) <=> CloserWillWake(Peer(d))'
    BY <1>1, PeerFacts DEF CloserWillWake, Closing
  <2>4. closer # "dead" /\ closer' # "dead"
    BY <1>1
  <2>5. Signalled(Peer(d))' <=> Signalled(Peer(d))
    BY <1>3, <1>6 DEF Signalled
  <2>6. ToldNews(Peer(d))'
    BY <1>2, <1>3, <2>5 DEF SideInv, ToldNews, SawNoNews, News
  <2>7. ToldClosed(Peer(d))'
    BY <1>2, <1>3, <1>4, <2>3, <2>4, <2>5 DEF SideInv, ToldClosed, SawOpen
  <2>8. WokenOnNews(Peer(d))'
    BY <1>2, <1>3, <2>3, <2>4 DEF SideInv, WokenOnNews, News, PeerWillWake
  <2>. QED  BY <2>1, <2>2, <2>6, <2>7, <2>8 DEF SideInv
<1>. QED  BY <1>7, <1>8, <1>9, <1>10, PeerFacts DEF IInv

\* The closer wakes one side.
LEMMA WakeAllWakeKeeps ==
  ASSUME IInv, WakeAllWake
  PROVE  IInv'
<1>1. PICK d \in Sides :
        /\ WakeHandle(d, pc)
        /\ closer  = IF d = Receiver THEN "wake receiver" ELSE "wake sender"
        /\ closer' = IF d = Receiver THEN "bump sender" ELSE "done"
  BY TwoSides DEF WakeAllWake
<1>2. TypeOK /\ CountInv /\ SideInv(d) /\ SideInv(Peer(d))
  BY PeerFacts DEF IInv
<1>3. UNCHANGED <<memory, wait, buffer, due, owner, owed>>
  BY DEF WakeAllWake
<1>. USE DEF memory, wait
<1>4. ClosedBump(d)' = ClosedBump(d) /\ ClosedBump(Peer(d))' = ClosedBump(Peer(d))
  BY <1>1, PeerFacts DEF ClosedBump, ToBeBumped
<1>5. /\ pc' \in [Sides -> Labels]
      /\ pc'[d] = IF pc[d] = "asleep" THEN "unpark" ELSE pc[d]
      /\ pc'[Peer(d)] = pc[Peer(d)]
      /\ event' \in [Sides -> BOOLEAN]
      /\ event'[d] = IF pc[d] = "asleep" THEN event[d] ELSE Platform = "windows"
      /\ event'[Peer(d)] = event[Peer(d)]
  BY <1>1, <1>2, WakeEffect DEF TypeOK
<1>6. TypeOK'
  BY <1>1, <1>2, <1>3, <1>5 DEF TypeOK, Closing
<1>7. CountInv'
  <2>1. /\ pc'[Sender] = pc[Sender] \/ pc'[Sender] = "unpark"
        /\ pc'[Receiver] = pc[Receiver] \/ pc'[Receiver] = "unpark"
    BY <1>5, PeerFacts, TwoSides
  <2>. QED  BY <1>1, <1>2, <1>3, <2>1 DEF CountInv, DrainBeforeClosed
<1>8. SideInv(d)'
  <2>1. StageOf(d)' /\ Armed(d)'
    BY <1>2, <1>3, <1>5 DEF SideInv, StageOf, Armed
  <2>2. NotAround(d)'
    BY <1>2, <1>3, <1>4, <1>5 DEF SideInv, NotAround, Room, Unbumped
  <2>3. SawNoNews(d)' \/ SawOpen(d)' => (Signalled(d) => Signalled(d)')
    BY <1>3, <1>5, WaitWakeAssumption DEF SawNoNews, SawOpen, Signalled
  <2>4. (SawNoNews(d)' => SawNoNews(d)) /\ (SawOpen(d)' => SawOpen(d))
    BY <1>3, <1>5 DEF SawNoNews, SawOpen
  <2>5. ToldNews(d)'
    BY <1>2, <1>3, <1>5, <2>3, <2>4 DEF SideInv, ToldNews, News
  <2>6. SawOpen(d)' /\ Platform = "windows" => Signalled(d)'
    BY <1>2, <1>5 DEF SawOpen, Signalled
  <2>7. closer # "dead"
    BY <1>1
  <2>8. ToldClosed(d)'
    BY <1>2, <1>3, <1>4, <2>3, <2>4, <2>6, <2>7 DEF SideInv, ToldClosed
  <2>9. WokenOnNews(d)'
    BY <1>5 DEF WokenOnNews
  <2>. QED  BY <2>1, <2>2, <2>5, <2>8, <2>9 DEF SideInv
<1>9. SideInv(Peer(d))'
  <2>1. StageOf(Peer(d))' /\ Armed(Peer(d))'
    BY <1>2, <1>3, <1>5 DEF SideInv, StageOf, Armed
  <2>2. NotAround(Peer(d))'
    BY <1>2, <1>3, <1>4, <1>5, PeerFacts DEF SideInv, StageOf, NotAround, Room, Unbumped
  <2>3. CloserWillWake(Peer(d)) => CloserWillWake(Peer(d))'
    BY <1>1, PeerFacts DEF CloserWillWake, Closing
  <2>4. closer # "dead"
    BY <1>1
  <2>5. Signalled(Peer(d))' <=> Signalled(Peer(d))
    BY <1>3, <1>5 DEF Signalled
  <2>6. \A s \in {"bump", "load", "wake", "crashed"} : pc[d] = s => pc'[d] = s
    BY <1>5
  <2>7. ToldNews(Peer(d))'
    BY <1>2, <1>3, <1>5, <2>5, <2>6, PeerFacts DEF SideInv, ToldNews, SawNoNews, News
  <2>8. ToldClosed(Peer(d))'
    BY <1>2, <1>3, <1>4, <1>5, <2>3, <2>4, <2>5 DEF SideInv, ToldClosed, SawOpen
  <2>9. WokenOnNews(Peer(d))'
    BY <1>2, <1>3, <1>5, <2>3, <2>4, <2>6, PeerFacts DEF SideInv, WokenOnNews, News, PeerWillWake
  <2>. QED  BY <2>1, <2>2, <2>7, <2>8, <2>9 DEF SideInv
<1>. QED  BY <1>6, <1>7, <1>8, <1>9, PeerFacts DEF IInv

\* A store reaches memory: the oldest, never the last of an armed side.
LEMMA DrainKeeps ==
  ASSUME IInv, NEW e \in Sides, Drain(e)
  PROVE  IInv'
<1>0. TypeOK /\ CountInv /\ SideInv(e) /\ SideInv(Peer(e))
  BY PeerFacts DEF IInv
<1>1. UNCHANGED <<count, closed, wait, event, pc, due, ending>>
  BY DEF Drain
<1>. USE DEF wait, ending
<1>2. /\ buffer[e] \in Seq({0, 1}) /\ buffer[e] # <<>>
      /\ Head(buffer[e]) \in {0, 1} /\ Tail(buffer[e]) \in Seq({0, 1})
      /\ Len(Tail(buffer[e])) = Len(buffer[e]) - 1
      /\ \A i \in 1 .. Len(buffer[e]) - 1 : Tail(buffer[e])[i] = buffer[e][i + 1]
      /\ Head(buffer[e]) = buffer[e][1] /\ Len(buffer[e]) \in Nat \ {0}
  BY <1>0, HeadTailProperties, EmptySeq DEF Drain, TypeOK
<1>3. /\ parked' \in [Sides -> {0, 1}]
      /\ parked'[e] = Head(buffer[e]) /\ parked'[Peer(e)] = parked[Peer(e)]
      /\ buffer' \in [Sides -> Seq({0, 1})]
      /\ buffer'[e] = Tail(buffer[e]) /\ buffer'[Peer(e)] = buffer[Peer(e)]
  BY <1>0, <1>2, PeerFacts DEF Drain, TypeOK
<1>4. TypeOK'
  BY <1>0, <1>1, <1>3 DEF TypeOK
<1>5. CountInv'
  BY <1>0, <1>1 DEF CountInv, DrainBeforeClosed
<1>6. ASSUME NEW d \in Sides, SideInv(d), Armed(d)'
      PROVE  SideInv(d)'
  BY <1>1, <1>6 DEF SideInv, StageOf, NotAround, Room, Unbumped, ClosedBump, ToBeBumped,
       ToldNews, SawNoNews, News, Signalled, ToldClosed, SawOpen, CloserWillWake, WokenOnNews, PeerWillWake
<1>7. Armed(e)'
  <2>1. stage[e] # "second"
    BY <1>0, <1>2 DEF SideInv, Armed
  <2>2. CASE Tail(buffer[e]) = <<>>
    <3>1. Len(buffer[e]) = 1
      <4>1. \A s \in Seq({0, 1}) : s = <<>> => Len(s) = 0
        BY EmptySeq
      <4>2. Len(Tail(buffer[e])) = 0
        BY <1>2, <2>2, <4>1
      <4>. QED  BY <1>2, <4>2
    <3>. QED  BY <1>0, <1>1, <1>2, <1>3, <2>1, <2>2, <3>1 DEF SideInv, Armed
  <2>3. CASE Tail(buffer[e]) # <<>>
    <3>1. Len(buffer[e]) - 1 \in 1 .. Len(buffer[e]) - 1
      BY <1>2, <2>3, EmptySeq
    <3>2. Tail(buffer[e])[Len(Tail(buffer[e]))] = buffer[e][Len(buffer[e])]
      BY <1>2, <3>1
    <3>. QED  BY <1>0, <1>1, <1>2, <1>3, <2>1, <2>3, <3>2 DEF SideInv, Armed
  <2>. QED  BY <2>2, <2>3
<1>8. Armed(Peer(e))'
  BY <1>0, <1>1, <1>3 DEF SideInv, Armed
<1>. QED  BY <1>0, <1>4, <1>5, <1>6, <1>7, <1>8, PeerFacts DEF IInv

(***************************************************************************)
(* The theorems.                                                           *)
(***************************************************************************)
\* Nobody waits in the initial states.
LEMMA InitEstablishes == Init => IInv
<1>. SUFFICES ASSUME Init
              PROVE  IInv
  OBVIOUS
<1>1. TypeOK
  <2>1. 0 \in 0 .. Cap /\ 0 \in 0 .. NotifyMod - 1 /\ <<>> \in Seq({0, 1})
    BY WaitWakeAssumption, EmptySeq
  <2>. QED  BY <2>1, TwoSides DEF Init, TypeOK, Labels
<1>2. CountInv
  BY WaitWakeAssumption, TwoSides DEF Init, CountInv, DrainBeforeClosed
<1>3. ASSUME NEW e \in Sides
      PROVE  SideInv(e)
  <2>1. /\ pc[e] = "idle" /\ pc[Peer(e)] = "idle" /\ stage[e] = "try" /\ moved[e] = 0
        /\ ~closed /\ closer = "none"
    BY <1>3, PeerFacts DEF Init
  <2>2. NotAround(e)
    BY <1>1, <1>3, <2>1, Ranges DEF NotAround
  <2>. QED  BY <2>1, <2>2 DEF SideInv, StageOf, Armed, ToldNews, SawNoNews, ToldClosed, SawOpen, WokenOnNews
<1>. QED  BY <1>1, <1>2, <1>3 DEF IInv

\* The invariant is inductive: one lemma above for each action.
LEMMA StepPreserves == IInv /\ [Next]_vars => IInv'
<1>. SUFFICES ASSUME IInv, [Next]_vars
              PROVE  IInv'
  OBVIOUS
<1>1. ASSUME NEW e \in Sides, Call(e) \/ TimedOut(e) \/ Timeout(e) \/ Drain(e) \/ ProbeDue(e) \/ Finish(e) \/ Crash(e)
      PROVE  IInv'
  BY <1>1, CallKeeps, TimedOutKeeps, TimeoutKeeps, DrainKeeps, ProbeDueKeeps, FinishKeeps, CrashKeeps
<1>2. ASSUME NEW e \in Sides, Look(e)
      PROVE  IInv'
  BY <1>2, CheckReadyKeeps, ProbeFindsDeathKeeps, LookForSpaceKeeps, PeekKeeps, RePeekKeeps DEF Look
<1>3. ASSUME NEW e \in Sides, Step(e)
      PROVE  IInv'
  BY <1>2, <1>3, SnapshotKeeps, ParkKeeps, FenceKeeps, SleepKeeps, UnparkKeeps,
     CommitKeeps, BumpNotifyKeeps, LoadParkedKeeps, WakePeerKeeps DEF Step
<1>4. CASE WakeAll
  BY <1>4, WakeAllBumpKeeps, WakeAllWakeKeeps DEF WakeAll
<1>5. CASE UNCHANGED vars
  <2>. USE <1>5 DEF vars, memory, wait, local, ending
  <2>1. TypeOK'
    BY DEF IInv, TypeOK
  <2>2. CountInv'
    BY DEF IInv, CountInv, DrainBeforeClosed
  <2>3. ASSUME NEW e \in Sides
        PROVE  SideInv(e)'
    <3>1. SideInv(e)
      BY DEF IInv
    <3>. QED  BY <3>1 DEF SideInv, StageOf, Armed, NotAround, Room, Unbumped, ClosedBump, ToBeBumped,
           ToldNews, SawNoNews, News, Signalled, ToldClosed, SawOpen, CloserWillWake, WokenOnNews, PeerWillWake
  <2>. QED  BY <2>1, <2>2, <2>3 DEF IInv
<1>. QED  BY <1>1, <1>3, <1>4, <1>5 DEF Next

\* The invariant that the theorems below rest on: what each side has
\* seen, what it has been told since, and who still owes it a wake.
THEOREM Invariance == Spec => []IInv
<1>1. Init => IInv
  BY InitEstablishes
<1>2. IInv /\ [Next]_vars => IInv'
  BY StepPreserves
<1>. QED  BY <1>1, <1>2, PTL DEF Spec

\* Every variable keeps its shape and the ring never holds more than Cap:
\* the sender publishes only after a look that found room, however long ago.
THEOREM Typing == Spec => []TypeOK
<1>1. IInv => TypeOK
  BY DEF IInv
<1>. QED  BY <1>1, Invariance, PTL

\* Nobody sleeps on news (wait_until against publish_message,
\* commit_current_message and wake_all), on either platform, for every
\* capacity, whoever may crash.
THEOREM NoLostWakeupHolds == Spec => []NoLostWakeup
<1>1. IInv => NoLostWakeup
  BY DEF IInv, SideInv, NoLostWakeup
<1>. QED  BY <1>1, Invariance, PTL

\* The receiver reports the end only after the last message published before
\* it (try_peek_or_closed).
THEOREM DrainBeforeClosedHolds == Spec => []DrainBeforeClosed
<1>1. IInv => DrainBeforeClosed
  BY DEF IInv, CountInv
<1>. QED  BY <1>1, Invariance, PTL

(***************************************************************************)
(* Messages published after the end. The bound holds because a message the *)
(* sender has looked at the state for counts as if it were published: only *)
(* a sender that found the channel open is on its way to one.              *)
(***************************************************************************)
OnItsWay == IF pc[Sender] \in {"space", "commit"} THEN 1 ELSE 0

LateInv == closed => count + OnItsWay <= owed + 1

\* Steps that neither publish, consume nor close keep the bound, if they put
\* the sender on its way only in an open channel.
LEMMA LateKept ==
  ASSUME TypeOK, LateInv, UNCHANGED <<count, closed, owed>>,
         closed => OnItsWay' <= OnItsWay
  PROVE  LateInv'
BY DEF TypeOK, LateInv, OnItsWay

\* The same, of a step that does not move the sender.
LEMMA LateKeptAtRest ==
  ASSUME TypeOK, LateInv, UNCHANGED <<count, closed, owed>>,
         pc'[Sender] = pc[Sender] \/ pc'[Sender] \notin {"space", "commit"}
  PROVE  LateInv'
BY LateKept DEF OnItsWay

\* A close owes the receiver what is in the ring.
LEMMA LateAtClose ==
  ASSUME TypeOK, UNCHANGED count, owed' = count
  PROVE  LateInv'
BY DEF TypeOK, LateInv, OnItsWay

\* The looks: a closed channel sends the sender away.
LEMMA LookKeepsLate ==
  ASSUME IInv, LateInv, NEW e \in Sides, Look(e)
  PROVE  LateInv'
<1>0. TypeOK /\ CountInv
  BY DEF IInv
<1>1. CASE CheckReady(e)
  <2>1. UNCHANGED <<count, closed, owed>>
    BY <1>1 DEF CheckReady, memory, ending
  <2>2. CASE e = Sender
    <3>1. CASE closed
      BY <1>0, <1>1, <2>1, <2>2, <3>1, FailedEffect, LateKeptAtRest DEF CheckReady
    <3>2. CASE ~closed
      BY <2>1, <3>2 DEF LateInv
    <3>. QED  BY <3>1, <3>2
  <2>3. CASE e = Receiver
    <3>1. CASE closed
      <4>1. LookOn(e, "repeek")
        BY <1>1, <2>3, <3>1, TwoSides DEF CheckReady
      <4>2. pc'[Sender] = pc[Sender]
        BY <1>0, <4>1, <2>3, LookOnEffect, TwoSides DEF Labels
      <4>. QED  BY <1>0, <2>1, <4>2, LateKeptAtRest
    <3>2. CASE ~closed
      BY <2>1, <3>2 DEF LateInv
    <3>. QED  BY <3>1, <3>2
  <2>. QED  BY <2>2, <2>3 DEF Sides
<1>2. CASE ProbeFindsDeath(e)
  <2>1. UNCHANGED count /\ owed' = count
    BY <1>2 DEF ProbeFindsDeath
  <2>. QED  BY <1>0, <2>1, LateAtClose
<1>3. CASE e = Sender /\ LookForSpace
  <2>1. UNCHANGED <<count, closed, owed>> /\ pc[Sender] = "space"
    BY <1>3 DEF LookForSpace, memory, ending
  <2>. QED  BY <1>0, <2>1, LateKept DEF OnItsWay
<1>4. CASE e = Receiver /\ (Peek \/ RePeek)
  <2>1. UNCHANGED <<count, closed, owed>>
    BY <1>4 DEF Peek, RePeek, memory, ending
  <2>2. Found(Receiver) \/ LookOn(Receiver, "ready") \/ Failed(Receiver)
    BY <1>4 DEF Peek, RePeek
  <2>3. pc'[Sender] = pc[Sender]
    BY <1>0, <2>2, FoundEffect, LookOnEffect, FailedEffect, TwoSides DEF Labels
  <2>. QED  BY <1>0, <2>1, <2>3, LateKeptAtRest
<1>. QED  BY <1>1, <1>2, <1>3, <1>4 DEF Look

\* The cursor store: the sender's message was counted, the receiver's was owed
\* or is the late one.
LEMMA CommitKeepsLate ==
  ASSUME IInv, LateInv, NEW e \in Sides, Commit(e)
  PROVE  LateInv'
<1>0. TypeOK /\ CountInv
  BY DEF IInv
<1>1. /\ UNCHANGED closed
      /\ pc[e] = "commit" /\ pc'[e] = "bump"
      /\ pc'[Peer(e)] = pc[Peer(e)]
  BY <1>0, GotoEffect DEF Commit, Labels
<1>2. count \in Nat /\ owed \in Nat
  BY <1>0, Counts
<1>3. CASE e = Sender
  <2>1. count' = count + 1 /\ owed' = owed
    BY <1>3, TwoSides DEF Commit
  <2>. QED  BY <1>1, <1>2, <1>3, <2>1 DEF LateInv, OnItsWay
<1>4. CASE e = Receiver
  <2>1. count' = count - 1 /\ owed' = (IF owed > 0 THEN owed - 1 ELSE owed)
    BY <1>4, TwoSides DEF Commit
  <2>2. pc'[Sender] = pc[Sender]
    BY <1>1, <1>4, TwoSides
  <2>3. OnItsWay' = OnItsWay
    BY <2>2 DEF OnItsWay
  <2>4. OnItsWay \in {0, 1}
    BY DEF OnItsWay
  <2>5. ASSUME closed
        PROVE  count' + OnItsWay' <= owed' + 1
    <3>1. count + OnItsWay <= owed + 1
      BY <2>5 DEF LateInv
    <3>. QED  BY <1>2, <2>1, <2>3, <2>4, <3>1
  <2>. QED  BY <1>1, <2>5 DEF LateInv
<1>. QED  BY <1>3, <1>4 DEF Sides

\* The other steps of a thread do not send.
LEMMA StepKeepsLate ==
  ASSUME IInv, LateInv, NEW e \in Sides, Step(e)
  PROVE  LateInv'
<1>0. TypeOK
  BY DEF IInv
<1>1. CASE Look(e)
  BY <1>1, LookKeepsLate
<1>2. CASE Commit(e)
  BY <1>2, CommitKeepsLate
<1>3. CASE WakePeer(e)
  <2>1. UNCHANGED <<count, closed, owed>>
    BY <1>3 DEF WakePeer, memory, ending
  <2>2. pc'[Sender] = pc[Sender] \/ pc'[Sender] \notin {"space", "commit"}
    BY <1>0, <1>3, PeerFacts DEF WakePeer, WakeHandle, TypeOK, Sides
  <2>. QED  BY <1>0, <2>1, <2>2, LateKeptAtRest
<1>4. CASE Snapshot(e) \/ Park(e) \/ Fence(e) \/ Sleep(e) \/ Unpark(e) \/ BumpNotify(e) \/ LoadParked(e)
  <2>1. UNCHANGED <<count, closed, owed>>
    BY <1>4 DEF Snapshot, Park, Fence, Sleep, Unpark, BumpNotify, LoadParked, memory, ending
  <2>2. PICK l \in Labels \ {"space", "commit"} : Goto(e, l)
    BY <1>4 DEF Snapshot, Park, Fence, Sleep, Unpark, BumpNotify, LoadParked, FirstLook, Labels
  <2>3. pc'[Sender] = pc[Sender] \/ pc'[Sender] \notin {"space", "commit"}
    BY <1>0, <2>2, GotoEffect DEF Sides, Peer
  <2>. QED  BY <1>0, <2>1, <2>3, LateKeptAtRest
<1>. QED  BY <1>1, <1>2, <1>3, <1>4 DEF Step

\* No step breaks the bound.
LEMMA LatePreserved == IInv /\ LateInv /\ [Next]_vars => LateInv'
<1>. SUFFICES ASSUME IInv, LateInv, [Next]_vars
              PROVE  LateInv'
  OBVIOUS
<1>0. TypeOK
  BY DEF IInv
<1>1. ASSUME NEW e \in Sides, Step(e)
      PROVE  LateInv'
  BY <1>1, StepKeepsLate
<1>2. ASSUME NEW e \in Sides, Call(e) \/ TimedOut(e) \/ Timeout(e) \/ Crash(e)
      PROVE  LateInv'
  <2>1. UNCHANGED <<count, closed, owed>>
    BY <1>2 DEF Call, TimedOut, Timeout, Crash, memory, ending
  <2>2. PICK l \in Labels \ {"space", "commit"} : Goto(e, l)
    BY <1>2 DEF Call, TimedOut, Timeout, Crash, FirstLook, Labels
  <2>3. pc'[Sender] = pc[Sender] \/ pc'[Sender] \notin {"space", "commit"}
    BY <1>0, <2>2, GotoEffect DEF Sides, Peer
  <2>. QED  BY <1>0, <2>1, <2>3, LateKeptAtRest
<1>3. ASSUME NEW e \in Sides, Drain(e) \/ ProbeDue(e)
      PROVE  LateInv'
  <2>1. UNCHANGED <<count, closed, owed, pc>>
    BY <1>3 DEF Drain, ProbeDue, memory, ending
  <2>. QED  BY <1>0, <2>1, LateKeptAtRest
<1>4. ASSUME NEW e \in Sides, Finish(e)
      PROVE  LateInv'
  <2>1. UNCHANGED count /\ owed' = count
    BY <1>4 DEF Finish
  <2>. QED  BY <1>0, <2>1, LateAtClose
<1>5. CASE WakeAll
  <2>1. UNCHANGED memory /\ UNCHANGED owed
    BY <1>5 DEF WakeAll, WakeAllBump, WakeAllWake
  <2>2. UNCHANGED pc \/ \E d \in Sides : WakeHandle(d, pc)
    BY <1>5, TwoSides DEF WakeAll, WakeAllBump, WakeAllWake, local
  <2>3. pc'[Sender] = pc[Sender] \/ pc'[Sender] \notin {"space", "commit"}
    <3>1. CASE UNCHANGED pc
      BY <3>1
    <3>2. ASSUME NEW d \in Sides, WakeHandle(d, pc)
          PROVE  pc'[Sender] = pc[Sender] \/ pc'[Sender] \notin {"space", "commit"}
      <4>1. pc \in [Sides -> Labels]
        BY <1>0 DEF TypeOK
      <4>2. pc' = [pc EXCEPT ![d] = IF pc[d] = "asleep" THEN "unpark" ELSE @]
        BY <3>2 DEF WakeHandle
      <4>. QED  BY <4>1, <4>2, TwoSides
    <3>. QED  BY <2>2, <3>1, <3>2
  <2>. QED  BY <1>0, <2>1, <2>3, LateKeptAtRest DEF memory
<1>6. CASE UNCHANGED vars
  BY <1>0, <1>6, LateKeptAtRest DEF vars, memory, local, ending
<1>. QED  BY <1>1, <1>2, <1>3, <1>4, <1>5, <1>6 DEF Next

\* A close that the sender did not see lets at most one more message into the
\* ring (try_send_once), whatever its capacity.
THEOREM AtMostOneLateHolds == Spec => []AtMostOneLate
<1>1. Init => LateInv
  BY DEF Init, LateInv
<1>2. IInv /\ LateInv => AtMostOneLate
  BY Counts DEF IInv, LateInv, OnItsWay, AtMostOneLate
<1>. QED  BY <1>1, <1>2, LatePreserved, Invariance, PTL DEF Spec

(***************************************************************************)
(* The direction that Direction describes. A step is quiet if it moves no  *)
(* message and does not close; it then maps to what it shows of the sender *)
(* (Admit, GiveUp) or of the receiver (Report, Ask), or to nothing.        *)
(***************************************************************************)
Mapped == [Promise!Next]_Promise!vars

Quiet == UNCHANGED <<count, closed, owed>>

\* The queue of n units: its length, one more and one less.
LEMMA UnitsFacts ==
  ASSUME NEW n \in Nat
  PROVE  /\ Units(n) \in Seq({Unit})
         /\ Len(Units(n)) = n
         /\ Append(Units(n), Unit) = Units(n + 1)
         /\ n > 0 => /\ Units(n) # <<>>
                     /\ Head(Units(n)) = Unit
                     /\ Tail(Units(n)) = Units(n - 1)
<1>0. ASSUME NEW k \in Nat
      PROVE  /\ Units(k) \in Seq({Unit}) /\ Len(Units(k)) = k
             /\ \A i \in 1 .. k : Units(k)[i] = Unit
  BY IsASeq, LenProperties DEF Units
<1>1. Append(Units(n), Unit) = Units(n + 1)
  <2>1. /\ Append(Units(n), Unit) \in Seq({Unit})
        /\ Len(Append(Units(n), Unit)) = n + 1
        /\ \A i \in 1 .. n : Append(Units(n), Unit)[i] = Unit
        /\ Append(Units(n), Unit)[n + 1] = Unit
    BY <1>0, AppendProperties
  <2>2. n + 1 \in Nat
    OBVIOUS
  <2>3. /\ Units(n + 1) \in Seq({Unit}) /\ Len(Units(n + 1)) = n + 1
        /\ \A i \in 1 .. n + 1 : Units(n + 1)[i] = Unit
    BY <1>0, <2>2
  <2>4. \A i \in 1 .. n + 1 : i \in 1 .. n \/ i = n + 1
    OBVIOUS
  <2>5. \A i \in 1 .. n + 1 : Append(Units(n), Unit)[i] = Units(n + 1)[i]
    BY <2>1, <2>3, <2>4
  <2>. QED  BY <2>1, <2>3, <2>5, SeqEqual
<1>2. ASSUME n > 0
      PROVE  Units(n) # <<>> /\ Head(Units(n)) = Unit /\ Tail(Units(n)) = Units(n - 1)
  <2>1. Units(n) # <<>>
    BY <1>0, <1>2, EmptySeq
  <2>2. /\ Head(Units(n)) \in {Unit}
        /\ Tail(Units(n)) \in Seq({Unit})
        /\ Len(Tail(Units(n))) = n - 1
        /\ \A i \in 1 .. n - 1 : Tail(Units(n))[i] = Units(n)[i + 1]
    BY <1>0, <2>1, HeadTailProperties
  <2>3. n - 1 \in Nat
    BY <1>2
  <2>4. /\ Units(n - 1) \in Seq({Unit}) /\ Len(Units(n - 1)) = n - 1
        /\ \A i \in 1 .. n - 1 : Units(n - 1)[i] = Unit
    BY <1>0, <2>3
  <2>5. \A i \in 1 .. n - 1 : i + 1 \in 1 .. n
    OBVIOUS
  <2>6. \A i \in 1 .. n - 1 : Tail(Units(n))[i] = Units(n - 1)[i]
    BY <1>0, <2>2, <2>4, <2>5
  <2>. QED  BY <2>1, <2>2, <2>4, <2>6, SeqEqual
<1>. QED  BY <1>0, <1>1, <1>2

\* A quiet step moves nothing in the queue.
LEMMA QuietQueue ==
  ASSUME Quiet
  PROVE  UNCHANGED Promise!fifo
BY DEF Quiet, Promise!fifo, Units

\* A quiet step of the sender, who is admitted to publish only while the
\* channel is open.
LEMMA QuietSender ==
  ASSUME Quiet, pc'[Receiver] = pc[Receiver],
         pc'[Sender] \in {"space", "commit"} => (pc[Sender] \in {"space", "commit"} \/ ~closed)
  PROVE  Mapped
<1>1. UNCHANGED Promise!fifo /\ UNCHANGED <<closed, owed>> /\ UNCHANGED Told
  BY QuietQueue DEF Quiet, Told
<1>2. CASE pc'[Sender] \in {"space", "commit"} /\ pc[Sender] \in {"space", "commit"}
  <2>1. UNCHANGED Promise!vars
    BY <1>1, <1>2 DEF Admitted, Promise!vars
  <2>. QED  BY <2>1 DEF Mapped
<1>3. CASE pc'[Sender] \in {"space", "commit"} /\ ~closed
  <2>1. Promise!Admit
    BY <1>1, <1>3 DEF Admitted, Promise!Admit
  <2>. QED  BY <2>1 DEF Mapped, Promise!Next
<1>4. CASE pc'[Sender] \notin {"space", "commit"}
  <2>1. Promise!GiveUp
    BY <1>1, <1>4 DEF Admitted, Promise!GiveUp
  <2>. QED  BY <2>1 DEF Mapped, Promise!Next
<1>. QED  BY <1>2, <1>3, <1>4

\* A quiet step of the receiver, who is told of the end when nothing is owed.
LEMMA QuietReceiver ==
  ASSUME Quiet, pc'[Sender] = pc[Sender],
         pc'[Receiver] = "failed" => closed /\ owed = 0
  PROVE  Mapped
<1>1. UNCHANGED Promise!fifo /\ UNCHANGED <<closed, owed>> /\ UNCHANGED Admitted
  BY QuietQueue DEF Quiet, Admitted
<1>2. CASE pc'[Receiver] = "failed"
  <2>1. Promise!Report
    BY <1>1, <1>2 DEF Told, Promise!Report
  <2>. QED  BY <2>1 DEF Mapped, Promise!Next
<1>3. CASE pc'[Receiver] # "failed"
  <2>1. Promise!Ask
    BY <1>1, <1>3 DEF Told, Promise!Ask
  <2>. QED  BY <2>1 DEF Mapped, Promise!Next
<1>. QED  BY <1>2, <1>3

\* The cursor stores: a message the sender was admitted for goes in, a message
\* the receiver has found comes out.
LEMMA CommitMaps ==
  ASSUME IInv, NEW e \in Sides, Commit(e)
  PROVE  Mapped
<1>0. TypeOK /\ CountInv /\ count \in Nat /\ owed \in Nat /\ Cap \in Nat
  BY Counts DEF IInv
<1>1. /\ UNCHANGED closed
      /\ pc[e] = "commit" /\ pc'[e] = "bump"
      /\ pc'[Peer(e)] = pc[Peer(e)]
  BY <1>0, GotoEffect DEF Commit, Labels
<1>2. 1 + Unit.len = 1
  BY DEF Unit
<1>3. CASE e = Sender
  <2>1. count' = count + 1 /\ owed' = owed /\ count + 1 <= Cap
    BY <1>0, <1>1, <1>3, TwoSides DEF Commit, CountInv
  <2>2. pc'[Receiver] = pc[Receiver]
    BY <1>1, <1>3, TwoSides
  <2>3. Promise!Queue!Put(Unit)
    <3>1. Units(count') = Append(Units(count), Unit)
      BY <1>0, <2>1, UnitsFacts
    <3>. QED  BY <1>0, <1>2, <2>1, <3>1 DEF Promise!Queue!Put, Promise!Queue!Size
  <2>4. Promise!Put(Unit)
    BY <1>1, <1>3, <2>1, <2>2, <2>3 DEF Promise!Put, Admitted, Told
  <2>. QED  BY <2>4 DEF Mapped, Promise!Next
<1>4. CASE e = Receiver
  <2>1. count' = count - 1 /\ owed' = (IF owed > 0 THEN owed - 1 ELSE owed) /\ count > 0
    BY <1>0, <1>1, <1>4, TwoSides DEF Commit, CountInv
  <2>2. pc'[Sender] = pc[Sender]
    BY <1>1, <1>4, TwoSides
  <2>3. Promise!Queue!Take
    <3>1. Units(count) # <<>> /\ Units(count') = Tail(Units(count)) /\ Head(Units(count)) = Unit
      BY <1>0, <2>1, UnitsFacts
    <3>. QED  BY <1>0, <1>2, <2>1, <3>1
              DEF Promise!Queue!Take, Promise!Queue!Remove, Promise!Queue!Size, Contents
  <2>4. owed' = IF owed > 0 THEN owed - 1 ELSE 0
    BY <1>0, <2>1
  <2>5. Promise!Receive
    BY <1>1, <1>4, <2>2, <2>3, <2>4 DEF Promise!Receive, Admitted, Told
  <2>. QED  BY <2>5 DEF Mapped, Promise!Next
<1>. QED  BY <1>3, <1>4 DEF Sides

\* What closes the channel owes the receiver what is in the ring, and neither
\* admits the sender nor tells the receiver.
LEMMA EndMaps ==
  ASSUME TypeOK, ~closed, closed' = TRUE, UNCHANGED count, owed' = count,
         UNCHANGED Admitted, UNCHANGED Told
  PROVE  Mapped
<1>1. count \in Nat
  BY Counts
<1>2. UNCHANGED Promise!fifo
  BY DEF Promise!fifo, Units
<1>3. Promise!End
  BY <1>1, <1>2, UnitsFacts DEF Promise!End
<1>. QED  BY <1>3 DEF Mapped, Promise!Next

\* The looks: the sender is admitted by a look at an open channel; the receiver
\* is told by a last peek that finds nothing after the end.
LEMMA LookMaps ==
  ASSUME IInv, NEW e \in Sides, Look(e)
  PROVE  Mapped
<1>0. TypeOK /\ CountInv
  BY DEF IInv
<1>1. CASE CheckReady(e)
  <2>1. Quiet
    BY <1>1 DEF CheckReady, memory, ending, Quiet
  <2>2. CASE e = Sender
    <3>1. Failed(e) \/ LookOn(e, "space")
      BY <1>1, <2>2 DEF CheckReady
    <3>2. pc'[Receiver] = pc[Receiver]
      BY <1>0, <2>2, <3>1, FailedEffect, LookOnEffect, TwoSides DEF Labels
    <3>3. closed => pc'[Sender] = "failed"
      BY <1>0, <1>1, <2>2, FailedEffect DEF CheckReady
    <3>. QED  BY <2>1, <3>2, <3>3, QuietSender
  <2>3. CASE e = Receiver
    <3>1. LookOn(e, "repeek") \/ Nothing(e)
      BY <1>1, <2>3, TwoSides DEF CheckReady
    <3>2. pc'[Sender] = pc[Sender] /\ pc'[Receiver] # "failed"
      <4>1. stage[e] \in {"try", "first", "second"}
        BY <1>0 DEF TypeOK
      <4>. QED  BY <1>0, <2>3, <3>1, <4>1, NothingEffect, LookOnEffect, TwoSides DEF Labels
    <3>. QED  BY <2>1, <3>2, QuietReceiver
  <2>. QED  BY <2>2, <2>3 DEF Sides
<1>2. CASE ProbeFindsDeath(e)
  <2>1. ~closed /\ closed' = TRUE /\ UNCHANGED count /\ owed' = count /\ pc[e] = "ready"
    BY <1>2 DEF ProbeFindsDeath
  <2>2. Failed(e) \/ LookOn(e, "repeek")
    BY <1>2 DEF ProbeFindsDeath
  <2>3. pc'[Peer(e)] = pc[Peer(e)] /\ pc'[e] \in {"failed", "repeek"}
    BY <1>0, <2>2, FailedEffect, LookOnEffect DEF Labels
  <2>4. e = Receiver => pc'[e] = "repeek"
    BY <1>0, <1>2, LookOnEffect, TwoSides DEF ProbeFindsDeath, Labels
  <2>5. UNCHANGED Admitted
    BY <2>1, <2>3, TwoSides DEF Admitted, Sides
  <2>6. UNCHANGED Told
    BY <2>1, <2>3, <2>4, TwoSides DEF Told, Sides
  <2>. QED  BY <1>0, <2>1, <2>5, <2>6, EndMaps
<1>3. CASE e = Sender /\ LookForSpace
  <2>1. Quiet /\ pc[Sender] = "space"
    BY <1>3 DEF LookForSpace, memory, ending, Quiet
  <2>2. Found(Sender) \/ Nothing(Sender)
    BY <1>3 DEF LookForSpace
  <2>3. pc'[Receiver] = pc[Receiver]
    BY <1>0, <2>2, FoundEffect, NothingEffect, TwoSides
  <2>. QED  BY <2>1, <2>3, QuietSender
<1>4. CASE e = Receiver /\ (Peek \/ RePeek)
  <2>1. Quiet
    BY <1>4 DEF Peek, RePeek, memory, ending, Quiet
  <2>2. Found(Receiver) \/ LookOn(Receiver, "ready") \/ Failed(Receiver)
    BY <1>4 DEF Peek, RePeek
  <2>3. pc'[Sender] = pc[Sender]
    BY <1>0, <2>2, FoundEffect, LookOnEffect, FailedEffect, TwoSides DEF Labels
  <2>4. pc'[Receiver] = "failed" => closed /\ owed = 0
    <3>1. CASE Peek
      <4>1. Found(Receiver) \/ LookOn(Receiver, "ready")
        BY <3>1 DEF Peek
      <4>. QED  BY <1>0, <4>1, FoundEffect, LookOnEffect, TwoSides DEF Labels
    <3>2. CASE RePeek
      <4>1. count > 0 => pc'[Receiver] # "failed"
        BY <1>0, <3>2, FoundEffect, TwoSides DEF RePeek
      <4>2. ~(count > 0) => closed /\ owed = 0
        BY <1>0, <3>2, Counts DEF RePeek, CountInv
      <4>. QED  BY <4>1, <4>2
    <3>. QED  BY <1>4, <3>1, <3>2
  <2>. QED  BY <2>1, <2>3, <2>4, QuietReceiver
<1>. QED  BY <1>1, <1>2, <1>3, <1>4 DEF Look

\* A quiet step of either side that leads elsewhere.
LEMMA ElsewhereMaps ==
  ASSUME TypeOK, Quiet, NEW e \in Sides, NEW l \in Labels \ {"space", "commit", "failed"}, Goto(e, l)
  PROVE  Mapped
<1>1. pc'[e] = l /\ pc'[Peer(e)] = pc[Peer(e)]
  BY GotoEffect
<1>2. CASE e = Sender
  BY <1>1, <1>2, TwoSides, QuietSender
<1>3. CASE e = Receiver
  BY <1>1, <1>3, TwoSides, QuietReceiver
<1>. QED  BY <1>2, <1>3 DEF Sides

\* A wake that somebody outside of send and recv makes.
LEMMA WakeMaps ==
  ASSUME TypeOK, Quiet,
         \A e \in Sides : pc'[e] = pc[e] \/ (pc'[e] \in {"unpark", "idle"} /\ pc[e] \in {"asleep", "wake"})
  PROVE  Mapped
<1>1. UNCHANGED Promise!fifo /\ UNCHANGED <<closed, owed>>
  BY QuietQueue DEF Quiet
<1>2. UNCHANGED Admitted
  BY TwoSides DEF Admitted
<1>3. UNCHANGED Told
  BY TwoSides DEF Told
<1>4. UNCHANGED Promise!vars
  BY <1>1, <1>2, <1>3 DEF Promise!vars
<1>. QED  BY <1>4 DEF Mapped

\* Every step maps to a step, or to none.
LEMMA StepMaps == IInv /\ [Next]_vars => [Promise!Next]_Promise!vars
<1>. SUFFICES ASSUME IInv, [Next]_vars
              PROVE  Mapped
  BY DEF Mapped
<1>0. TypeOK
  BY DEF IInv
<1>1. ASSUME NEW e \in Sides, Look(e) \/ Commit(e)
      PROVE  Mapped
  BY <1>1, LookMaps, CommitMaps
<1>2. ASSUME NEW e \in Sides,
             Snapshot(e) \/ Park(e) \/ Fence(e) \/ Sleep(e) \/ Unpark(e) \/ BumpNotify(e) \/ LoadParked(e)
      PROVE  Mapped
  <2>1. Quiet
    BY <1>2 DEF Snapshot, Park, Fence, Sleep, Unpark, BumpNotify, LoadParked, memory, ending, Quiet
  <2>2. PICK l \in Labels \ {"space", "commit", "failed"} : Goto(e, l)
    BY <1>2 DEF Snapshot, Park, Fence, Sleep, Unpark, BumpNotify, LoadParked, FirstLook, Labels
  <2>. QED  BY <1>0, <2>1, <2>2, ElsewhereMaps
<1>3. ASSUME NEW e \in Sides, Call(e) \/ TimedOut(e) \/ Timeout(e) \/ Crash(e)
      PROVE  Mapped
  <2>1. Quiet
    BY <1>3 DEF Call, TimedOut, Timeout, Crash, memory, ending, Quiet
  <2>2. PICK l \in Labels \ {"space", "commit", "failed"} : Goto(e, l)
    BY <1>3 DEF Call, TimedOut, Timeout, Crash, FirstLook, Labels
  <2>. QED  BY <1>0, <2>1, <2>2, ElsewhereMaps
<1>4. ASSUME NEW e \in Sides, WakePeer(e)
      PROVE  Mapped
  <2>1. Quiet /\ pc[e] = "wake"
    BY <1>4 DEF WakePeer, memory, ending, Quiet
  <2>2. [pc EXCEPT ![e] = "idle"] \in [Sides -> Labels]
    BY <1>0 DEF TypeOK, Labels
  <2>3. WakeHandle(Peer(e), [pc EXCEPT ![e] = "idle"])
    BY <1>4 DEF WakePeer
  <2>4. /\ pc'[Peer(e)] = IF pc[Peer(e)] = "asleep" THEN "unpark" ELSE pc[Peer(e)]
        /\ pc'[e] = "idle"
    BY <1>0, <2>3, PeerFacts DEF WakeHandle, TypeOK
  <2>. QED  BY <1>0, <2>1, <2>4, PeerFacts, WakeMaps
<1>5. ASSUME NEW e \in Sides, Drain(e) \/ ProbeDue(e)
      PROVE  Mapped
  <2>1. Quiet /\ UNCHANGED pc
    BY <1>5 DEF Drain, ProbeDue, memory, ending, Quiet
  <2>. QED  BY <1>0, <2>1, WakeMaps
<1>6. ASSUME NEW e \in Sides, Finish(e)
      PROVE  Mapped
  <2>1. ~closed /\ closed' = TRUE /\ UNCHANGED count /\ owed' = count /\ UNCHANGED pc
    BY <1>6 DEF Finish, local
  <2>. QED  BY <1>0, <2>1, EndMaps DEF Admitted, Told
<1>7. CASE WakeAll
  <2>1. Quiet
    BY <1>7 DEF WakeAll, WakeAllBump, WakeAllWake, memory, Quiet
  <2>2. UNCHANGED pc \/ \E d \in Sides : WakeHandle(d, pc)
    BY <1>7, TwoSides DEF WakeAll, WakeAllBump, WakeAllWake, local
  <2>3. CASE UNCHANGED pc
    BY <1>0, <2>1, <2>3, WakeMaps
  <2>4. ASSUME NEW d \in Sides, WakeHandle(d, pc)
        PROVE  Mapped
    <3>1. pc \in [Sides -> Labels]
      BY <1>0 DEF TypeOK
    <3>2. pc' = [pc EXCEPT ![d] = IF pc[d] = "asleep" THEN "unpark" ELSE @]
      BY <2>4 DEF WakeHandle
    <3>. QED  BY <1>0, <2>1, <3>1, <3>2, WakeMaps
  <2>. QED  BY <2>2, <2>3, <2>4
<1>8. CASE UNCHANGED vars
  <2>1. Quiet /\ UNCHANGED pc
    BY <1>8 DEF vars, memory, local, ending, Quiet
  <2>. QED  BY <1>0, <2>1, WakeMaps
<1>. QED  BY <1>1, <1>2, <1>3, <1>4, <1>5, <1>6, <1>7, <1>8 DEF Next, Step

\* Whoever waits, sleeps, wakes, closes or dies in between, and whatever the
\* platform and the capacity: nothing is published beyond the capacity or
\* without a look at the state before it, and recv reports the end only after
\* what was there when it came (try_send_once, try_peek_or_closed, finish).
THEOREM WaitsRefineDirection == Spec => ImplementsDirection
<1>1. Init => Promise!Init
  <2>. SUFFICES ASSUME Init
                PROVE  Promise!Init
    OBVIOUS
  <2>1. Units(0) = <<>>
    BY DEF Units
  <2>2. Promise!Queue!Init
    BY <2>1 DEF Init, Promise!Queue!Init
  <2>. QED  BY <2>2, TwoSides DEF Init, Promise!Init, Admitted, Told
<1>. QED  BY <1>1, StepMaps, Invariance, PTL DEF Spec, ImplementsDirection, Promise!Spec
=============================================================================
