------------------------------ MODULE WaitWake ------------------------------
(***************************************************************************)
(* Blocking and waking on one ring: the sender that waits for space, the   *)
(* receiver that waits for a message, and the close that must release      *)
(* both.  Ring says what moves between them; here a message is a unit of a *)
(* counter, and what matters is who sleeps, who is told, and in which      *)
(* order each side stores its news and looks at the other's.               *)
(*                                                                         *)
(* Each side waits on a pair of words in shared memory (src/header.rs):    *)
(* notify, which the other side bumps after its news is out, and parked,   *)
(* which it sets before it goes to sleep.  The other side skips the system *)
(* call when it reads parked = 0.  A store to parked may linger in the     *)
(* store buffer of its processor until a fence, an atomic                  *)
(* read-modify-write or chance drains it (x86-64, where continuous         *)
(* integration runs the program).                                          *)
(*                                                                         *)
(* A process may die between any two steps; the channel is Connected until *)
(* somebody closes it or finds the other process dead.                     *)
(***************************************************************************)
EXTENDS Integers, Sequences

CONSTANTS
  Platform,   \* "linux": futex words; "windows": auto-reset events
  Cap,        \* messages the ring holds
  NotifyMod,  \* notify words wrap at this value (2^32)
  MayCrash    \* the sides whose process may die

Sender   == "sender"
Receiver == "receiver"
Sides    == {Sender, Receiver}
Peer(e)  == IF e = Sender THEN Receiver ELSE Sender

ASSUME WaitWakeAssumption ==
  /\ Platform \in {"linux", "windows"}
  /\ Cap \in Nat \ {0}
  /\ NotifyMod \in Nat
  /\ NotifyMod > Cap + 2
  /\ MayCrash \subseteq Sides

VARIABLES
  \* Shared memory.
  count,    \* messages published and not consumed: write_cursor - read_cursor
  closed,   \* the channel state is Closed or PeerDisconnected
  moved,    \* moved[e]: e's notify word minus e's snapshot; 0 without one
  parked,   \* parked[e]: e's parked word, as the other side sees it
  \* One side's processor and kernel objects.
  buffer,   \* buffer[e]: e's stores to parked that are still on their way
  event,    \* event[e]: e's event is set (windows)
  pc,       \* pc[e]: where e is
  stage,    \* stage[e]: which look at the condition e is in: try, before the
            \* snapshot; first, after it; second, after parked = 1
  due,      \* due[e]: the next check_ready of e probes the peer, which is dead
  \* Whoever closes the channel.
  closer,   \* none | bump | wake of receiver and sender in turn | done | dead
  owner,    \* the side in whose process that is
  \* History.
  owed      \* messages in the ring when it was closed and not consumed since

memory == <<count, closed, parked>>
wait   == <<moved, stage>>
local  == <<buffer, event, pc, due>>
ending == <<closer, owner, owed>>
vars   == <<memory, wait, local, ending>>

Init ==
  /\ count = 0
  /\ closed = FALSE
  /\ moved = [e \in Sides |-> 0]
  /\ parked = [e \in Sides |-> 0]
  /\ buffer = [e \in Sides |-> <<>>]
  /\ event = [e \in Sides |-> FALSE]
  /\ pc = [e \in Sides |-> "idle"]
  /\ stage = [e \in Sides |-> "try"]
  /\ due = [e \in Sides |-> FALSE]
  /\ closer = "none"
  /\ owner = Sender
  /\ owed = 0

(***************************************************************************)
(* The parked word: a store goes to the buffer; a drain, a fence or an     *)
(* atomic read-modify-write makes it visible.                              *)
(***************************************************************************)
Store(e, b) == buffer' = [buffer EXCEPT ![e] = Append(@, b)]

Flush(e) ==
  /\ parked' = [parked EXCEPT ![e] = IF buffer[e] = <<>> THEN @ ELSE buffer[e][Len(buffer[e])]]
  /\ buffer' = [buffer EXCEPT ![e] = <<>>]

Drain(e) ==
  /\ buffer[e] # <<>>
  /\ parked' = [parked EXCEPT ![e] = Head(buffer[e])]
  /\ buffer' = [buffer EXCEPT ![e] = Tail(@)]
  /\ UNCHANGED <<count, closed, wait, event, pc, due, ending>>

\* notify.fetch_add(1).
Bump(e) ==
  moved' = IF stage[e] = "try" THEN moved
           ELSE [moved EXCEPT ![e] = IF @ = NotifyMod - 1 THEN 0 ELSE @ + 1]

(***************************************************************************)
(* wake_handle, by the waker whose program counter moves on as nextPc      *)
(* says: a futex wake is lost on a side that does not sleep yet, an event  *)
(* stays set for its next wait.                                            *)
(***************************************************************************)
WakeHandle_NotSticky(e, nextPc) ==
  /\ pc' = [nextPc EXCEPT ![e] = IF pc[e] = "asleep" THEN "unpark" ELSE @]
  /\ event' = [event EXCEPT ![e] = IF pc[e] = "asleep" THEN @ ELSE FALSE]

WakeHandle(e, nextPc) ==
  /\ pc' = [nextPc EXCEPT ![e] = IF pc[e] = "asleep" THEN "unpark" ELSE @]
  /\ event' = [event EXCEPT ![e] = IF pc[e] = "asleep" THEN @ ELSE Platform = "windows"]

(***************************************************************************)
(* The condition.  The sender looks at the state and then for space; the   *)
(* receiver for a message, then at the state, and once more for a message  *)
(* if it is closed.                                                        *)
(***************************************************************************)
FirstLook(e) == IF e = Sender THEN "ready" ELSE "peek"

Goto(e, label) == pc' = [pc EXCEPT ![e] = label]

\* The look found nothing: snapshot, park or sleep next.
Nothing(e) ==
  /\ Goto(e, CASE stage[e] = "try"    -> "snap"
               [] stage[e] = "first"  -> "deadline"
               [] stage[e] = "second" -> "sleep")
  /\ UNCHANGED <<buffer, wait>>

\* e waits no more, and forgets its snapshot.
Forget(e) ==
  /\ stage' = [stage EXCEPT ![e] = "try"]
  /\ moved' = [moved EXCEPT ![e] = 0]

\* The look ends the wait: parked = 0 if it was set.
LeaveWait(e) ==
  /\ IF stage[e] = "second" THEN Store(e, 0) ELSE UNCHANGED buffer
  /\ Forget(e)

Failed(e) == Goto(e, "failed") /\ LeaveWait(e)

\* Space found in a wait sends the sender back to try_send_once.
Found(e) ==
  /\ Goto(e, IF e = Sender /\ stage[e] # "try" THEN "ready" ELSE "commit")
  /\ LeaveWait(e)

LookOn(e, label) == Goto(e, label) /\ UNCHANGED <<buffer, wait>>

Call(e) ==
  /\ pc[e] \in {"idle", "failed"}
  /\ Goto(e, FirstLook(e))
  /\ UNCHANGED <<memory, wait, buffer, event, due, ending>>

\* try_peek_message.
Peek ==
  /\ pc[Receiver] = "peek"
  /\ IF count > 0 THEN Found(Receiver) ELSE LookOn(Receiver, "ready")
  /\ UNCHANGED <<memory, event, due, ending>>

CheckReady_NoRePeek(e) ==
  /\ pc[e] = "ready"
  /\ closed \/ ~due[e]
  /\ IF closed
     THEN Failed(e)
     ELSE IF e = Sender THEN LookOn(e, "space") ELSE Nothing(e)
  /\ UNCHANGED <<memory, event, due, ending>>

CheckReady_SenderGoesOn(e) ==
  /\ pc[e] = "ready"
  /\ closed \/ ~due[e]
  /\ IF e = Sender
     THEN LookOn(e, "space")
     ELSE IF closed THEN LookOn(e, "repeek") ELSE Nothing(e)
  /\ UNCHANGED <<memory, event, due, ending>>

\* check_ready when no probe is due, or when the peer is found alive.
CheckReady(e) ==
  /\ pc[e] = "ready"
  /\ closed \/ ~due[e]
  /\ IF closed
     THEN IF e = Sender THEN Failed(e) ELSE LookOn(e, "repeek")
     ELSE IF e = Sender THEN LookOn(e, "space") ELSE Nothing(e)
  /\ UNCHANGED <<memory, event, due, ending>>

\* check_ready when a probe is due and the peer process is dead: finish, whose
\* wake_all goes on beside the error it returns.
ProbeFindsDeath(e) ==
  /\ pc[e] = "ready"
  /\ due[e] /\ ~closed
  /\ due' = [due EXCEPT ![e] = FALSE]
  /\ closed' = TRUE
  /\ owed' = count
  /\ closer' = "bump receiver"
  /\ owner' = e
  /\ IF e = Sender THEN Failed(e) ELSE LookOn(e, "repeek")
  /\ UNCHANGED <<count, parked, event>>

\* The probe interval passes.  A probe that finds the peer alive changes
\* nothing, so only those after its death are told apart.
ProbeDue(e) ==
  /\ ~due[e] /\ ~closed
  /\ pc[Peer(e)] = "crashed" /\ pc[e] # "crashed"
  /\ due' = [due EXCEPT ![e] = TRUE]
  /\ UNCHANGED <<memory, wait, buffer, event, pc, ending>>

RePeek_Skipped ==
  /\ pc[Receiver] = "repeek"
  /\ Failed(Receiver)
  /\ UNCHANGED <<memory, event, due, ending>>

\* try_peek_or_closed: the records published before the close come first.
RePeek ==
  /\ pc[Receiver] = "repeek"
  /\ IF count > 0 THEN Found(Receiver) ELSE Failed(Receiver)
  /\ UNCHANGED <<memory, event, due, ending>>

LookForSpace_OffByOne ==
  /\ pc[Sender] = "space"
  /\ IF count <= Cap THEN Found(Sender) ELSE Nothing(Sender)
  /\ UNCHANGED <<memory, event, due, ending>>

\* has_space, or the sender's wait condition.
LookForSpace ==
  /\ pc[Sender] = "space"
  /\ IF count < Cap THEN Found(Sender) ELSE Nothing(Sender)
  /\ UNCHANGED <<memory, event, due, ending>>

(***************************************************************************)
(* SpinThenWait::wait_until.                                               *)
(***************************************************************************)
Snapshot(e) ==
  /\ pc[e] = "snap"
  /\ stage' = [stage EXCEPT ![e] = "first"]
  /\ Goto(e, FirstLook(e))
  /\ UNCHANGED <<memory, moved, buffer, event, due, ending>>

\* The deadline of the call has not passed: park.
Park(e) ==
  /\ pc[e] = "deadline"
  /\ Store(e, 1)
  /\ Goto(e, "fence")
  /\ UNCHANGED <<memory, wait, event, due, ending>>

TimedOut(e) ==
  /\ pc[e] = "deadline"
  /\ Goto(e, "idle")
  /\ Forget(e)
  /\ UNCHANGED <<memory, buffer, event, due, ending>>

Fence_Missing(e) ==
  /\ pc[e] = "fence"
  /\ UNCHANGED <<parked, buffer>>
  /\ stage' = [stage EXCEPT ![e] = "second"]
  /\ Goto(e, FirstLook(e))
  /\ UNCHANGED <<count, closed, moved, event, due, ending>>

Fence(e) ==
  /\ pc[e] = "fence"
  /\ Flush(e)
  /\ stage' = [stage EXCEPT ![e] = "second"]
  /\ Goto(e, FirstLook(e))
  /\ UNCHANGED <<count, closed, moved, event, due, ending>>

Sleep_NoCompare(e) ==
  /\ pc[e] = "sleep"
  /\ Goto(e, IF Platform = "windows" /\ event[e]
             THEN "unpark" ELSE "asleep")
  /\ event' = [event EXCEPT ![e] = FALSE]
  /\ UNCHANGED <<memory, wait, buffer, due, ending>>

\* wait_on_handle: the kernel compares the futex word with the snapshot, or
\* finds the event set and resets it; else the thread sleeps.
Sleep(e) ==
  /\ pc[e] = "sleep"
  /\ Goto(e, IF (Platform = "linux" /\ moved[e] # 0) \/ (Platform = "windows" /\ event[e])
             THEN "unpark" ELSE "asleep")
  /\ event' = [event EXCEPT ![e] = FALSE]
  /\ UNCHANGED <<memory, wait, buffer, due, ending>>

Timeout_NoProbe(e) ==
  /\ pc[e] = "asleep"
  /\ Goto(e, "unpark")
  /\ UNCHANGED due
  /\ UNCHANGED <<memory, wait, buffer, event, ending>>

\* The quantum or the deadline passes in wait_on_handle; the quantum is longer
\* than the probe interval.
Timeout(e) ==
  /\ pc[e] = "asleep"
  /\ Goto(e, "unpark")
  /\ due' = [due EXCEPT ![e] = pc[Peer(e)] = "crashed"]
  /\ UNCHANGED <<memory, wait, buffer, event, ending>>

Unpark(e) ==
  /\ pc[e] = "unpark"
  /\ Store(e, 0)
  /\ Goto(e, "snap")
  /\ Forget(e)
  /\ UNCHANGED <<memory, event, due, ending>>

(***************************************************************************)
(* publish_message and commit_current_message.                             *)
(***************************************************************************)
\* The cursor store: the news is out.
Commit(e) ==
  /\ pc[e] = "commit"
  /\ count' = IF e = Sender THEN count + 1 ELSE count - 1
  /\ owed' = IF e = Receiver /\ owed > 0 THEN owed - 1 ELSE owed
  /\ Goto(e, "bump")
  /\ UNCHANGED <<closed, parked, wait, buffer, event, due, closer, owner>>

BumpNotify_Missing(e) ==
  /\ pc[e] = "bump"
  /\ UNCHANGED moved
  /\ Flush(e)
  /\ Goto(e, "load")
  /\ UNCHANGED <<count, closed, stage, event, due, ending>>

BumpNotify(e) ==
  /\ pc[e] = "bump"
  /\ Bump(Peer(e))
  /\ Flush(e)
  /\ Goto(e, "load")
  /\ UNCHANGED <<count, closed, stage, event, due, ending>>

LoadParked_Inverted(e) ==
  /\ pc[e] = "load"
  /\ Goto(e, IF parked[Peer(e)] = 0 THEN "wake" ELSE "idle")
  /\ UNCHANGED <<memory, wait, buffer, event, due, ending>>

LoadParked(e) ==
  /\ pc[e] = "load"
  /\ Goto(e, IF parked[Peer(e)] # 0 THEN "wake" ELSE "idle")
  /\ UNCHANGED <<memory, wait, buffer, event, due, ending>>

WakePeer(e) ==
  /\ pc[e] = "wake"
  /\ WakeHandle(Peer(e), [pc EXCEPT ![e] = "idle"])
  /\ UNCHANGED <<memory, wait, buffer, due, ending>>

(***************************************************************************)
(* close, or a drop, by some thread of either process: finish changes the  *)
(* state and wakes both sides, parked or not.                              *)
(***************************************************************************)
Finish_NoWakeAll(o) ==
  /\ closer = "none" /\ ~closed /\ pc[o] # "crashed"
  /\ closed' = TRUE
  /\ owed' = count
  /\ closer' = "done"
  /\ owner' = o
  /\ UNCHANGED <<count, parked, wait, local>>

Finish(o) ==
  /\ closer = "none" /\ ~closed /\ pc[o] # "crashed"
  /\ closed' = TRUE
  /\ owed' = count
  /\ closer' = "bump receiver"
  /\ owner' = o
  /\ UNCHANGED <<count, parked, wait, local>>

WakeAllBump ==
  /\ closer \in {"bump receiver", "bump sender"}
  /\ IF closer = "bump receiver"
     THEN Bump(Receiver) /\ closer' = "wake receiver"
     ELSE Bump(Sender) /\ closer' = "wake sender"
  /\ UNCHANGED <<memory, stage, local, owner, owed>>

WakeAllWake_ReceiverOnly ==
  /\ closer \in {"wake receiver", "wake sender"}
  /\ IF closer = "wake receiver"
     THEN WakeHandle(Receiver, pc) /\ closer' = "done"
     ELSE WakeHandle(Sender, pc) /\ closer' = "done"
  /\ UNCHANGED <<memory, wait, buffer, due, owner, owed>>

WakeAllWake ==
  /\ closer \in {"wake receiver", "wake sender"}
  /\ IF closer = "wake receiver"
     THEN WakeHandle(Receiver, pc) /\ closer' = "bump sender"
     ELSE WakeHandle(Sender, pc) /\ closer' = "done"
  /\ UNCHANGED <<memory, wait, buffer, due, owner, owed>>

\* A process dies, and with it a wake_all it was in.
Crash(e) ==
  /\ e \in MayCrash
  /\ pc[e] # "crashed"
  /\ Goto(e, "crashed")
  /\ closer' = IF owner = e /\ closer \notin {"none", "done"} THEN "dead" ELSE closer
  /\ UNCHANGED <<memory, wait, buffer, event, due, owner, owed>>

Look(e) == CheckReady(e) \/ ProbeFindsDeath(e)
             \/ (e = Sender /\ LookForSpace) \/ (e = Receiver /\ (Peek \/ RePeek))

Step(e) == Look(e) \/ Snapshot(e) \/ Park(e) \/ Fence(e) \/ Sleep(e) \/ Unpark(e)
             \/ Commit(e) \/ BumpNotify(e) \/ LoadParked(e) \/ WakePeer(e)

WakeAll == WakeAllBump \/ WakeAllWake

Next ==
  \/ \E e \in Sides :
       \/ Call(e) \/ Step(e) \/ TimedOut(e) \/ Timeout(e)
       \/ Drain(e) \/ ProbeDue(e) \/ Finish(e) \/ Crash(e)
  \/ WakeAll

Spec == Init /\ [][Next]_vars

(***************************************************************************)
(* A thread that runs takes its next step, and a thread in wake_all the    *)
(* next of that.  Nobody has to call, to close or to give up.  With        *)
(* SignalSpec nothing but a wake ends a sleep; TimerSpec adds what         *)
(* wait_until adds, that a sleep lasts at most LIVENESS_QUANTUM.           *)
(***************************************************************************)
SignalSpec == Spec /\ (\A e \in Sides : WF_vars(Step(e))) /\ WF_vars(WakeAll)

TimerSpec == SignalSpec /\ \A e \in Sides : WF_vars(Timeout(e))

(***************************************************************************)
(* Properties.                                                             *)
(***************************************************************************)
Labels == {"idle", "failed", "peek", "ready", "repeek", "space", "snap", "deadline", "fence",
           "sleep", "asleep", "unpark", "commit", "bump", "load", "wake", "crashed"}

Closing == {"bump receiver", "wake receiver", "bump sender", "wake sender"}

\* The shape of every variable; the ring holds no more than it can.
TypeOK ==
  /\ count \in 0 .. Cap
  /\ closed \in BOOLEAN
  /\ moved \in [Sides -> 0 .. NotifyMod - 1]
  /\ parked \in [Sides -> {0, 1}]
  /\ buffer \in [Sides -> Seq({0, 1})]
  /\ event \in [Sides -> BOOLEAN]
  /\ pc \in [Sides -> Labels]
  /\ stage \in [Sides -> {"try", "first", "second"}]
  /\ due \in [Sides -> BOOLEAN]
  /\ closer \in {"none", "done", "dead"} \cup Closing
  /\ owner \in Sides
  /\ owed \in 0 .. Cap

\* What a side waits for.
News(e) == IF e = Sender THEN count < Cap ELSE count > 0

\* A wake the other side, or the closer, is sure to send: it is between its
\* news and its wake.
PeerWillWake(e)   == pc[Peer(e)] \in {"bump", "load", "wake"}
CloserWillWake(e) == closer \in IF e = Receiver THEN {"bump receiver", "wake receiver"} ELSE Closing

\* A side that sleeps on news, or on a close, is about to be woken.
WokenOnNews(e) ==
  pc[e] = "asleep" =>
    /\ News(e) => PeerWillWake(e) \/ pc[Peer(e)] = "crashed"
    /\ closed  => CloserWillWake(e) \/ closer = "dead"

\* Nobody sleeps on news: a side that sleeps while there is what it waits
\* for, or while the channel is closed, is about to be woken, unless whoever
\* was to wake it has died.  Skipping the system call when parked reads 0
\* loses no wake (wait_until, publish_message, commit_current_message).
NoLostWakeup == \A e \in Sides : WokenOnNews(e)

\* recv reports the end of the channel only when every message published
\* before the end has been received (try_peek_or_closed).
DrainBeforeClosed == pc[Receiver] = "failed" => owed = 0

\* try_send_once looks at the state before it publishes, so a message may come
\* after a close that its sender did not see; the sender sees it before the
\* next (check_ready, publish_message).
AtMostOneLate == closed => count <= owed + 1

\* What Direction calls a message, and the queue of n of them.
Unit     == [len |-> 0]
Units(n) == [i \in 1 .. n |-> Unit]

Contents(m) == 0

\* The sender has seen the channel connected, and has not published since.
Admitted == pc[Sender] \in {"space", "commit"}

\* The last call of the receiver ended with the end of the channel.
Told == pc[Receiver] = "failed"

\* With messages as units of the counter, that is what Direction says.
Promise == INSTANCE Direction WITH
  Capacity <- Cap, HeaderSize <- 1, Messages <- {Unit}, Payload <- Contents, NoPayload <- 0,
  BufferTooSmall <- 0, queue <- Units(count), used <- count, got <- 0, ended <- closed,
  admitted <- Admitted, told <- Told

\* Whoever waits, sleeps, wakes, closes or dies in between, the direction keeps
\* its promise: no message without a look at the state before it, none beyond
\* the capacity, and no report of the end before what was sent is received
\* (send, recv, close and the probe of check_ready).
ImplementsDirection == Promise!Spec

\* Why: an inductive invariant.
\* Where a side is says which look it is in, and what the looks before found.
StageOf(e) ==
  /\ pc[e] \in {"deadline", "fence"} => stage[e] = "first"
  /\ pc[e] \in {"sleep", "asleep", "unpark"} => stage[e] = "second"
  /\ pc[e] \in {"idle", "failed", "snap", "commit", "bump", "load", "wake"} => stage[e] = "try"
  /\ stage[e] = "try" => moved[e] = 0

CountInv ==
  /\ pc[Sender] = "commit" => count < Cap
  /\ pc[Receiver] = "commit" => count > 0
  /\ owed <= count
  /\ ~closed => owed = 0
  /\ closed <=> closer # "none"
  /\ pc[Receiver] \in {"repeek", "failed"} => closed
  /\ DrainBeforeClosed

\* From the fence on, the other side sees parked = 1.
Armed(e) ==
  /\ stage[e] = "second" => buffer[e] = <<>> /\ parked[e] = 1
  /\ pc[e] = "fence" =>
       IF buffer[e] = <<>> THEN parked[e] = 1 ELSE buffer[e][Len(buffer[e])] = 1

\* Since the snapshot the word moved less than once around: the other side
\* can only publish what the ring takes, and the close bumps it once.
Unbumped(e) == IF pc[Peer(e)] = "bump" THEN 1 ELSE 0

ToBeBumped(e) ==
  closer \in IF e = Receiver THEN {"bump receiver"} ELSE {"bump receiver", "wake receiver", "bump sender"}

ClosedBump(e) == IF closer = "none" \/ ToBeBumped(e) THEN 0 ELSE 1

Room(e) == IF e = Receiver THEN count ELSE Cap - count

NotAround(e) == moved[e] + Unbumped(e) <= Room(e) + 1 + ClosedBump(e)

\* What came after the look that found nothing will keep the side from
\* sleeping, or wake it.
Signalled(e) == IF Platform = "linux" THEN moved[e] # 0 ELSE event[e]

SawNoNews(e) ==
  stage[e] = "second" /\ pc[e] \in IF e = Receiver THEN {"ready", "sleep"} ELSE {"sleep"}

SawOpen(e) ==
  stage[e] = "second" /\ pc[e] \in IF e = Receiver THEN {"sleep"} ELSE {"space", "sleep"}

ToldNews(e) ==
  SawNoNews(e) /\ News(e) =>
    \/ Signalled(e)
    \/ pc[Peer(e)] \in {"bump", "crashed"}
    \/ Platform = "windows" /\ pc[Peer(e)] \in {"load", "wake"}

ToldClosed(e) ==
  SawOpen(e) /\ closed =>
    \/ Signalled(e)
    \/ ClosedBump(e) = 0
    \/ closer = "dead"
    \/ Platform = "windows" /\ CloserWillWake(e)

SideInv(e) ==
  StageOf(e) /\ Armed(e) /\ NotAround(e) /\ ToldNews(e) /\ ToldClosed(e) /\ WokenOnNews(e)

IInv == TypeOK /\ CountInv /\ \A e \in Sides : SideInv(e)

\* e is inside send or recv.
Waiting(e) == pc[e] \notin {"idle", "failed", "crashed"}

\* Wakes alone are enough: without the quantum, nobody sleeps on news for ever
\* (publish_message, commit_current_message).
NewsWakes == \A e \in Sides : pc[e] = "asleep" /\ News(e) ~> pc[e] # "asleep"

\* Without the quantum, a close ends the call of either side (wake_all).
CloseEndsWaits == \A e \in Sides : closed /\ Waiting(e) ~> ~Waiting(e)

\* When the other process dies, at whatever step, the call of the survivor
\* ends: the quantum brings it back to check_ready, which probes.
DeathEndsWaits ==
  \A e \in Sides : pc[Peer(e)] = "crashed" /\ Waiting(e) ~> ~Waiting(e)
=============================================================================
