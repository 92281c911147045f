----------------------------- MODULE AsyncWait -----------------------------
(***************************************************************************)
(* One half of a connection used from tokio: a future that looks at the    *)
(* ring, waits for its notify word to change and looks again, while the    *)
(* peer publishes (or frees space) and either process closes the channel.  *)
(*                                                                         *)
(* On Linux a bridge thread sleeps on the futex word and passes what it    *)
(* sees on to tokio::sync::Notify.  On Windows the system runs a callback  *)
(* each time the auto-reset event fires, which sets a flag and wakes the   *)
(* waker it finds.  Both waits end after LIVENESS_QUANTUM in any case.     *)
(*                                                                         *)
(* WaitWake has the store buffers and the single steps of a look at the    *)
(* ring; here the fence that follows parked = 1 makes it visible, and a    *)
(* look is one step.                                                       *)
(***************************************************************************)
EXTENDS Integers

CONSTANTS
  Platforms,    \* which of "linux" and "windows" to start on
  Cap,          \* messages the ring holds
  MaxMessages,  \* max_messages of recv_many
  NotifyMod,    \* notify words wrap at this value (2^32)
  Callbacks     \* system threads that may run the callback at once (windows)

ASSUME AsyncWaitAssumption ==
  /\ Platforms \subseteq {"linux", "windows"}
  /\ Cap \in Nat \ {0}
  /\ MaxMessages \in Nat \ {0}
  /\ NotifyMod \in Nat
  /\ NotifyMod > Cap + 2

VARIABLES
  platform,   \* where the program runs
  half,       \* "send" or "recv"
  \* Shared memory.
  avail,      \* messages to receive, or room for messages to send
  closed,     \* the channel state is Closed or PeerDisconnected
  parked,     \* the parked word of this half
  moved,      \* the notify word minus the snapshot of the future
  b_moved,    \* the notify word minus what the bridge thread observed
  \* The task.
  pc,         \* where the future is, or the owner of the half that drops it
  call,       \* the operation, "none" without a future
  drained,    \* messages recv_many has taken
  \* Linux: WaitState and the bridge thread.
  bridge,     \* pc of the thread, "none" if there is none
  stop,       \* WaitState.stop
  heard,      \* the Notified future: none | waiting | told
  \* Windows: WaitObjects and WaitChanged.
  armed,      \* WaitChanged.armed
  registered, \* the wait is registered with the system
  event,      \* async_event is set
  signaled,   \* AsyncWaitState.signaled
  waker,      \* AsyncWaitState.waker is there
  callback,   \* callback[i]: pc of a system thread
  scheduled,  \* the task was woken since its last poll
  \* The other side, and whoever closes.
  peer,       \* idle | admitted, then, with its news out, bump | load | wake
  closer      \* none | bump | wake | done

ring     == <<platform, half, avail, closed>>
words    == <<parked, moved, b_moved>>
task     == <<pc, call, drained>>
linux    == <<bridge, stop, heard>>
windows  == <<armed, registered, event, signaled, waker, callback, scheduled>>
others   == <<peer, closer>>
vars     == <<ring, words, task, linux, windows, others>>

\* "recv" is recv_into as well.
Calls == IF half = "send" THEN {"send"}
         ELSE {"recv", "recv_many", "drain_ready"}

Init ==
  /\ platform \in Platforms
  /\ half \in {"send", "recv"}
  /\ avail = 0
  /\ closed = FALSE
  /\ parked = 0 /\ moved = 0 /\ b_moved = 0
  /\ pc = "idle" /\ call = "none" /\ drained = 0
  /\ bridge = "none" /\ stop = FALSE /\ heard = "none"
  /\ armed = FALSE /\ registered = FALSE /\ event = FALSE
  /\ signaled = FALSE /\ waker = FALSE
  /\ callback = [i \in Callbacks |-> "none"]
  /\ scheduled = FALSE
  /\ peer = "idle" /\ closer = "none"

(***************************************************************************)
(* Words and wakes.  A difference that nobody compares any more is 0.      *)
(***************************************************************************)
Goto(label) == pc' = label

HasSnapshot == pc \in {"look again", "wait", "notified", "recheck", "await",
                       "poll", "arm", "prepare", "swap", "register", "pending"}
Observing   == bridge \in {"park", "recheck", "sleep", "asleep", "unpark", "reload"}

Wrapped(n) == IF n = NotifyMod - 1 THEN 0 ELSE n + 1

Bump ==
  /\ moved' = IF HasSnapshot THEN Wrapped(moved) ELSE 0
  /\ b_moved' = IF Observing THEN Wrapped(b_moved) ELSE 0

\* wake_handle: a futex wake reaches a thread that sleeps, an event stays set.
WakeHandle ==
  /\ bridge' = IF bridge = "asleep" THEN "unpark" ELSE bridge
  /\ event' = (platform = "windows")
  /\ UNCHANGED <<stop, heard, armed, registered, signaled, waker, callback, scheduled>>

\* Notify::notify_waiters.
NotifyWaiters == heard' = IF heard = "waiting" THEN "told" ELSE heard

\* WaitChanged::disarm, clear_wait_handle.
Disarm ==
  /\ armed' = FALSE
  /\ IF armed THEN signaled' = FALSE /\ waker' = FALSE /\ parked' = 0
              ELSE UNCHANGED <<signaled, waker, parked>>
  /\ UNCHANGED <<registered, event, callback>>

\* The future is gone: it returned or was dropped.
Return ==
  /\ Goto("idle")
  /\ call' = "none"
  /\ drained' = 0
  /\ moved' = 0

\* Another look is due; the snapshot is not needed any more.
LookAgainLater ==
  /\ Goto("look")
  /\ moved' = 0
  /\ UNCHANGED <<call, drained>>

(***************************************************************************)
(* send_async, recv_async, recv_into_async, recv_many_async, drain_ready:  *)
(* a look before the snapshot and one after it.                            *)
(***************************************************************************)
Call(c) ==
  /\ pc = "idle" /\ c \in Calls
  /\ Goto("look")
  /\ call' = c
  /\ UNCHANGED <<ring, words, drained, linux, windows, others>>

Looking == pc \in {"look", "look again"}

\* A receiver drains what was published before the close, a sender does not
\* publish after it.
CanTake == avail > 0 /\ ~(call = "send" /\ closed)

Batched == call \in {"recv_many", "drain_ready"}

\* A message is committed (a record too long for the buffer of recv_into as
\* well) or published, in the poll that returns.
Take ==
  /\ Looking /\ CanTake
  /\ avail' = avail - 1
  /\ IF Batched /\ drained + 1 < MaxMessages
     THEN drained' = drained + 1 /\ UNCHANGED <<pc, call, moved>>
     ELSE Return
  /\ UNCHANGED <<platform, half, closed, parked, b_moved, linux, windows, others>>

\* Nothing to take: the error of a closed channel, or what was drained.
FindNothing_IgnoresClose ==
  /\ Looking /\ ~CanTake
  /\ drained > 0 \/ call = "drain_ready"
  /\ Return
  /\ UNCHANGED <<ring, parked, b_moved, linux, windows, others>>

FindNothing ==
  /\ Looking /\ ~CanTake
  /\ closed \/ drained > 0 \/ call = "drain_ready"
  /\ Return
  /\ UNCHANGED <<ring, parked, b_moved, linux, windows, others>>

MustWait ==
  /\ Looking /\ ~CanTake
  /\ ~closed /\ drained = 0 /\ call # "drain_ready"
  /\ Goto(IF pc = "look" THEN "snapshot" ELSE IF platform = "linux" THEN "wait" ELSE "poll")
  /\ UNCHANGED <<ring, words, call, drained, linux, windows, others>>

\* ensure_running: the thread has said that it is ready when spawn returns.
EnsureRunning ==
  /\ pc = "snapshot"
  /\ platform = "linux" /\ bridge = "none"
  /\ bridge' = "check"
  /\ UNCHANGED <<ring, words, task, stop, heard, windows, others>>

\* No thread could be spawned.
SpawnFails ==
  /\ pc = "snapshot"
  /\ platform = "linux" /\ bridge = "none"
  /\ Return
  /\ UNCHANGED <<ring, parked, b_moved, linux, windows, others>>

Snapshot ==
  /\ pc = "snapshot"
  /\ platform = "linux" => bridge # "none"
  /\ moved' = 0
  /\ Goto("look again")
  /\ UNCHANGED <<ring, parked, b_moved, call, drained, linux, windows, others>>

(***************************************************************************)
(* wait_changed on Linux.                                                  *)
(***************************************************************************)
LoadNotify ==
  /\ pc = "wait"
  /\ IF moved # 0 THEN LookAgainLater ELSE Goto("notified") /\ UNCHANGED <<call, drained, moved>>
  /\ UNCHANGED <<ring, parked, b_moved, linux, windows, others>>

\* A Notified future hears every notify_waiters from its creation on.
Notified ==
  /\ pc = "notified"
  /\ heard' = "waiting"
  /\ Goto("recheck")
  /\ UNCHANGED <<ring, words, call, drained, bridge, stop, windows, others>>

ReloadNotify ==
  /\ pc = "recheck"
  /\ IF moved # 0 THEN LookAgainLater /\ heard' = "none"
     ELSE Goto("await") /\ UNCHANGED <<call, drained, moved, heard>>
  /\ UNCHANGED <<ring, parked, b_moved, bridge, stop, windows, others>>

Woken ==
  /\ pc = "await" /\ heard = "told"
  /\ heard' = "none"
  /\ Goto("wait")
  /\ UNCHANGED <<ring, words, call, drained, bridge, stop, windows, others>>

(***************************************************************************)
(* WaitChanged::poll and AsyncWaitState::poll on Windows.                  *)
(***************************************************************************)
Poll ==
  /\ pc = "poll"
  /\ IF moved # 0
     THEN LookAgainLater /\ Disarm
     ELSE /\ Goto(IF armed THEN "swap" ELSE "arm")
          /\ UNCHANGED <<call, drained, moved, parked, armed, registered, event,
                         signaled, waker, callback>>
  /\ UNCHANGED <<ring, b_moved, linux, scheduled, others>>

\* parked = 1 and the fence.
Arm ==
  /\ pc = "arm"
  /\ parked' = 1
  /\ armed' = TRUE
  /\ Goto("prepare")
  /\ UNCHANGED <<ring, moved, b_moved, call, drained, linux, registered, event, signaled,
                 waker, callback, scheduled, others>>

\* A registration lasts as long as the handle.
Prepare ==
  /\ pc = "prepare"
  /\ registered' = TRUE
  /\ Goto("poll")
  /\ UNCHANGED <<ring, words, call, drained, linux, armed, event, signaled, waker,
                 callback, scheduled, others>>

\* The wait cannot be registered: the future fails, its drop disarms.
PrepareFails ==
  /\ pc = "prepare"
  /\ ~registered
  /\ Return
  /\ Disarm
  /\ UNCHANGED <<ring, b_moved, linux, scheduled, others>>

SwapSignaled ==
  /\ pc = "swap"
  /\ signaled' = FALSE
  /\ Goto(IF signaled THEN "poll" ELSE "register")
  /\ UNCHANGED <<ring, words, call, drained, linux, armed, registered, event, waker,
                 callback, scheduled, others>>

RegisterWaker_NoSecondSwap ==
  /\ pc = "register"
  /\ waker' = TRUE
  /\ Goto("pending")
  /\ UNCHANGED <<ring, words, call, drained, linux, armed, registered, event, signaled,
                 callback, scheduled, others>>

\* Under the lock of the waker: store it, and look at the flag again.
RegisterWaker ==
  /\ pc = "register"
  /\ signaled' = FALSE
  /\ waker' = ~signaled
  /\ Goto(IF signaled THEN "poll" ELSE "pending")
  /\ UNCHANGED <<ring, words, call, drained, linux, armed, registered, event,
                 callback, scheduled, others>>

Scheduled ==
  /\ pc = "pending" /\ scheduled
  /\ scheduled' = FALSE
  /\ Goto("poll")
  /\ UNCHANGED <<ring, words, call, drained, linux, armed, registered, event, signaled,
                 waker, callback, others>>

\* The registered wait consumes the event and runs the callback.
EventFires(i) ==
  /\ registered /\ event
  /\ callback[i] = "none"
  /\ event' = FALSE
  /\ callback' = [callback EXCEPT ![i] = "signal"]
  /\ UNCHANGED <<ring, words, task, linux, armed, registered, signaled, waker,
                 scheduled, others>>

Signal(i) ==
  /\ callback[i] = "signal"
  /\ signaled' = TRUE
  /\ callback' = [callback EXCEPT ![i] = "wake"]
  /\ UNCHANGED <<ring, words, task, linux, armed, registered, event, waker,
                 scheduled, others>>

WakeWaker(i) ==
  /\ callback[i] = "wake"
  /\ scheduled' = (scheduled \/ waker)
  /\ callback' = [callback EXCEPT ![i] = "none"]
  /\ UNCHANGED <<ring, words, task, linux, armed, registered, event, signaled,
                 waker, others>>

(***************************************************************************)
(* The ends of a wait that no wake brings.                                 *)
(***************************************************************************)
Awaiting == pc \in {"await", "pending"}

\* LIVENESS_QUANTUM: the operation looks again.
QuantumPasses ==
  /\ Awaiting
  /\ LookAgainLater
  /\ Disarm
  /\ heard' = "none"
  /\ UNCHANGED <<ring, b_moved, bridge, stop, scheduled, others>>

Cancel_NoDisarm ==
  /\ Awaiting
  /\ Return
  /\ armed' = FALSE
  /\ heard' = "none"
  /\ UNCHANGED <<ring, parked, b_moved, bridge, stop, registered, event, signaled, waker,
                 callback, scheduled, others>>

\* The future is dropped: by a timeout, a select, or with its task.
Cancel ==
  /\ Awaiting
  /\ Return
  /\ Disarm
  /\ heard' = "none"
  /\ UNCHANGED <<ring, b_moved, bridge, stop, scheduled, others>>

(***************************************************************************)
(* wait_loop, the bridge thread.                                           *)
(***************************************************************************)
BridgeAt(from, to) == bridge = from /\ bridge' = to

CheckStop ==
  /\ BridgeAt("check", IF stop THEN "exited" ELSE "observe")
  /\ UNCHANGED <<ring, words, task, stop, heard, windows, others>>

Observe ==
  /\ BridgeAt("observe", "park")
  /\ b_moved' = 0
  /\ UNCHANGED <<ring, parked, moved, task, stop, heard, windows, others>>

Park ==
  /\ BridgeAt("park", "recheck")
  /\ parked' = 1
  /\ UNCHANGED <<ring, moved, b_moved, task, stop, heard, windows, others>>

\* The load after the fence.
Recheck ==
  /\ BridgeAt("recheck", IF b_moved # 0 THEN "tell" ELSE "sleep")
  /\ IF b_moved # 0 THEN parked' = 0 /\ b_moved' = 0 ELSE UNCHANGED <<parked, b_moved>>
  /\ UNCHANGED <<ring, moved, task, stop, heard, windows, others>>

\* futex_wait compares the word with what the thread observed.
Sleep ==
  /\ BridgeAt("sleep", IF b_moved # 0 THEN "unpark" ELSE "asleep")
  /\ UNCHANGED <<ring, words, task, stop, heard, windows, others>>

SleepEnds ==
  /\ BridgeAt("asleep", "unpark")
  /\ UNCHANGED <<ring, words, task, stop, heard, windows, others>>

Unpark ==
  /\ BridgeAt("unpark", "reload")
  /\ parked' = 0
  /\ UNCHANGED <<ring, moved, b_moved, task, stop, heard, windows, others>>

Reload ==
  /\ BridgeAt("reload", IF b_moved # 0 THEN "stop or tell" ELSE "stop or check")
  /\ b_moved' = 0
  /\ UNCHANGED <<ring, parked, moved, task, stop, heard, windows, others>>

StopOrGoOn ==
  /\ \/ BridgeAt("stop or tell", IF stop THEN "exited" ELSE "tell")
     \/ BridgeAt("stop or check", IF stop THEN "exited" ELSE "check")
  /\ UNCHANGED <<ring, words, task, stop, heard, windows, others>>

Tell ==
  /\ BridgeAt("tell", "check")
  /\ NotifyWaiters
  /\ UNCHANGED <<ring, words, task, stop, windows, others>>

(***************************************************************************)
(* RunningWait::stop, when the half is dropped, split or converted.        *)
(***************************************************************************)
SetStop_Missing ==
  /\ pc = "idle" /\ bridge \notin {"none", "exited"}
  /\ Goto("stop bump")
  /\ UNCHANGED <<ring, words, call, drained, linux, windows, others>>

SetStop ==
  /\ pc = "idle" /\ bridge # "none"
  /\ stop' = TRUE
  /\ Goto("stop bump")
  /\ UNCHANGED <<ring, words, call, drained, bridge, heard, windows, others>>

StopBump ==
  /\ pc = "stop bump"
  /\ Bump
  /\ Goto("stop wake")
  /\ UNCHANGED <<ring, parked, call, drained, linux, windows, others>>

\* wake_handle, then notify_waiters with no future to hear it.
StopWake ==
  /\ pc = "stop wake"
  /\ WakeHandle
  /\ Goto("join")
  /\ UNCHANGED <<ring, words, call, drained, others>>

\* What comes after is a new AsyncWait, or nothing.
Join ==
  /\ pc = "join" /\ bridge = "exited"
  /\ Goto("idle")
  /\ bridge' = "none"
  /\ stop' = FALSE
  /\ UNCHANGED <<ring, words, call, drained, heard, windows, others>>

(***************************************************************************)
(* The peer publishes or commits, and somebody closes.                     *)
(***************************************************************************)
\* A sender looks at the state before it publishes, so that a close may still
\* be followed by one message; a receiver drains what is there after a close too.
PeerAdmitted ==
  /\ peer = "idle" /\ (half = "recv" => ~closed)
  /\ peer' = "admitted"
  /\ UNCHANGED <<ring, words, task, linux, windows, closer>>

PeerMoves_OffByOne ==
  /\ peer = "admitted" /\ avail <= Cap
  /\ avail' = avail + 1
  /\ peer' = "bump"
  /\ UNCHANGED <<platform, half, closed, words, task, linux, windows, closer>>

PeerMoves ==
  /\ peer = "admitted" /\ avail < Cap
  /\ avail' = avail + 1
  /\ peer' = "bump"
  /\ UNCHANGED <<platform, half, closed, words, task, linux, windows, closer>>

PeerBumps ==
  /\ peer = "bump"
  /\ Bump
  /\ peer' = "load"
  /\ UNCHANGED <<ring, parked, task, linux, windows, closer>>

PeerLoadsParked ==
  /\ peer = "load"
  /\ peer' = IF parked = 1 THEN "wake" ELSE "idle"
  /\ UNCHANGED <<ring, words, task, linux, windows, closer>>

PeerWakes ==
  /\ peer = "wake"
  /\ WakeHandle
  /\ peer' = "idle"
  /\ UNCHANGED <<ring, words, task, closer>>

Close ==
  /\ closer = "none"
  /\ closed' = TRUE
  /\ closer' = "bump"
  /\ UNCHANGED <<platform, half, avail, words, task, linux, windows, peer>>

CloserBumps ==
  /\ closer = "bump"
  /\ Bump
  /\ closer' = "wake"
  /\ UNCHANGED <<ring, parked, task, linux, windows, peer>>

CloserWakes ==
  /\ closer = "wake"
  /\ WakeHandle
  /\ closer' = "done"
  /\ UNCHANGED <<ring, words, task, peer>>

(***************************************************************************)
(* The specification.                                                      *)
(***************************************************************************)
Look   == Take \/ FindNothing \/ MustWait
Future == \/ Look \/ EnsureRunning \/ SpawnFails \/ Snapshot
          \/ LoadNotify \/ Notified \/ ReloadNotify \/ Woken
          \/ Poll \/ Arm \/ Prepare \/ PrepareFails \/ SwapSignaled \/ RegisterWaker \/ Scheduled
Bridge == \/ CheckStop \/ Observe \/ Park \/ Recheck \/ Sleep
          \/ Unpark \/ Reload \/ StopOrGoOn \/ Tell
System(i) == EventFires(i) \/ Signal(i) \/ WakeWaker(i)
Stop   == StopBump \/ StopWake \/ Join
Others == \/ PeerBumps \/ PeerLoadsParked \/ PeerWakes
          \/ CloserBumps \/ CloserWakes

Next ==
  \/ \E c \in {"send", "recv", "recv_many", "drain_ready"} : Call(c)
  \/ Future \/ QuantumPasses \/ Cancel
  \/ Bridge \/ SleepEnds
  \/ \E i \in Callbacks : System(i)
  \/ SetStop \/ Stop
  \/ PeerAdmitted \/ PeerMoves \/ Close \/ Others

Spec == Init /\ [][Next]_vars

\* Whoever runs goes on running.  Nobody has to call, cancel, drop, publish or
\* close.
Running == /\ WF_vars(Future) /\ WF_vars(Bridge) /\ WF_vars(Stop)
           /\ \A i \in Callbacks : WF_vars(System(i))
           /\ WF_vars(PeerBumps \/ PeerLoadsParked \/ PeerWakes)
           /\ WF_vars(CloserBumps \/ CloserWakes)

SignalSpec == Spec /\ Running

\* LIVENESS_QUANTUM passes for whoever waits.
TimerSpec == Spec /\ Running /\ WF_vars(QuantumPasses) /\ WF_vars(SleepEnds)

(***************************************************************************)
(* Properties.                                                             *)
(***************************************************************************)
\* Every variable has its shape.
TypeOK ==
  /\ platform \in Platforms
  /\ half \in {"send", "recv"}
  /\ avail \in 0..Cap
  /\ closed \in BOOLEAN
  /\ parked \in 0..1
  /\ moved \in 0..(NotifyMod - 1)
  /\ b_moved \in 0..(NotifyMod - 1)
  /\ pc \in {"idle", "look", "snapshot", "look again", "wait", "notified", "recheck",
             "await", "poll", "arm", "prepare", "swap", "register", "pending",
             "stop bump", "stop wake", "join"}
  /\ call \in {"none", "send", "recv", "recv_many", "drain_ready"}
  /\ drained \in 0..(MaxMessages - 1)
  /\ bridge \in {"none", "check", "observe", "park", "recheck", "sleep", "asleep", "unpark",
                 "reload", "stop or tell", "stop or check", "tell", "exited"}
  /\ stop \in BOOLEAN
  /\ heard \in {"none", "waiting", "told"}
  /\ armed \in BOOLEAN /\ registered \in BOOLEAN /\ event \in BOOLEAN
  /\ signaled \in BOOLEAN /\ waker \in BOOLEAN /\ scheduled \in BOOLEAN
  /\ callback \in [Callbacks -> {"none", "signal", "wake"}]
  /\ peer \in {"idle", "admitted", "bump", "load", "wake"}
  /\ closer \in {"none", "bump", "wake", "done"}

News == CanTake \/ closed

\* A wake of the pending future is on its way: the event or a callback that
\* will find its waker, or a waker that will find it parked.
OnItsWay ==
  \/ scheduled
  \/ /\ waker /\ registered /\ parked = 1
     /\ \/ event \/ \E i \in Callbacks : callback[i] # "none"
        \/ peer \in {"bump", "load", "wake"}
        \/ closer \in {"bump", "wake"}

PendingIsWoken ==
  platform = "windows" /\ pc = "pending" /\ News => OnItsWay

\* The bridge thread does not sleep on a word that moved since it observed it,
\* unless a waker is about to reach it.
BridgeIsWoken ==
  bridge = "asleep" /\ b_moved # 0 =>
    parked = 1 /\ (peer \in {"load", "wake"} \/ closer = "wake" \/ pc = "stop wake")

\* Without the quantum: on Windows no future stays pending on news, and on
\* Linux the bridge thread does not sleep through a change that it could see,
\* whatever the order of registration, callback, cancellation of an earlier
\* future, stop, and wakers.  (WaitChanged::poll, wait_callback, wait_loop)
NoLostWake == PendingIsWoken /\ BridgeIsWoken

\* The word says parked only while somebody is there to be woken: a stopped
\* bridge, a finished and a cancelled future leave no trace that would cost
\* every later message a system call.  (WaitChanged::disarm, wait_loop)
ParkedMeansWaiter ==
  parked = 1 => armed \/ bridge \in {"recheck", "sleep", "asleep", "unpark"}

\* A message, room or a close ends the wait of a future, or its caller gives
\* up.  (wait_changed, wait_loop)
NewsReachesFuture == (call # "none" /\ News) ~> call = "none"

\* Dropping a half comes to an end, wherever its bridge thread is.
\* (RunningWait::stop joins the thread)
StopEnds == (pc = "join") ~> (pc # "join")
=============================================================================
