--------------------------- MODULE AsyncWaitProofs ---------------------------
(***************************************************************************)
(* Proofs about AsyncWait, for any ring, batch and notify word, and any    *)
(* number of system threads, on both platforms.                            *)
(*                                                                         *)
(* A future that finds nothing has a snapshot from before that look, so    *)
(* that whatever comes later moves its word (Informed), and the word does  *)
(* not come around again (NotAround).  A future on Windows that has seen   *)
(* an unmoved word while parked = 1 will be told by whoever moves it:      *)
(* a wake, an event, a callback or a flag is there from then on (Told).    *)
(***************************************************************************)
EXTENDS AsyncWait, TLAPS

(***************************************************************************)
(* The inductive invariant.                                                *)
(***************************************************************************)
\* Places of a future in wait_changed, by platform.
LinuxWait   == {"wait", "notified", "recheck", "await"}
WindowsWait == {"poll", "arm", "prepare", "swap", "register", "pending"}
Waiting     == LinuxWait \cup WindowsWait
Parked      == {"recheck", "sleep", "asleep", "unpark"}
StopLabels  == {"stop bump", "stop wake", "join"}

\* Which places go together: a future waits in its own way on each platform,
\* with nothing drained; on Windows it is armed from arm on, registered from
\* prepare on, and leaves its waker before it is pending.
Places ==
  /\ pc \in WindowsWait => platform = "windows"
  /\ pc \in LinuxWait \cup StopLabels => platform = "linux"
  /\ bridge # "none" => platform = "linux"
  /\ armed => pc \in WindowsWait \ {"arm"}
  /\ pc \in WindowsWait \ {"poll", "arm"} => armed
  /\ armed /\ pc # "prepare" => registered
  /\ pc = "pending" => waker
  /\ pc \in Waiting => drained = 0

\* The word says parked exactly while somebody is there to be woken.
ParkedExactly == parked = 1 <=> armed \/ bridge \in Parked

\* The word has not come around since the snapshot: the peer bumps it once for
\* each message or room that is there now, but for one from before, and the
\* close once.
NotAround ==
  HasSnapshot /\ drained = 0 =>
    moved + (IF peer = "bump" THEN 1 ELSE 0) + (IF closer \in {"none", "bump"} THEN 1 ELSE 0)
      <= avail + 2

\* News that came after the look moved the word, or is about to.
Informed ==
  pc \in WindowsWait /\ News => moved # 0 \/ peer = "bump" \/ closer = "bump"

\* A word that moved since it was compared has woken the future, or will.
Told ==
  pc \in {"swap", "register", "pending"} /\ moved # 0 =>
    \/ event \/ peer \in {"load", "wake"} \/ closer = "wake"
    \/ \E i \in Callbacks : callback[i] = "signal"
    \/ pc # "pending" /\ signaled
    \/ pc = "pending" /\ (scheduled \/ \E i \in Callbacks : callback[i] # "none")

IInv ==
  /\ TypeOK /\ Places /\ ParkedExactly /\ NotAround
  /\ Informed /\ Told /\ BridgeIsWoken

(***************************************************************************)
(* TypeOK, taken apart: numbers and flags go to different provers.         *)
(***************************************************************************)
Numbers ==
  /\ avail \in 0 .. Cap
  /\ parked \in 0 .. 1
  /\ moved \in 0 .. NotifyMod - 1
  /\ b_moved \in 0 .. NotifyMod - 1
  /\ drained \in 0 .. MaxMessages - 1

Flags ==
  /\ closed \in BOOLEAN /\ stop \in BOOLEAN
  /\ armed \in BOOLEAN /\ registered \in BOOLEAN /\ event \in BOOLEAN
  /\ signaled \in BOOLEAN /\ waker \in BOOLEAN /\ scheduled \in BOOLEAN

FutureLabels ==
  /\ platform \in Platforms
  /\ half \in {"send", "recv"}
  /\ pc \in {"idle", "look", "snapshot", "look again", "wait", "notified", "recheck",
             "await", "poll", "arm", "prepare", "swap", "register", "pending",
             "stop bump", "stop wake", "join"}
  /\ call \in {"none", "send", "recv", "recv_many", "drain_ready"}

BridgeLabels ==
  /\ bridge \in {"none", "check", "observe", "park", "recheck", "sleep", "asleep", "unpark",
                 "reload", "stop or tell", "stop or check", "tell", "exited"}
  /\ heard \in {"none", "waiting", "told"}

OtherLabels ==
  /\ callback \in [Callbacks -> {"none", "signal", "wake"}]
  /\ peer \in {"idle", "admitted", "bump", "load", "wake"}
  /\ closer \in {"none", "bump", "wake", "done"}

\* The parts are the whole.
LEMMA Parts ==
  TypeOK <=> Numbers /\ Flags /\ FutureLabels /\ BridgeLabels /\ OtherLabels
BY DEF TypeOK, Numbers, Flags, FutureLabels, BridgeLabels, OtherLabels

(***************************************************************************)
(* Words and wakes.                                                        *)
(***************************************************************************)
\* A word that moves stays in its range; a bump of the peer or of the close
\* moves it away from the snapshot.
LEMMA Bumps ==
  ASSUME TypeOK, NotAround, Bump
  PROVE  /\ moved' \in 0 .. NotifyMod - 1 /\ b_moved' \in 0 .. NotifyMod - 1
         /\ ~HasSnapshot => moved' = 0
         /\ HasSnapshot /\ drained = 0 /\ (peer = "bump" \/ closer \in {"none", "bump"}) =>
              moved' = moved + 1 /\ moved' # 0
<1>1. /\ Cap \in Nat /\ NotifyMod \in Nat /\ NotifyMod > Cap + 2
      /\ moved \in Nat /\ moved < NotifyMod /\ b_moved \in Nat /\ b_moved < NotifyMod
      /\ avail \in Nat /\ avail <= Cap
  BY AsyncWaitAssumption, Parts DEF Numbers
<1>2. \A n \in Nat : n < NotifyMod => Wrapped(n) \in 0 .. NotifyMod - 1
  BY <1>1 DEF Wrapped
<1>3. 0 \in 0 .. NotifyMod - 1
  BY <1>1
<1>4. /\ moved' = IF HasSnapshot THEN Wrapped(moved) ELSE 0
      /\ b_moved' = IF Observing THEN Wrapped(b_moved) ELSE 0
  BY DEF Bump
<1>5. moved' \in 0 .. NotifyMod - 1 /\ b_moved' \in 0 .. NotifyMod - 1
  BY <1>1, <1>2, <1>3, <1>4
<1>6. ASSUME HasSnapshot, drained = 0, peer = "bump" \/ closer \in {"none", "bump"}
      PROVE  moved' = moved + 1 /\ moved' # 0
  <2>1. moved + 1 <= avail + 2
    BY <1>1, <1>6 DEF NotAround
  <2>2. moved < NotifyMod - 1
    BY <1>1, <2>1
  <2>. QED  BY <1>1, <1>4, <1>6, <2>2 DEF Wrapped
<1>. QED  BY <1>4, <1>5, <1>6

\* What comes of numbers in their ranges.
LEMMA Ranges ==
  ASSUME TypeOK
  PROVE  /\ 0 \in 0 .. Cap /\ 0 \in 0 .. 1 /\ 1 \in 0 .. 1
         /\ 0 \in 0 .. NotifyMod - 1 /\ 0 \in 0 .. MaxMessages - 1
         /\ avail > 0 => avail - 1 \in 0 .. Cap
         /\ avail < Cap => avail + 1 \in 0 .. Cap
         /\ drained + 1 < MaxMessages => drained + 1 \in 0 .. MaxMessages - 1 /\ drained + 1 # 0
         /\ avail \in Int /\ moved \in Int /\ drained \in Int
<1>1. /\ NotifyMod \in Nat /\ NotifyMod > 0 /\ MaxMessages \in Nat /\ MaxMessages > 0
      /\ Cap \in Nat /\ Cap > 0
  BY AsyncWaitAssumption
<1>2. avail \in 0 .. Cap /\ drained \in 0 .. MaxMessages - 1 /\ moved \in 0 .. NotifyMod - 1
  BY DEF TypeOK
<1>. QED  BY <1>1, <1>2

(***************************************************************************)
(* Every action keeps the invariant, a part at a time.                     *)
(***************************************************************************)
\* A look at the ring, and the call before it.
LEMMA StepLook ==
  ASSUME IInv, NEW c \in {"send", "recv", "recv_many", "drain_ready"},
         Call(c) \/ Take \/ FindNothing \/ MustWait
  PROVE  IInv'
<1>1. /\ TypeOK /\ Numbers /\ Flags /\ FutureLabels /\ BridgeLabels /\ OtherLabels
      /\ Places /\ ParkedExactly /\ NotAround /\ Informed /\ Told /\ BridgeIsWoken
  BY Parts DEF IInv
<1>2. TypeOK'
  <2>1. Numbers'
    BY <1>1, Ranges DEF Call, Take, FindNothing, MustWait, Return, CanTake, Numbers, ring, words
  <2>2. Flags'
    BY <1>1 DEF Call, Take, FindNothing, MustWait, CanTake, Flags, ring, linux, windows
  <2>3. FutureLabels'
    BY <1>1 DEF Call, Take, FindNothing, MustWait, Calls, Goto, Return, Batched, CanTake,
       Looking, FutureLabels, ring
  <2>4. BridgeLabels'
    BY <1>1 DEF Call, Take, FindNothing, MustWait, BridgeLabels, linux
  <2>5. OtherLabels'
    BY <1>1 DEF Call, Take, FindNothing, MustWait, OtherLabels, windows, others
  <2>. QED  BY <2>1, <2>2, <2>3, <2>4, <2>5
            DEF TypeOK, Numbers, Flags, FutureLabels, BridgeLabels, OtherLabels
<1>3. Places'
  <2>1. CASE Call(c)
    BY <1>1, <2>1 DEF Call, Goto, Places, LinuxWait, StopLabels, WindowsWait, Waiting, ring,
       linux, windows
  <2>2. CASE Take
    BY <1>1, <2>2 DEF Take, Return, Goto, Looking, Places, LinuxWait, StopLabels, WindowsWait,
       Waiting, linux, windows
  <2>3. CASE FindNothing
    BY <1>1, <2>3 DEF FindNothing, Return, Goto, Looking, Places, LinuxWait, StopLabels,
       WindowsWait, Waiting, ring, linux, windows
  <2>4. CASE MustWait
    <3>1. /\ pc \notin WindowsWait /\ drained = 0
          /\ UNCHANGED <<platform, bridge, armed, registered, waker, drained>>
      BY <2>4 DEF MustWait, Looking, WindowsWait, ring, linux, windows
    <3>2. pc' \in {"snapshot", IF platform = "linux" THEN "wait" ELSE "poll"}
      BY <2>4 DEF MustWait, Looking, Goto
    <3>3. ~armed
      BY <1>1, <3>1 DEF Places
    <3>4. platform # "linux" => platform = "windows"
      BY <1>1, AsyncWaitAssumption DEF FutureLabels
    <3>. QED  BY <1>1, <3>1, <3>2, <3>3, <3>4
              DEF Places, Flags, WindowsWait, LinuxWait, Waiting, StopLabels
  <2>. QED  BY <2>1, <2>2, <2>3, <2>4
<1>4. ParkedExactly'
  BY <1>1 DEF Call, Take, FindNothing, MustWait, ParkedExactly, Parked, words, linux, windows
<1>5. NotAround'
  BY <1>1, Ranges DEF Call, Take, FindNothing, MustWait, Goto, Return, CanTake, Looking,
     NotAround, HasSnapshot, ring, words, others
<1>6. Informed'
  BY <1>1 DEF Call, Take, FindNothing, MustWait, Goto, Return, Batched, CanTake, Looking,
     Informed, News, WindowsWait, ring, words, others
<1>7. Told'
  BY <1>1 DEF Call, Take, FindNothing, MustWait, Goto, Return, Looking, Told, words, windows,
     others
<1>8. BridgeIsWoken'
  BY <1>1 DEF Call, Take, FindNothing, MustWait, Goto, Return, Looking, BridgeIsWoken, words,
     linux, others
<1>. QED  BY <1>2, <1>3, <1>4, <1>5, <1>6, <1>7, <1>8 DEF IInv

\* The way to the snapshot.
LEMMA StepStart ==
  ASSUME IInv,
         EnsureRunning \/ SpawnFails \/ Snapshot
  PROVE  IInv'
<1>1. /\ TypeOK /\ Numbers /\ Flags /\ FutureLabels /\ BridgeLabels /\ OtherLabels
      /\ Places /\ ParkedExactly /\ NotAround /\ Informed /\ Told /\ BridgeIsWoken
  BY Parts DEF IInv
<1>2. TypeOK'
  <2>1. Numbers'
    BY <1>1, Ranges DEF EnsureRunning, SpawnFails, Snapshot, Return, Numbers, ring, words, task
  <2>2. Flags'
    BY <1>1 DEF EnsureRunning, SpawnFails, Snapshot, Flags, ring, linux, windows
  <2>3. FutureLabels'
    BY <1>1 DEF EnsureRunning, SpawnFails, Snapshot, Return, Goto, FutureLabels, ring, task
  <2>4. BridgeLabels'
    BY <1>1 DEF EnsureRunning, SpawnFails, Snapshot, BridgeLabels, linux
  <2>5. OtherLabels'
    BY <1>1 DEF EnsureRunning, SpawnFails, Snapshot, OtherLabels, windows, others
  <2>. QED  BY <2>1, <2>2, <2>3, <2>4, <2>5
            DEF TypeOK, Numbers, Flags, FutureLabels, BridgeLabels, OtherLabels
<1>3. Places'
  <2>1. CASE EnsureRunning
    BY <1>1, <2>1 DEF EnsureRunning, Places, LinuxWait, StopLabels, WindowsWait, Waiting, ring,
       task, windows
  <2>2. CASE SpawnFails
    BY <1>1, <2>2 DEF SpawnFails, Return, Goto, Places, LinuxWait, StopLabels, WindowsWait,
       Waiting, ring, linux, windows
  <2>3. CASE Snapshot
    BY <1>1, <2>3 DEF Snapshot, Goto, Places, LinuxWait, StopLabels, WindowsWait, Waiting, ring,
       linux, windows
  <2>. QED  BY <2>1, <2>2, <2>3
<1>4. ParkedExactly'
  <2>1. CASE EnsureRunning
    BY <1>1, <2>1 DEF EnsureRunning, ParkedExactly, Parked, words, windows
  <2>2. CASE SpawnFails
    BY <1>1, <2>2 DEF SpawnFails, ParkedExactly, Parked, linux, windows
  <2>3. CASE Snapshot
    BY <1>1, <2>3 DEF Snapshot, ParkedExactly, Parked, linux, windows
  <2>. QED  BY <2>1, <2>2, <2>3
<1>5. NotAround'
  <2>1. CASE EnsureRunning
    BY <1>1, <2>1, Ranges DEF EnsureRunning, NotAround, HasSnapshot, ring, words, task, others
  <2>2. CASE SpawnFails
    BY <1>1, <2>2, Ranges DEF SpawnFails, Return, Goto, NotAround, HasSnapshot, ring, others
  <2>3. CASE Snapshot
    <3>1. moved' = 0 /\ UNCHANGED <<drained, avail, peer, closer>>
      BY <2>3 DEF Snapshot, ring, others
    <3>. QED  BY <1>1, <3>1, Ranges DEF NotAround, Numbers
  <2>. QED  BY <2>1, <2>2, <2>3
<1>6. Informed'
  BY <1>1 DEF EnsureRunning, SpawnFails, Snapshot, Return, Goto, Informed, News, CanTake,
     WindowsWait, ring, words, task, others
<1>7. Told'
  BY <1>1 DEF EnsureRunning, SpawnFails, Snapshot, Return, Goto, Told, words, task, windows,
     others
<1>8. BridgeIsWoken'
  BY <1>1 DEF EnsureRunning, SpawnFails, Snapshot, Return, Goto, BridgeIsWoken, words, task,
     linux, others
<1>. QED  BY <1>2, <1>3, <1>4, <1>5, <1>6, <1>7, <1>8 DEF IInv

\* A future that waits for the bridge thread.
LEMMA StepLinuxWait ==
  ASSUME IInv,
         LoadNotify \/ Notified \/ ReloadNotify \/ Woken
  PROVE  IInv'
<1>1. /\ TypeOK /\ Numbers /\ Flags /\ FutureLabels /\ BridgeLabels /\ OtherLabels
      /\ Places /\ ParkedExactly /\ NotAround /\ Informed /\ Told /\ BridgeIsWoken
  BY Parts DEF IInv
<1>2. TypeOK'
  <2>1. Numbers'
    BY <1>1, Ranges DEF LoadNotify, Notified, ReloadNotify, Woken, LookAgainLater, Numbers,
       ring, words
  <2>2. Flags'
    BY <1>1 DEF LoadNotify, Notified, ReloadNotify, Woken, Flags, ring, linux, windows
  <2>3. FutureLabels'
    BY <1>1 DEF LoadNotify, Notified, ReloadNotify, Woken, LookAgainLater, Goto, FutureLabels,
       ring
  <2>4. BridgeLabels'
    BY <1>1 DEF LoadNotify, Notified, ReloadNotify, Woken, BridgeLabels, linux
  <2>5. OtherLabels'
    BY <1>1 DEF LoadNotify, Notified, ReloadNotify, Woken, OtherLabels, windows, others
  <2>. QED  BY <2>1, <2>2, <2>3, <2>4, <2>5
            DEF TypeOK, Numbers, Flags, FutureLabels, BridgeLabels, OtherLabels
<1>3. Places'
  <2>1. CASE LoadNotify
    BY <1>1, <2>1 DEF LoadNotify, LookAgainLater, Goto, Places, LinuxWait, StopLabels,
       WindowsWait, Waiting, ring, linux, windows
  <2>2. CASE Notified
    BY <1>1, <2>2 DEF Notified, Goto, Places, LinuxWait, StopLabels, WindowsWait, Waiting, ring,
       windows
  <2>3. CASE ReloadNotify
    BY <1>1, <2>3 DEF ReloadNotify, LookAgainLater, Goto, Places, LinuxWait, StopLabels,
       WindowsWait, Waiting, ring, windows
  <2>4. CASE Woken
    BY <1>1, <2>4 DEF Woken, Goto, Places, LinuxWait, StopLabels, WindowsWait, Waiting, ring,
       windows
  <2>. QED  BY <2>1, <2>2, <2>3, <2>4
<1>4. ParkedExactly'
  BY <1>1 DEF LoadNotify, Notified, ReloadNotify, Woken, ParkedExactly, Parked, words, linux,
     windows
<1>5. NotAround'
  BY <1>1, Ranges DEF LoadNotify, Notified, ReloadNotify, Woken, LookAgainLater, Goto,
     NotAround, HasSnapshot, ring, words, others
<1>6. Informed'
  BY <1>1 DEF LoadNotify, Notified, ReloadNotify, Woken, LookAgainLater, Goto, Informed, News,
     CanTake, WindowsWait, ring, words, others
<1>7. Told'
  BY <1>1 DEF LoadNotify, Notified, ReloadNotify, Woken, LookAgainLater, Goto, Told, words,
     windows, others
<1>8. BridgeIsWoken'
  BY <1>1 DEF LoadNotify, Notified, ReloadNotify, Woken, LookAgainLater, Goto, BridgeIsWoken,
     words, linux, others
<1>. QED  BY <1>2, <1>3, <1>4, <1>5, <1>6, <1>7, <1>8 DEF IInv

\* A future that waits for the event.
LEMMA StepWindowsWait ==
  ASSUME IInv,
         \/ Poll \/ Arm \/ Prepare \/ PrepareFails
         \/ SwapSignaled \/ RegisterWaker \/ Scheduled
  PROVE  IInv'
<1>1. /\ TypeOK /\ Numbers /\ Flags /\ FutureLabels /\ BridgeLabels /\ OtherLabels
      /\ Places /\ ParkedExactly /\ NotAround /\ Informed /\ Told /\ BridgeIsWoken
  BY Parts DEF IInv
<1>2. TypeOK'
  <2>1. Numbers'
    BY <1>1, Ranges DEF Poll, Arm, Prepare, PrepareFails, SwapSignaled, RegisterWaker,
       Scheduled, LookAgainLater, Disarm, Return, Numbers, ring, words
  <2>2. Flags'
    BY <1>1 DEF Poll, Arm, Prepare, PrepareFails, SwapSignaled, RegisterWaker, Scheduled,
       Disarm, Flags, ring, linux
  <2>3. FutureLabels'
    BY <1>1 DEF Poll, Arm, Prepare, PrepareFails, SwapSignaled, RegisterWaker, Scheduled,
       LookAgainLater, Goto, Return, FutureLabels, ring
  <2>4. BridgeLabels'
    BY <1>1 DEF Poll, Arm, Prepare, PrepareFails, SwapSignaled, RegisterWaker, Scheduled,
       BridgeLabels, linux
  <2>5. OtherLabels'
    BY <1>1 DEF Poll, Arm, Prepare, PrepareFails, SwapSignaled, RegisterWaker, Scheduled,
       Disarm, OtherLabels, others
  <2>. QED  BY <2>1, <2>2, <2>3, <2>4, <2>5
            DEF TypeOK, Numbers, Flags, FutureLabels, BridgeLabels, OtherLabels
<1>3. Places'
  BY <1>1 DEF Poll, Arm, Prepare, PrepareFails, SwapSignaled, RegisterWaker, Scheduled,
     LookAgainLater, Goto, Disarm, Return, Places, LinuxWait, StopLabels, WindowsWait, Waiting,
     ring, linux
<1>4. ParkedExactly'
  <2>1. CASE Poll
    BY <1>1, <2>1 DEF Poll, LookAgainLater, Goto, Disarm, ParkedExactly, Parked, Flags, Places,
       LinuxWait, StopLabels, WindowsWait, Waiting, ring, linux
  <2>2. CASE Arm
    BY <1>1, <2>2 DEF Arm, ParkedExactly, Parked, linux
  <2>3. CASE Prepare
    BY <1>1, <2>3 DEF Prepare, ParkedExactly, Parked, words, linux
  <2>4. CASE PrepareFails
    BY <1>1, <2>4 DEF PrepareFails, Return, Goto, Disarm, ParkedExactly, Parked, Flags, Places,
       LinuxWait, StopLabels, WindowsWait, Waiting, ring, linux
  <2>5. CASE SwapSignaled
    BY <1>1, <2>5 DEF SwapSignaled, ParkedExactly, Parked, words, linux
  <2>6. CASE RegisterWaker
    BY <1>1, <2>6 DEF RegisterWaker, ParkedExactly, Parked, words, linux
  <2>7. CASE Scheduled
    BY <1>1, <2>7 DEF Scheduled, ParkedExactly, Parked, words, linux
  <2>. QED  BY <2>1, <2>2, <2>3, <2>4, <2>5, <2>6, <2>7
<1>5. NotAround'
  BY <1>1, Ranges DEF Poll, Arm, Prepare, PrepareFails, SwapSignaled, RegisterWaker, Scheduled,
     LookAgainLater, Goto, Return, NotAround, HasSnapshot, ring, words, others
<1>6. Informed'
  BY <1>1 DEF Poll, Arm, Prepare, PrepareFails, SwapSignaled, RegisterWaker, Scheduled,
     LookAgainLater, Goto, Return, Informed, News, CanTake, WindowsWait, ring, words, others
<1>7. Told'
  BY <1>1 DEF Poll, Arm, Prepare, PrepareFails, SwapSignaled, RegisterWaker, Scheduled,
     LookAgainLater, Goto, Disarm, Return, Told, words, others
<1>8. BridgeIsWoken'
  BY <1>1 DEF Poll, Arm, Prepare, PrepareFails, SwapSignaled, RegisterWaker, Scheduled,
     LookAgainLater, Goto, Disarm, Return, BridgeIsWoken, ParkedExactly, Parked, Places, LinuxWait,
     StopLabels, WindowsWait, Waiting, ring, words, linux, others
<1>. QED  BY <1>2, <1>3, <1>4, <1>5, <1>6, <1>7, <1>8 DEF IInv

\* The system consumes the event and runs callbacks.
LEMMA StepSystem ==
  ASSUME IInv, NEW i \in Callbacks,
         EventFires(i) \/ Signal(i) \/ WakeWaker(i)
  PROVE  IInv'
<1>1. /\ TypeOK /\ Numbers /\ Flags /\ FutureLabels /\ BridgeLabels /\ OtherLabels
      /\ Places /\ ParkedExactly /\ NotAround /\ Informed /\ Told /\ BridgeIsWoken
  BY Parts DEF IInv
<1>2. TypeOK'
  <2>1. Numbers'
    BY <1>1, Ranges DEF EventFires, Signal, WakeWaker, Numbers, ring, words, task
  <2>2. Flags'
    BY <1>1 DEF EventFires, Signal, WakeWaker, Flags, ring, linux
  <2>3. FutureLabels'
    BY <1>1 DEF EventFires, Signal, WakeWaker, FutureLabels, ring, task
  <2>4. BridgeLabels'
    BY <1>1 DEF EventFires, Signal, WakeWaker, BridgeLabels, linux
  <2>5. OtherLabels'
    BY <1>1 DEF EventFires, Signal, WakeWaker, OtherLabels, others
  <2>. QED  BY <2>1, <2>2, <2>3, <2>4, <2>5
            DEF TypeOK, Numbers, Flags, FutureLabels, BridgeLabels, OtherLabels
<1>3. Places'
  <2>1. CASE EventFires(i)
    BY <1>1, <2>1 DEF EventFires, Places, LinuxWait, StopLabels, WindowsWait, Waiting, ring,
       task, linux
  <2>2. CASE Signal(i)
    BY <1>1, <2>2 DEF Signal, Places, LinuxWait, StopLabels, WindowsWait, Waiting, ring, task,
       linux
  <2>3. CASE WakeWaker(i)
    BY <1>1, <2>3 DEF WakeWaker, Places, LinuxWait, StopLabels, WindowsWait, Waiting, ring,
       task, linux
  <2>. QED  BY <2>1, <2>2, <2>3
<1>4. ParkedExactly'
  BY <1>1 DEF EventFires, Signal, WakeWaker, ParkedExactly, Parked, words, linux
<1>5. NotAround'
  BY <1>1, Ranges DEF EventFires, Signal, WakeWaker, NotAround, HasSnapshot, ring, words, task,
     others
<1>6. Informed'
  BY <1>1 DEF EventFires, Signal, WakeWaker, Informed, News, CanTake, WindowsWait, ring, words,
     task, others
<1>7. Told'
  <2>1. CASE EventFires(i)
    <3>1. /\ callback[i] = "none" /\ callback' = [callback EXCEPT ![i] = "signal"]
          /\ callback \in [Callbacks -> {"none", "signal", "wake"}]
          /\ UNCHANGED <<pc, moved, peer, closer>>
      BY <2>1, <1>1 DEF EventFires, task, words, others, OtherLabels
    <3>2. callback'[i] = "signal" /\ \A j \in Callbacks : j # i => callback'[j] = callback[j]
      BY <3>1
    <3>. QED  BY <3>1, <3>2 DEF Told
  <2>2. CASE Signal(i)
    <3>1. /\ callback[i] = "signal" /\ callback' = [callback EXCEPT ![i] = "wake"]
          /\ callback \in [Callbacks -> {"none", "signal", "wake"}]
          /\ UNCHANGED <<pc, moved, peer, closer>>
          /\ signaled' = TRUE /\ UNCHANGED <<event, scheduled>>
      BY <2>2, <1>1 DEF Signal, task, words, others, OtherLabels
    <3>2. callback'[i] = "wake" /\ \A j \in Callbacks : j # i => callback'[j] = callback[j]
      BY <3>1
    <3>. QED  BY <1>1, <3>1, <3>2 DEF Told
  <2>3. CASE WakeWaker(i)
    <3>1. /\ callback[i] = "wake" /\ callback' = [callback EXCEPT ![i] = "none"]
          /\ callback \in [Callbacks -> {"none", "signal", "wake"}]
          /\ UNCHANGED <<pc, moved, peer, closer>> /\ UNCHANGED <<event, signaled>>
          /\ scheduled' = (scheduled \/ waker)
      BY <2>3, <1>1 DEF WakeWaker, task, words, others, OtherLabels
    <3>2. callback'[i] = "none" /\ \A j \in Callbacks : j # i => callback'[j] = callback[j]
      BY <3>1
    <3>3. pc = "pending" => waker
      BY <1>1 DEF Places
    <3>4. pc = "pending" => scheduled'
      BY <3>1, <3>3
    <3>. QED  BY <1>1, <3>1, <3>2, <3>4 DEF Told
  <2>. QED  BY <2>1, <2>2, <2>3
<1>8. BridgeIsWoken'
  BY <1>1 DEF EventFires, Signal, WakeWaker, BridgeIsWoken, words, task, linux, others
<1>. QED  BY <1>2, <1>3, <1>4, <1>5, <1>6, <1>7, <1>8 DEF IInv

\* A wait that ends without a wake.
LEMMA StepWaitEnds ==
  ASSUME IInv,
         QuantumPasses \/ Cancel
  PROVE  IInv'
<1>1. /\ TypeOK /\ Numbers /\ Flags /\ FutureLabels /\ BridgeLabels /\ OtherLabels
      /\ Places /\ ParkedExactly /\ NotAround /\ Informed /\ Told /\ BridgeIsWoken
  BY Parts DEF IInv
<1>2. TypeOK'
  <2>1. Numbers'
    BY <1>1, Ranges DEF QuantumPasses, Cancel, Disarm, LookAgainLater, Return, Numbers, ring
  <2>2. Flags'
    BY <1>1 DEF QuantumPasses, Cancel, Disarm, Flags, ring
  <2>3. FutureLabels'
    BY <1>1 DEF QuantumPasses, Cancel, Awaiting, LookAgainLater, Goto, Return, FutureLabels,
       ring
  <2>4. BridgeLabels'
    BY <1>1 DEF QuantumPasses, Cancel, BridgeLabels
  <2>5. OtherLabels'
    BY <1>1 DEF QuantumPasses, Cancel, Disarm, OtherLabels, others
  <2>. QED  BY <2>1, <2>2, <2>3, <2>4, <2>5
            DEF TypeOK, Numbers, Flags, FutureLabels, BridgeLabels, OtherLabels
<1>3. Places'
  BY <1>1 DEF QuantumPasses, Cancel, Awaiting, Disarm, LookAgainLater, Goto, Return, Places,
     LinuxWait, StopLabels, WindowsWait, Waiting, ring
<1>4. ParkedExactly'
  <2>1. CASE QuantumPasses
    BY <1>1, <2>1 DEF QuantumPasses, Awaiting, Disarm, ParkedExactly, Places, Flags, Parked,
       WindowsWait, words, linux
  <2>2. CASE Cancel
    BY <1>1, <2>2 DEF Cancel, Awaiting, Disarm, ParkedExactly, Places, Flags, Parked,
       WindowsWait, words, linux
  <2>. QED  BY <2>1, <2>2
<1>5. NotAround'
  BY <1>1, Ranges DEF QuantumPasses, Cancel, Awaiting, LookAgainLater, Goto, Return, NotAround,
     HasSnapshot, ring, others
<1>6. Informed'
  BY <1>1 DEF QuantumPasses, Cancel, Awaiting, LookAgainLater, Goto, Return, Informed, News,
     CanTake, WindowsWait, ring, others
<1>7. Told'
  BY <1>1 DEF QuantumPasses, Cancel, Awaiting, Disarm, LookAgainLater, Goto, Return, Told,
     others
<1>8. BridgeIsWoken'
  BY <1>1 DEF QuantumPasses, Cancel, Awaiting, Disarm, LookAgainLater, Goto, Return,
     BridgeIsWoken, ParkedExactly, Parked, Places, LinuxWait, StopLabels, WindowsWait, Waiting,
     ring, others
<1>. QED  BY <1>2, <1>3, <1>4, <1>5, <1>6, <1>7, <1>8 DEF IInv

\* The bridge thread.
LEMMA StepBridge ==
  ASSUME IInv,
         \/ CheckStop \/ Observe \/ Park \/ Recheck \/ Sleep
         \/ SleepEnds \/ Unpark \/ Reload \/ StopOrGoOn \/ Tell
  PROVE  IInv'
<1>1. /\ TypeOK /\ Numbers /\ Flags /\ FutureLabels /\ BridgeLabels /\ OtherLabels
      /\ Places /\ ParkedExactly /\ NotAround /\ Informed /\ Told /\ BridgeIsWoken
  BY Parts DEF IInv
<1>2. TypeOK'
  <2>1. Numbers'
    BY <1>1, Ranges DEF CheckStop, Observe, Park, Recheck, Sleep, SleepEnds, Unpark, Reload,
       StopOrGoOn, Tell, Numbers, ring, words, task
  <2>2. Flags'
    <3>1. CASE CheckStop
      BY <1>1, <3>1 DEF CheckStop, Flags, ring, windows
    <3>2. CASE Observe
      BY <1>1, <3>2 DEF Observe, Flags, ring, windows
    <3>3. CASE Park
      BY <1>1, <3>3 DEF Park, Flags, ring, windows
    <3>4. CASE Recheck
      BY <1>1, <3>4 DEF Recheck, Flags, ring, windows
    <3>5. CASE Sleep
      BY <1>1, <3>5 DEF Sleep, Flags, ring, windows
    <3>6. CASE SleepEnds
      BY <1>1, <3>6 DEF SleepEnds, Flags, ring, windows
    <3>7. CASE Unpark
      BY <1>1, <3>7 DEF Unpark, Flags, ring, windows
    <3>8. CASE Reload
      BY <1>1, <3>8 DEF Reload, Flags, ring, windows
    <3>9. CASE StopOrGoOn
      BY <1>1, <3>9 DEF StopOrGoOn, Flags, ring, windows
    <3>10. CASE Tell
      BY <1>1, <3>10 DEF Tell, Flags, ring, windows
    <3>. QED  BY <3>1, <3>2, <3>3, <3>4, <3>5, <3>6, <3>7, <3>8, <3>9, <3>10
  <2>3. FutureLabels'
    BY <1>1 DEF CheckStop, Observe, Park, Recheck, Sleep, SleepEnds, Unpark, Reload, StopOrGoOn,
       Tell, FutureLabels, ring, task
  <2>4. BridgeLabels'
    BY <1>1 DEF CheckStop, Observe, Park, Recheck, Sleep, SleepEnds, Unpark, Reload, StopOrGoOn,
       Tell, BridgeAt, NotifyWaiters, BridgeLabels
  <2>5. OtherLabels'
    BY <1>1 DEF CheckStop, Observe, Park, Recheck, Sleep, SleepEnds, Unpark, Reload, StopOrGoOn,
       Tell, OtherLabels, windows, others
  <2>. QED  BY <2>1, <2>2, <2>3, <2>4, <2>5
            DEF TypeOK, Numbers, Flags, FutureLabels, BridgeLabels, OtherLabels
<1>3. Places'
  <2>1. CASE CheckStop
    BY <1>1, <2>1 DEF CheckStop, BridgeAt, Places, LinuxWait, StopLabels, WindowsWait, Waiting,
       ring, task, windows
  <2>2. CASE Observe
    BY <1>1, <2>2 DEF Observe, BridgeAt, Places, LinuxWait, StopLabels, WindowsWait, Waiting,
       ring, task, windows
  <2>3. CASE Park
    BY <1>1, <2>3 DEF Park, BridgeAt, Places, LinuxWait, StopLabels, WindowsWait, Waiting, ring,
       task, windows
  <2>4. CASE Recheck
    BY <1>1, <2>4 DEF Recheck, BridgeAt, Places, LinuxWait, StopLabels, WindowsWait, Waiting,
       ring, task, windows
  <2>5. CASE Sleep
    BY <1>1, <2>5 DEF Sleep, BridgeAt, Places, LinuxWait, StopLabels, WindowsWait, Waiting,
       ring, task, windows
  <2>6. CASE SleepEnds
    BY <1>1, <2>6 DEF SleepEnds, BridgeAt, Places, LinuxWait, StopLabels, WindowsWait, Waiting,
       ring, task, windows
  <2>7. CASE Unpark
    BY <1>1, <2>7 DEF Unpark, BridgeAt, Places, LinuxWait, StopLabels, WindowsWait, Waiting,
       ring, task, windows
  <2>8. CASE Reload
    BY <1>1, <2>8 DEF Reload, BridgeAt, Places, LinuxWait, StopLabels, WindowsWait, Waiting,
       ring, task, windows
  <2>9. CASE StopOrGoOn
    BY <1>1, <2>9 DEF StopOrGoOn, BridgeAt, Places, LinuxWait, StopLabels, WindowsWait, Waiting,
       ring, task, windows
  <2>10. CASE Tell
    BY <1>1, <2>10 DEF Tell, BridgeAt, Places, LinuxWait, StopLabels, WindowsWait, Waiting,
       ring, task, windows
  <2>. QED  BY <2>1, <2>2, <2>3, <2>4, <2>5, <2>6, <2>7, <2>8, <2>9, <2>10
<1>4. ParkedExactly'
  <2>1. CASE CheckStop
    BY <1>1, <2>1 DEF CheckStop, BridgeAt, ParkedExactly, Parked, words, windows
  <2>2. CASE Observe
    BY <1>1, <2>2 DEF Observe, BridgeAt, ParkedExactly, Parked, windows
  <2>3. CASE Park
    BY <1>1, <2>3 DEF Park, BridgeAt, ParkedExactly, Parked, windows
  <2>4. CASE Recheck
    BY <1>1, <2>4 DEF Recheck, BridgeAt, ParkedExactly, Parked, Flags, Places, LinuxWait,
       StopLabels, WindowsWait, Waiting, ring, task, windows
  <2>5. CASE Sleep
    BY <1>1, <2>5 DEF Sleep, BridgeAt, ParkedExactly, Parked, words, windows
  <2>6. CASE SleepEnds
    BY <1>1, <2>6 DEF SleepEnds, BridgeAt, ParkedExactly, Parked, words, windows
  <2>7. CASE Unpark
    BY <1>1, <2>7 DEF Unpark, BridgeAt, ParkedExactly, Parked, Flags, Places, LinuxWait,
       StopLabels, WindowsWait, Waiting, ring, task, windows
  <2>8. CASE Reload
    BY <1>1, <2>8 DEF Reload, BridgeAt, ParkedExactly, Parked, windows
  <2>9. CASE StopOrGoOn
    BY <1>1, <2>9 DEF StopOrGoOn, BridgeAt, ParkedExactly, Parked, words, windows
  <2>10. CASE Tell
    BY <1>1, <2>10 DEF Tell, BridgeAt, ParkedExactly, Parked, words, windows
  <2>. QED  BY <2>1, <2>2, <2>3, <2>4, <2>5, <2>6, <2>7, <2>8, <2>9, <2>10
<1>5. NotAround'
  BY <1>1, Ranges DEF CheckStop, Observe, Park, Recheck, Sleep, SleepEnds, Unpark, Reload,
     StopOrGoOn, Tell, NotAround, HasSnapshot, ring, words, task, others
<1>6. Informed'
  BY <1>1 DEF CheckStop, Observe, Park, Recheck, Sleep, SleepEnds, Unpark, Reload, StopOrGoOn,
     Tell, Informed, News, CanTake, WindowsWait, ring, words, task, others
<1>7. Told'
  BY <1>1 DEF CheckStop, Observe, Park, Recheck, Sleep, SleepEnds, Unpark, Reload, StopOrGoOn,
     Tell, Told, words, task, windows, others
<1>8. BridgeIsWoken'
  BY <1>1 DEF CheckStop, Observe, Park, Recheck, Sleep, SleepEnds, Unpark, Reload, StopOrGoOn,
     Tell, BridgeAt, BridgeIsWoken, words, task, others
<1>. QED  BY <1>2, <1>3, <1>4, <1>5, <1>6, <1>7, <1>8 DEF IInv

\* A half is dropped, and its bridge with it.
LEMMA StepStop ==
  ASSUME IInv,
         SetStop \/ StopBump \/ StopWake \/ Join
  PROVE  IInv'
<1>1. /\ TypeOK /\ Numbers /\ Flags /\ FutureLabels /\ BridgeLabels /\ OtherLabels
      /\ Places /\ ParkedExactly /\ NotAround /\ Informed /\ Told /\ BridgeIsWoken
  BY Parts DEF IInv
<1>2. TypeOK'
  <2>1. Numbers'
    BY <1>1, Ranges, Bumps DEF SetStop, StopBump, StopWake, Join, Numbers, ring, words
  <2>2. Flags'
    BY <1>1 DEF SetStop, StopBump, StopWake, Join, WakeHandle, Flags, ring, linux, windows
  <2>3. FutureLabels'
    BY <1>1 DEF SetStop, StopBump, StopWake, Join, Goto, WakeHandle, FutureLabels, ring
  <2>4. BridgeLabels'
    BY <1>1 DEF SetStop, StopBump, StopWake, Join, WakeHandle, BridgeLabels, linux
  <2>5. OtherLabels'
    BY <1>1 DEF SetStop, StopBump, StopWake, Join, WakeHandle, OtherLabels, windows, others
  <2>. QED  BY <2>1, <2>2, <2>3, <2>4, <2>5
            DEF TypeOK, Numbers, Flags, FutureLabels, BridgeLabels, OtherLabels
<1>3. Places'
  <2>1. CASE SetStop
    BY <1>1, <2>1 DEF SetStop, Goto, Places, LinuxWait, StopLabels, WindowsWait, Waiting, ring,
       windows
  <2>2. CASE StopBump
    BY <1>1, <2>2 DEF StopBump, Goto, Places, LinuxWait, StopLabels, WindowsWait, Waiting, ring,
       linux, windows
  <2>3. CASE StopWake
    BY <1>1, <2>3 DEF StopWake, WakeHandle, Goto, Places, LinuxWait, StopLabels, WindowsWait,
       Waiting, ring
  <2>4. CASE Join
    BY <1>1, <2>4 DEF Join, Goto, Places, LinuxWait, StopLabels, WindowsWait, Waiting, ring,
       windows
  <2>. QED  BY <2>1, <2>2, <2>3, <2>4
<1>4. ParkedExactly'
  <2>1. CASE SetStop
    BY <1>1, <2>1 DEF SetStop, ParkedExactly, Parked, words, windows
  <2>2. CASE StopBump
    BY <1>1, <2>2 DEF StopBump, ParkedExactly, Parked, linux, windows
  <2>3. CASE StopWake
    BY <1>1, <2>3 DEF StopWake, WakeHandle, ParkedExactly, Parked, words
  <2>4. CASE Join
    BY <1>1, <2>4 DEF Join, ParkedExactly, Parked, words, windows
  <2>. QED  BY <2>1, <2>2, <2>3, <2>4
<1>5. NotAround'
  BY <1>1, Ranges, Bumps DEF SetStop, StopBump, StopWake, Join, Goto, NotAround, HasSnapshot,
     ring, words, others
<1>6. Informed'
  BY <1>1, Bumps DEF SetStop, StopBump, StopWake, Join, Goto, Informed, News, CanTake,
     WindowsWait, ring, words, others
<1>7. Told'
  BY <1>1, Bumps DEF SetStop, StopBump, StopWake, Join, Goto, WakeHandle, Told, words, windows,
     others
<1>8. BridgeIsWoken'
  BY <1>1 DEF SetStop, StopBump, StopWake, Join, Goto, WakeHandle, BridgeIsWoken, ParkedExactly,
     Parked, Places, LinuxWait, StopLabels, WindowsWait, Waiting, ring, words, linux, windows,
     others
<1>. QED  BY <1>2, <1>3, <1>4, <1>5, <1>6, <1>7, <1>8 DEF IInv

\* The peer is about to have news.
LEMMA StepPeerAdmitted ==
  ASSUME IInv, PeerAdmitted
  PROVE  IInv'
<1>1. /\ TypeOK /\ Numbers /\ Flags /\ FutureLabels /\ BridgeLabels /\ OtherLabels
      /\ Places /\ ParkedExactly /\ NotAround /\ Informed /\ Told /\ BridgeIsWoken
  BY Parts DEF IInv
<1>2. /\ peer = "idle" /\ peer' = "admitted"
      /\ UNCHANGED <<ring, words, task, linux, windows, closer>>
  BY DEF PeerAdmitted
<1>3. TypeOK'
  <2>1. Numbers' /\ Flags'
    BY <1>1, <1>2 DEF Numbers, Flags, ring, words, task, linux, windows
  <2>2. FutureLabels' /\ BridgeLabels'
    BY <1>1, <1>2 DEF FutureLabels, BridgeLabels, ring, task, linux
  <2>3. OtherLabels'
    BY <1>1, <1>2 DEF OtherLabels, windows
  <2>. QED  BY <2>1, <2>2, <2>3 DEF TypeOK, Numbers, Flags, FutureLabels, BridgeLabels, OtherLabels
<1>4. Places' /\ ParkedExactly'
  BY <1>1, <1>2 DEF Places, LinuxWait, StopLabels, WindowsWait, Waiting, ParkedExactly, Parked,
     ring, words, task, linux, windows
<1>5. NotAround'
  BY <1>1, <1>2, Ranges DEF NotAround, HasSnapshot, ring, words, task
<1>6. Informed' /\ Told'
  BY <1>1, <1>2 DEF Informed, Told, News, CanTake, WindowsWait, ring, words, task, windows
<1>7. BridgeIsWoken'
  BY <1>1, <1>2 DEF BridgeIsWoken, words, task, linux
<1>. QED  BY <1>3, <1>4, <1>5, <1>6, <1>7 DEF IInv

\* The peer has news.
LEMMA StepPeer ==
  ASSUME IInv,
         PeerMoves \/ PeerBumps \/ PeerLoadsParked \/ PeerWakes
  PROVE  IInv'
<1>1. /\ TypeOK /\ Numbers /\ Flags /\ FutureLabels /\ BridgeLabels /\ OtherLabels
      /\ Places /\ ParkedExactly /\ NotAround /\ Informed /\ Told /\ BridgeIsWoken
  BY Parts DEF IInv
<1>2. TypeOK'
  <2>1. Numbers'
    BY <1>1, Ranges, Bumps DEF PeerMoves, PeerBumps, PeerLoadsParked, PeerWakes, Numbers, ring,
       words, task
  <2>2. Flags'
    BY <1>1 DEF PeerMoves, PeerBumps, PeerLoadsParked, PeerWakes, WakeHandle, Flags, ring,
       linux, windows
  <2>3. FutureLabels'
    BY <1>1 DEF PeerMoves, PeerBumps, PeerLoadsParked, PeerWakes, WakeHandle, FutureLabels,
       ring, task
  <2>4. BridgeLabels'
    BY <1>1 DEF PeerMoves, PeerBumps, PeerLoadsParked, PeerWakes, WakeHandle, BridgeLabels,
       linux
  <2>5. OtherLabels'
    BY <1>1 DEF PeerMoves, PeerBumps, PeerLoadsParked, PeerWakes, WakeHandle, OtherLabels,
       windows
  <2>. QED  BY <2>1, <2>2, <2>3, <2>4, <2>5
            DEF TypeOK, Numbers, Flags, FutureLabels, BridgeLabels, OtherLabels
<1>3. Places'
  <2>1. CASE PeerMoves
    BY <1>1, <2>1 DEF PeerMoves, Places, LinuxWait, StopLabels, WindowsWait, Waiting, task,
       linux, windows
  <2>2. CASE PeerBumps
    BY <1>1, <2>2 DEF PeerBumps, Places, LinuxWait, StopLabels, WindowsWait, Waiting, ring,
       task, linux, windows
  <2>3. CASE PeerLoadsParked
    BY <1>1, <2>3 DEF PeerLoadsParked, Places, LinuxWait, StopLabels, WindowsWait, Waiting,
       ring, task, linux, windows
  <2>4. CASE PeerWakes
    BY <1>1, <2>4 DEF PeerWakes, WakeHandle, Places, LinuxWait, StopLabels, WindowsWait,
       Waiting, ring, task
  <2>. QED  BY <2>1, <2>2, <2>3, <2>4
<1>4. ParkedExactly'
  BY <1>1 DEF PeerMoves, PeerBumps, PeerLoadsParked, PeerWakes, WakeHandle, ParkedExactly,
     Parked, words, linux, windows
<1>5. NotAround'
  <2>1. CASE PeerMoves
    <3>1. /\ peer = "admitted" /\ peer' = "bump" /\ avail' = avail + 1
          /\ UNCHANGED <<pc, drained, moved, closer>>
      BY <2>1 DEF PeerMoves, task, words
    <3>2. HasSnapshot' <=> HasSnapshot
      BY <3>1 DEF HasSnapshot
    <3>. QED  BY <1>1, <3>1, <3>2, Ranges DEF NotAround
  <2>2. CASE PeerBumps
    <3>1. Bump /\ peer = "bump" /\ peer' = "load" /\ UNCHANGED <<pc, drained, avail, closer>>
      BY <2>2 DEF PeerBumps, task, ring
    <3>2. HasSnapshot' <=> HasSnapshot
      BY <3>1 DEF HasSnapshot
    <3>3. HasSnapshot /\ drained = 0 => moved' = moved + 1
      BY <1>1, <3>1, Bumps
    <3>. QED  BY <1>1, <3>1, <3>2, <3>3, Ranges DEF NotAround
  <2>3. CASE PeerLoadsParked
    BY <1>1, <2>3, Ranges DEF PeerLoadsParked, NotAround, HasSnapshot, ring, words, task
  <2>4. CASE PeerWakes
    BY <1>1, <2>4, Ranges DEF PeerWakes, NotAround, HasSnapshot, ring, words, task
  <2>. QED  BY <2>1, <2>2, <2>3, <2>4
<1>6. Informed'
  <2>1. CASE PeerMoves
    BY <1>1, <2>1 DEF PeerMoves, Informed, News, CanTake, WindowsWait, words, task
  <2>2. CASE PeerBumps
    <3>1. pc \in WindowsWait => HasSnapshot /\ drained = 0
      BY <1>1 DEF Places, Waiting, WindowsWait, HasSnapshot
    <3>2. Bump /\ peer = "bump" /\ UNCHANGED <<pc>>
      BY <2>2 DEF PeerBumps, task
    <3>3. pc \in WindowsWait => moved' # 0
      BY <1>1, <3>1, <3>2, Bumps
    <3>. QED  BY <3>2, <3>3 DEF Informed
  <2>3. CASE PeerLoadsParked
    BY <1>1, <2>3 DEF PeerLoadsParked, Informed, News, CanTake, WindowsWait, ring, words, task
  <2>4. CASE PeerWakes
    BY <1>1, <2>4 DEF PeerWakes, Informed, News, CanTake, WindowsWait, ring, words, task
  <2>. QED  BY <2>1, <2>2, <2>3, <2>4
<1>7. Told'
  BY <1>1, Bumps DEF PeerMoves, PeerBumps, PeerLoadsParked, PeerWakes, WakeHandle, Told, Places,
     LinuxWait, StopLabels, WindowsWait, Waiting, ParkedExactly, Parked, ring, words, task, linux,
     windows
<1>8. BridgeIsWoken'
  BY <1>1 DEF PeerMoves, PeerBumps, PeerLoadsParked, PeerWakes, WakeHandle, BridgeIsWoken,
     ParkedExactly, Parked, Places, LinuxWait, StopLabels, WindowsWait, Waiting, ring, words, task,
     linux, windows
<1>. QED  BY <1>2, <1>3, <1>4, <1>5, <1>6, <1>7, <1>8 DEF IInv

\* Somebody closes the channel.
LEMMA StepCloser ==
  ASSUME IInv,
         Close \/ CloserBumps \/ CloserWakes
  PROVE  IInv'
<1>1. /\ TypeOK /\ Numbers /\ Flags /\ FutureLabels /\ BridgeLabels /\ OtherLabels
      /\ Places /\ ParkedExactly /\ NotAround /\ Informed /\ Told /\ BridgeIsWoken
  BY Parts DEF IInv
<1>2. TypeOK'
  <2>1. Numbers'
    BY <1>1, Ranges, Bumps DEF Close, CloserBumps, CloserWakes, Numbers, ring, words, task
  <2>2. Flags'
    BY <1>1 DEF Close, CloserBumps, CloserWakes, WakeHandle, Flags, ring, linux, windows
  <2>3. FutureLabels'
    BY <1>1 DEF Close, CloserBumps, CloserWakes, WakeHandle, FutureLabels, ring, task
  <2>4. BridgeLabels'
    BY <1>1 DEF Close, CloserBumps, CloserWakes, WakeHandle, BridgeLabels, linux
  <2>5. OtherLabels'
    BY <1>1 DEF Close, CloserBumps, CloserWakes, WakeHandle, OtherLabels, windows
  <2>. QED  BY <2>1, <2>2, <2>3, <2>4, <2>5
            DEF TypeOK, Numbers, Flags, FutureLabels, BridgeLabels, OtherLabels
<1>3. Places'
  <2>1. CASE Close
    BY <1>1, <2>1 DEF Close, Places, LinuxWait, StopLabels, WindowsWait, Waiting, task, linux,
       windows
  <2>2. CASE CloserBumps
    BY <1>1, <2>2 DEF CloserBumps, Places, LinuxWait, StopLabels, WindowsWait, Waiting, ring,
       task, linux, windows
  <2>3. CASE CloserWakes
    BY <1>1, <2>3 DEF CloserWakes, WakeHandle, Places, LinuxWait, StopLabels, WindowsWait,
       Waiting, ring, task
  <2>. QED  BY <2>1, <2>2, <2>3
<1>4. ParkedExactly'
  BY <1>1 DEF Close, CloserBumps, CloserWakes, WakeHandle, ParkedExactly, Parked, words, linux,
     windows
<1>5. NotAround'
  <2>1. CASE Close
    BY <1>1, <2>1, Ranges DEF Close, NotAround, HasSnapshot, words, task
  <2>2. CASE CloserBumps
    <3>1. Bump /\ closer = "bump" /\ closer' = "wake" /\ UNCHANGED <<pc, drained, avail, peer>>
      BY <2>2 DEF CloserBumps, task, ring
    <3>2. HasSnapshot' <=> HasSnapshot
      BY <3>1 DEF HasSnapshot
    <3>3. HasSnapshot /\ drained = 0 => moved' = moved + 1
      BY <1>1, <3>1, Bumps
    <3>. QED  BY <1>1, <3>1, <3>2, <3>3, Ranges DEF NotAround
  <2>3. CASE CloserWakes
    BY <1>1, <2>3, Ranges DEF CloserWakes, NotAround, HasSnapshot, ring, words, task
  <2>. QED  BY <2>1, <2>2, <2>3
<1>6. Informed'
  <2>1. CASE Close
    BY <1>1, <2>1 DEF Close, Informed, News, CanTake, WindowsWait, words, task
  <2>2. CASE CloserBumps
    <3>1. pc \in WindowsWait => HasSnapshot /\ drained = 0
      BY <1>1 DEF Places, Waiting, WindowsWait, HasSnapshot
    <3>2. Bump /\ closer = "bump" /\ UNCHANGED <<pc>>
      BY <2>2 DEF CloserBumps, task
    <3>3. pc \in WindowsWait => moved' # 0
      BY <1>1, <3>1, <3>2, Bumps
    <3>. QED  BY <3>2, <3>3 DEF Informed
  <2>3. CASE CloserWakes
    BY <1>1, <2>3 DEF CloserWakes, Informed, News, CanTake, WindowsWait, ring, words, task
  <2>. QED  BY <2>1, <2>2, <2>3
<1>7. Told'
  BY <1>1, Bumps DEF Close, CloserBumps, CloserWakes, WakeHandle, Told, Places, LinuxWait,
     StopLabels, WindowsWait, Waiting, ring, words, task, linux, windows
<1>8. BridgeIsWoken'
  BY <1>1 DEF Close, CloserBumps, CloserWakes, WakeHandle, BridgeIsWoken, ParkedExactly, Parked,
     Places, LinuxWait, StopLabels, WindowsWait, Waiting, ring, words, task, linux, windows
<1>. QED  BY <1>2, <1>3, <1>4, <1>5, <1>6, <1>7, <1>8 DEF IInv

(***************************************************************************)
(* The theorems.                                                           *)
(***************************************************************************)
\* The invariant holds initially.
LEMMA InvInit == Init => IInv
<1>. SUFFICES ASSUME Init PROVE IInv
  OBVIOUS
<1>1. Numbers
  BY AsyncWaitAssumption DEF Init, Numbers
<1>2. Flags
  BY DEF Init, Flags
<1>3. FutureLabels /\ BridgeLabels /\ OtherLabels
  BY DEF Init, FutureLabels, BridgeLabels, OtherLabels
<1>4. Places /\ ParkedExactly
  BY DEF Init, Places, ParkedExactly, LinuxWait, WindowsWait, Waiting, StopLabels, Parked
<1>5. NotAround
  BY DEF Init, NotAround, HasSnapshot
<1>6. Informed /\ Told /\ BridgeIsWoken
  BY DEF Init, Informed, Told, BridgeIsWoken, WindowsWait
<1>. QED  BY <1>1, <1>2, <1>3, <1>4, <1>5, <1>6, Parts DEF IInv

\* Every step keeps it.
LEMMA InvStep == IInv /\ [Next]_vars => IInv'
<1>. SUFFICES ASSUME IInv, [Next]_vars PROVE IInv'
  OBVIOUS
<1>1. CASE (\E c \in {"send", "recv", "recv_many", "drain_ready"} : Call(c)) \/ Look
  BY <1>1, StepLook DEF Look
<1>2. CASE Future
  BY <1>2, StepLook, StepStart, StepLinuxWait, StepWindowsWait DEF Future, Look
<1>3. CASE QuantumPasses \/ Cancel
  BY <1>3, StepWaitEnds
<1>4. CASE Bridge \/ SleepEnds
  BY <1>4, StepBridge DEF Bridge
<1>5. CASE \E i \in Callbacks : System(i)
  BY <1>5, StepSystem DEF System
<1>6. CASE SetStop \/ Stop
  BY <1>6, StepStop DEF Stop
<1>7. CASE PeerAdmitted \/ PeerMoves \/ Close \/ Others
  BY <1>7, StepPeerAdmitted, StepPeer, StepCloser DEF Others
<1>8. CASE UNCHANGED vars
  <2>1. UNCHANGED ring /\ UNCHANGED words /\ UNCHANGED task /\ UNCHANGED linux
        /\ UNCHANGED windows /\ UNCHANGED others
    BY <1>8 DEF vars
  <2>2. TypeOK'
    <3>1. Numbers /\ Flags /\ FutureLabels /\ BridgeLabels /\ OtherLabels
      BY Parts DEF IInv
    <3>2. Numbers' /\ Flags'
      BY <2>1, <3>1 DEF ring, words, task, linux, windows, Numbers, Flags
    <3>3. FutureLabels'
      BY <2>1, <3>1 DEF ring, task, FutureLabels
    <3>4. BridgeLabels' /\ OtherLabels'
      BY <2>1, <3>1 DEF linux, windows, others, BridgeLabels, OtherLabels
    <3>. QED  BY <3>2, <3>3, <3>4
              DEF TypeOK, Numbers, Flags, FutureLabels, BridgeLabels, OtherLabels
  <2>3. Places'
    BY <2>1 DEF ring, task, linux, windows, IInv, Places
  <2>4. ParkedExactly'
    BY <2>1 DEF words, linux, windows, IInv, ParkedExactly
  <2>5. NotAround'
    BY <2>1 DEF ring, words, task, others, IInv, NotAround, HasSnapshot
  <2>6. Informed'
    BY <2>1 DEF ring, words, task, others, IInv, Informed, News, CanTake
  <2>7. Told' /\ BridgeIsWoken'
    BY <2>1 DEF words, task, linux, windows, others, IInv, Told, BridgeIsWoken
  <2>. QED  BY <2>2, <2>3, <2>4, <2>5, <2>6, <2>7 DEF IInv
<1>. QED  BY <1>1, <1>2, <1>3, <1>4, <1>5, <1>6, <1>7, <1>8 DEF Next

\* The inductive invariant holds in every state.
THEOREM Invariance == Spec => []IInv
BY InvInit, InvStep, PTL DEF Spec

\* Every variable keeps its shape; a batch never grows beyond its limit.
THEOREM Typing == Spec => []TypeOK
<1>1. IInv => TypeOK
  BY DEF IInv
<1>. QED  BY <1>1, Invariance, PTL

\* No wake falls between the flag and the waker, the word and the sleep, or one
\* future and the next (WaitChanged::poll, wait_callback, wait_loop).
THEOREM NoLostWakeHolds == Spec => []NoLostWake
<1>1. IInv => NoLostWake
  <2>. SUFFICES ASSUME IInv PROVE PendingIsWoken
    BY DEF IInv, NoLostWake
  <2>. SUFFICES ASSUME platform = "windows", pc = "pending", News PROVE OnItsWay
    BY DEF PendingIsWoken
  <2>1. /\ waker /\ armed /\ registered /\ parked = 1
    BY DEF IInv, Places, ParkedExactly, WindowsWait
  <2>2. moved # 0 \/ peer = "bump" \/ closer = "bump"
    BY DEF IInv, Informed, WindowsWait
  <2>3. CASE moved # 0
    <3>1. \/ event \/ peer \in {"load", "wake"} \/ closer = "wake"
          \/ scheduled \/ \E i \in Callbacks : callback[i] # "none"
      BY <2>3 DEF IInv, Told
    <3>. QED  BY <2>1, <3>1 DEF OnItsWay
  <2>. QED  BY <2>1, <2>2, <2>3 DEF OnItsWay
<1>. QED  BY <1>1, Invariance, PTL

\* A bridge that ended, and a future that returned, failed or was dropped, leave
\* parked = 0 (WaitChanged::disarm, wait_loop).
THEOREM ParkedMeansWaiterHolds == Spec => []ParkedMeansWaiter
<1>1. IInv => ParkedMeansWaiter
  BY DEF IInv, ParkedExactly, ParkedMeansWaiter, Parked
<1>. QED  BY <1>1, Invariance, PTL
=============================================================================
