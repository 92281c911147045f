------------------------- MODULE ChannelStateProofs -------------------------
(***************************************************************************)
(* Proofs about ChannelState, for any number of clients and of halves, for *)
(* every way in which a dead process may show in /proc, and whether or not *)
(* /proc can be read.                                                      *)
(*                                                                         *)
(* The properties are not inductive.  What makes them so is who may have   *)
(* written what: the client that got past the claim is the only one to     *)
(* store its identity (Claims); a thread that will store a terminal state  *)
(* still believes in one that is not (Places); whoever is about to report  *)
(* a death knows whose (Monitors, Deaths); and the half that removes the   *)
(* file is the last one of its process (Removal).                          *)
(***************************************************************************)
EXTENDS ChannelState, TLAPS

(***************************************************************************)
(* The inductive invariant.                                                *)
(***************************************************************************)
Claimed == {"claimed", "pid", "birth", "connected"}

\* One client holds the claim; the state and the identity words tell how far
\* it is.
Claims ==
  /\ \A c, d \in Clients : opening[c] \in Claimed /\ opening[d] \in Claimed => c = d
  /\ \A c \in Clients : opening[c] \in Claimed => state \notin {"Init", "ServerReady"}
  /\ \A c \in Clients : opening[c] \in {"pid", "birth", "connected"} => client_pid = c
  /\ \A c \in Clients : opening[c] \in {"birth", "connected"} => client_birth = c
  /\ \A c \in Clients : opening[c] = "connected" => state \in {"Connected"} \cup Terminal
  /\ state = "Connected" => \E c \in Clients : opening[c] = "connected"

Probing   == {"lock", "lock, outdated", "open", "probe"}
Finishing == {"finish", "swap", "finished"}

\* Where the threads are, and what they loaded.
Places ==
  /\ \A t \in Threads : pc[t] # "absent" /\ Proc(t) \in Clients => opening[Proc(t)] = "connected"
  /\ \A t \in Threads : pc[t] # "absent" => Running(Proc(t)) /\ state # "Init"
  /\ \A t \in Threads : Proc(t) = Server /\ Running(Server) /\ state # "Init" => pc[t] # "absent"
  /\ \A t \in Threads : pc[t] = "retire" => seen[t] \in {"ServerReady", "ClientClaimed"}
  /\ \A t \in Threads : pc[t] = "swap" => seen[t] \notin Terminal
  /\ \A t \in Threads : pc[t] \in Probing => Wedded

\* A monitor observes the peer, and who asks it has one.
Monitors ==
  /\ \A c \in Clients : peer[c] \in {Server, NoMonitor}
  /\ \A c \in Clients :
       Running(c) /\ opening[c] \in {"monitored"} \cup Claimed => peer[c] = Server
  /\ peer[Server] # NoMonitor => Wedded /\ peer[Server] = client_pid
  /\ \A t \in Threads : pc[t] = "open" => Proc(t) = Server
  /\ \A t \in Threads : pc[t] = "probe" => peer[Proc(t)] # NoMonitor

\* Whoever will report a death has seen one, and the state tells of none else.
Deaths ==
  /\ \A t \in Threads :
       pc[t] \in Finishing /\ after[t] \in {"open", "probe"} => Wedded /\ PeerDead(Proc(t))
  /\ state = "PeerDisconnected" => Wedded /\ \E p \in Procs : PeerDead(p)
  /\ \A t \in Threads : result[t] = "PeerDisconnected" => PeerDead(Proc(t))

\* The half that closes the channel on its drop is the last one of its process.
Removal ==
  \A t, u \in Threads :
    pc[t] \in Finishing /\ after[t] = "drop" /\ Proc(u) = Proc(t) /\ u # t => pc[u] = "dropped"

IInv ==
  /\ TypeOK /\ Claims /\ Places /\ Monitors /\ Deaths
  /\ EndsAgree /\ NoClientStranded /\ Removal /\ FileServed

(***************************************************************************)
(* Types.                                                                  *)
(***************************************************************************)
\* Threads belong to processes.
LEMMA ProcOfThread ==
  /\ \A t \in Threads : Proc(t) \in Procs
  /\ Server \in Procs /\ Clients \subseteq Procs /\ Server \notin Clients
  /\ Procs = {Server} \cup Clients
  /\ Nobody \notin Procs /\ NoMonitor \notin Procs
BY ChannelStateAssumption DEF Threads, Procs, Proc

\* The initial values have their types.
LEMMA TypeInit == Init => TypeOK
<1>. SUFFICES ASSUME Init PROVE TypeOK
  OBVIOUS
<1>1. /\ file \in {"none", "made", "removed"} /\ state \in States
      /\ client_pid \in Words /\ client_birth \in Words /\ late \in BOOLEAN
  BY DEF Init, States, Words
<1>2. /\ process \in [Procs -> {"running", "zombie", "gone", "reused"}]
      /\ opening \in [Clients -> Stages]
      /\ due \in [Procs -> BOOLEAN]
  BY DEF Init, Stages
<1>3. peer \in [Procs -> Procs \cup {NoMonitor}] /\ lock \in [Procs -> SUBSET Threads]
  BY DEF Init
<1>4. /\ pc \in [Threads -> Labels] /\ seen \in [Threads -> States]
      /\ after \in [Threads -> Reasons] /\ result \in [Threads -> Results]
  BY DEF Init, Labels, States, Reasons, Results
<1>. QED  BY <1>1, <1>2, <1>3, <1>4 DEF TypeOK

(***************************************************************************)
(* What the helpers of the model do to one thread, and to the others.      *)
(***************************************************************************)
\* Goto moves one thread.
LEMMA GotoEffect ==
  ASSUME TypeOK, NEW t \in Threads, NEW l \in Labels, Goto(t, l)
  PROVE  /\ pc' \in [Threads -> Labels]
         /\ pc'[t] = l
         /\ \A u \in Threads : u # t => pc'[u] = pc[u]
BY DEF TypeOK, Goto

\* Leave forgets the locals of one thread and keeps its result.
LEMMA LeaveEffect ==
  ASSUME TypeOK, NEW t \in Threads, NEW r \in Results, Leave(t, r)
  PROVE  /\ result' \in [Threads -> Results] /\ seen' \in [Threads -> States]
         /\ after' \in [Threads -> Reasons]
         /\ result'[t] = r /\ seen'[t] = "Init" /\ after'[t] = "close"
         /\ \A u \in Threads : u # t =>
              result'[u] = result[u] /\ seen'[u] = seen[u] /\ after'[u] = after[u]
BY DEF TypeOK, Leave, States, Reasons

\* Returns does both.
LEMMA ReturnsEffect ==
  ASSUME TypeOK, NEW t \in Threads, NEW r \in Results, Returns(t, r)
  PROVE  /\ pc' \in [Threads -> Labels] /\ pc'[t] \in {"wait", "idle"}
         /\ result' \in [Threads -> Results] /\ seen' \in [Threads -> States]
         /\ after' \in [Threads -> Reasons]
         /\ result'[t] = r /\ seen'[t] = "Init" /\ after'[t] = "close"
         /\ \A u \in Threads : u # t =>
              /\ pc'[u] = pc[u]
              /\ result'[u] = result[u] /\ seen'[u] = seen[u] /\ after'[u] = after[u]
<1>1. Goto(t, IF r = "ok" THEN "wait" ELSE "idle") /\ Leave(t, r)
  BY DEF Returns
<1>2. (IF r = "ok" THEN "wait" ELSE "idle") \in Labels
  BY DEF Labels
<1>. QED  BY <1>1, <1>2, GotoEffect, LeaveEffect

\* Finishes moves the thread to finish and notes why.
LEMMA FinishesEffect ==
  ASSUME TypeOK, NEW t \in Threads, NEW r \in Reasons, Finishes(t, r)
  PROVE  /\ pc' \in [Threads -> Labels] /\ pc'[t] = "finish"
         /\ after' \in [Threads -> Reasons] /\ after'[t] = r
         /\ UNCHANGED <<seen, result>>
         /\ \A u \in Threads : u # t => pc'[u] = pc[u] /\ after'[u] = after[u]
BY DEF TypeOK, Finishes, Goto, Labels

\* Every cause is a result, and tells which state it was.
LEMMA CauseFacts ==
  ASSUME NEW s \in States
  PROVE  /\ Cause(s) \in {"ok", "ChannelClosed", "PeerDisconnected"}
         /\ Cause(s) = "ChannelClosed" <=> s = "Closed"
         /\ Cause(s) = "PeerDisconnected" <=> s = "PeerDisconnected"
BY DEF Cause, States, Terminal

\* The mutex.
LEMMA LockEffect ==
  ASSUME TypeOK, NEW t \in Threads
  PROVE  Acquire(t) \/ Release(t) => lock' \in [Procs -> SUBSET Threads]
BY ProcOfThread DEF TypeOK, Acquire, Release

(***************************************************************************)
(* A step of one thread: what it may touch, and what the invariant asks of *)
(* where it leads.                                                         *)
(***************************************************************************)
\* Only t moves, and it is there before and after.
Alone(t) ==
  /\ pc[t] \notin {"absent", "dropped"} /\ pc'[t] # "absent"
  /\ \A u \in Threads : u # t =>
       /\ pc'[u] = pc[u]
       /\ seen'[u] = seen[u] /\ after'[u] = after[u] /\ result'[u] = result[u]
  /\ UNCHANGED <<client_pid, client_birth, process, opening>>

OthersDropped(t) == \A u \in Threads : u # t /\ Proc(u) = Proc(t) => pc[u] = "dropped"

\* What t does to the state, the monitor of its process and the file.
Writes(t) ==
  /\ \/ UNCHANGED state
     \/ /\ state \notin Terminal /\ state' \in Terminal
        /\ state' = "PeerDisconnected" => Wedded /\ PeerDead(Proc(t))
  /\ \/ UNCHANGED peer
     \/ /\ Proc(t) = Server /\ Wedded
        /\ peer' = [peer EXCEPT ![Server] = client_pid]
        /\ client_pid # NoMonitor
  /\ \/ UNCHANGED file
     \/ ~Running(Server)
     \/ Proc(t) = Server /\ pc'[t] = "dropped" /\ OthersDropped(t)

\* Where t is after its step, and what it knows.
Lands(t) ==
  /\ pc'[t] = "retire" => seen'[t] \in {"ServerReady", "ClientClaimed"}
  /\ pc'[t] = "swap" => seen'[t] \notin Terminal
  /\ pc'[t] \in Probing => Wedded
  /\ pc'[t] = "open" => Proc(t) = Server
  /\ pc'[t] = "probe" => peer'[Proc(t)] # NoMonitor
  /\ pc'[t] \in Finishing /\ after'[t] \in {"open", "probe"} => Wedded /\ PeerDead(Proc(t))
  /\ pc'[t] \in Finishing /\ after'[t] = "drop" => OthersDropped(t)
  /\ result'[t] # result[t] =>
       /\ result'[t] \in {"closed", "ChannelClosed", "TimedOut"} => state' = "Closed"
       /\ result'[t] = "PeerDisconnected" => state' = "PeerDisconnected"
       /\ result'[t] = "TimedOut" => \A c \in Clients : opening[c] # "connected"

\* A thread that runs belongs to the server, or to the client that is connected.
LEMMA WhoRuns ==
  ASSUME IInv, NEW t \in Threads, pc[t] # "absent"
  PROVE  /\ Running(Proc(t)) /\ state # "Init"
         /\ \/ Proc(t) = Server
            \/ Proc(t) \in Clients /\ opening[Proc(t)] = "connected"
BY ProcOfThread DEF IInv, Places

\* With a client that is connected, the identity words are its.
LEMMA Identity ==
  ASSUME IInv, NEW c \in Clients, opening[c] = "connected"
  PROVE  client_pid = c /\ client_birth = c
BY DEF IInv, Claims

\* If the state tells of a death, the peer of whoever still runs is dead.
LEMMA DeadPeer ==
  ASSUME IInv, NEW t \in Threads, pc[t] # "absent", NEW p \in Procs, PeerDead(p), Wedded
  PROVE  PeerDead(Proc(t))
<1>1. PICK c \in Clients : opening[c] = "connected"
  BY DEF Wedded
<1>2. client_pid = c /\ c # Server /\ c # Nobody
  BY <1>1, Identity, ProcOfThread
<1>3. Proc(t) \in {Server, c} /\ Running(Proc(t))
  BY <1>1, WhoRuns DEF IInv, Claims, Claimed
<1>4. p = Server => ~Running(c) /\ PeerDead(Server)
  BY <1>2 DEF PeerDead, PeerOf
<1>5. p # Server => ~Running(Server) /\ PeerDead(c)
  BY <1>2, ProcOfThread DEF PeerDead, PeerOf
<1>. QED  BY <1>3, <1>4, <1>5

\* Steps of threads keep the invariant.
LEMMA ThreadStep ==
  ASSUME IInv, TypeOK', NEW t \in Threads, Alone(t), Writes(t), Lands(t)
  PROVE  IInv'
<1>0. /\ TypeOK /\ Claims /\ Places /\ Monitors /\ Deaths
      /\ EndsAgree /\ NoClientStranded /\ Removal /\ FileServed
  BY DEF IInv
<1>1. /\ Running(Proc(t)) /\ state # "Init" /\ state' # "Init"
      /\ \/ state' = state
         \/ state \notin Terminal /\ state' \in Terminal
  BY WhoRuns DEF Alone, Writes, Terminal
<1>2. Claims'
  BY <1>0, <1>1 DEF Claims, Alone, Terminal
<1>3. Wedded' = Wedded /\ \A p : Running(p)' = Running(p) /\ PeerDead(p)' = PeerDead(p)
  BY DEF Alone, Wedded, Running, PeerDead, PeerOf
<1>4. Places'
  BY <1>0, <1>1, <1>3, WhoRuns DEF Places, Alone, Lands
<1>5. Monitors'
  <2>1. CASE UNCHANGED peer
    BY <1>0, <1>3, <2>1 DEF Monitors, Alone, Lands
  <2>2. CASE /\ Proc(t) = Server /\ Wedded
             /\ peer' = [peer EXCEPT ![Server] = client_pid] /\ client_pid # NoMonitor
    <3>1. /\ peer'[Server] = client_pid
          /\ \A p \in Procs : p # Server => peer'[p] = peer[p]
      BY <1>0, <2>2, ProcOfThread DEF TypeOK
    <3>2. \A u \in Threads : peer[Proc(u)] # NoMonitor => peer'[Proc(u)] # NoMonitor
      BY <2>2, <3>1, ProcOfThread
    <3>. QED  BY <1>0, <1>3, <2>2, <3>1, <3>2, ProcOfThread DEF Monitors, Alone, Lands
  <2>. QED  BY <2>1, <2>2 DEF Writes
<1>6. EndsAgree'
  BY <1>0, <1>1 DEF EndsAgree, Alone, Lands, Terminal
<1>7. Deaths'
  <2>1. \A u \in Threads :
          pc'[u] \in Finishing /\ after'[u] \in {"open", "probe"} => Wedded /\ PeerDead(Proc(u))
    BY <1>0 DEF Deaths, Alone, Lands
  <2>2. state' = "PeerDisconnected" => Wedded /\ \E p \in Procs : PeerDead(p)
    BY <1>0, ProcOfThread DEF Deaths, Writes
  <2>3. result'[t] = "PeerDisconnected" => PeerDead(Proc(t))
    BY <1>0, <2>2, DeadPeer DEF Deaths, Alone, Lands
  <2>. QED  BY <1>0, <1>3, <2>1, <2>2, <2>3 DEF Deaths, Alone
<1>8. NoClientStranded'
  BY <1>0 DEF NoClientStranded, Alone, Lands
<1>9. Removal'
  <2>1. \A u \in Threads : pc[u] = "dropped" => pc'[u] = "dropped"
    BY DEF Alone
  <2>. QED  BY <1>0, <2>1 DEF Removal, Alone, Lands, OthersDropped
<1>10. FileServed'
  BY <1>0, <1>1, <1>3 DEF FileServed, Alone, Writes, OthersDropped
<1>. QED  BY <1>2, <1>4, <1>5, <1>6, <1>7, <1>8, <1>9, <1>10 DEF IInv

(***************************************************************************)
(* The ways in which a step of a thread ends.                              *)
(***************************************************************************)
LockTyped == lock' \in [Procs -> SUBSET Threads]
DueTyped  == due' \in [Procs -> BOOLEAN]

\* What the invariant asks of a result.
Honest(r) ==
  /\ r \in {"closed", "ChannelClosed", "TimedOut"} => state' = "Closed"
  /\ r = "PeerDisconnected" => state' = "PeerDisconnected"
  /\ r = "TimedOut" => \A c \in Clients : opening[c] # "connected"

\* A call returns.
LEMMA ReturnKeeps ==
  ASSUME IInv, NEW t \in Threads, NEW r \in Results, pc[t] \notin {"absent", "dropped"},
         Returns(t, r), Honest(r), LockTyped, DueTyped,
         UNCHANGED <<file, client_pid, client_birth, process, opening, late, peer>>,
         \/ UNCHANGED state
         \/ state \notin Terminal /\ state' = "Closed"
  PROVE  IInv'
<1>0. TypeOK
  BY DEF IInv
<1>1. /\ pc' \in [Threads -> Labels] /\ pc'[t] \in {"wait", "idle"}
      /\ result' \in [Threads -> Results] /\ seen' \in [Threads -> States]
      /\ after' \in [Threads -> Reasons]
      /\ result'[t] = r
      /\ \A u \in Threads : u # t =>
           /\ pc'[u] = pc[u]
           /\ result'[u] = result[u] /\ seen'[u] = seen[u] /\ after'[u] = after[u]
  BY <1>0, ReturnsEffect
<1>2. TypeOK'
  BY <1>0, <1>1 DEF TypeOK, LockTyped, DueTyped, States, Terminal
<1>3. Alone(t) /\ Writes(t)
  BY <1>1 DEF Alone, Writes, Terminal
<1>4. Lands(t)
  BY <1>1 DEF Lands, Probing, Finishing, Honest
<1>. QED  BY <1>2, <1>3, <1>4, ThreadStep

\* finish is called.
LEMMA FinishKeeps ==
  ASSUME IInv, NEW t \in Threads, NEW r \in Reasons, pc[t] \notin {"absent", "dropped"},
         Finishes(t, r), UNCHANGED <<file, header, process, owner>>,
         r \in {"open", "probe"} => Wedded /\ PeerDead(Proc(t)),
         r = "drop" => OthersDropped(t)
  PROVE  IInv'
<1>0. TypeOK
  BY DEF IInv
<1>1. /\ pc' \in [Threads -> Labels] /\ pc'[t] = "finish"
      /\ after' \in [Threads -> Reasons] /\ after'[t] = r
      /\ UNCHANGED <<seen, result>>
      /\ \A u \in Threads : u # t => pc'[u] = pc[u] /\ after'[u] = after[u]
  BY <1>0, FinishesEffect
<1>2. TypeOK'
  BY <1>0, <1>1 DEF TypeOK, header, owner
<1>3. Alone(t) /\ Writes(t)
  BY <1>1 DEF Alone, Writes, header, owner
<1>4. Lands(t)
  BY <1>1 DEF Lands, Probing
<1>. QED  BY <1>2, <1>3, <1>4, ThreadStep

\* The thread goes on inside its call.
LEMMA GotoKeeps ==
  ASSUME IInv, NEW t \in Threads, NEW l \in Labels, l # "absent",
         pc[t] \notin {"absent", "dropped"},
         Goto(t, l), Writes(t), Lands(t), LockTyped,
         seen' \in [Threads -> States], \A u \in Threads : u # t => seen'[u] = seen[u],
         state' \in States, peer' \in [Procs -> Procs \cup {NoMonitor}],
         UNCHANGED <<file, client_pid, client_birth, process, opening, late, due, after, result>>
  PROVE  IInv'
<1>0. TypeOK
  BY DEF IInv
<1>1. /\ pc' \in [Threads -> Labels] /\ pc'[t] = l
      /\ \A u \in Threads : u # t => pc'[u] = pc[u]
  BY <1>0, GotoEffect
<1>2. TypeOK'
  BY <1>0, <1>1 DEF TypeOK, LockTyped
<1>3. Alone(t)
  BY <1>1 DEF Alone
<1>. QED  BY <1>2, <1>3, ThreadStep

\* A half is dropped.
LEMMA DropKeeps ==
  ASSUME IInv, NEW t \in Threads, pc[t] \notin {"absent", "dropped"},
         Goto(t, "dropped"), Leave(t, "ok"), UNCHANGED <<header, process, owner>>,
         \/ UNCHANGED file
         \/ file' = "removed" /\ ~Running(Server)
         \/ file' = "removed" /\ Proc(t) = Server /\ OthersDropped(t)
  PROVE  IInv'
<1>0. TypeOK
  BY DEF IInv
<1>1. /\ pc' \in [Threads -> Labels] /\ pc'[t] = "dropped"
      /\ \A u \in Threads : u # t => pc'[u] = pc[u]
  BY <1>0, GotoEffect DEF Labels
<1>2. /\ result' \in [Threads -> Results] /\ seen' \in [Threads -> States]
      /\ after' \in [Threads -> Reasons]
      /\ result'[t] = "ok"
      /\ \A u \in Threads : u # t =>
           result'[u] = result[u] /\ seen'[u] = seen[u] /\ after'[u] = after[u]
  BY <1>0, LeaveEffect DEF Results
<1>3. TypeOK'
  BY <1>0, <1>1, <1>2 DEF TypeOK, header, owner
<1>4. Alone(t) /\ Writes(t)
  BY <1>1, <1>2 DEF Alone, Writes, header, owner
<1>5. Lands(t)
  BY <1>1, <1>2 DEF Lands, Probing, Finishing
<1>. QED  BY <1>3, <1>4, <1>5, ThreadStep

(***************************************************************************)
(* The steps of threads, one by one.                                       *)
(***************************************************************************)
\* Everything but the thread and the state stays.
LEMMA StaysTyped ==
  ASSUME IInv
  PROVE  /\ UNCHANGED owner => LockTyped /\ DueTyped
         /\ state \in States /\ Cause(state) \in Results
         /\ \A t \in Threads : Acquire(t) \/ Release(t) => LockTyped
BY CauseFacts, LockEffect DEF IInv, TypeOK, owner, LockTyped, DueTyped, Results

\* What Cause says of the state is so.
LEMMA CauseIsHonest ==
  ASSUME IInv, UNCHANGED state
  PROVE  Honest(Cause(state))
BY CauseFacts DEF IInv, TypeOK, Honest

\* Nothing is said.
LEMMA OkIsHonest ==
  /\ Honest("ok") /\ Honest("Io") /\ Honest("InvalidHeader")
  /\ {"ok", "Io", "InvalidHeader", "TimedOut", "closed"} \subseteq Results
BY DEF Honest, Results

\* A call begins.
LEMMA StepCall ==
  ASSUME IInv, NEW t \in Threads, Call(t)
  PROVE  IInv'
BY ReturnKeeps, StaysTyped, OkIsHonest DEF Call, At, header, owner

\* A call ends with a message, or with its own timeout.
LEMMA StepCallEnds ==
  ASSUME IInv, NEW t \in Threads, CallEnds(t)
  PROVE  IInv'
<1>1. TypeOK /\ pc[t] = "wait" /\ "idle" \in Labels
  BY DEF CallEnds, At, IInv, Labels
<1>2. pc'[t] = "idle" /\ UNCHANGED <<seen, after, result>>
  BY <1>1, GotoEffect DEF CallEnds
<1>3. Lands(t) /\ Writes(t)
  BY <1>2 DEF Lands, Probing, Finishing, Writes, CallEnds, header, owner
<1>. QED  BY <1>1, <1>3, GotoKeeps, StaysTyped DEF CallEnds, TypeOK, header, owner

\* A look at the state: the call ends, goes on, or probes or retires next.
LEMMA StepCheckReady ==
  ASSUME IInv, NEW t \in Threads, CheckReady(t)
  PROVE  IInv'
<1>0. /\ TypeOK /\ pc[t] = "wait" /\ {"lock", "retire"} \subseteq Labels
      /\ UNCHANGED <<file, header, process, owner>>
  BY DEF CheckReady, At, IInv, Labels
<1>1. CASE Returns(t, Cause(state))
  BY <1>0, <1>1, ReturnKeeps, StaysTyped, CauseIsHonest DEF header, owner
<1>2. CASE Returns(t, "ok")
  BY <1>0, <1>2, ReturnKeeps, StaysTyped, OkIsHonest DEF header, owner
<1>3. CASE state = "Connected" /\ Goto(t, "lock") /\ UNCHANGED local
  <2>1. pc'[t] = "lock" /\ UNCHANGED <<seen, after, result>>
    BY <1>0, <1>3, GotoEffect DEF local
  <2>2. Lands(t) /\ Writes(t)
    BY <1>0, <1>3, <2>1 DEF Lands, Probing, Finishing, Writes, header, owner, IInv, Claims, Wedded
  <2>. QED  BY <1>0, <1>3, <2>1, <2>2, GotoKeeps, StaysTyped DEF TypeOK, header, owner
<1>4. CASE /\ state \in {"ServerReady", "ClientClaimed"} /\ Goto(t, "retire")
           /\ seen' = [seen EXCEPT ![t] = state] /\ UNCHANGED <<after, result>>
  <2>1. /\ pc'[t] = "retire" /\ seen'[t] = state
        /\ seen' \in [Threads -> States] /\ \A u \in Threads : u # t => seen'[u] = seen[u]
    BY <1>0, <1>4, GotoEffect DEF TypeOK
  <2>2. Lands(t) /\ Writes(t)
    BY <1>0, <1>4, <2>1 DEF Lands, Probing, Finishing, Writes, header, owner
  <2>. QED  BY <1>0, <1>4, <2>1, <2>2, GotoKeeps, StaysTyped DEF TypeOK, header, owner
<1>. QED  BY <1>1, <1>2, <1>3, <1>4 DEF CheckReady

\* The server gives up on a state in which no client is connected.
LEMMA StepRetire ==
  ASSUME IInv, NEW t \in Threads, Retire(t)
  PROVE  IInv'
<1>0. /\ pc[t] = "retire" /\ seen[t] \in {"ServerReady", "ClientClaimed"}
      /\ UNCHANGED <<file, client_pid, client_birth, process, owner>>
  BY DEF Retire, At, IInv, Places
<1>1. CASE UNCHANGED state /\ Returns(t, "ok")
  BY <1>0, <1>1, ReturnKeeps, StaysTyped, OkIsHonest DEF owner
<1>2. CASE state = seen[t] /\ state' = "Closed" /\ Returns(t, "TimedOut")
  <2>1. \A c \in Clients : opening[c] # "connected"
    BY <1>0, <1>2 DEF IInv, Claims, Terminal
  <2>2. Honest("TimedOut") /\ state \notin Terminal
    BY <1>0, <1>2, <2>1 DEF Honest, Terminal
  <2>. QED  BY <1>0, <1>2, <2>2, ReturnKeeps, StaysTyped, OkIsHonest DEF owner
<1>. QED  BY <1>1, <1>2 DEF Retire

\* A thread that gets the mutex has a monitor, or belongs to the server.
LEMMA StepLock ==
  ASSUME IInv, NEW t \in Threads, Lock(t)
  PROVE  IInv'
<1>0. /\ TypeOK /\ pc[t] \in {"lock", "lock, outdated"} /\ {"open", "probe"} \subseteq Labels
      /\ UNCHANGED <<file, header, process, opening, late, due, peer>>
  BY DEF Lock, At, IInv, Labels
<1>1. CASE Returns(t, Cause(state)) /\ UNCHANGED lock
  BY <1>0, <1>1, ReturnKeeps, StaysTyped, CauseIsHonest DEF header, owner
<1>2. CASE /\ Acquire(t)
           /\ Goto(t, IF peer[Proc(t)] = NoMonitor THEN "open" ELSE "probe")
           /\ UNCHANGED local
  <2>1. /\ pc'[t] = IF peer[Proc(t)] = NoMonitor THEN "open" ELSE "probe"
        /\ UNCHANGED <<seen, after, result>>
    BY <1>0, <1>2, GotoEffect DEF local
  <2>2. peer[Proc(t)] = NoMonitor => Proc(t) = Server
    BY <1>0, WhoRuns, ProcOfThread DEF IInv, Monitors, Claimed
  <2>3. Wedded
    BY <1>0 DEF IInv, Places, Probing
  <2>4. Lands(t) /\ Writes(t)
    BY <1>0, <2>1, <2>2, <2>3 DEF Lands, Probing, Finishing, Writes, header
  <2>5. LockTyped
    BY <1>2, StaysTyped
  <2>6. (IF peer[Proc(t)] = NoMonitor THEN "open" ELSE "probe") \in Labels \ {"absent"}
    BY <1>0
  <2>. QED  BY <1>0, <1>2, <2>1, <2>4, <2>5, <2>6, GotoKeeps DEF TypeOK, header
<1>. QED  BY <1>1, <1>2 DEF Lock

\* The server's first probe: a client that is connected has both its words.
LEMMA StepOpenMonitor ==
  ASSUME IInv, NEW t \in Threads, OpenMonitor(t)
  PROVE  IInv'
<1>0. /\ TypeOK /\ pc[t] = "open" /\ Proc(t) = Server /\ Wedded
      /\ UNCHANGED <<file, header, process, opening, late, due>>
  BY DEF OpenMonitor, At, IInv, Places, Monitors, Probing
<1>1. /\ client_pid \in Procs /\ client_pid # Nobody /\ client_birth = client_pid
      /\ client_pid # NoMonitor
  BY <1>0, Identity, ProcOfThread DEF Wedded
<1>2. CASE ~MonitorOpens(client_pid, client_birth) /\ Finishes(t, "open") /\ UNCHANGED <<peer, lock>>
  <2>1. PeerDead(Proc(t))
    BY <1>0, <1>1, <1>2 DEF MonitorOpens, IsAlive, PeerDead, PeerOf, Running
  <2>. QED  BY <1>0, <1>2, <2>1, FinishKeeps DEF owner, Reasons
<1>3. CASE /\ peer' = [peer EXCEPT ![Proc(t)] = client_pid] /\ Goto(t, "probe")
           /\ UNCHANGED local /\ UNCHANGED lock
  <2>1. pc'[t] = "probe" /\ UNCHANGED <<seen, after, result>> /\ "probe" \in Labels
    BY <1>0, <1>3, GotoEffect DEF local, Labels
  <2>2. peer' \in [Procs -> Procs \cup {NoMonitor}] /\ peer'[Proc(t)] = client_pid
    BY <1>0, <1>1, <1>3, ProcOfThread DEF TypeOK
  <2>3. Lands(t) /\ Writes(t)
    BY <1>0, <1>1, <1>3, <2>1, <2>2 DEF Lands, Probing, Finishing, Writes, header
  <2>. QED  BY <1>0, <1>3, <2>1, <2>2, <2>3, GotoKeeps DEF TypeOK, header, LockTyped
<1>. QED  BY <1>1, <1>2, <1>3 DEF OpenMonitor

\* A probe finds the peer of the thread dead, or nothing.
LEMMA StepProbe ==
  ASSUME IInv, NEW t \in Threads, Probe(t)
  PROVE  IInv'
<1>0. /\ TypeOK /\ pc[t] = "probe" /\ peer[Proc(t)] # NoMonitor /\ Wedded
      /\ UNCHANGED <<file, header, process, opening, late, peer>>
  BY DEF Probe, At, IInv, Places, Monitors, Probing
<1>1. CASE ProbeDone(t)
  BY <1>0, <1>1, ReturnKeeps, StaysTyped, CauseIsHonest, ProcOfThread
  DEF ProbeDone, DueTyped, TypeOK, header
<1>2. CASE ~PeerRuns(Proc(t)) /\ Finishes(t, "probe") /\ UNCHANGED <<due, lock>>
  <2>1. peer[Proc(t)] = PeerOf(Proc(t)) /\ PeerOf(Proc(t)) # Nobody
    BY <1>0, ProcOfThread, Identity DEF IInv, Monitors, PeerOf, Wedded
  <2>2. PeerDead(Proc(t))
    BY <1>2, <2>1 DEF PeerRuns, IsAlive, PeerDead, Running
  <2>. QED  BY <1>0, <1>2, <2>2, FinishKeeps DEF owner, Reasons
<1>. QED  BY <1>1, <1>2 DEF Probe

\* An observer that fails ends the call and gives the mutex back.
LEMMA StepProbeFails ==
  ASSUME IInv, NEW t \in Threads, ProbeFails(t)
  PROVE  IInv'
<1>1. /\ pc[t] \in {"open", "probe"} /\ LockTyped
      /\ UNCHANGED <<file, header, process, opening, late, due, peer>>
  BY StaysTyped DEF ProbeFails, At
<1>. QED  BY <1>1, ReturnKeeps, OkIsHonest DEF ProbeFails, IInv, TypeOK, DueTyped, header

\* finish looks whether the channel has ended.
LEMMA StepFinishLoad ==
  ASSUME IInv, NEW t \in Threads, FinishLoad(t)
  PROVE  IInv'
<1>0. /\ TypeOK /\ pc[t] = "finish" /\ {"finished", "swap"} \subseteq Labels
      /\ UNCHANGED <<file, header, process, owner, after, result>>
  BY DEF FinishLoad, At, IInv, Labels
<1>1. /\ pc'[t] = IF state \in Terminal THEN "finished" ELSE "swap"
      /\ seen'[t] = state
      /\ seen' \in [Threads -> States] /\ \A u \in Threads : u # t => seen'[u] = seen[u]
  BY <1>0, GotoEffect DEF FinishLoad, TypeOK
<1>2. Lands(t) /\ Writes(t)
  BY <1>0, <1>1
  DEF Lands, Probing, Finishing, Writes, header, owner, IInv, Deaths, Removal, OthersDropped
<1>. QED  BY <1>0, <1>1, <1>2, GotoKeeps, StaysTyped DEF FinishLoad, TypeOK, header, owner

\* The terminal state is stored over the state that was loaded, which was none.
LEMMA StepFinishSwap ==
  ASSUME IInv, NEW t \in Threads, FinishSwap(t)
  PROVE  IInv'
<1>0. /\ TypeOK /\ pc[t] = "swap" /\ seen[t] \notin Terminal
      /\ {"finished", "finish"} \subseteq Labels
      /\ UNCHANGED <<file, client_pid, client_birth, process, owner, seen, after, result>>
  BY DEF FinishSwap, At, IInv, Places, Labels
<1>1. /\ after[t] \in {"open", "probe"} => Wedded /\ PeerDead(Proc(t))
      /\ after[t] = "drop" => OthersDropped(t)
      /\ after[t] \in Reasons
  BY <1>0 DEF IInv, Deaths, Removal, OthersDropped, Finishing, TypeOK
<1>2. CASE /\ state = seen[t]
           /\ state' = IF after[t] \in {"close", "drop"} THEN "Closed" ELSE "PeerDisconnected"
           /\ Goto(t, "finished")
  <2>1. pc'[t] = "finished"
    BY <1>0, <1>2, GotoEffect
  <2>2. Lands(t) /\ Writes(t)
    BY <1>0, <1>1, <1>2, <2>1 DEF Lands, Probing, Writes, Terminal, owner, Reasons
  <2>3. state' \in States
    BY <1>2 DEF States, Terminal
  <2>. QED  BY <1>0, <1>2, <2>2, <2>3, GotoKeeps, StaysTyped DEF TypeOK, owner
<1>3. CASE Goto(t, "finish") /\ UNCHANGED state
  <2>1. pc'[t] = "finish"
    BY <1>0, <1>3, GotoEffect
  <2>2. Lands(t) /\ Writes(t)
    BY <1>0, <1>1, <1>3, <2>1 DEF Lands, Probing, Writes, owner
  <2>. QED  BY <1>0, <1>3, <2>2, GotoKeeps, StaysTyped DEF TypeOK, owner
<1>. QED  BY <1>2, <1>3 DEF FinishSwap

\* A half closes the channel.
LEMMA StepClose ==
  ASSUME IInv, NEW t \in Threads, Close(t)
  PROVE  IInv'
BY FinishKeeps DEF Close, At, Reasons

\* close reports the end that stands.
LEMMA StepCloseReturns ==
  ASSUME IInv, NEW t \in Threads, CloseReturns(t)
  PROVE  IInv'
<1>0. pc[t] = "finished" /\ UNCHANGED <<file, header, process, owner>>
  BY DEF CloseReturns, At
<1>1. CASE state = "Closed" /\ Returns(t, "closed")
  BY <1>0, <1>1, ReturnKeeps, StaysTyped, OkIsHonest DEF Honest, header, owner
<1>2. CASE Returns(t, Cause(state))
  BY <1>0, <1>2, ReturnKeeps, StaysTyped, CauseIsHonest DEF header, owner
<1>. QED  BY <1>1, <1>2 DEF CloseReturns

\* The client was dead before the first probe.
LEMMA StepOpenMonitorFinished ==
  ASSUME IInv, NEW t \in Threads, OpenMonitorFinished(t)
  PROVE  IInv'
<1>1. /\ pc[t] = "finished" /\ LockTyped
      /\ UNCHANGED <<file, header, process, opening, late, due, peer>>
  BY StaysTyped DEF OpenMonitorFinished, At
<1>. QED  BY <1>1, ReturnKeeps, StaysTyped, CauseIsHonest
          DEF OpenMonitorFinished, IInv, TypeOK, DueTyped, header

\* The probe that found the peer dead reports the end that stands.
LEMMA StepProbeFinished ==
  ASSUME IInv, NEW t \in Threads, ProbeFinished(t)
  PROVE  IInv'
<1>1. /\ pc[t] = "finished" /\ ProbeDone(t)
      /\ UNCHANGED <<file, header, process, opening, late, peer>>
  BY DEF ProbeFinished, At
<1>. QED  BY <1>1, ReturnKeeps, StaysTyped, CauseIsHonest, ProcOfThread
          DEF ProbeDone, DueTyped, IInv, TypeOK, header

\* A half is dropped, the last one with the channel.
LEMMA StepDrop ==
  ASSUME IInv, NEW t \in Threads, Drop(t)
  PROVE  IInv'
<1>1. pc[t] = "idle" /\ UNCHANGED <<file, header, process, owner>>
  BY DEF Drop, At
<1>2. CASE Goto(t, "dropped") /\ Leave(t, "ok")
  BY <1>1, <1>2, DropKeeps
<1>3. CASE /\ ~\E u \in Threads : u # t /\ Proc(u) = Proc(t) /\ pc[u] # "dropped"
           /\ Finishes(t, "drop")
  BY <1>1, <1>3, FinishKeeps DEF OthersDropped, Reasons
<1>. QED  BY <1>2, <1>3 DEF Drop

\* The last half of the server, or of a client whose server is dead, removes
\* the file.
LEMMA StepDropFinished ==
  ASSUME IInv, NEW t \in Threads, DropFinished(t)
  PROVE  IInv'
<1>1. /\ pc[t] = "finished" /\ after[t] = "drop" /\ OthersDropped(t)
      /\ UNCHANGED <<header, process, owner>>
  BY DEF DropFinished, At, IInv, Removal, Finishing, OthersDropped
<1>2. MayRemove(Proc(t)) => Proc(t) = Server \/ ~Running(Server)
  BY ProcOfThread DEF MayRemove, PeerRuns, IsAlive, Running, IInv, Monitors
<1>. QED  BY <1>1, <1>2, DropKeeps DEF DropFinished

(***************************************************************************)
(* The steps of clients that open the channel.                             *)
(***************************************************************************)
\* What Opens does to the client, and to the others.
LEMMA OpensEffect ==
  ASSUME TypeOK, NEW c \in Clients, NEW from \in Stages, NEW to \in Stages, Opens(c, from, to)
  PROVE  /\ Running(c) /\ opening[c] = from
         /\ opening' \in [Clients -> Stages] /\ opening'[c] = to
         /\ \A d \in Clients : d # c => opening'[d] = opening[d]
BY DEF TypeOK, Opens

\* A client that is neither connected before nor after its step keeps what is
\* said of threads, if it keeps the identity of one that is connected.
LEMMA OpeningKeeps ==
  ASSUME IInv, TypeOK', Claims', Monitors', NEW c \in Clients,
         opening[c] # "connected", opening'[c] # "connected",
         \A d \in Clients : d # c => opening'[d] = opening[d],
         UNCHANGED <<file, process, threads>>,
         Wedded => UNCHANGED client_pid,
         \/ UNCHANGED state
         \/ state = "ServerReady" /\ state' = "ClientClaimed"
  PROVE  IInv'
<1>0. /\ TypeOK /\ Claims /\ Places /\ Deaths
      /\ EndsAgree /\ NoClientStranded /\ Removal /\ FileServed
  BY DEF IInv
<1>1. /\ Wedded' <=> Wedded
      /\ \A d \in Clients : opening'[d] = "connected" <=> opening[d] = "connected"
  BY DEF Wedded
<1>2. Wedded => \A p \in Procs : PeerDead(p)' <=> PeerDead(p)
  BY DEF PeerDead, PeerOf, Running
<1>3. Places'
  BY <1>0, <1>1 DEF Places, Running, threads
<1>4. \A t \in Threads : result[t] = "PeerDisconnected" => state = "PeerDisconnected" /\ Wedded
  BY <1>0 DEF EndsAgree, Deaths
<1>5. Deaths'
  BY <1>0, <1>1, <1>2, <1>4, ProcOfThread DEF Deaths, threads
<1>6. EndsAgree' /\ NoClientStranded' /\ Removal' /\ FileServed'
  BY <1>0, <1>1 DEF EndsAgree, NoClientStranded, Removal, FileServed, Running, threads
<1>. QED  BY <1>3, <1>5, <1>6 DEF IInv

\* Before the claim nothing is written.
LEMMA UnclaimedKeeps ==
  ASSUME IInv, NEW c \in Clients, NEW from \in Stages \ Claimed, NEW to \in Stages \ Claimed,
         Opens(c, from, to), to # "monitored" \/ peer'[c] = Server,
         UNCHANGED <<file, header, process, late, due, lock, threads>>,
         \/ UNCHANGED peer
         \/ peer' = [peer EXCEPT ![c] = Server]
  PROVE  IInv'
<1>0. TypeOK /\ Claims /\ Monitors /\ Server \in Procs /\ c \in Procs /\ c # Server
  BY ProcOfThread DEF IInv
<1>1. /\ Running(c) /\ opening[c] = from
      /\ opening' \in [Clients -> Stages] /\ opening'[c] = to
      /\ \A d \in Clients : d # c => opening'[d] = opening[d]
  BY <1>0, OpensEffect
<1>2. /\ peer' \in [Procs -> Procs \cup {NoMonitor}]
      /\ peer'[c] \in {peer[c], Server}
      /\ \A p \in Procs : p # c => peer'[p] = peer[p]
  BY <1>0 DEF TypeOK
<1>3. TypeOK'
  BY <1>0, <1>1, <1>2 DEF TypeOK, header, threads
<1>4. Claims'
  BY <1>0, <1>1 DEF Claims, Claimed, header
<1>5. Wedded' <=> Wedded
  BY <1>1 DEF Wedded, Claimed
<1>6. Monitors'
  <2>1. \A d \in Clients : Running(d)' /\ (opening[d] \in {"monitored"} \cup Claimed)' => peer'[d] = Server
    BY <1>0, <1>1, <1>2, ProcOfThread DEF Monitors, Running, Claimed
  <2>2. \A d \in Clients : peer'[d] \in {Server, NoMonitor}
    BY <1>0, <1>2, ProcOfThread DEF Monitors
  <2>3. peer'[Server] # NoMonitor => Wedded' /\ peer'[Server] = client_pid'
    BY <1>0, <1>2, <1>5 DEF Monitors, header
  <2>4. \A t \in Threads : peer'[Proc(t)] = NoMonitor => peer[Proc(t)] = NoMonitor
    BY <1>0, <1>2, ProcOfThread
  <2>. QED  BY <1>0, <2>1, <2>2, <2>3, <2>4, ProcOfThread DEF Monitors, threads
<1>. QED  BY <1>1, <1>3, <1>4, <1>6, OpeningKeeps DEF Claimed, header

\* A client looks at the state.
LEMMA StepLook ==
  ASSUME IInv, NEW c \in Clients, Look(c)
  PROVE  IInv'
<1>1. {"idle", "ready", "refused"} \subseteq Stages \ Claimed
  BY DEF Stages, Claimed
<1>. QED  BY <1>1, UnclaimedKeeps DEF Look, header

\* A client finds no channel in time.
LEMMA StepOpenTimesOut ==
  ASSUME IInv, NEW c \in Clients, OpenTimesOut(c)
  PROVE  IInv'
<1>1. {"idle", "refused"} \subseteq Stages \ Claimed
  BY DEF Stages, Claimed
<1>. QED  BY <1>1, UnclaimedKeeps DEF OpenTimesOut, header

\* A client that found the channel ready observes its server.
LEMMA StepMonitorServer ==
  ASSUME IInv, NEW c \in Clients, MonitorServer(c)
  PROVE  IInv'
<1>0. TypeOK /\ c \in Procs
  BY ProcOfThread DEF IInv
<1>1. {"ready", "monitored", "refused"} \subseteq Stages \ Claimed
  BY DEF Stages, Claimed
<1>2. CASE MonitorOpens(Server, Server)
  <2>1. peer' = [peer EXCEPT ![c] = Server] /\ peer'[c] = Server
    BY <1>0, <1>2 DEF MonitorServer, TypeOK
  <2>. QED  BY <1>1, <1>2, <2>1, UnclaimedKeeps DEF MonitorServer, header
<1>3. CASE ~MonitorOpens(Server, Server)
  <2>1. UNCHANGED peer
    BY <1>0, <1>3 DEF MonitorServer, TypeOK
  <2>. QED  BY <1>1, <1>3, <2>1, UnclaimedKeeps DEF MonitorServer, header
<1>. QED  BY <1>2, <1>3

\* A client that has the claim and is not connected is the only one to have it.
LEMMA StillOpening ==
  ASSUME IInv, NEW c \in Clients, opening[c] \in Claimed, opening[c] # "connected"
  PROVE  /\ \A d \in Clients : d # c => opening[d] \notin Claimed
         /\ ~Wedded /\ peer[Server] = NoMonitor /\ state \notin {"Init", "ServerReady"}
BY DEF IInv, Claims, Monitors, Wedded, Claimed

\* Monitors of others do not care where a client is that has its own.
LEMMA MonitorsKeep ==
  ASSUME IInv, TypeOK', NEW c \in Clients, Running(c),
         opening[c] \in {"monitored"} \cup Claimed, opening'[c] # "connected",
         opening[c] # "connected",
         \A d \in Clients : d # c => opening'[d] = opening[d],
         UNCHANGED <<process, peer, pc>>, Wedded => UNCHANGED client_pid
  PROVE  Monitors'
<1>1. Wedded' <=> Wedded
  BY DEF Wedded
<1>. QED  BY <1>1, ProcOfThread DEF IInv, Monitors, Running, Claimed

\* The claim: nobody has it while the state is ServerReady.
LEMMA StepClaim ==
  ASSUME IInv, NEW c \in Clients, Claim(c)
  PROVE  IInv'
<1>0. TypeOK /\ Claims /\ {"monitored", "claimed", "refused"} \subseteq Stages
  BY DEF IInv, Stages
<1>1. /\ Running(c) /\ opening[c] = "monitored" /\ opening' \in [Clients -> Stages]
      /\ opening'[c] = IF state = "ServerReady" THEN "claimed" ELSE "refused"
      /\ \A d \in Clients : d # c => opening'[d] = opening[d]
  BY <1>0, OpensEffect DEF Claim
<1>2. TypeOK'
  BY <1>0, <1>1 DEF Claim, TypeOK, States, threads
<1>3. Claims'
  BY <1>0, <1>1 DEF Claim, Claims, Claimed
<1>4. Monitors'
  BY <1>1, <1>2, MonitorsKeep DEF Claim, threads
<1>. QED  BY <1>1, <1>2, <1>3, <1>4, OpeningKeeps DEF Claim

\* The client that has the claim stores its pid.
LEMMA StepStorePid ==
  ASSUME IInv, NEW c \in Clients, StorePid(c)
  PROVE  IInv'
<1>0. TypeOK /\ Claims /\ {"claimed", "pid"} \subseteq Stages
  BY DEF IInv, Stages
<1>1. /\ Running(c) /\ opening[c] = "claimed" /\ opening' \in [Clients -> Stages]
      /\ opening'[c] = "pid" /\ client_pid' = c
      /\ \A d \in Clients : d # c => opening'[d] = opening[d]
  BY <1>0, OpensEffect DEF StorePid
<1>2. TypeOK'
  BY <1>0, <1>1 DEF StorePid, TypeOK, Words, threads
<1>3. (\A d \in Clients : d # c => opening[d] \notin Claimed) /\ ~Wedded /\ state \notin {"Init", "ServerReady"}
  BY <1>1, StillOpening DEF Claimed
<1>4. Claims'
  BY <1>0, <1>1, <1>3 DEF StorePid, Claims, Claimed
<1>5. Monitors'
  BY <1>1, <1>2, <1>3, MonitorsKeep DEF StorePid, Claimed, threads
<1>. QED  BY <1>1, <1>2, <1>3, <1>4, <1>5, OpeningKeeps DEF StorePid

\* And its birth time.
LEMMA StepStoreBirth ==
  ASSUME IInv, NEW c \in Clients, StoreBirth(c)
  PROVE  IInv'
<1>0. TypeOK /\ Claims /\ {"pid", "birth"} \subseteq Stages
  BY DEF IInv, Stages
<1>1. /\ Running(c) /\ opening[c] = "pid" /\ opening' \in [Clients -> Stages]
      /\ opening'[c] = "birth" /\ client_birth' = c
      /\ \A d \in Clients : d # c => opening'[d] = opening[d]
  BY <1>0, OpensEffect DEF StoreBirth
<1>2. TypeOK'
  BY <1>0, <1>1 DEF StoreBirth, TypeOK, Words, threads
<1>3. (\A d \in Clients : d # c => opening[d] \notin Claimed) /\ ~Wedded /\ state \notin {"Init", "ServerReady"}
  BY <1>1, StillOpening DEF Claimed
<1>4. Claims'
  BY <1>0, <1>1, <1>3 DEF StoreBirth, Claims, Claimed
<1>5. Monitors'
  BY <1>1, <1>2, MonitorsKeep DEF StoreBirth, Claimed, threads
<1>. QED  BY <1>1, <1>2, <1>4, <1>5, OpeningKeeps DEF StoreBirth

\* The halves of a client come into being when nobody has given up on it, or
\* its open fails.
LEMMA StepConnect ==
  ASSUME IInv, NEW c \in Clients, Connect(c)
  PROVE  IInv'
<1>0. /\ TypeOK /\ Claims /\ Places /\ Monitors /\ Deaths
      /\ EndsAgree /\ NoClientStranded /\ Removal /\ FileServed
      /\ {"birth", "connected", "refused"} \subseteq Stages
  BY DEF IInv, Stages
<1>1. /\ Running(c) /\ opening[c] = "birth" /\ opening' \in [Clients -> Stages]
      /\ opening'[c] = IF state = "ClientClaimed" THEN "connected" ELSE "refused"
      /\ \A d \in Clients : d # c => opening'[d] = opening[d]
  BY <1>0, OpensEffect DEF Connect
<1>2. /\ \A d \in Clients : d # c => opening[d] \notin Claimed
      /\ ~Wedded /\ peer[Server] = NoMonitor /\ state \notin {"Init", "ServerReady"}
      /\ client_pid = c /\ client_birth = c /\ peer[c] = Server
  BY <1>0, <1>1, StillOpening DEF Claimed, Claims, Monitors
<1>3. CASE state # "ClientClaimed"
  <2>1. TypeOK'
    BY <1>0, <1>1, <1>3 DEF Connect, TypeOK
  <2>2. Claims'
    BY <1>0, <1>1, <1>2, <1>3 DEF Connect, Claims, Claimed
  <2>3. Monitors'
    BY <1>1, <1>2, <1>3, <2>1, MonitorsKeep DEF Connect, Claimed
  <2>. QED  BY <1>1, <1>3, <2>1, <2>2, <2>3, OpeningKeeps DEF Connect, threads
<1>4. CASE state = "ClientClaimed"
  <2>1. /\ state' = "Connected" /\ opening'[c] = "connected" /\ Wedded'
        /\ UNCHANGED <<file, client_pid, client_birth, process, late, due, peer, lock,
                       seen, after, result>>
        /\ pc' = [t \in Threads |-> IF Proc(t) = c THEN "idle" ELSE pc[t]]
    BY <1>1, <1>4 DEF Connect, Split, Wedded
  <2>2. TypeOK'
    BY <1>0, <1>1, <2>1 DEF TypeOK, States, Labels
  <2>3. \A t \in Threads : Proc(t) = c => pc[t] = "absent"
    BY <1>0, <1>1 DEF Places
  <2>4. \A t \in Threads : Proc(t) = Server => pc'[t] = pc[t]
    BY <2>1, ProcOfThread
  <2>5. Claims'
    BY <1>0, <1>1, <1>2, <2>1 DEF Claims, Claimed
  <2>6. Places'
    <3>1. \A t \in Threads : pc'[t] # "absent" =>
            /\ Proc(t) \in Clients => opening'[Proc(t)] = "connected"
            /\ Running(Proc(t))' /\ state' # "Init"
      BY <1>0, <1>1, <2>1 DEF Places, Running
    <3>2. \A t \in Threads : Proc(t) = Server /\ Running(Server)' => pc'[t] # "absent"
      BY <1>0, <1>4, <2>1, <2>4 DEF Places, Running
    <3>. QED  BY <1>0, <2>1, <3>1, <3>2 DEF Places, Probing
  <2>7. Monitors'
    BY <1>0, <1>1, <1>2, <2>1 DEF Monitors, Running, Claimed
  <2>8. \A p \in Procs : PeerDead(p)' <=> PeerDead(p)
    BY <2>1 DEF PeerDead, PeerOf, Running
  <2>9. \A t \in Threads : result[t] \notin {"closed", "ChannelClosed", "TimedOut", "PeerDisconnected"}
    BY <1>0, <1>4 DEF EndsAgree
  <2>10. Deaths' /\ EndsAgree' /\ NoClientStranded'
    BY <1>0, <2>1, <2>8, <2>9, ProcOfThread DEF Deaths, EndsAgree, NoClientStranded, Finishing
  <2>11. Removal'
    BY <1>0, <2>1 DEF Removal, Finishing
  <2>12. FileServed'
    BY <1>0, <2>1, <2>4 DEF FileServed, Running
  <2>. QED  BY <2>2, <2>5, <2>6, <2>7, <2>10, <2>11, <2>12 DEF IInv
<1>. QED  BY <1>3, <1>4

(***************************************************************************)
(* The server, time, deaths.                                               *)
(***************************************************************************)
\* The server is ready: no client has come, no half has moved.
LEMMA StepPublishReady ==
  ASSUME IInv, PublishReady
  PROVE  IInv'
<1>0. /\ TypeOK /\ Claims /\ Places /\ Monitors /\ Deaths
      /\ EndsAgree /\ NoClientStranded /\ Removal /\ FileServed
  BY DEF IInv
<1>1. /\ Running(Server) /\ state = "Init" /\ state' = "ServerReady" /\ file = "made"
      /\ UNCHANGED <<file, client_pid, client_birth, process, owner, seen, after, result>>
      /\ pc' = [t \in Threads |-> IF Proc(t) = Server THEN "idle" ELSE pc[t]]
  BY DEF PublishReady, Split
<1>2. TypeOK'
  BY <1>0, <1>1 DEF TypeOK, owner, States, Labels
<1>3. /\ \A c \in Clients : opening[c] \notin Claimed
      /\ ~Wedded /\ \A t \in Threads : pc[t] = "absent"
      /\ \A t \in Threads : result[t] \notin {"closed", "ChannelClosed", "TimedOut", "PeerDisconnected"}
  BY <1>0, <1>1 DEF Claims, Claimed, Wedded, Places, EndsAgree
<1>4. Claims'
  BY <1>1, <1>3 DEF Claims, Claimed, owner
<1>5. Places'
  BY <1>1, <1>3, ProcOfThread DEF Places, Running, Probing, owner
<1>6. Monitors'
  BY <1>0, <1>1, <1>3 DEF Monitors, Running, Claimed, Wedded, owner
<1>7. Deaths' /\ EndsAgree' /\ NoClientStranded' /\ Removal' /\ FileServed'
  BY <1>1, <1>3 DEF Deaths, EndsAgree, NoClientStranded, Removal, FileServed, Finishing
<1>. QED  BY <1>2, <1>4, <1>5, <1>6, <1>7 DEF IInv

\* The file and the clocks matter to FileServed alone.
LEMMA ClocksKeep ==
  ASSUME IInv, TypeOK', FileServed', UNCHANGED <<header, process, opening, peer, threads>>
  PROVE  IInv'
<1>1. /\ Wedded' <=> Wedded
      /\ \A p \in Procs : PeerDead(p)' <=> PeerDead(p)
  BY DEF Wedded, PeerDead, PeerOf, Running, header
<1>2. Claims' /\ Places' /\ Monitors'
  BY <1>1 DEF IInv, Claims, Places, Monitors, Running, header, threads
<1>3. Deaths'
  BY <1>1, ProcOfThread DEF IInv, Deaths, header, threads
<1>4. EndsAgree' /\ NoClientStranded' /\ Removal'
  BY DEF IInv, EndsAgree, NoClientStranded, Removal, header, threads
<1>. QED  BY <1>2, <1>3, <1>4 DEF IInv

\* The file is made.
LEMMA StepCreate ==
  ASSUME IInv, Create
  PROVE  IInv'
<1>1. TypeOK' /\ FileServed'
  BY DEF Create, IInv, TypeOK, FileServed, header, owner, threads
<1>. QED  BY <1>1, ClocksKeep DEF Create, owner

\* The connect timeout passes.
LEMMA StepConnectTimeout ==
  ASSUME IInv, ConnectTimeout
  PROVE  IInv'
<1>1. TypeOK' /\ FileServed'
  BY DEF ConnectTimeout, IInv, TypeOK, FileServed, Running, header, threads
<1>. QED  BY <1>1, ClocksKeep DEF ConnectTimeout

\* Every process has stopped: the server is dead, or its halves are dropped.
LEMMA StepCleanup ==
  ASSUME IInv, Cleanup
  PROVE  IInv'
<1>1. TypeOK'
  BY DEF Cleanup, IInv, TypeOK, header, owner, threads
<1>2. Running(Server) => \A t \in Threads : Proc(t) = Server => pc[t] = "dropped"
  BY ProcOfThread DEF Cleanup, Stopped, IInv, Places
<1>3. FileServed'
  BY <1>2 DEF Cleanup, FileServed, Running, threads
<1>. QED  BY <1>1, <1>3, ClocksKeep DEF Cleanup, owner

\* A probe is due again; who waits for the mutex has an old time.
LEMMA StepProbeInterval ==
  ASSUME IInv, NEW p \in Procs, ProbeInterval(p)
  PROVE  IInv'
<1>0. /\ TypeOK /\ Claims /\ Places /\ Monitors /\ Deaths
      /\ EndsAgree /\ NoClientStranded /\ Removal /\ FileServed
  BY DEF IInv
<1>1. TypeOK'
  BY <1>0 DEF ProbeInterval, TypeOK, header, Labels
<1>2. /\ UNCHANGED <<file, header, process, opening, peer, seen, after, result>>
      /\ \A t \in Threads : \/ pc'[t] = pc[t]
                            \/ pc[t] = "lock" /\ pc'[t] = "lock, outdated"
  BY DEF ProbeInterval
<1>3. /\ Wedded' <=> Wedded
      /\ \A q \in Procs : PeerDead(q)' <=> PeerDead(q)
  BY <1>2 DEF Wedded, PeerDead, PeerOf, Running, header
<1>4. Claims' /\ EndsAgree' /\ NoClientStranded'
  BY <1>0, <1>2 DEF Claims, EndsAgree, NoClientStranded, header
<1>5. Places'
  BY <1>0, <1>2, <1>3 DEF Places, Running, Probing, header
<1>6. Monitors'
  BY <1>0, <1>2, <1>3 DEF Monitors, Running, header
<1>7. Deaths'
  BY <1>0, <1>2, <1>3, ProcOfThread DEF Deaths, Finishing, header
<1>8. /\ \A t \in Threads : pc[t] = "dropped" <=> pc'[t] = "dropped"
      /\ \A t \in Threads : pc'[t] \in Finishing => pc[t] \in Finishing
  BY <1>2 DEF Finishing
<1>9. Removal'
  BY <1>0, <1>2, <1>8 DEF Removal
<1>10. FileServed'
  BY <1>0, <1>2, <1>8 DEF FileServed, Running
<1>. QED  BY <1>1, <1>4, <1>5, <1>6, <1>7, <1>9, <1>10 DEF IInv

\* A death takes the threads and the memory of one process; nothing that was
\* written changes, and who was dead is dead.
LEMMA StepDie ==
  ASSUME IInv, NEW p \in Procs, Die(p)
  PROVE  IInv'
<1>0. /\ TypeOK /\ Claims /\ Places /\ Monitors /\ Deaths
      /\ EndsAgree /\ NoClientStranded /\ Removal /\ FileServed
  BY DEF IInv
<1>1. PICK how \in DeadAs : process' = [process EXCEPT ![p] = how]
  BY DEF Die
<1>2. /\ process' \in [Procs -> {"running", "zombie", "gone", "reused"}]
      /\ ~Running(p)' /\ \A q \in Procs : q # p => (Running(q)' <=> Running(q))
  BY <1>0, <1>1, ChannelStateAssumption DEF TypeOK, Running
<1>3. /\ peer' \in [Procs -> Procs \cup {NoMonitor}]
      /\ peer'[p] = NoMonitor /\ \A q \in Procs : q # p => peer'[q] = peer[q]
  BY <1>0 DEF Die, TypeOK
<1>4. /\ lock' \in [Procs -> SUBSET Threads] /\ due' \in [Procs -> BOOLEAN]
  BY <1>0 DEF Die, TypeOK
<1>5. /\ pc' \in [Threads -> Labels] /\ seen' \in [Threads -> States]
      /\ after' \in [Threads -> Reasons] /\ result' \in [Threads -> Results]
  BY <1>0 DEF Die, TypeOK, Labels, States, Reasons, Results
<1>6. /\ \A t \in Threads : Proc(t) = p => pc'[t] = "absent" /\ result'[t] = "ok"
      /\ \A t \in Threads : Proc(t) # p =>
           pc'[t] = pc[t] /\ seen'[t] = seen[t] /\ after'[t] = after[t] /\ result'[t] = result[t]
      /\ UNCHANGED <<file, header, opening, late>>
  BY DEF Die
<1>7. TypeOK'
  BY <1>0, <1>2, <1>3, <1>4, <1>5, <1>6 DEF TypeOK, header
<1>8. /\ Wedded' <=> Wedded
      /\ \A q \in Procs : PeerDead(q) => PeerDead(q)'
  <2>1. Wedded' <=> Wedded
    BY <1>6 DEF Wedded
  <2>2. \A q \in Procs : PeerOf(q) # Nobody => PeerOf(q) \in Procs
    BY <1>0, ProcOfThread DEF PeerOf, TypeOK, Words
  <2>3. \A q \in Procs : PeerOf(q)' = PeerOf(q)
    BY <1>6 DEF PeerOf, header
  <2>4. \A q \in Procs : Running(q)' => Running(q)
    BY <1>2
  <2>. QED  BY <2>1, <2>2, <2>3, <2>4 DEF PeerDead
<1>9. Claims' /\ EndsAgree' /\ NoClientStranded'
  BY <1>0, <1>6 DEF Claims, EndsAgree, NoClientStranded, header
<1>10. Places'
  <2>1. \A t \in Threads : pc'[t] # "absent" =>
          /\ Proc(t) # p /\ pc[t] # "absent"
          /\ Running(Proc(t))' /\ state' # "Init"
    BY <1>0, <1>2, <1>6, ProcOfThread DEF Places, header
  <2>2. \A t \in Threads : Proc(t) = Server /\ Running(Server)' /\ state' # "Init" => pc'[t] # "absent"
    BY <1>0, <1>2, <1>6, ProcOfThread DEF Places, header
  <2>3. \A t \in Threads : pc'[t] \in {"retire", "swap"} \cup Probing => UNCHANGED <<pc[t], seen[t]>>
    BY <1>6 DEF Probing
  <2>4. \A t \in Threads : pc'[t] \in Probing => Wedded'
    BY <1>0, <1>8, <2>3 DEF Places
  <2>. QED  BY <1>0, <1>6, <2>1, <2>2, <2>3, <2>4 DEF Places
<1>11. Monitors'
  BY <1>0, <1>2, <1>3, <1>6, <1>8, ProcOfThread DEF Monitors, header
<1>12. Deaths'
  BY <1>0, <1>6, <1>8, ProcOfThread DEF Deaths, Finishing, header
<1>13. Removal'
  BY <1>0, <1>6 DEF Removal, Finishing
<1>14. FileServed'
  BY <1>0, <1>2, <1>6, ProcOfThread DEF FileServed
<1>. QED  BY <1>7, <1>9, <1>10, <1>11, <1>12, <1>13, <1>14 DEF IInv

\* Nothing happens.
LEMMA StepStutter ==
  ASSUME IInv, UNCHANGED vars
  PROVE  IInv'
<1>1. TypeOK' /\ FileServed'
  BY DEF vars, IInv, TypeOK, FileServed, Running, header, owner, threads
<1>. QED  BY <1>1, ClocksKeep DEF vars, owner

(***************************************************************************)
(* The theorems.                                                           *)
(***************************************************************************)
\* The invariant holds initially.
LEMMA InvInit == Init => IInv
<1>. SUFFICES ASSUME Init PROVE IInv
  OBVIOUS
<1>1. /\ TypeOK /\ state = "Init" /\ file = "none"
      /\ \A c \in Clients : opening[c] = "idle"
      /\ \A p \in Procs : peer[p] = NoMonitor
      /\ \A t \in Threads : pc[t] = "absent" /\ result[t] = "ok"
  BY TypeInit DEF Init
<1>2. Claims /\ Places /\ Monitors
  BY <1>1, ProcOfThread DEF Claims, Places, Monitors, Claimed, Probing
<1>3. Deaths /\ EndsAgree /\ NoClientStranded /\ Removal /\ FileServed
  BY <1>1 DEF Deaths, EndsAgree, NoClientStranded, Removal, FileServed, Finishing
<1>. QED  BY <1>1, <1>2, <1>3 DEF IInv

\* Every step keeps it.
LEMMA InvStep == IInv /\ [Next]_vars => IInv'
<1>. SUFFICES ASSUME IInv, [Next]_vars PROVE IInv'
  OBVIOUS
<1>1. CASE Create \/ PublishReady \/ ConnectTimeout \/ Cleanup
  BY <1>1, StepCreate, StepPublishReady, StepConnectTimeout, StepCleanup
<1>2. ASSUME NEW c \in Clients, Open(c) \/ OpenTimesOut(c) PROVE IInv'
  BY <1>2, StepLook, StepMonitorServer, StepClaim, StepStorePid, StepStoreBirth, StepConnect,
     StepOpenTimesOut DEF Open
<1>3. ASSUME NEW t \in Threads, Step(t) PROVE IInv'
  BY <1>3, StepCheckReady, StepRetire, StepLock, StepOpenMonitor, StepProbe, StepFinishLoad,
     StepFinishSwap, StepCloseReturns, StepOpenMonitorFinished, StepProbeFinished,
     StepDropFinished DEF Step
<1>4. ASSUME NEW t \in Threads, Call(t) \/ CallEnds(t) \/ ProbeFails(t) \/ Close(t) \/ Drop(t)
      PROVE  IInv'
  BY <1>4, StepCall, StepCallEnds, StepProbeFails, StepClose, StepDrop
<1>5. ASSUME NEW p \in Procs, ProbeInterval(p) \/ Die(p) PROVE IInv'
  BY <1>5, StepProbeInterval, StepDie
<1>6. CASE UNCHANGED vars
  BY <1>6, StepStutter
<1>. QED  BY <1>1, <1>2, <1>3, <1>4, <1>5, <1>6 DEF Next

\* The inductive invariant holds in every state.
THEOREM Invariance == Spec => []IInv
BY InvInit, InvStep, PTL DEF Spec

\* Every variable keeps its shape.
THEOREM Typing == Spec => []TypeOK
<1>1. IInv => TypeOK
  BY DEF IInv
<1>. QED  BY <1>1, Invariance, PTL

\* However many clients race, one gets through, and whoever sees Connected
\* sees its whole identity (try_open).
THEOREM OneWholeClientHolds == Spec => []OneWholeClient
<1>1. IInv => OneWholeClient
  BY DEF IInv, Claims, OneWholeClient
<1>. QED  BY <1>1, Invariance, PTL

\* A death is reported of dead processes only (check_ready, is_alive).
THEOREM DeathIsRealHolds == Spec => []DeathIsReal
<1>1. IInv => DeathIsReal
  BY DEF IInv, Deaths, DeathIsReal
<1>. QED  BY <1>1, Invariance, PTL

\* No server half gives up on a client that was told it is connected
\* (check_ready against try_open).
THEOREM NoClientStrandedHolds == Spec => []NoClientStranded
<1>1. IInv => NoClientStranded
  BY DEF IInv
<1>. QED  BY <1>1, Invariance, PTL

\* All halves of both processes report the one cause that stands (finish).
THEOREM EndsAgreeHolds == Spec => []EndsAgree
<1>1. IInv => EndsAgree
  BY DEF IInv
<1>. QED  BY <1>1, Invariance, PTL

\* The file of a server that runs and has not dropped its halves is there
\* (Drop for SharedChannel).
THEOREM FileServedHolds == Spec => []FileServed
<1>1. IInv => FileServed
  BY DEF IInv
<1>. QED  BY <1>1, Invariance, PTL

\* No step leaves a terminal state (finish, check_ready, try_open).
LEMMA TerminalStep == IInv /\ [Next]_vars => (state \in Terminal => state' = state)
<1>. SUFFICES ASSUME IInv, [Next]_vars, state \in Terminal PROVE state' = state
  OBVIOUS
<1>1. CASE Create \/ PublishReady \/ ConnectTimeout \/ Cleanup
  BY <1>1 DEF Create, PublishReady, ConnectTimeout, Cleanup, Terminal, header
<1>2. ASSUME NEW c \in Clients, Open(c) \/ OpenTimesOut(c) PROVE state' = state
  BY <1>2 DEF Open, Look, MonitorServer, Claim, StorePid, StoreBirth, Connect, OpenTimesOut,
              Terminal, header
<1>3. ASSUME NEW t \in Threads, Retire(t) PROVE state' = state
  BY <1>3 DEF Retire, At, IInv, Places, Terminal
<1>4. ASSUME NEW t \in Threads, FinishSwap(t) PROVE state' = state
  BY <1>4 DEF FinishSwap, At, IInv, Places
<1>5. ASSUME NEW t \in Threads,
             \/ CheckReady(t) \/ Lock(t) \/ OpenMonitor(t) \/ Probe(t) \/ FinishLoad(t)
             \/ CloseReturns(t) \/ OpenMonitorFinished(t) \/ ProbeFinished(t) \/ DropFinished(t)
             \/ Call(t) \/ CallEnds(t) \/ ProbeFails(t) \/ Close(t) \/ Drop(t)
      PROVE  state' = state
  BY <1>5 DEF CheckReady, Lock, OpenMonitor, Probe, FinishLoad, CloseReturns, OpenMonitorFinished,
              ProbeFinished, DropFinished, Call, CallEnds, ProbeFails, Close, Drop, header
<1>6. ASSUME NEW p \in Procs, ProbeInterval(p) \/ Die(p) PROVE state' = state
  BY <1>6 DEF ProbeInterval, Die, header
<1>7. CASE UNCHANGED vars
  BY <1>7 DEF vars, header
<1>. QED  BY <1>1, <1>2, <1>3, <1>4, <1>5, <1>6, <1>7 DEF Next, Step

\* A channel that has ended stays as it ended (finish).
THEOREM TerminalForEverHolds == Spec => TerminalForEver
BY Invariance, TerminalStep, PTL DEF Spec, TerminalForEver
=============================================================================
