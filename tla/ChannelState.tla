---------------------------- MODULE ChannelState ----------------------------
(***************************************************************************)
(* The life of one channel, from the creation of its file to the removal:  *)
(* the state word and the client identity words of the global header       *)
(* (src/header.rs), the clients that race to open it (src/channel.rs), and *)
(* what the halves of a connected channel do about it: check_ready, close  *)
(* and drop (src/shared.rs).                                               *)
(*                                                                         *)
(* Any process may die at any step.  On Linux another process finds that   *)
(* out from /proc/<pid>/stat: no such file, a zombie, or a process that    *)
(* was born at another time and merely has the same pid.                   *)
(*                                                                         *)
(* Data and parking are elsewhere (Ring, WaitWake): a half inside send or  *)
(* recv is only seen to come back to check_ready, which wait_until makes   *)
(* it do at least every LIVENESS_QUANTUM.                                  *)
(***************************************************************************)
EXTENDS FiniteSets

CONSTANTS
  Server,     \* the process that creates the channel
  Clients,    \* the processes that try to open it
  ServerHalves, ClientHalves, \* the split halves of their connections, each in a thread
  Nobody,     \* an identity word that was not written: 0
  NoMonitor,  \* Option<ProcessMonitor>::None
  ObserverFails, \* whether /proc may be unreadable
  DeadAs      \* what /proc may say of a dead process: zombie, gone or reused

Procs   == {Server} \cup Clients
Threads == ({Server} \X ServerHalves) \cup (Clients \X ClientHalves)

ASSUME ChannelStateAssumption ==
  /\ Server \notin Clients
  /\ IsFiniteSet(Clients) /\ IsFiniteSet(ServerHalves) /\ IsFiniteSet(ClientHalves)
  /\ ServerHalves # {} /\ ClientHalves # {}
  /\ Nobody \notin Procs /\ NoMonitor \notin Procs
  /\ ObserverFails \in BOOLEAN
  /\ DeadAs \subseteq {"zombie", "gone", "reused"}

VARIABLES
  \* The backing file and its header.
  file,         \* none | made | removed
  state,        \* ChannelState
  client_pid,   \* whose pid it is
  client_birth, \* whose birth time it is
  \* The operating system's view of each process.
  process,      \* running, or what it left: zombie | gone | reused (its pid)
  \* The SharedChannel of each process.
  opening,      \* try_open of each client, up to connected or refused
  late,         \* the server's connect_timeout has passed
  due,          \* due[p]: the next probe of p is due
  peer,         \* peer[p]: the process p's ProcessMonitor observes
  lock,         \* lock[p]: the threads of p inside the mutex of peer
  \* Each thread.
  pc,
  seen,         \* the state it loaded before a compare_exchange
  after,        \* what finish is called for: close | drop | open | probe
  result        \* the error that ended its last call, or closed

header  == <<state, client_pid, client_birth>>
owner   == <<opening, late, due, peer, lock>>
threads == <<pc, seen, after, result>>
vars    == <<file, header, process, owner, threads>>

Terminal == {"Closed", "PeerDisconnected"}

Init ==
  /\ file = "none"
  /\ state = "Init"
  /\ client_pid = Nobody
  /\ client_birth = Nobody
  /\ process = [p \in Procs |-> "running"]
  /\ opening = [c \in Clients |-> "idle"]
  /\ late = FALSE
  /\ due = [p \in Procs |-> TRUE]
  /\ peer = [p \in Procs |-> NoMonitor]
  /\ lock = [p \in Procs |-> {}]
  /\ pc = [t \in Threads |-> "absent"]
  /\ seen = [t \in Threads |-> "Init"]
  /\ after = [t \in Threads |-> "close"]
  /\ result = [t \in Threads |-> "ok"]

Proc(t) == t[1]
Running(p) == process[p] = "running"

\* The halves of p come into being.
Split(p) == pc' = [t \in Threads |-> IF Proc(t) = p THEN "idle" ELSE pc[t]]

\* ProcessMonitor::is_alive.
IsAlive_PidOnly(pid, birth) == process[pid] \in {"running", "reused"}
IsAlive(pid, birth) == process[pid] = "running" /\ pid = birth

\* ProcessMonitor::open: by pid and birth, on Windows for good.
MonitorOpens(pid, birth) == IsAlive(pid, birth)

\* The monitor that p has says that its peer runs: on Linux it reads /proc with
\* pid and birth again, on Windows it asks the process object.
PeerRuns(p) == IsAlive(peer[p], peer[p])

(***************************************************************************)
(* Channel::create_with_config.                                            *)
(***************************************************************************)
Create ==
  /\ Running(Server)
  /\ file = "none"
  /\ file' = "made"
  /\ UNCHANGED <<header, process, owner, threads>>

PublishReady ==
  /\ Running(Server)
  /\ file = "made" /\ state = "Init"
  /\ state' = "ServerReady"
  /\ Split(Server)
  /\ UNCHANGED <<file, client_pid, client_birth, process, owner, seen, after, result>>

(***************************************************************************)
(* Channel::try_open, by client c.                                         *)
(***************************************************************************)
Opens(c, from, to) ==
  /\ Running(c)
  /\ opening[c] = from
  /\ opening' = [opening EXCEPT ![c] = to]

\* The state is loaded.  Before ServerReady, or without a file, try_open
\* returns None and open tries again until its deadline.
Look(c) ==
  /\ file = "made" /\ state # "Init"
  /\ Opens(c, "idle", IF state = "ServerReady" THEN "ready" ELSE "refused")
  /\ UNCHANGED <<file, header, process, late, due, peer, lock, threads>>

OpenTimesOut(c) ==
  /\ Opens(c, "idle", "refused")
  /\ UNCHANGED <<file, header, process, late, due, peer, lock, threads>>

\* ProcessMonitor::open on the server.
MonitorServer(c) ==
  /\ Opens(c, "ready", IF MonitorOpens(Server, Server) THEN "monitored" ELSE "refused")
  /\ peer' = [peer EXCEPT ![c] = IF MonitorOpens(Server, Server) THEN Server ELSE @]
  /\ UNCHANGED <<file, header, process, late, due, lock, threads>>

Claim_Store(c) ==
  /\ Opens(c, "monitored", IF state = "ServerReady" \/ state = "ClientClaimed" THEN "claimed" ELSE "refused")
  /\ state' = IF state = "ServerReady" THEN "ClientClaimed" ELSE state
  /\ UNCHANGED <<file, client_pid, client_birth, process, late, due, peer, lock, threads>>

\* Exactly one client gets past this compare_exchange.
Claim(c) ==
  /\ Opens(c, "monitored", IF state = "ServerReady" THEN "claimed" ELSE "refused")
  /\ state' = IF state = "ServerReady" THEN "ClientClaimed" ELSE state
  /\ UNCHANGED <<file, client_pid, client_birth, process, late, due, peer, lock, threads>>

StorePid_Servers(c) ==
  /\ Opens(c, "claimed", "pid")
  /\ client_pid' = Server
  /\ UNCHANGED <<file, state, client_birth, process, late, due, peer, lock, threads>>

StorePid(c) ==
  /\ Opens(c, "claimed", "pid")
  /\ client_pid' = c
  /\ UNCHANGED <<file, state, client_birth, process, late, due, peer, lock, threads>>

StoreBirth_Missing(c) ==
  /\ Opens(c, "pid", "birth")
  /\ UNCHANGED client_birth
  /\ UNCHANGED <<file, state, client_pid, process, late, due, peer, lock, threads>>

StoreBirth(c) ==
  /\ Opens(c, "pid", "birth")
  /\ client_birth' = c
  /\ UNCHANGED <<file, state, client_pid, process, late, due, peer, lock, threads>>

Connect_Store(c) ==
  /\ Opens(c, "birth", "connected")
  /\ state' = "Connected"
  /\ Split(c)
  /\ UNCHANGED <<file, client_pid, client_birth, process, late, due, peer, lock, seen, after, result>>

\* The second compare_exchange, which a retiring server may have forestalled.
Connect(c) ==
  /\ Opens(c, "birth", IF state = "ClientClaimed" THEN "connected" ELSE "refused")
  /\ IF state = "ClientClaimed"
     THEN state' = "Connected" /\ Split(c)
     ELSE UNCHANGED <<state, pc>>
  /\ UNCHANGED <<file, client_pid, client_birth, process, late, due, peer, lock, seen, after, result>>

(***************************************************************************)
(* Threads.  A thread waits while it is inside send or recv.               *)
(***************************************************************************)
At(t, label)   == Running(Proc(t)) /\ pc[t] = label
Goto(t, label) == pc' = [pc EXCEPT ![t] = label]

\* A function returns r and its locals are gone.
Leave(t, r) ==
  /\ result' = [result EXCEPT ![t] = r]
  /\ seen' = [seen EXCEPT ![t] = "Init"]
  /\ after' = [after EXCEPT ![t] = "close"]

\* check_ready returns: with an error the call ends, else it waits on.
Returns(t, r) == Goto(t, IF r = "ok" THEN "wait" ELSE "idle") /\ Leave(t, r)

local == <<seen, after, result>>

\* terminal().
Cause(s) == CASE s = "Closed"           -> "ChannelClosed"
              [] s = "PeerDisconnected" -> "PeerDisconnected"
              [] OTHER                  -> "ok"

Call(t) ==
  /\ At(t, "idle")
  /\ Returns(t, "ok")
  /\ UNCHANGED <<file, header, process, owner>>

\* A message moves, or the caller's own timeout passes.
CallEnds(t) ==
  /\ At(t, "wait")
  /\ Goto(t, "idle")
  /\ UNCHANGED <<file, header, process, owner, seen, after, result>>

CheckReady_ClaimedWaits(t) ==
  /\ At(t, "wait")
  /\ \/ state \in Terminal /\ Returns(t, Cause(state))
     \/ state = "Connected" /\ ~due[Proc(t)] /\ Returns(t, "ok")
     \/ state = "Connected" /\ due[Proc(t)] /\ Goto(t, "lock") /\ UNCHANGED local
     \/ /\ state \in {"ServerReady", "ClientClaimed"}
        /\ IF late /\ state = "ServerReady"
           THEN Goto(t, "retire") /\ seen' = [seen EXCEPT ![t] = state] /\ UNCHANGED <<after, result>>
           ELSE Returns(t, "ok")
  /\ UNCHANGED <<file, header, process, owner>>

\* check_ready: the state, as loaded here, decides.
CheckReady(t) ==
  /\ At(t, "wait")
  /\ \/ state \in Terminal /\ Returns(t, Cause(state))
     \/ state = "Connected" /\ ~due[Proc(t)] /\ Returns(t, "ok")
     \/ state = "Connected" /\ due[Proc(t)] /\ Goto(t, "lock") /\ UNCHANGED local
     \/ /\ state \in {"ServerReady", "ClientClaimed"}
        /\ IF late
           THEN Goto(t, "retire") /\ seen' = [seen EXCEPT ![t] = state] /\ UNCHANGED <<after, result>>
           ELSE Returns(t, "ok")
  /\ UNCHANGED <<file, header, process, owner>>

Retire_Blind(t) ==
  /\ At(t, "retire")
  /\ state' = "Closed" /\ Returns(t, "TimedOut")
  /\ UNCHANGED <<file, client_pid, client_birth, process, owner>>

\* The connect timeout has passed: close, unless the state has moved on.
Retire(t) ==
  /\ At(t, "retire")
  /\ IF state = seen[t]
     THEN state' = "Closed" /\ Returns(t, "TimedOut")
     ELSE Returns(t, "ok") /\ UNCHANGED state
  /\ UNCHANGED <<file, client_pid, client_birth, process, owner>>

(***************************************************************************)
(* The probe, under the mutex of peer.                                     *)
(***************************************************************************)
Acquire(t) == lock[Proc(t)] = {} /\ lock' = [lock EXCEPT ![Proc(t)] = {t}]
Release(t) == lock' = [lock EXCEPT ![Proc(t)] = @ \ {t}]

\* The other half may have probed since t read the clock; the channel may
\* have ended.
Lock(t) ==
  /\ At(t, "lock") \/ At(t, "lock, outdated")
  /\ lock[Proc(t)] = {}
  /\ \/ /\ pc[t] = "lock" /\ due[Proc(t)] /\ state \notin Terminal
        /\ Acquire(t)
        /\ Goto(t, IF peer[Proc(t)] = NoMonitor THEN "open" ELSE "probe")
        /\ UNCHANGED local
     \/ /\ pc[t] # "lock" \/ ~due[Proc(t)] \/ state \in Terminal
        /\ Returns(t, Cause(state))
        /\ UNCHANGED lock
  /\ UNCHANGED <<file, header, process, opening, late, due, peer>>

\* finish(terminal) is next, called for reason.
Finishes(t, reason) ==
  /\ Goto(t, "finish")
  /\ after' = [after EXCEPT ![t] = reason]
  /\ UNCHANGED <<seen, result>>

\* ProcessMonitor::open on the client, at the server's first probe.
OpenMonitor(t) ==
  /\ At(t, "open")
  /\ \/ /\ client_pid = Nobody
        /\ Returns(t, "InvalidHeader")
        /\ Release(t)
        /\ UNCHANGED peer
     \/ /\ client_pid # Nobody
        /\ IF MonitorOpens(client_pid, client_birth)
           THEN /\ peer' = [peer EXCEPT ![Proc(t)] = client_pid]
                /\ Goto(t, "probe") /\ UNCHANGED local
           ELSE Finishes(t, "open") /\ UNCHANGED peer
        /\ UNCHANGED lock
  /\ UNCHANGED <<file, header, process, opening, late, due>>

\* next_probe_ms is stored, the mutex released, and terminal() has the last
\* word.
ProbeDone(t) ==
  /\ due' = [due EXCEPT ![Proc(t)] = FALSE]
  /\ Release(t)
  /\ Returns(t, Cause(state))

Probe(t) ==
  /\ At(t, "probe")
  /\ IF PeerRuns(Proc(t))
     THEN ProbeDone(t)
     ELSE Finishes(t, "probe") /\ UNCHANGED <<due, lock>>
  /\ UNCHANGED <<file, header, process, opening, late, peer>>

\* The observer itself may fail.
ProbeFails(t) ==
  /\ ObserverFails
  /\ At(t, "open") \/ At(t, "probe")
  /\ Returns(t, "Io")
  /\ Release(t)
  /\ UNCHANGED <<file, header, process, opening, late, due, peer>>

(***************************************************************************)
(* finish, and what its callers do next.                                   *)
(***************************************************************************)
FinishLoad(t) ==
  /\ At(t, "finish")
  /\ Goto(t, IF state \in Terminal THEN "finished" ELSE "swap")
  /\ seen' = [seen EXCEPT ![t] = state]
  /\ UNCHANGED <<file, header, process, owner, after, result>>

FinishSwap_Store(t) ==
  /\ At(t, "swap")
  /\ state' = IF after[t] \in {"close", "drop"} THEN "Closed" ELSE "PeerDisconnected"
  /\ Goto(t, "finished")
  /\ UNCHANGED <<file, client_pid, client_birth, process, owner, seen, after, result>>

\* The compare_exchange; when it fails, finish looks again.
FinishSwap(t) ==
  /\ At(t, "swap")
  /\ IF state = seen[t]
     THEN /\ state' = IF after[t] \in {"close", "drop"} THEN "Closed" ELSE "PeerDisconnected"
          /\ Goto(t, "finished")
     ELSE Goto(t, "finish") /\ UNCHANGED state
  /\ UNCHANGED <<file, client_pid, client_birth, process, owner, seen, after, result>>

Close(t) ==
  /\ At(t, "idle")
  /\ Finishes(t, "close")
  /\ UNCHANGED <<file, header, process, owner>>

CloseReturns_Always(t) ==
  /\ At(t, "finished") /\ after[t] = "close"
  /\ Returns(t, "closed")
  /\ UNCHANGED <<file, header, process, owner>>

\* close succeeds if Closed is the end that stands.
CloseReturns(t) ==
  /\ At(t, "finished") /\ after[t] = "close"
  /\ Returns(t, IF state = "Closed" THEN "closed" ELSE Cause(state))
  /\ UNCHANGED <<file, header, process, owner>>

OpenMonitorFinished(t) ==
  /\ At(t, "finished") /\ after[t] = "open"
  /\ Release(t)
  /\ Returns(t, Cause(state))
  /\ UNCHANGED <<file, header, process, opening, late, due, peer>>

ProbeFinished(t) ==
  /\ At(t, "finished") /\ after[t] = "probe"
  /\ ProbeDone(t)
  /\ UNCHANGED <<file, header, process, opening, late, peer>>

\* A half is dropped; the last one drops the SharedChannel.
Drop(t) ==
  /\ At(t, "idle")
  /\ IF \E u \in Threads : u # t /\ Proc(u) = Proc(t) /\ pc[u] # "dropped"
     THEN Goto(t, "dropped") /\ Leave(t, "ok")
     ELSE Finishes(t, "drop")
  /\ UNCHANGED <<file, header, process, owner>>

MayRemove_Always(p) == TRUE

\* remove_on_drop: the server always, a client if its monitor says that the
\* server is dead.
MayRemove(p) ==
  \/ p = Server
  \/ peer[p] # NoMonitor /\ ~PeerRuns(p)

DropFinished(t) ==
  /\ At(t, "finished") /\ after[t] = "drop"
  /\ file' = IF MayRemove(Proc(t)) THEN "removed" ELSE file
  /\ Goto(t, "dropped") /\ Leave(t, "ok")
  /\ UNCHANGED <<header, process, owner>>

\* Channel::cleanup, for which every participant has stopped.
Stopped(p) ==
  \/ ~Running(p)
  \/ /\ \A t \in Threads : Proc(t) = p => pc[t] \in {"absent", "dropped"}
     /\ p \in Clients => opening[p] \in {"idle", "refused", "connected"}

Cleanup ==
  /\ file = "made" /\ state # "Init"
  /\ \A p \in Procs : Stopped(p)
  /\ file' = "removed"
  /\ UNCHANGED <<header, process, owner, threads>>

(***************************************************************************)
(* Time and processes.                                                     *)
(***************************************************************************)
\* connect_timeout passes after the server made its SharedChannel.
ConnectTimeout ==
  /\ state \in {"ServerReady", "ClientClaimed"} /\ ~late
  /\ late' = TRUE
  /\ UNCHANGED <<file, header, process, opening, due, peer, lock, threads>>

\* PROBE_INTERVAL passes.  Who waits for the mutex read the clock before.
ProbeInterval(p) ==
  /\ Running(p) /\ state = "Connected" /\ ~due[p]
  /\ due' = [due EXCEPT ![p] = TRUE]
  /\ pc' = [t \in Threads |-> IF Proc(t) = p /\ pc[t] = "lock" THEN "lock, outdated" ELSE pc[t]]
  /\ UNCHANGED <<file, header, process, opening, late, peer, lock, seen, after, result>>

\* A process dies, and with it its threads and its memory.  Reaping it and
\* handing its pid to another process change what /proc says of it, not that
\* it is dead.
Die(p) ==
  /\ Running(p)
  /\ \E how \in DeadAs : process' = [process EXCEPT ![p] = how]
  /\ pc' = [t \in Threads |-> IF Proc(t) = p THEN "absent" ELSE pc[t]]
  /\ seen' = [t \in Threads |-> IF Proc(t) = p THEN "Init" ELSE seen[t]]
  /\ after' = [t \in Threads |-> IF Proc(t) = p THEN "close" ELSE after[t]]
  /\ result' = [t \in Threads |-> IF Proc(t) = p THEN "ok" ELSE result[t]]
  /\ peer' = [peer EXCEPT ![p] = NoMonitor]
  /\ lock' = [lock EXCEPT ![p] = {}]
  /\ due' = [due EXCEPT ![p] = TRUE]
  /\ UNCHANGED <<file, header, opening, late>>

Open(c) ==
  Look(c) \/ MonitorServer(c) \/ Claim(c) \/ StorePid(c) \/ StoreBirth(c) \/ Connect(c)

Step(t) ==
  \/ CheckReady(t) \/ Retire(t) \/ Lock(t) \/ OpenMonitor(t) \/ Probe(t)
  \/ FinishLoad(t) \/ FinishSwap(t)
  \/ CloseReturns(t) \/ OpenMonitorFinished(t) \/ ProbeFinished(t) \/ DropFinished(t)

Next ==
  \/ Create \/ PublishReady \/ ConnectTimeout \/ Cleanup
  \/ \E c \in Clients : Open(c) \/ OpenTimesOut(c)
  \/ \E t \in Threads : Step(t) \/ Call(t) \/ CallEnds(t) \/ ProbeFails(t) \/ Close(t) \/ Drop(t)
  \/ \E p \in Procs : ProbeInterval(p) \/ Die(p)

Spec == Init /\ [][Next]_vars

(***************************************************************************)
(* A thread inside a call goes on, the clock runs.  Clients need not go    *)
(* on with try_open, and nobody has to call, close, drop, die or be        *)
(* reaped.                                                                 *)
(***************************************************************************)
Fairness ==
  /\ \A t \in Threads : WF_vars(Step(t))
  /\ WF_vars(ConnectTimeout)
  /\ \A p \in Procs : WF_vars(ProbeInterval(p))

LiveSpec == Spec /\ Fairness

(***************************************************************************)
(* Properties.                                                             *)
(***************************************************************************)
Words == Clients \cup {Nobody}

States  == {"Init", "ServerReady", "ClientClaimed", "Connected"} \cup Terminal
Stages  == {"idle", "ready", "monitored", "claimed", "pid", "birth", "connected", "refused"}
Labels  == {"absent", "idle", "wait", "retire", "lock", "lock, outdated", "open", "probe",
            "finish", "swap", "finished", "dropped"}
Reasons == {"close", "drop", "open", "probe"}
Results == {"ok", "closed", "ChannelClosed", "PeerDisconnected", "TimedOut", "InvalidHeader", "Io"}

\* The shape of every variable.
TypeOK ==
  /\ file \in {"none", "made", "removed"}
  /\ state \in States
  /\ client_pid \in Words /\ client_birth \in Words
  /\ process \in [Procs -> {"running", "zombie", "gone", "reused"}]
  /\ opening \in [Clients -> Stages]
  /\ late \in BOOLEAN
  /\ due \in [Procs -> BOOLEAN]
  /\ peer \in [Procs -> Procs \cup {NoMonitor}]
  /\ lock \in [Procs -> SUBSET Threads]
  /\ pc \in [Threads -> Labels]
  /\ seen \in [Threads -> States]
  /\ after \in [Threads -> Reasons]
  /\ result \in [Threads -> Results]

\* Whoever sees Connected sees one client, the only one whose open succeeds,
\* with both words of its identity (try_open).
OneWholeClient ==
  /\ \A c \in Clients : opening[c] = "connected" => client_pid = c /\ client_birth = c
  /\ state = "Connected" => \E c \in Clients : opening[c] = "connected"

PeerOf(p) == IF p = Server THEN client_pid ELSE Server
PeerDead(p) == PeerOf(p) # Nobody /\ ~Running(PeerOf(p))

\* PeerDisconnected is said of dead processes only: neither a slow client nor
\* a half-written identity is taken for a death (check_ready, is_alive).
DeathIsReal ==
  /\ state = "PeerDisconnected" => \E p \in Procs : PeerDead(p)
  /\ \A t \in Threads : result[t] = "PeerDisconnected" => PeerDead(Proc(t))

\* A server that gives up on its client gives up on all of them: no client was
\* told that it is connected (the retiring compare_exchange of check_ready
\* against the second one of try_open).
NoClientStranded ==
  \A t \in Threads : result[t] = "TimedOut" => \A c \in Clients : opening[c] # "connected"

\* Every half that learns of the end learns the cause that stands, on both
\* sides, whoever closes, dies or gives up at the same time (finish, terminal).
EndsAgree ==
  \A t \in Threads :
    /\ result[t] \in {"closed", "ChannelClosed", "TimedOut"} => state = "Closed"
    /\ result[t] = "PeerDisconnected" => state = "PeerDisconnected"

\* The end of a channel is final (finish, check_ready, try_open).
TerminalForEver == [][(state \in Terminal) => (state' = state)]_vars

\* What Lifecycle calls the phase of a channel, and an answer of a call.
Phase ==
  IF state \in Terminal THEN state ELSE IF state = "Connected" THEN "connected" ELSE "open"

Heard(r) ==
  IF r \in {"closed", "ChannelClosed"} THEN "Closed"
  ELSE IF r \in {"PeerDisconnected", "TimedOut"} THEN r ELSE "nothing"

\* A client is or was connected.
Wedded    == \E c \in Clients : opening[c] = "connected"
TheClient == IF Wedded THEN client_pid ELSE Nobody
TheDead   == {p \in Procs : ~Running(p)}
AllHeard  == [t \in Threads |-> Heard(result[t])]

Life == INSTANCE Lifecycle WITH
  phase <- Phase, client <- TheClient, dead <- TheDead, heard <- AllHeard

\* The channel implements Lifecycle: try_open connects one client in one step,
\* finish and check_ready end it in one, by somebody who lives, and whoever is
\* told of the end is told of that one (terminal, close).
ImplementsLifecycle == Life!Spec

\* The name leads to the file until the server has let go of it or is dead: a
\* client that leaves first does not take it away (Drop for SharedChannel).
FileServed ==
  file = "removed" =>
    ~Running(Server) \/ \A t \in Threads : Proc(t) = Server => pc[t] = "dropped"

\* A half that waits for a peer that died is told, whatever has become of the
\* pid, and whichever half probes.
Waiting(t) == Running(Proc(t)) /\ pc[t] \notin {"absent", "idle", "dropped"}

PeerDeathEndsWaits ==
  \A t \in Threads : Waiting(t) /\ PeerDead(Proc(t)) ~> ~Waiting(t)

\* A server half waits for its client no longer than connect_timeout, even if
\* the client stops or dies between the claim and its identity.
UnreadyEnds ==
  \A t \in {Server} \X ServerHalves :
    Waiting(t) /\ state # "Connected" ~> ~Waiting(t) \/ state = "Connected"
=============================================================================
