--------------------------- MODULE LifecycleProofs ---------------------------
(***************************************************************************)
(* ChannelState implements Lifecycle, for any number of clients and of     *)
(* halves.                                                                 *)
(*                                                                         *)
(* Four kinds of steps change what Lifecycle shows: the compare_exchange   *)
(* that connects a client, the one that ends the channel, a call that      *)
(* returns, and a death.  All others stutter.  What a call says on its     *)
(* return is the end that stands, because EndsAgree holds after the step;  *)
(* who ends the channel lives, because a thread that runs belongs to the   *)
(* server or to its client; and who stores an identity is unseen, because  *)
(* it alone has the claim and is not connected yet.                        *)
(***************************************************************************)
EXTENDS ChannelStateProofs

\* What a step may do to Lifecycle.
Mapped == [Life!Next]_Life!vars

(***************************************************************************)
(* The mapping.                                                            *)
(***************************************************************************)
\* The phase of each state.
LEMMA PhaseFacts ==
  /\ state \in Terminal => Phase = state /\ Phase \in Life!Ends
  /\ state = "Connected" => Phase = "connected"
  /\ state \notin {"Connected"} \cup Terminal => Phase = "open"
  /\ Phase \in Life!Ends => state \in Terminal
  /\ Phase \in {"open", "connected"} => Phase \notin Life!Ends
BY DEF Phase, Terminal, Life!Ends

\* The same, after a step.
LEMMA PhaseNext ==
  /\ state' \in Terminal => Phase' = state' /\ Phase' \in Life!Ends
  /\ state' = "Connected" => Phase' = "connected"
  /\ state' = state => Phase' = Phase
BY DEF Phase, Terminal, Life!Ends

\* Everything the mapping looks at.
Unseen == UNCHANGED <<state, process, result>> /\ TheClient' = TheClient

\* A step that leaves that alone stutters.
LEMMA UnseenStutters ==
  ASSUME Unseen
  PROVE  Mapped
<1>1. Phase' = Phase
  BY PhaseNext DEF Unseen
<1>2. TheDead' = TheDead /\ AllHeard' = AllHeard
  BY DEF Unseen, TheDead, AllHeard, Running, Heard
<1>. QED  BY <1>1, <1>2 DEF Mapped, Life!vars, Unseen

\* A half that runs is in use.
LEMMA RunsLives ==
  ASSUME IInv, NEW t \in Threads, pc[t] # "absent"
  PROVE  Life!Lives(t)
<1>1. Proc(t) \in Procs /\ Running(Proc(t))
  BY WhoRuns, ProcOfThread
<1>2. Proc(t) = Server \/ (Wedded /\ client_pid = Proc(t))
  BY WhoRuns, Identity DEF Wedded
<1>. QED  BY <1>1, <1>2 DEF Life!Lives, TheClient, TheDead

\* A step of one half that changes what it heard.
LEMMA HearsEffect ==
  ASSUME NEW t \in Threads, NEW r, result' = [result EXCEPT ![t] = r], result \in [Threads -> Results]
  PROVE  AllHeard' = [AllHeard EXCEPT ![t] = Heard(r)]
<1>1. \A u \in Threads : Heard(result[u])' = IF u = t THEN Heard(r) ELSE Heard(result[u])
  BY DEF Heard
<1>. QED  BY <1>1 DEF AllHeard

(***************************************************************************)
(* Steps of halves that do not change the state.                           *)
(***************************************************************************)
\* A call of t ends with r, or goes on.
Says(t, r) == UNCHANGED result \/ result' = [result EXCEPT ![t] = r]

\* A half that returns hears of the end that stands, or of nothing.
LEMMA ReturnMaps ==
  ASSUME IInv, IInv', NEW t \in Threads, pc[t] # "absent",
         NEW r \in Results, r # "TimedOut", Says(t, r),
         UNCHANGED <<state, client_pid, process, opening>>
  PROVE  Mapped
<1>0. result \in [Threads -> Results] /\ TheClient' = TheClient
  BY DEF IInv, TypeOK, TheClient, Wedded
<1>1. CASE UNCHANGED result
  BY <1>0, <1>1, UnseenStutters DEF Unseen
<1>2. CASE result' = [result EXCEPT ![t] = r]
  <2>1. AllHeard' = [AllHeard EXCEPT ![t] = Heard(r)] /\ result'[t] = r
    BY <1>0, <1>2, HearsEffect
  <2>2. UNCHANGED <<Phase, TheClient, TheDead>>
    BY <1>0, PhaseNext DEF TheDead, Running
  <2>3. Life!Lives(t)
    BY RunsLives
  <2>4. CASE Heard(r) = "nothing"
    <3>1. Life!HearNothing(t)
      BY <2>1, <2>2, <2>3, <2>4 DEF Life!HearNothing, Life!Hears
    <3>. QED  BY <3>1 DEF Mapped, Life!Next
  <2>5. CASE Heard(r) # "nothing"
    <3>1. Heard(r) = state' /\ state' \in Terminal
      BY <2>1, <2>5 DEF IInv, EndsAgree, Heard, Terminal
    <3>2. Phase \in Life!Ends /\ Phase = Heard(r)
      BY <3>1, PhaseFacts
    <3>3. Life!HearEnd(t)
      BY <2>1, <2>2, <2>3, <3>2 DEF Life!HearEnd, Life!Hears
    <3>. QED  BY <3>3 DEF Mapped, Life!Next
  <2>. QED  BY <2>4, <2>5
<1>. QED  BY <1>1, <1>2 DEF Says

\* What each function of a half says.
Saying == {"ok", "closed", "ChannelClosed", "PeerDisconnected", "InvalidHeader", "Io"}

LEMMA SayingFacts ==
  ASSUME IInv
  PROVE  /\ Saying \subseteq Results /\ "TimedOut" \notin Saying
         /\ {"ok", "closed", "InvalidHeader", "Io", Cause(state)} \subseteq Saying
         /\ \A t \in Threads, r \in Saying : Returns(t, r) \/ Leave(t, r) => Says(t, r)
BY CauseFacts DEF IInv, TypeOK, Saying, Results, Returns, Leave, Says

\* Every step of a half but the ones that write the state returns, or goes on.
LEMMA HalfSays ==
  ASSUME IInv, NEW t \in Threads,
         \/ CheckReady(t) \/ Lock(t) \/ OpenMonitor(t) \/ Probe(t) \/ FinishLoad(t)
         \/ CloseReturns(t) \/ OpenMonitorFinished(t) \/ ProbeFinished(t) \/ DropFinished(t)
         \/ Call(t) \/ CallEnds(t) \/ ProbeFails(t) \/ Close(t) \/ Drop(t)
  PROVE  /\ pc[t] # "absent"
         /\ \E r \in Saying : Says(t, r)
         /\ UNCHANGED <<state, client_pid, process, opening>>
<1>1. ASSUME CheckReady(t) PROVE pc[t] # "absent" /\ \E r \in Saying : Says(t, r)
  BY <1>1, SayingFacts DEF CheckReady, At, local, Says
<1>2. ASSUME Lock(t) PROVE pc[t] # "absent" /\ \E r \in Saying : Says(t, r)
  BY <1>2, SayingFacts DEF Lock, At, local, Says
<1>3. ASSUME OpenMonitor(t) PROVE pc[t] # "absent" /\ \E r \in Saying : Says(t, r)
  BY <1>3, SayingFacts DEF OpenMonitor, At, local, Says, Finishes
<1>4. ASSUME Probe(t) PROVE pc[t] # "absent" /\ \E r \in Saying : Says(t, r)
  BY <1>4, SayingFacts DEF Probe, ProbeDone, At, Says, Finishes
<1>5. ASSUME FinishLoad(t) \/ CallEnds(t) \/ Close(t)
      PROVE  pc[t] # "absent" /\ \E r \in Saying : Says(t, r)
  BY <1>5, SayingFacts DEF FinishLoad, CallEnds, Close, At, Says, Finishes
<1>6. ASSUME CloseReturns(t) \/ OpenMonitorFinished(t) \/ ProbeFinished(t)
      PROVE  pc[t] # "absent" /\ \E r \in Saying : Says(t, r)
  BY <1>6, SayingFacts DEF CloseReturns, OpenMonitorFinished, ProbeFinished, ProbeDone, At
<1>7. ASSUME DropFinished(t) \/ Drop(t) \/ Call(t) \/ ProbeFails(t)
      PROVE  pc[t] # "absent" /\ \E r \in Saying : Says(t, r)
  BY <1>7, SayingFacts DEF DropFinished, Drop, Call, ProbeFails, At, Says, Finishes
<1>8. UNCHANGED <<state, client_pid, process, opening>>
  BY DEF CheckReady, Lock, OpenMonitor, Probe, FinishLoad, CloseReturns, OpenMonitorFinished,
         ProbeFinished, DropFinished, Call, CallEnds, ProbeFails, Close, Drop, header, owner
<1>. QED  BY <1>1, <1>2, <1>3, <1>4, <1>5, <1>6, <1>7, <1>8

\* So all of them map.
LEMMA HalfMaps ==
  ASSUME IInv, IInv', NEW t \in Threads,
         \/ CheckReady(t) \/ Lock(t) \/ OpenMonitor(t) \/ Probe(t) \/ FinishLoad(t)
         \/ CloseReturns(t) \/ OpenMonitorFinished(t) \/ ProbeFinished(t) \/ DropFinished(t)
         \/ Call(t) \/ CallEnds(t) \/ ProbeFails(t) \/ Close(t) \/ Drop(t)
  PROVE  Mapped
<1>1. PICK r \in Saying : Says(t, r)
  BY HalfSays
<1>2. r \in Results /\ r # "TimedOut"
  BY SayingFacts
<1>. QED  BY <1>1, <1>2, HalfSays, ReturnMaps

\* The server gives up on its client, or waits on.
LEMMA RetireMaps ==
  ASSUME IInv, IInv', NEW t \in Threads, Retire(t)
  PROVE  Mapped
<1>0. /\ pc[t] = "retire" /\ seen[t] \in {"ServerReady", "ClientClaimed"}
      /\ UNCHANGED <<file, client_pid, client_birth, process, owner>>
      /\ result \in [Threads -> Results]
  BY DEF Retire, At, IInv, Places, TypeOK
<1>1. CASE UNCHANGED state /\ Returns(t, "ok")
  <2>1. UNCHANGED <<state, client_pid, process, opening>>
    BY <1>0, <1>1 DEF owner
  <2>2. "ok" \in Results /\ Says(t, "ok")
    BY <1>1, SayingFacts
  <2>. QED  BY <1>0, <2>1, <2>2, ReturnMaps
<1>2. CASE state = seen[t] /\ state' = "Closed" /\ Returns(t, "TimedOut")
  <2>1. result' = [result EXCEPT ![t] = "TimedOut"]
    BY <1>2 DEF Returns, Leave
  <2>2. Phase = "open" /\ Phase' = "Closed"
    BY <1>0, <1>2, PhaseFacts, PhaseNext DEF Terminal
  <2>3. UNCHANGED <<TheClient, TheDead>>
    BY <1>0 DEF owner, TheClient, Wedded, TheDead, Running
  <2>4. AllHeard' = [AllHeard EXCEPT ![t] = "TimedOut"]
    BY <1>0, <2>1, HearsEffect DEF Heard
  <2>5. Life!GiveUp(t)
    BY <1>0, <2>2, <2>3, <2>4, RunsLives DEF Life!GiveUp, Life!Hears
  <2>. QED  BY <2>5 DEF Mapped, Life!Next
<1>. QED  BY <1>1, <1>2 DEF Retire

\* The compare_exchange of finish ends the channel, or finds that it changed.
LEMMA FinishSwapMaps ==
  ASSUME IInv, NEW t \in Threads, FinishSwap(t)
  PROVE  Mapped
<1>0. /\ pc[t] = "swap" /\ seen[t] \notin Terminal
      /\ UNCHANGED <<client_pid, process, owner, result>>
      /\ after[t] \in Reasons
  BY DEF FinishSwap, At, IInv, Places, TypeOK
<1>1. UNCHANGED <<TheClient, TheDead, AllHeard>>
  BY <1>0 DEF owner, TheClient, Wedded, TheDead, Running, AllHeard, Heard
<1>2. Life!Lives(t)
  BY <1>0, RunsLives
<1>3. CASE UNCHANGED state
  BY <1>0, <1>1, <1>3, UnseenStutters DEF Unseen
<1>4. CASE state = seen[t] /\ after[t] \in {"close", "drop"} /\ state' = "Closed"
  <2>1. Phase \notin Life!Ends /\ Phase' = "Closed"
    BY <1>0, <1>4, PhaseFacts, PhaseNext DEF Terminal
  <2>2. Life!Close(t)
    BY <1>1, <1>2, <2>1 DEF Life!Close
  <2>. QED  BY <2>2 DEF Mapped, Life!Next
<1>5. CASE /\ state = seen[t] /\ after[t] \in {"open", "probe"}
           /\ state' = "PeerDisconnected"
  <2>1. Wedded /\ PeerDead(Proc(t))
    BY <1>0, <1>5 DEF IInv, Deaths, Finishing
  <2>2. PICK c \in Clients : opening[c] = "connected"
    BY <2>1 DEF Wedded
  <2>3. client_pid = c /\ TheClient = c /\ state = "Connected"
    BY <1>0, <1>5, <2>1, <2>2, Identity DEF IInv, Claims, TheClient
  <2>4. Phase = "connected" /\ Phase' = "PeerDisconnected"
    BY <1>5, <2>3, PhaseFacts, PhaseNext DEF Terminal
  <2>5. PeerOf(Proc(t)) \in {Server, c} \cap TheDead
    BY <2>1, <2>2, <2>3, ProcOfThread DEF PeerDead, PeerOf, TheDead
  <2>6. Life!FindDeath(t)
    BY <1>1, <1>2, <2>3, <2>4, <2>5 DEF Life!FindDeath
  <2>. QED  BY <2>6 DEF Mapped, Life!Next
<1>. QED  BY <1>0, <1>3, <1>4, <1>5 DEF FinishSwap, Reasons

(***************************************************************************)
(* Clients, the server, deaths.                                            *)
(***************************************************************************)
\* A client that does not get past the second compare_exchange is not seen:
\* while it has the claim nobody is connected.
LEMMA OpeningMaps ==
  ASSUME IInv, NEW c \in Clients,
         \/ Look(c) \/ OpenTimesOut(c) \/ MonitorServer(c) \/ Claim(c)
         \/ StorePid(c) \/ StoreBirth(c) \/ (Connect(c) /\ state # "ClientClaimed")
  PROVE  Mapped
<1>0. TypeOK
  BY DEF IInv
<1>1. /\ \E to \in Stages \ {"connected"} : opening' = [opening EXCEPT ![c] = to]
      /\ opening[c] # "connected" /\ UNCHANGED <<process, result>>
  BY DEF Look, OpenTimesOut, MonitorServer, Claim, StorePid, StoreBirth, Connect, Opens, Stages,
         threads
<1>2. Wedded' = Wedded
  BY <1>0, <1>1 DEF Wedded, TypeOK
<1>3. Wedded => UNCHANGED client_pid
  BY StillOpening DEF Look, OpenTimesOut, MonitorServer, Claim, StorePid, StoreBirth, Connect,
                      Opens, header, Claimed
<1>4. TheClient' = TheClient
  BY <1>2, <1>3 DEF TheClient
<1>5. Phase' = Phase
  BY PhaseFacts, PhaseNext
  DEF Look, OpenTimesOut, MonitorServer, Claim, StorePid, StoreBirth, Connect, header, Phase,
      Terminal
<1>6. TheDead' = TheDead /\ AllHeard' = AllHeard
  BY <1>1 DEF TheDead, AllHeard, Running, Heard
<1>. QED  BY <1>4, <1>5, <1>6 DEF Mapped, Life!vars

\* The second compare_exchange connects the client that has the claim.
LEMMA ConnectMaps ==
  ASSUME IInv, IInv', NEW c \in Clients, Connect(c), state = "ClientClaimed"
  PROVE  Mapped
<1>0. TypeOK /\ {"birth", "connected"} \subseteq Stages
  BY DEF IInv, Stages
<1>1. /\ Running(c) /\ opening[c] = "birth" /\ opening'[c] = "connected"
      /\ state' = "Connected" /\ UNCHANGED <<client_pid, process, result>>
  BY <1>0, OpensEffect DEF Connect
<1>2. Wedded' /\ TheClient' = c
  BY <1>0, <1>1 DEF IInv, Claims, Wedded, TheClient
<1>3. Phase = "open" /\ Phase' = "connected"
  BY <1>1, PhaseFacts, PhaseNext DEF Terminal
<1>4. TheDead' = TheDead /\ AllHeard' = AllHeard /\ c \notin TheDead
  BY <1>1 DEF TheDead, AllHeard, Running, Heard
<1>5. Life!Connect(c)
  BY <1>2, <1>3, <1>4 DEF Life!Connect
<1>. QED  BY <1>5 DEF Mapped, Life!Next

\* A death is a death, and takes what the halves of the process heard.
LEMMA DieMaps ==
  ASSUME IInv, NEW p \in Procs, Die(p)
  PROVE  Mapped
<1>0. TypeOK
  BY DEF IInv
<1>1. PICK how \in DeadAs : process' = [process EXCEPT ![p] = how]
  BY DEF Die
<1>2. Running(p) /\ ~Running(p)' /\ \A q \in Procs : q # p => (Running(q)' <=> Running(q))
  BY <1>0, <1>1, ChannelStateAssumption DEF Die, TypeOK, Running
<1>3. TheDead' = TheDead \cup {p} /\ p \notin TheDead
  BY <1>2 DEF TheDead
<1>4. UNCHANGED <<Phase, TheClient>>
  BY PhaseNext DEF Die, header, TheClient, Wedded
<1>5. AllHeard' = [t \in Threads |-> IF Proc(t) = p THEN "nothing" ELSE AllHeard[t]]
  <2>1. result' = [t \in Threads |-> IF Proc(t) = p THEN "ok" ELSE result[t]]
    BY DEF Die
  <2>2. \A t \in Threads :
          Heard(result[t])' = IF Proc(t) = p THEN "nothing" ELSE Heard(result[t])
    BY <2>1 DEF Heard
  <2>. QED  BY <2>2 DEF AllHeard
<1>6. Life!Die(p)
  BY <1>3, <1>4, <1>5 DEF Life!Die
<1>7. p \in {Server} \cup Clients
  BY ProcOfThread
<1>. QED  BY <1>6, <1>7 DEF Mapped, Life!Next

\* What the server does before there is a client, the clocks, and the file.
LEMMA OthersStutter ==
  ASSUME IInv,
         \/ Create \/ PublishReady \/ ConnectTimeout \/ Cleanup
         \/ \E p \in Procs : ProbeInterval(p)
         \/ UNCHANGED vars
  PROVE  Mapped
<1>1. UNCHANGED <<client_pid, process, opening, result>>
  BY DEF Create, PublishReady, ConnectTimeout, Cleanup, ProbeInterval, vars, header, owner, threads
<1>2. Phase' = Phase
  BY DEF Create, PublishReady, ConnectTimeout, Cleanup, ProbeInterval, vars, header, Phase, Terminal
<1>3. TheClient' = TheClient /\ TheDead' = TheDead /\ AllHeard' = AllHeard
  BY <1>1 DEF TheClient, Wedded, TheDead, AllHeard, Running, Heard
<1>. QED  BY <1>2, <1>3 DEF Mapped, Life!vars

(***************************************************************************)
(* The theorem.                                                            *)
(***************************************************************************)
\* The initial states map to initial states.
LEMMA InitMaps == Init => Life!Init
<1>. SUFFICES ASSUME Init PROVE Life!Init
  OBVIOUS
<1>1. Phase = "open"
  BY PhaseFacts DEF Init, Terminal
<1>2. TheClient = Nobody /\ TheDead = {}
  BY DEF Init, TheClient, Wedded, TheDead, Running
<1>3. AllHeard = [t \in Threads |-> "nothing"]
  BY DEF Init, AllHeard, Heard
<1>. QED  BY <1>1, <1>2, <1>3 DEF Life!Init

\* Every step maps to a step, or to none.
LEMMA StepMaps == IInv /\ IInv' /\ [Next]_vars => [Life!Next]_Life!vars
<1>. SUFFICES ASSUME IInv, IInv', [Next]_vars PROVE Mapped
  BY DEF Mapped
<1>1. CASE Create \/ PublishReady \/ ConnectTimeout \/ Cleanup
  BY <1>1, OthersStutter
<1>2. ASSUME NEW c \in Clients, Open(c) \/ OpenTimesOut(c) PROVE Mapped
  <2>1. CASE Connect(c) /\ state = "ClientClaimed"
    BY <2>1, ConnectMaps
  <2>2. CASE Connect(c) /\ state # "ClientClaimed"
    BY <2>2, OpeningMaps
  <2>3. CASE \/ Look(c) \/ OpenTimesOut(c) \/ MonitorServer(c) \/ Claim(c)
             \/ StorePid(c) \/ StoreBirth(c)
    BY <2>3, OpeningMaps
  <2>. QED  BY <1>2, <2>1, <2>2, <2>3 DEF Open
<1>3. ASSUME NEW t \in Threads, Step(t) PROVE Mapped
  BY <1>3, HalfMaps, RetireMaps, FinishSwapMaps DEF Step
<1>4. ASSUME NEW t \in Threads, Call(t) \/ CallEnds(t) \/ ProbeFails(t) \/ Close(t) \/ Drop(t)
      PROVE  Mapped
  BY <1>4, HalfMaps
<1>5. ASSUME NEW p \in Procs, ProbeInterval(p) \/ Die(p) PROVE Mapped
  BY <1>5, OthersStutter, DieMaps
<1>6. CASE UNCHANGED vars
  BY <1>6, OthersStutter
<1>. QED  BY <1>1, <1>2, <1>3, <1>4, <1>5, <1>6 DEF Next

\* The claim, the two identity words, the compare_exchanges and the probes of
\* header.rs, channel.rs and shared.rs add up to one connection and one end.
THEOREM LifecycleRefinement == Spec => ImplementsLifecycle
BY InitMaps, StepMaps, Invariance, PTL DEF Spec, ImplementsLifecycle, Life!Spec
=============================================================================
