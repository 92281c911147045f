------------------------------ MODULE Lifecycle ------------------------------
(***************************************************************************)
(* What a channel promises about its life, to the halves of two processes: *)
(* one client gets it; it ends once, of one cause; every half that hears   *)
(* of the end hears of that cause; a death is told of the dead only; and   *)
(* who gives up waiting for a client leaves none behind.                   *)
(*                                                                         *)
(* Connecting, ending and hearing of the end are one step each.  Nothing   *)
(* here mentions claims, probes, identities or compare_exchange.           *)
(***************************************************************************)
CONSTANTS
  Server,  \* the process that creates the channel
  Clients, \* the processes that try to open it
  Nobody,  \* no client
  Threads, \* the halves of their connections
  Proc(_)  \* the process of a half

VARIABLES
  phase,   \* open | connected | Closed | PeerDisconnected
  client,  \* the client that got the channel
  dead,    \* the processes that have died
  heard    \* what the last call of each half said: nothing, or an end

vars == <<phase, client, dead, heard>>

Ends == {"Closed", "PeerDisconnected"}

\* The halves that are in use: those of the server and of its client.
Lives(t) == Proc(t) \in {Server, client} \ dead

Hears(t, what) == heard' = [heard EXCEPT ![t] = what]

Init ==
  /\ phase = "open"
  /\ client = Nobody
  /\ dead = {}
  /\ heard = [t \in Threads |-> "nothing"]

Connect(c) ==
  /\ phase = "open"
  /\ c \notin dead
  /\ phase' = "connected"
  /\ client' = c
  /\ UNCHANGED <<dead, heard>>

\* A half closes the channel, or drops it.
Close(t) ==
  /\ phase \notin Ends
  /\ Lives(t)
  /\ phase' = "Closed"
  /\ UNCHANGED <<client, dead, heard>>

\* The server gives up waiting for a client.
GiveUp(t) ==
  /\ phase = "open"
  /\ Lives(t)
  /\ phase' = "Closed"
  /\ Hears(t, "TimedOut")
  /\ UNCHANGED <<client, dead>>

\* A half finds that the other process has died.
FindDeath(t) ==
  /\ phase = "connected"
  /\ Lives(t)
  /\ {Server, client} \cap dead # {}
  /\ phase' = "PeerDisconnected"
  /\ UNCHANGED <<client, dead, heard>>

\* A call ends with the end of the channel, or goes on, or ends otherwise.
HearEnd(t) ==
  /\ phase \in Ends
  /\ Lives(t)
  /\ Hears(t, phase)
  /\ UNCHANGED <<phase, client, dead>>

HearNothing(t) ==
  /\ Lives(t)
  /\ Hears(t, "nothing")
  /\ UNCHANGED <<phase, client, dead>>

Die(p) ==
  /\ p \notin dead
  /\ dead' = dead \cup {p}
  /\ heard' = [t \in Threads |-> IF Proc(t) = p THEN "nothing" ELSE heard[t]]
  /\ UNCHANGED <<phase, client>>

Next ==
  \/ \E c \in Clients : Connect(c)
  \/ \E t \in Threads : Close(t) \/ GiveUp(t) \/ FindDeath(t) \/ HearEnd(t) \/ HearNothing(t)
  \/ \E p \in {Server} \cup Clients : Die(p)

Spec == Init /\ [][Next]_vars
=============================================================================
