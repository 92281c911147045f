---------------------------- MODULE BackingFile ----------------------------
(***************************************************************************)
(* The files behind the channels: who creates one, who opens it, and who   *)
(* removes it.  A file is found, and removed, by its name; a name may be   *)
(* used again when the file of the earlier channel is gone, while          *)
(* processes still hold its mapping.                                       *)
(***************************************************************************)
CONSTANTS
  Names,      \* names of files
  Channels,   \* one for each file that is created
  Procs,      \* processes
  None

VARIABLES
  file,    \* file[n]: the channel whose file has name n, or None
  name,    \* name[ch]: the name ch was created under, or None
  server,  \* server[ch]: the process of its server end, None before it is ready
  client,  \* client[ch]: the process of its client end, or None
  held,    \* held[ch]: the ends whose last half was not dropped
  ended,   \* channels that a server holds and that ended before a client claimed them
  alive    \* processes that run

files == <<file, name, server, client, held, ended, alive>>

FilesInit ==
  /\ file = [n \in Names |-> None]
  /\ name = [ch \in Channels |-> None]
  /\ server = [ch \in Channels |-> None]
  /\ client = [ch \in Channels |-> None]
  /\ held = [ch \in Channels |-> {}]
  /\ ended = {}
  /\ alive = Procs

(***************************************************************************)
(* create_with_config: create_new refuses a name that has a file.          *)
(***************************************************************************)
Create(p, n, ch) ==
  /\ p \in alive
  /\ name[ch] = None
  /\ file[n] = None
  /\ file' = [file EXCEPT ![n] = ch]
  /\ name' = [name EXCEPT ![ch] = n]
  /\ server' = [server EXCEPT ![ch] = p]
  /\ held' = [held EXCEPT ![ch] = {"server"}]
  /\ UNCHANGED <<client, ended, alive>>

\* set_len or the mapping fails: the file stays, without a server.
CreateFails(p, n, ch) ==
  /\ p \in alive
  /\ name[ch] = None
  /\ file[n] = None
  /\ file' = [file EXCEPT ![n] = ch]
  /\ name' = [name EXCEPT ![ch] = n]
  /\ UNCHANGED <<server, client, held, ended, alive>>

(***************************************************************************)
(* close of a channel that no client has claimed, or a check_ready that    *)
(* gives up on one: the state is Closed, the file stays.  (With a client,  *)
(* an end before the drop changes nothing here.)                           *)
(***************************************************************************)
End(ch) ==
  /\ "server" \in held[ch] /\ server[ch] \in alive
  /\ client[ch] = None
  /\ ended' = ended \cup {ch}
  /\ UNCHANGED <<file, name, server, client, held, alive>>

(***************************************************************************)
(* try_open: the file is there, its channel is ServerReady, and the        *)
(* process that made it runs.                                              *)
(***************************************************************************)
CanOpen(n) ==
  /\ file[n] # None
  /\ "server" \in held[file[n]] /\ file[n] \notin ended
  /\ client[file[n]] = None
  /\ server[file[n]] \in alive

Open(p, n) ==
  /\ p \in alive
  /\ CanOpen(n)
  /\ client' = [client EXCEPT ![file[n]] = p]
  /\ held' = [held EXCEPT ![file[n]] = @ \cup {"client"}]
  /\ UNCHANGED <<file, name, server, ended, alive>>

(***************************************************************************)
(* Drop of the last half of one end: the server removes the file, and so   *)
(* does a client that sees the server's process dead.                      *)
(***************************************************************************)
RemoveOnDrop_Always(ch, end) == TRUE

RemoveOnDrop(ch, end) == end = "server" \/ server[ch] \notin alive

Owner(ch, end) == IF end = "server" THEN server[ch] ELSE client[ch]

Drop(ch, end) ==
  /\ end \in held[ch]
  /\ Owner(ch, end) \in alive
  /\ held' = [held EXCEPT ![ch] = @ \ {end}]
  /\ ended' = IF end = "server" THEN ended \ {ch} ELSE ended
  /\ file' = IF RemoveOnDrop(ch, end) THEN [file EXCEPT ![name[ch]] = None] ELSE file
  /\ UNCHANGED <<name, server, client, alive>>

\* Channel::cleanup, only after the participants stopped.
Cleanup(n) ==
  /\ file[n] # None
  /\ \A end \in held[file[n]] : Owner(file[n], end) \notin alive
  /\ file' = [file EXCEPT ![n] = None]
  /\ UNCHANGED <<name, server, client, held, ended, alive>>

\* A process ends without dropping anything.
Exit(p) ==
  /\ p \in alive
  /\ alive' = alive \ {p}
  /\ UNCHANGED <<file, name, server, client, held, ended>>

FilesNext ==
  \/ \E p \in Procs, n \in Names, ch \in Channels : Create(p, n, ch) \/ CreateFails(p, n, ch)
  \/ \E p \in Procs, n \in Names : Open(p, n)
  \/ \E ch \in Channels : End(ch) \/ \E end \in {"server", "client"} : Drop(ch, end)
  \/ \E n \in Names : Cleanup(n)
  \/ \E p \in Procs : Exit(p)

FilesSpec == FilesInit /\ [][FilesNext]_files

FilesTypeOK ==
  /\ file \in [Names -> Channels \cup {None}]
  /\ name \in [Channels -> Names \cup {None}]
  /\ server \in [Channels -> Procs \cup {None}]
  /\ client \in [Channels -> Procs \cup {None}]
  /\ held \in [Channels -> SUBSET {"server", "client"}]
  /\ ended \subseteq Channels
  /\ alive \subseteq Procs

\* A live server still owns its backing file: while it holds its end, the name
\* leads to its channel, whoever drops what in other processes.
\* (Drop for SharedChannel, Drop for BackingFile)
FileKept ==
  \A ch \in Channels :
    "server" \in held[ch] /\ server[ch] \in alive => file[name[ch]] = ch
=============================================================================
