------------------------------ MODULE Listener ------------------------------
(***************************************************************************)
(* Listeners and the clients that connect to them: a socket or a named     *)
(* pipe over which the server sends the name of a channel that it has just *)
(* created, and the channel's backing file.  Sync and tokio, Unix and      *)
(* Windows: the four versions take the same steps in the same order, and   *)
(* differ in how a client reaches a listener, in what a call may lose, and *)
(* in what a failing system call leaves behind.                            *)
(*                                                                         *)
(* A listener is known by its incarnation.  Several may be bound to the    *)
(* one name one after the other, on Unix also at once; server processes    *)
(* and clients may die at any step.                                        *)
(***************************************************************************)
EXTENDS Integers, Sequences, BackingFile

CONSTANTS
  Flavours,     \* versions to start on: subset of {"unix", "windows"} \X {"sync", "tokio"}
  Listeners,    \* incarnations, numbered as they bind
  MaxAccepts,   \* names one listener may give out
  Servers,      \* processes of listeners
  Host,         \* Host[l]: the process that binds l
  Clients,      \* processes that connect, once each, numbered as they do
  Failing       \* versions in which a system call of accept may fail

ASSUME ListenerAssumption ==
  /\ MaxAccepts \in Nat
  /\ Names = Listeners \X (0..(MaxAccepts - 1))
  /\ Procs = Servers \cup Clients
  /\ Listeners \subseteq Nat /\ Clients \subseteq Nat
  /\ Host \in [Listeners -> Servers]
  /\ Servers \cap Clients = {}
  /\ None \notin Listeners \cup Channels \cup Procs \cup Names
  /\ Failing \subseteq Flavours
  /\ Flavours \subseteq {"unix", "windows"} \X {"sync", "tokio"}

VARIABLES
  flavour,
  \* One listener.
  bound,      \* bound[l]: the process that holds l, or None
  past,       \* listeners that were bound
  sock,       \* the listener whose socket has the path, or None (unix)
  published,  \* published[l]: an unconnected pipe instance is there (windows)
  queue,      \* queue[l]: clients that have connected and are not accepted
  counter,    \* counter[l]: the number in its next connection name
  accept,     \* accept[l]: where its call of accept is
  serving,    \* serving[l]: the client whose stream it has, or None
  making,     \* making[l]: the channel of the handshake, or None
  \* One client.
  pc,         \* where connect is
  at,         \* at[c]: the listener at the other end of its stream, or None
  told,       \* told[c]: the name in its stream, None before all of it is there
  hung,       \* hung[c]: the server's end of its stream is closed
  \* History.
  meant,      \* meant[ch]: the client whose stream ch was created for
  returned    \* channels that an accept returned as connections

endpoints == <<flavour, bound, past, sock, published, queue>>
accepting == <<counter, accept, serving, making>>
clients   == <<pc, at, told, hung>>
history   == <<meant, returned>>
vars      == <<files, endpoints, accepting, clients, history>>

Unix  == flavour[1] = "unix"
Tokio == flavour[2] = "tokio"

Init ==
  /\ FilesInit
  /\ flavour \in Flavours
  /\ bound = [l \in Listeners |-> None]
  /\ past = {}
  /\ sock = None
  /\ published = [l \in Listeners |-> FALSE]
  /\ queue = [l \in Listeners |-> <<>>]
  /\ counter = [l \in Listeners |-> 0]
  /\ accept = [l \in Listeners |-> "idle"]
  /\ serving = [l \in Listeners |-> None]
  /\ making = [l \in Listeners |-> None]
  /\ pc = [c \in Clients |-> "idle"]
  /\ at = [c \in Clients |-> None]
  /\ told = [c \in Clients |-> None]
  /\ hung = [c \in Clients |-> FALSE]
  /\ meant = [ch \in Channels |-> None]
  /\ returned = {}

(***************************************************************************)
(* bind and Drop.                                                          *)
(***************************************************************************)
\* A pipe instance that a client can connect to: one at a time, the first in
\* bind by the tokio version and in accept by the sync version.
Publish(l, now) == published' = [published EXCEPT ![l] = ~Unix /\ now]

BindPublishes == Tokio

\* Unix takes the path over; a pipe name has one listener at a time.
Bind(l) ==
  /\ \A m \in Listeners : m < l <=> m \in past
  /\ Host[l] \in alive
  /\ Unix \/ \A m \in Listeners : bound[m] = None
  /\ bound' = [bound EXCEPT ![l] = Host[l]]
  /\ past' = past \cup {l}
  /\ sock' = IF Unix THEN l ELSE sock
  /\ Publish(l, BindPublishes)
  /\ UNCHANGED <<flavour, queue, files, accepting, clients, history>>

\* The backlog of a socket, the client whose pipe a PendingAccept holds.
InQueue(l) == {queue[l][i] : i \in DOMAIN queue[l]}

HangUp(cs) == hung' = [c \in Clients |-> hung[c] \/ c \in cs]

DropListener_LeaksPending(l) ==
  /\ bound[l] \in alive /\ accept[l] = "idle"
  /\ bound' = [bound EXCEPT ![l] = None]
  /\ sock' = IF Unix THEN None ELSE sock
  /\ Publish(l, FALSE)
  /\ queue' = [queue EXCEPT ![l] = <<>>]
  /\ UNCHANGED <<flavour, past, files, accepting, clients, history>>

\* The socket file is removed by its name, the pipe instance is closed (the
\* sync version first connects to it to release its thread).
DropListener(l) ==
  /\ bound[l] \in alive /\ accept[l] = "idle"
  /\ bound' = [bound EXCEPT ![l] = None]
  /\ sock' = IF Unix THEN None ELSE sock
  /\ Publish(l, FALSE)
  /\ HangUp(InQueue(l))
  /\ queue' = [queue EXCEPT ![l] = <<>>]
  /\ UNCHANGED <<flavour, past, files, accepting, pc, at, told, history>>

(***************************************************************************)
(* accept and accept_timeout.                                              *)
(***************************************************************************)
Accepting(l, at_) == bound[l] \in alive /\ accept[l] = at_

\* ensure_pending_accept: a pipe that nobody has taken stays from call to call.
AcceptCall(l) ==
  /\ Accepting(l, "idle")
  /\ accept' = [accept EXCEPT ![l] = "waiting"]
  /\ Publish(l, queue[l] = <<>>)
  /\ UNCHANGED <<flavour, bound, past, sock, queue, files, counter, serving, making,
                 clients, history>>

\* The stream of the first client; on Windows the next instance is published.
Take(l) ==
  /\ Accepting(l, "waiting") /\ queue[l] # <<>>
  /\ serving' = [serving EXCEPT ![l] = Head(queue[l])]
  /\ queue' = [queue EXCEPT ![l] = Tail(@)]
  /\ accept' = [accept EXCEPT ![l] = "create"]
  /\ Publish(l, TRUE)
  /\ UNCHANGED <<flavour, bound, past, sock, files, counter, making, clients, history>>

\* The next instance cannot be created: the sync version drops the client's
\* pipe, the tokio version keeps it for the next call.
PrimeFails(l) ==
  /\ flavour \in Failing /\ ~Unix
  /\ Accepting(l, "waiting") /\ queue[l] # <<>>
  /\ accept' = [accept EXCEPT ![l] = "idle"]
  /\ IF Tokio THEN UNCHANGED <<queue, hung>>
     ELSE /\ HangUp({Head(queue[l])})
          /\ queue' = [queue EXCEPT ![l] = <<>>]
  /\ UNCHANGED <<flavour, bound, past, sock, published, files, counter, serving, making,
                 pc, at, told, history>>

\* The deadline is looked at after a look at the queue; a tokio future may be
\* dropped at any time.
StopWaiting(l) ==
  /\ Accepting(l, "waiting")
  /\ queue[l] = <<>> \/ Tokio
  /\ accept' = [accept EXCEPT ![l] = "idle"]
  /\ UNCHANGED <<endpoints, files, counter, serving, making, clients, history>>

ConnName(l) == <<l, counter[l]>>

\* A channel that was not made yet, whichever.
NewChannel == LET new == {ch \in Channels : name[ch] = None}
              IN  IF new = {} THEN {} ELSE {CHOOSE ch \in new : TRUE}

Abandon_KeepsStream(l) ==
  /\ accept' = [accept EXCEPT ![l] = "idle"]
  /\ making' = [making EXCEPT ![l] = None]
  /\ UNCHANGED <<serving, hung>>

Abandon(l) ==
  /\ accept' = [accept EXCEPT ![l] = "idle"]
  /\ serving' = [serving EXCEPT ![l] = None]
  /\ making' = [making EXCEPT ![l] = None]
  /\ HangUp({serving[l]})

CreateChannel_SameName(l, ch) ==
  /\ Accepting(l, "create") /\ counter[l] < MaxAccepts
  /\ Create(bound[l], ConnName(l), ch)
  /\ meant' = [meant EXCEPT ![ch] = serving[l]]
  /\ making' = [making EXCEPT ![l] = ch]
  /\ accept' = [accept EXCEPT ![l] = "send"]
  /\ UNCHANGED <<endpoints, counter, serving, clients, returned>>

CreateChannel(l, ch) ==
  /\ Accepting(l, "create") /\ counter[l] < MaxAccepts
  /\ Create(bound[l], ConnName(l), ch)
  /\ meant' = [meant EXCEPT ![ch] = serving[l]]
  /\ making' = [making EXCEPT ![l] = ch]
  /\ counter' = [counter EXCEPT ![l] = @ + 1]
  /\ accept' = [accept EXCEPT ![l] = "send"]
  /\ UNCHANGED <<endpoints, serving, clients, returned>>

CreateChannelFails_KeepsNumber(l, ch) ==
  /\ flavour \in Failing
  /\ Accepting(l, "create") /\ counter[l] < MaxAccepts
  /\ CreateFails(bound[l], ConnName(l), ch) \/ UNCHANGED files
  /\ Abandon(l)
  /\ UNCHANGED <<endpoints, counter, pc, at, told, history>>

CreateChannelFails(l, ch) ==
  /\ flavour \in Failing
  /\ Accepting(l, "create") /\ counter[l] < MaxAccepts
  /\ CreateFails(bound[l], ConnName(l), ch) \/ UNCHANGED files
  /\ counter' = [counter EXCEPT ![l] = @ + 1]
  /\ Abandon(l)
  /\ UNCHANGED <<endpoints, pc, at, told, history>>

\* The length and the name are out, accept returns the connection.
SendName(l) ==
  /\ Accepting(l, "send") /\ serving[l] \in alive
  /\ told' = [told EXCEPT ![serving[l]] = name[making[l]]]
  /\ returned' = returned \cup {making[l]}
  /\ Abandon(l)
  /\ UNCHANGED <<endpoints, files, counter, pc, at, meant>>

GiveUpHandshake_KeepsChannel(l) ==
  /\ Accepting(l, "send")
  /\ serving[l] \notin alive \/ Tokio
  /\ Abandon(l)
  /\ UNCHANGED <<endpoints, files, counter, pc, at, told, history>>

\* The client has died, or the tokio future is dropped in a write: stream and
\* channel are dropped.
GiveUpHandshake(l) ==
  /\ Accepting(l, "send")
  /\ serving[l] \notin alive \/ Tokio
  /\ Drop(making[l], "server")
  /\ Abandon(l)
  /\ UNCHANGED <<endpoints, counter, pc, at, told, history>>

(***************************************************************************)
(* connect_to.                                                             *)
(***************************************************************************)
CanReach(l) == IF Unix THEN sock = l /\ bound[l] \in alive ELSE published[l]

At(c, label) == c \in alive /\ pc[c] = label

Goto(c, label) == pc' = [pc EXCEPT ![c] = label]

Connect(c) ==
  /\ At(c, "idle")
  /\ \A d \in Clients : d < c => pc[d] # "idle"
  /\ Goto(c, "connecting")
  /\ UNCHANGED <<files, endpoints, accepting, at, told, hung, history>>

Reach(c, l) ==
  /\ At(c, "connecting") /\ CanReach(l)
  /\ queue' = [queue EXCEPT ![l] = Append(@, c)]
  /\ Publish(l, FALSE)
  /\ at' = [at EXCEPT ![c] = l]
  /\ Goto(c, "reading")
  /\ UNCHANGED <<flavour, bound, past, sock, files, accepting, told, hung, history>>

\* The attempt at connect_timeout fails.
ConnectTimesOut(c) ==
  /\ At(c, "connecting") /\ \A l \in Listeners : ~CanReach(l)
  /\ Goto(c, "failed")
  /\ UNCHANGED <<files, endpoints, accepting, at, told, hung, history>>

\* connect_to does not use its stream after read_conn_name.
CloseStream(c) ==
  /\ at' = [at EXCEPT ![c] = None]
  /\ hung' = [hung EXCEPT ![c] = FALSE]

\* read_conn_name: two reads without a deadline.
Read(c) ==
  /\ At(c, "reading") /\ told[c] # None
  /\ Goto(c, "opening")
  /\ CloseStream(c)
  /\ UNCHANGED <<files, endpoints, accepting, told, history>>

\* The stream ends before the length or in the name.
ReadEof(c) ==
  /\ At(c, "reading") /\ hung[c] /\ told[c] = None
  /\ Goto(c, "failed")
  /\ CloseStream(c)
  /\ UNCHANGED <<files, endpoints, accepting, told, history>>

Forget(c) == told' = [told EXCEPT ![c] = None]

OpenChannel(c) ==
  /\ At(c, "opening")
  /\ Open(c, told[c])
  /\ Goto(c, "open")
  /\ Forget(c)
  /\ UNCHANGED <<endpoints, accepting, at, hung, history>>

\* No such file until connect_timeout, a channel that has ended, or a server
\* that is gone.
OpenFails(c) ==
  /\ At(c, "opening") /\ ~CanOpen(told[c])
  /\ Goto(c, "failed")
  /\ Forget(c)
  /\ UNCHANGED <<files, endpoints, accepting, at, hung, history>>

(***************************************************************************)
(* Connections that are closed or dropped, processes that die.             *)
(***************************************************************************)
EndConnection(ch) ==
  /\ End(ch) /\ ch \in returned
  /\ UNCHANGED <<endpoints, accepting, clients, history>>

DropConnection(ch, end) ==
  /\ Drop(ch, end)
  /\ end = "server" => ch \in returned
  /\ UNCHANGED <<endpoints, accepting, clients, history>>

ServerDies(p) ==
  /\ Exit(p)
  /\ LET own == {l \in Listeners : bound[l] = p}
     IN  /\ HangUp(UNION {InQueue(l) \cup {serving[l]} : l \in own})
         /\ queue' = [l \in Listeners |-> IF l \in own THEN <<>> ELSE queue[l]]
         /\ bound' = [l \in Listeners |-> IF l \in own THEN None ELSE bound[l]]
         /\ published' = [l \in Listeners |-> published[l] /\ l \notin own]
         /\ accept' = [l \in Listeners |-> IF l \in own THEN "idle" ELSE accept[l]]
         /\ serving' = [l \in Listeners |-> IF l \in own THEN None ELSE serving[l]]
         /\ making' = [l \in Listeners |-> IF l \in own THEN None ELSE making[l]]
  /\ UNCHANGED <<flavour, past, sock, counter, pc, at, told, history>>

ClientDies(c) ==
  /\ Exit(c) /\ pc[c] \notin {"idle", "failed"}
  /\ UNCHANGED <<endpoints, accepting, clients, history>>

\* ShmemListener::cleanup removes the socket file, whoever listens.
CleanupSocket ==
  /\ sock # None
  /\ sock' = None
  /\ UNCHANGED <<flavour, bound, past, published, queue, files, accepting, clients, history>>

(***************************************************************************)
(* The specification.                                                      *)
(***************************************************************************)
Handshake(l) ==
  \/ \E ch \in NewChannel : CreateChannel(l, ch) \/ CreateChannelFails(l, ch)
  \/ SendName(l) \/ GiveUpHandshake(l)

ClientStep(c) ==
  \/ \E l \in Listeners : Reach(c, l)
  \/ ConnectTimesOut(c) \/ Read(c) \/ ReadEof(c) \/ OpenChannel(c) \/ OpenFails(c)

Next ==
  \/ \E l \in Listeners :
       \/ Bind(l) \/ DropListener(l) \/ AcceptCall(l) \/ Take(l) \/ PrimeFails(l) \/ StopWaiting(l)
       \/ Handshake(l)
  \/ \E c \in Clients : Connect(c) \/ ClientStep(c) \/ ClientDies(c)
  \/ \E ch \in Channels :
       EndConnection(ch) \/ \E end \in {"server", "client"} : DropConnection(ch, end)
  \/ \E p \in Servers : ServerDies(p)
  \/ CleanupSocket

Spec == Init /\ [][Next]_vars

\* The application accepts again and again until it drops the listener, and
\* leaves an accept the time to take a client that is there; a handshake and a
\* client inside connect go on.
Fairness ==
  /\ \A l \in Listeners : /\ WF_vars(AcceptCall(l)) /\ SF_vars(Take(l))
                          /\ WF_vars(Handshake(l))
  /\ \A c \in Clients : WF_vars(ClientStep(c))

LiveSpec == Spec /\ Fairness

(***************************************************************************)
(* Properties.                                                             *)
(***************************************************************************)
\* Every variable has its shape; an accept has a stream from the moment it
\* takes a client, and a channel from the moment it has made one, until it ends.
TypeOK ==
  /\ FilesTypeOK
  /\ flavour \in Flavours
  /\ bound \in [Listeners -> Servers \cup {None}]
  /\ past \subseteq Listeners
  /\ sock \in Listeners \cup {None}
  /\ published \in [Listeners -> BOOLEAN]
  /\ queue \in [Listeners -> Seq(Clients)]
  /\ counter \in [Listeners -> 0..MaxAccepts]
  /\ accept \in [Listeners -> {"idle", "waiting", "create", "send"}]
  /\ serving \in [Listeners -> Clients \cup {None}]
  /\ making \in [Listeners -> Channels \cup {None}]
  /\ \A l \in Listeners : /\ serving[l] # None <=> accept[l] \in {"create", "send"}
                          /\ making[l] # None <=> accept[l] = "send"
  /\ pc \in [Clients -> {"idle", "connecting", "reading", "opening", "open", "failed"}]
  /\ at \in [Clients -> Listeners \cup {None}]
  /\ told \in [Clients -> Names \cup {None}]
  /\ hung \in [Clients -> BOOLEAN]
  /\ meant \in [Channels -> Clients \cup {None}]
  /\ returned \subseteq Channels

\* A client opens the channel that was created for its own stream, however
\* late it comes: no other accept, of this listener or of a later one, has
\* used the name.  (handshake, listener_incarnation)
OwnChannel == \A ch \in Channels : client[ch] # None => client[ch] = meant[ch]

\* A create that failed when its file was there: nobody removes it.
Orphan(n) == file[n] # None /\ server[file[n]] = None

\* Every file is accounted for, as long as the server's process runs.  It is
\* that of a handshake that goes on, or of a connection that an accept returned
\* and that the application has not dropped: an accept that was cancelled or
\* lost its client leaves no file.  One whose create failed may leave an orphan,
\* which then harms nobody: no client was told its name, and the listener has
\* counted past it, so that no later accept finds it in its way.
\* (handshake, finish_accept, create_with_config)
FilesAccountedFor ==
  \A n \in Names :
    LET ch == file[n] IN
    /\ Orphan(n) => /\ n[2] < counter[n[1]]
                   /\ \A c \in Clients : told[c] # n
    /\ ch # None /\ ~Orphan(n) /\ server[ch] \in alive =>
         /\ "server" \in held[ch]
         /\ ch \in returned \/ \E l \in Listeners : making[l] = ch

\* A call of connect ends: with a channel, or with an error when the listener
\* does not come, is dropped, or dies, whatever becomes of other clients.
\* (connect_to)
ConnectEnds ==
  \A c \in Clients : (pc[c] \notin {"idle", "open", "failed"})
                       ~> (pc[c] \in {"open", "failed"} \/ c \notin alive)

\* "If cancelled, no accepted client is lost": a client is not hung up on
\* while the listener that it reached is still there.  (finish_accept)
NoClientLost ==
  \A c \in alive \cap Clients :
    pc[c] = "reading" /\ hung[c] /\ told[c] = None => bound[at[c]] = None
=============================================================================
