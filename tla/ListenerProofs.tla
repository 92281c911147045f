--------------------------- MODULE ListenerProofs ---------------------------
(***************************************************************************)
(* Proofs about Listener and the files behind it, for any number of        *)
(* listeners, servers, clients and channels, on every flavour, with any    *)
(* system call of accept failing.                                          *)
(*                                                                         *)
(* Everything rests on names: a listener counts, and its incarnation is in *)
(* every name it gives out, so that no name is used twice (NamesDiffer).   *)
(* What a name leads to is then the channel that it was made for, for the  *)
(* accept that makes it (Makes), for the client that was told it (Tells)   *)
(* and for whoever removes the file.                                       *)
(***************************************************************************)
EXTENDS Listener, SequenceTheorems, TLAPS

(***************************************************************************)
(* The inductive invariant.                                                *)
(***************************************************************************)
Untouched(ch) == server[ch] = None /\ client[ch] = None /\ held[ch] = {}

\* A name is one that its listener has counted past, and of one channel.
NamesDiffer ==
  /\ \A ch \in Channels : name[ch] # None => name[ch][2] < counter[name[ch][1]]
  /\ \A ch, dh \in Channels : name[ch] # None /\ name[ch] = name[dh] => ch = dh
  /\ \A ch \in Channels : name[ch] = None => Untouched(ch)
  /\ \A n \in Names : file[n] # None => name[file[n]] = n

\* The channel of a handshake is of the listener's process and for its client.
Makes ==
  /\ \A l \in Listeners : bound[l] # None => l \in past
  /\ \A l \in Listeners : making[l] # None =>
       /\ name[making[l]] # None
       /\ meant[making[l]] = serving[l]
       /\ server[making[l]] = bound[l] /\ bound[l] # None

\* The name in a client's stream is of a channel that was made for it, whole; a
\* client that opens has a name.
Tells ==
  /\ \A c \in Clients : told[c] # None =>
       \E ch \in Channels : name[ch] = told[c] /\ meant[ch] = c /\ server[ch] # None
  /\ \A c \in Clients : pc[c] = "opening" => told[c] # None

\* The file of a live server is that of a handshake that goes on, or of a
\* connection that was returned and is held.
LiveFiles ==
  \A n \in Names :
    LET ch == file[n] IN
    ch # None /\ server[ch] # None /\ server[ch] \in alive =>
      /\ "server" \in held[ch]
      /\ ch \in returned \/ \E l \in Listeners : making[l] = ch

IInv ==
  /\ TypeOK /\ NamesDiffer /\ Makes /\ Tells
  /\ OwnChannel /\ FileKept /\ LiveFiles

(***************************************************************************)
(* Facts about the constants.                                              *)
(***************************************************************************)
\* None is none of them.
LEMMA NoneIsNothing ==
  /\ None \notin Listeners /\ None \notin Channels /\ None \notin Clients /\ None \notin Servers
  /\ None \notin Procs /\ None \notin Names
  /\ Servers \subseteq Procs /\ Clients \subseteq Procs
  /\ \A l \in Listeners : Host[l] \in Servers
  /\ NewChannel \subseteq Channels
BY ListenerAssumption DEF NewChannel

\* A name that is left to a listener.
LEMMA NextName ==
  ASSUME TypeOK, NEW l \in Listeners, counter[l] < MaxAccepts
  PROVE  /\ ConnName(l) \in Names /\ ConnName(l) # None
         /\ ConnName(l)[1] = l /\ ConnName(l)[2] = counter[l]
         /\ counter[l] \in Nat /\ counter[l] + 1 \in 0 .. MaxAccepts
<1>1. counter[l] \in 0 .. MaxAccepts /\ MaxAccepts \in Nat
  BY ListenerAssumption DEF TypeOK
<1>2. counter[l] \in 0 .. (MaxAccepts - 1)
  BY <1>1
<1>3. ConnName(l) \in Names
  BY <1>2, ListenerAssumption DEF ConnName
<1>4. counter[l] \in Nat /\ counter[l] + 1 \in 0 .. MaxAccepts
  BY <1>1
<1>. QED  BY <1>3, <1>4, NoneIsNothing DEF ConnName

\* A name, taken apart.
LEMMA NameParts ==
  ASSUME TypeOK, NEW ch \in Channels, name[ch] # None
  PROVE  /\ name[ch] \in Names
         /\ name[ch][1] \in Listeners /\ name[ch][2] \in Nat
         /\ counter[name[ch][1]] \in Nat
<1>1. name[ch] \in Names
  BY DEF TypeOK, FilesTypeOK
<1>2. name[ch][1] \in Listeners /\ name[ch][2] \in 0 .. (MaxAccepts - 1)
  BY <1>1, ListenerAssumption
<1>3. \A n : n \in 0 .. (MaxAccepts - 1) => n \in Nat
  BY ListenerAssumption
<1>4. counter[name[ch][1]] \in 0 .. MaxAccepts /\ MaxAccepts \in Nat
  BY <1>2, ListenerAssumption DEF TypeOK
<1>. QED  BY <1>1, <1>2, <1>3, <1>4

(***************************************************************************)
(* Types.                                                                  *)
(***************************************************************************)
\* What an Abandon does to the listener and its client.
LEMMA AbandonTypes ==
  ASSUME TypeOK, NEW l \in Listeners, Abandon(l)
  PROVE  /\ accept' \in [Listeners -> {"idle", "waiting", "create", "send"}]
         /\ serving' \in [Listeners -> Clients \cup {None}]
         /\ making' \in [Listeners -> Channels \cup {None}]
         /\ accept'[l] = "idle" /\ serving'[l] = None /\ making'[l] = None
         /\ \A m \in Listeners : m # l =>
              accept'[m] = accept[m] /\ serving'[m] = serving[m] /\ making'[m] = making[m]
         /\ hung' \in [Clients -> BOOLEAN]
BY DEF TypeOK, Abandon, HangUp

\* The steps of a listener that has no client in hand, and of clients.
LEMMA TypesOutside ==
  ASSUME TypeOK,
         \/ \E l \in Listeners : Bind(l) \/ DropListener(l) \/ AcceptCall(l) \/ StopWaiting(l)
         \/ CleanupSocket
  PROVE  TypeOK'
<1>1. ASSUME NEW l \in Listeners, Bind(l) PROVE TypeOK'
  BY <1>1, NoneIsNothing DEF Bind, Publish, TypeOK, FilesTypeOK, files, accepting, clients, history
<1>2. ASSUME NEW l \in Listeners, DropListener(l) PROVE TypeOK'
  <2>1. <<>> \in Seq(Clients)
    OBVIOUS
  <2>2. queue' \in [Listeners -> Seq(Clients)] /\ hung' \in [Clients -> BOOLEAN]
    BY <1>2, <2>1 DEF DropListener, HangUp, TypeOK
  <2>. QED  BY <1>2, <2>2 DEF DropListener, Publish, TypeOK, FilesTypeOK, files, accepting, history
<1>3. ASSUME NEW l \in Listeners, AcceptCall(l) PROVE TypeOK'
  BY <1>3 DEF AcceptCall, Accepting, Publish, TypeOK, FilesTypeOK, files, clients, history
<1>4. ASSUME NEW l \in Listeners, StopWaiting(l) PROVE TypeOK'
  BY <1>4 DEF StopWaiting, Accepting, TypeOK, FilesTypeOK, endpoints, files, clients, history
<1>5. CASE CleanupSocket
  BY <1>5 DEF CleanupSocket, TypeOK, FilesTypeOK, files, accepting, clients, history
<1>. QED  BY <1>1, <1>2, <1>3, <1>4, <1>5

\* A listener takes a client from its queue.
LEMMA TypesTake ==
  ASSUME TypeOK, NEW l \in Listeners, Take(l) \/ PrimeFails(l)
  PROVE  TypeOK'
<1>. queue[l] \in Seq(Clients) /\ queue[l] # <<>>
  BY DEF TypeOK, Take, PrimeFails
<1>0. /\ Head(queue[l]) \in Clients /\ Tail(queue[l]) \in Seq(Clients)
      /\ <<>> \in Seq(Clients)
  BY HeadTailProperties
<1>1. CASE Take(l)
  <2>1. queue' \in [Listeners -> Seq(Clients)]
    BY <1>0, <1>1 DEF Take, TypeOK
  <2>2. /\ serving' \in [Listeners -> Clients \cup {None}]
        /\ accept' \in [Listeners -> {"idle", "waiting", "create", "send"}]
        /\ serving'[l] # None /\ accept'[l] = "create" /\ making[l] = None
        /\ \A m \in Listeners : m # l => serving'[m] = serving[m] /\ accept'[m] = accept[m]
    BY <1>0, <1>1, NoneIsNothing DEF Take, Accepting, TypeOK
  <2>. QED  BY <1>1, <2>1, <2>2 DEF Take, Publish, TypeOK, FilesTypeOK, files, clients, history
<1>2. CASE PrimeFails(l)
  <2>1. queue' \in [Listeners -> Seq(Clients)] /\ hung' \in [Clients -> BOOLEAN]
    <3>1. CASE Tokio
      BY <1>2, <3>1 DEF PrimeFails, TypeOK
    <3>2. CASE ~Tokio
      <4>1. queue' = [queue EXCEPT ![l] = <<>>] /\ HangUp({Head(queue[l])})
        BY <1>2, <3>2 DEF PrimeFails
      <4>2. queue' \in [Listeners -> Seq(Clients)]
        BY <1>0, <4>1 DEF TypeOK
      <4>3. hung' \in [Clients -> BOOLEAN]
        BY <4>1 DEF HangUp, TypeOK
      <4>. QED  BY <4>2, <4>3
    <3>. QED  BY <3>1, <3>2
  <2>. QED  BY <1>2, <2>1 DEF PrimeFails, Accepting, TypeOK, FilesTypeOK, files, history
<1>. QED  BY <1>1, <1>2

\* The handshake.
LEMMA TypesHandshake ==
  ASSUME TypeOK, NEW l \in Listeners, Handshake(l)
  PROVE  TypeOK'
<1>1. ASSUME NEW ch \in Channels, CreateChannel(l, ch) PROVE TypeOK'
  <2>1. /\ ConnName(l) \in Names /\ counter[l] + 1 \in 0 .. MaxAccepts
        /\ bound[l] \in Procs
    BY <1>1, NextName DEF CreateChannel, Accepting, TypeOK, FilesTypeOK
  <2>2. FilesTypeOK'
    BY <1>1, <2>1 DEF CreateChannel, Create, TypeOK, FilesTypeOK
  <2>3. /\ making' \in [Listeners -> Channels \cup {None}] /\ making'[l] = ch /\ ch # None
        /\ accept' \in [Listeners -> {"idle", "waiting", "create", "send"}]
        /\ accept'[l] = "send" /\ serving[l] # None
        /\ \A m \in Listeners : m # l => making'[m] = making[m] /\ accept'[m] = accept[m]
    BY <1>1, NoneIsNothing DEF CreateChannel, Accepting, TypeOK
  <2>4. meant' \in [Channels -> Clients \cup {None}] /\ counter' \in [Listeners -> 0 .. MaxAccepts]
    BY <1>1, <2>1 DEF CreateChannel, TypeOK
  <2>. QED  BY <1>1, <2>2, <2>3, <2>4 DEF CreateChannel, TypeOK, endpoints, clients
<1>2. ASSUME NEW ch \in Channels, CreateChannelFails(l, ch) PROVE TypeOK'
  <2>1. ConnName(l) \in Names /\ counter[l] + 1 \in 0 .. MaxAccepts
    BY <1>2, NextName DEF CreateChannelFails
  <2>2. FilesTypeOK'
    <3>1. CASE CreateFails(bound[l], ConnName(l), ch)
      BY <2>1, <3>1 DEF CreateFails, TypeOK, FilesTypeOK
    <3>2. CASE UNCHANGED files
      BY <3>2 DEF files, TypeOK, FilesTypeOK
    <3>. QED  BY <1>2, <3>1, <3>2 DEF CreateChannelFails
  <2>3. counter' \in [Listeners -> 0 .. MaxAccepts]
    BY <1>2, <2>1 DEF CreateChannelFails, TypeOK
  <2>4. Abandon(l) /\ UNCHANGED <<endpoints, pc, at, told, history>>
    BY <1>2 DEF CreateChannelFails
  <2>. QED  BY <2>2, <2>3, <2>4, AbandonTypes DEF TypeOK, endpoints, history
<1>3. CASE SendName(l)
  <2>1. serving[l] \in Clients /\ making[l] \in Channels
    BY <1>3 DEF SendName, Accepting, TypeOK
  <2>2. told' \in [Clients -> Names \cup {None}] /\ returned' \subseteq Channels
    BY <1>3, <2>1 DEF SendName, TypeOK, FilesTypeOK
  <2>3. Abandon(l) /\ UNCHANGED <<endpoints, files, counter, pc, at, meant>>
    BY <1>3 DEF SendName
  <2>. QED  BY <2>2, <2>3, AbandonTypes DEF TypeOK, FilesTypeOK, endpoints, files
<1>4. CASE GiveUpHandshake(l)
  <2>1. FilesTypeOK'
    BY <1>4 DEF GiveUpHandshake, Drop, TypeOK, FilesTypeOK
  <2>2. Abandon(l) /\ UNCHANGED <<endpoints, counter, pc, at, told, history>>
    BY <1>4 DEF GiveUpHandshake
  <2>. QED  BY <2>1, <2>2, AbandonTypes DEF TypeOK, endpoints, history
<1>. QED  BY <1>1, <1>2, <1>3, <1>4, NoneIsNothing DEF Handshake

\* Clients.
LEMMA TypesClient ==
  ASSUME TypeOK, NEW c \in Clients, Connect(c) \/ ClientStep(c) \/ ClientDies(c)
  PROVE  TypeOK'
<1>1. CASE Connect(c)
  BY <1>1 DEF Connect, Goto, TypeOK, FilesTypeOK, files, endpoints, accepting, history
<1>2. ASSUME NEW l \in Listeners, Reach(c, l) PROVE TypeOK'
  <2>1. Append(queue[l], c) \in Seq(Clients)
    BY AppendProperties DEF TypeOK
  <2>2. queue' \in [Listeners -> Seq(Clients)]
    BY <1>2, <2>1 DEF Reach, TypeOK
  <2>. QED  BY <1>2, <2>2 DEF Reach, Publish, Goto, TypeOK, FilesTypeOK, files, accepting, history
<1>3. CASE ConnectTimesOut(c)
  BY <1>3 DEF ConnectTimesOut, Goto, TypeOK, FilesTypeOK, files, endpoints, accepting, history
<1>4. CASE Read(c) \/ ReadEof(c)
  <2>1. pc' \in [Clients -> {"idle", "connecting", "reading", "opening", "open", "failed"}]
    BY <1>4 DEF Read, ReadEof, Goto, TypeOK
  <2>2. CloseStream(c) /\ UNCHANGED <<files, endpoints, accepting, told, history>>
    BY <1>4 DEF Read, ReadEof
  <2>. QED  BY <2>1, <2>2 DEF CloseStream, TypeOK, FilesTypeOK, files, endpoints, accepting, history
<1>5. CASE OpenChannel(c)
  <2>1. FilesTypeOK'
    BY <1>5, NoneIsNothing DEF OpenChannel, Open, TypeOK, FilesTypeOK
  <2>. QED  BY <1>5, <2>1 DEF OpenChannel, Forget, Goto, TypeOK, endpoints, accepting, history
<1>6. CASE OpenFails(c)
  BY <1>6 DEF OpenFails, Forget, Goto, TypeOK, FilesTypeOK, files, endpoints, accepting, history
<1>7. CASE ClientDies(c)
  BY <1>7 DEF ClientDies, Exit, TypeOK, FilesTypeOK, endpoints, accepting, clients, history
<1>. QED  BY <1>1, <1>2, <1>3, <1>4, <1>5, <1>6, <1>7 DEF ClientStep

\* Connections that are dropped, servers that die.
LEMMA TypesEnds ==
  ASSUME TypeOK,
         \/ \E ch \in Channels : EndConnection(ch)
         \/ \E ch \in Channels, end \in {"server", "client"} : DropConnection(ch, end)
         \/ \E p \in Servers : ServerDies(p)
  PROVE  TypeOK'
<1>1. ASSUME NEW ch \in Channels, NEW end \in {"server", "client"}, DropConnection(ch, end)
      PROVE  TypeOK'
  BY <1>1 DEF DropConnection, Drop, TypeOK, FilesTypeOK, endpoints, accepting, clients, history
<1>2. ASSUME NEW ch \in Channels, EndConnection(ch) PROVE TypeOK'
  BY <1>2 DEF EndConnection, End, TypeOK, FilesTypeOK, endpoints, accepting, clients, history
<1>3. ASSUME NEW p \in Servers, ServerDies(p) PROVE TypeOK'
  <2>. DEFINE own == {l \in Listeners : bound[l] = p}
  <2>1. hung' \in [Clients -> BOOLEAN]
    BY <1>3 DEF ServerDies, HangUp, TypeOK
  <2>2. queue' \in [Listeners -> Seq(Clients)]
    <3>1. /\ <<>> \in Seq(Clients)
          /\ queue' = [l \in Listeners |-> IF l \in own THEN <<>> ELSE queue[l]]
      BY <1>3 DEF ServerDies
    <3>. QED  BY <3>1 DEF TypeOK
  <2>3. /\ bound' \in [Listeners -> Servers \cup {None}] /\ published' \in [Listeners -> BOOLEAN]
        /\ accept' \in [Listeners -> {"idle", "waiting", "create", "send"}]
        /\ serving' \in [Listeners -> Clients \cup {None}]
        /\ making' \in [Listeners -> Channels \cup {None}]
        /\ \A l \in Listeners : /\ serving'[l] # None <=> accept'[l] \in {"create", "send"}
                                /\ making'[l] # None <=> accept'[l] = "send"
    BY <1>3 DEF ServerDies, TypeOK
  <2>4. FilesTypeOK' /\ UNCHANGED <<flavour, past, sock, counter, pc, at, told, history>>
    BY <1>3 DEF ServerDies, Exit, TypeOK, FilesTypeOK
  <2>. QED  BY <2>1, <2>2, <2>3, <2>4 DEF TypeOK, history
<1>. QED  BY <1>1, <1>2, <1>3

\* Every step keeps the shapes.
LEMMA TypeStep == TypeOK /\ [Next]_vars => TypeOK'
<1>. SUFFICES ASSUME TypeOK, [Next]_vars PROVE TypeOK'
  OBVIOUS
<1>1. CASE UNCHANGED vars
  BY <1>1 DEF vars, TypeOK, FilesTypeOK, files, endpoints, accepting, clients, history
<1>. QED  BY <1>1, TypesOutside, TypesTake, TypesHandshake, TypesClient, TypesEnds DEF Next

\* They hold initially.
LEMMA TypeInit == Init => TypeOK
<1>. SUFFICES ASSUME Init PROVE TypeOK
  OBVIOUS
<1>1. FilesTypeOK
  BY DEF Init, FilesInit, FilesTypeOK
<1>2. queue \in [Listeners -> Seq(Clients)] /\ counter \in [Listeners -> 0 .. MaxAccepts]
  BY ListenerAssumption DEF Init
<1>. QED  BY <1>1, <1>2 DEF Init, TypeOK

(***************************************************************************)
(* Steps that make, send, open or remove nothing.                          *)
(***************************************************************************)
\* Names, channels and handshakes stay; somebody may die, or end a handshake
\* whose channel then belongs to the dead.
LEMMA QuietKeeps ==
  ASSUME IInv, TypeOK',
         UNCHANGED <<file, name, server, client, held, counter, meant, returned>>,
         alive' \subseteq alive,
         \A l \in Listeners : making'[l] # None =>
           making'[l] = making[l] /\ serving'[l] = serving[l] /\ bound'[l] = bound[l],
         \A l \in Listeners : making[l] # None /\ making'[l] = None => bound[l] \notin alive',
         \A l \in Listeners : bound'[l] # None => l \in past',
         \A c \in Clients : told'[c] \in {told[c], None},
         \A c \in Clients : pc'[c] = "opening" => told'[c] # None
  PROVE  IInv'
<1>1. NamesDiffer' /\ OwnChannel'
  BY DEF IInv, NamesDiffer, Untouched, OwnChannel
<1>2. Makes'
  BY DEF IInv, Makes
<1>3. Tells'
  BY DEF IInv, Tells
<1>4. FileKept'
  BY DEF IInv, FileKept
<1>5. LiveFiles'
  <2>1. SUFFICES ASSUME NEW n \in Names, file[n] # None, server[file[n]] # None,
                        server[file[n]] \in alive'
                 PROVE  /\ "server" \in held[file[n]]
                        /\ file[n] \in returned \/ \E l \in Listeners : making'[l] = file[n]
    BY DEF LiveFiles
  <2>2. /\ "server" \in held[file[n]]
        /\ file[n] \in returned \/ \E l \in Listeners : making[l] = file[n]
    BY <2>1 DEF IInv, LiveFiles
  <2>3. ASSUME NEW l \in Listeners, making[l] = file[n] PROVE making'[l] = file[n]
    BY <2>1, <2>3 DEF IInv, Makes
  <2>. QED  BY <2>2, <2>3
<1>. QED  BY <1>1, <1>2, <1>3, <1>4, <1>5 DEF IInv

\* Listeners come and go, and wait for clients.
LEMMA StepOutside ==
  ASSUME IInv, TypeOK', NEW l \in Listeners,
         Bind(l) \/ DropListener(l) \/ AcceptCall(l) \/ Take(l) \/ PrimeFails(l) \/ StopWaiting(l)
  PROVE  IInv'
<1>0. TypeOK /\ Makes /\ Tells
  BY DEF IInv
<1>1. UNCHANGED files /\ UNCHANGED <<counter, making, pc, told, history>>
  BY DEF Bind, DropListener, AcceptCall, Take, PrimeFails, StopWaiting, accepting, clients
<1>2. CASE Bind(l)
  <2>1. l \notin past /\ past' = past \cup {l} /\ UNCHANGED serving
    BY <1>2, ListenerAssumption DEF Bind, accepting
  <2>2. making[l] = None
    BY <1>0, <2>1 DEF Makes
  <2>3. \A m \in Listeners : m # l => bound'[m] = bound[m]
    BY <1>0, <1>2 DEF Bind, TypeOK
  <2>. QED  BY <1>0, <1>1, <2>1, <2>2, <2>3, QuietKeeps DEF files, history, Makes, Tells
<1>3. CASE DropListener(l)
  <2>1. making[l] = None /\ UNCHANGED <<past, serving>>
    BY <1>0, <1>3 DEF DropListener, TypeOK, accepting
  <2>2. \A m \in Listeners : bound'[m] = IF m = l THEN None ELSE bound[m]
    BY <1>0, <1>3 DEF DropListener, TypeOK
  <2>. QED  BY <1>0, <1>1, <2>1, <2>2, QuietKeeps DEF files, history, Makes, Tells
<1>4. CASE Take(l)
  <2>1. making[l] = None /\ UNCHANGED <<past, bound>>
    BY <1>0, <1>4 DEF Take, Accepting, TypeOK
  <2>2. \A m \in Listeners : m # l => serving'[m] = serving[m]
    BY <1>0, <1>4 DEF Take, TypeOK
  <2>. QED  BY <1>0, <1>1, <2>1, <2>2, QuietKeeps DEF files, history, Makes, Tells
<1>5. CASE AcceptCall(l) \/ PrimeFails(l) \/ StopWaiting(l)
  <2>1. UNCHANGED <<past, bound, serving>>
    BY <1>5 DEF AcceptCall, PrimeFails, StopWaiting, endpoints
  <2>. QED  BY <1>0, <1>1, <2>1, QuietKeeps DEF files, history, Makes, Tells
<1>. QED  BY <1>2, <1>3, <1>4, <1>5

\* Without its socket file a listener is bound as before.
LEMMA StepCleanupSocket ==
  ASSUME IInv, TypeOK', CleanupSocket
  PROVE  IInv'
BY QuietKeeps DEF CleanupSocket, files, accepting, clients, history, IInv, Makes, Tells

\* A client goes its way up to the open.
LEMMA StepClient ==
  ASSUME IInv, TypeOK', NEW c \in Clients,
         \/ Connect(c) \/ (\E l \in Listeners : Reach(c, l)) \/ ConnectTimesOut(c)
         \/ Read(c) \/ ReadEof(c) \/ OpenFails(c) \/ ClientDies(c)
  PROVE  IInv'
<1>0. TypeOK /\ Makes /\ Tells
  BY DEF IInv
<1>1. /\ UNCHANGED <<file, name, server, client, held, counter, making, serving, bound, past,
                     meant, returned>>
      /\ alive' \subseteq alive
  BY DEF Connect, Reach, ConnectTimesOut, Read, ReadEof, OpenFails, ClientDies, Exit,
     files, endpoints, accepting, history
<1>2. /\ \A d \in Clients : told'[d] \in {told[d], None}
      /\ \A d \in Clients : pc'[d] = "opening" => told'[d] # None
  <2>. /\ told \in [Clients -> Names \cup {None}]
       /\ \A d \in Clients : pc[d] = "opening" => told[d] # None
    BY <1>0 DEF TypeOK, Tells
  <2>. pc \in [Clients -> {"idle", "connecting", "reading", "opening", "open", "failed"}]
    BY <1>0 DEF TypeOK
  <2>1. CASE Connect(c)
    BY <2>1 DEF Connect, Goto
  <2>2. CASE \E l \in Listeners : Reach(c, l)
    BY <2>2 DEF Reach, Goto
  <2>3. CASE ConnectTimesOut(c)
    BY <2>3 DEF ConnectTimesOut, Goto
  <2>4. CASE Read(c)
    BY <2>4 DEF Read, Goto
  <2>5. CASE ReadEof(c)
    BY <2>5 DEF ReadEof, Goto
  <2>6. CASE OpenFails(c)
    BY <2>6 DEF OpenFails, Forget, Goto
  <2>7. CASE ClientDies(c)
    BY <2>7 DEF ClientDies, clients
  <2>. QED  BY <2>1, <2>2, <2>3, <2>4, <2>5, <2>6, <2>7
<1>3. \A l \in Listeners :
        /\ making'[l] = making[l] /\ serving'[l] = serving[l] /\ bound'[l] = bound[l]
        /\ bound'[l] # None => l \in past'
  BY <1>0, <1>1 DEF Makes
<1>4. \A l \in Listeners : making'[l] # None =>
         making'[l] = making[l] /\ serving'[l] = serving[l] /\ bound'[l] = bound[l]
  BY <1>3
<1>5. \A l \in Listeners : making[l] # None /\ making'[l] = None => bound[l] \notin alive'
  BY <1>3
<1>6. \A l \in Listeners : bound'[l] # None => l \in past'
  BY <1>3
<1>. QED  BY <1>1, <1>2, <1>4, <1>5, <1>6, QuietKeeps

\* A server dies, with its listeners and their handshakes.
LEMMA StepServerDies ==
  ASSUME IInv, TypeOK', NEW p \in Servers, ServerDies(p)
  PROVE  IInv'
<1>0. TypeOK /\ Makes /\ Tells
  BY DEF IInv
<1>1. /\ UNCHANGED <<file, name, server, client, held, past, counter, pc, told, history>>
      /\ alive' = alive \ {p}
  BY DEF ServerDies, Exit
<1>2. \A l \in Listeners :
        /\ bound[l] = p => making'[l] = None /\ bound'[l] = None
        /\ bound[l] # p =>
             making'[l] = making[l] /\ serving'[l] = serving[l] /\ bound'[l] = bound[l]
  BY DEF ServerDies
<1>. QED  BY <1>0, <1>1, <1>2, QuietKeeps DEF history, Makes, Tells

(***************************************************************************)
(* Steps of files.                                                         *)
(***************************************************************************)
\* A name that no channel has.
LEMMA FreshName ==
  ASSUME IInv, NEW l \in Listeners, counter[l] < MaxAccepts
  PROVE  /\ \A ch \in Channels : name[ch] # ConnName(l)
         /\ \A c \in Clients : told[c] # ConnName(l)
<1>1. ASSUME NEW ch \in Channels PROVE name[ch] # ConnName(l)
  <2>1. CASE name[ch] = None
    BY <2>1, NextName DEF IInv
  <2>2. CASE name[ch] # None
    <3>1. name[ch][2] < counter[name[ch][1]] /\ name[ch][2] \in Nat
      BY <2>2, NameParts DEF IInv, NamesDiffer
    <3>2. ConnName(l)[1] = l /\ ConnName(l)[2] = counter[l] /\ counter[l] \in Nat
      BY NextName DEF IInv
    <3>. QED  BY <3>1, <3>2
  <2>. QED  BY <2>1, <2>2
<1>2. ASSUME NEW c \in Clients PROVE told[c] # ConnName(l)
  BY <1>1, NextName DEF IInv, Tells
<1>. QED  BY <1>1, <1>2

\* The file under a name that ch has is that of ch, or there is none.
LEMMA OwnName ==
  ASSUME IInv, NEW ch \in Channels, name[ch] # None
  PROVE  name[ch] \in Names /\ file[name[ch]] \in {ch, None}
<1>1. name[ch] \in Names /\ file[name[ch]] \in Channels \cup {None}
  BY DEF IInv, TypeOK, FilesTypeOK
<1>. QED  BY <1>1 DEF IInv, NamesDiffer

\* The counter of l goes on, and a channel gets its name.
LEMMA NamingKeeps ==
  ASSUME IInv, TypeOK', NEW l \in Listeners, NEW ch \in Channels,
         counter[l] < MaxAccepts, name[ch] = None,
         name' = [name EXCEPT ![ch] = ConnName(l)],
         file' = [file EXCEPT ![ConnName(l)] = ch],
         counter' = [counter EXCEPT ![l] = @ + 1],
         \A dh \in Channels : dh # ch => UNCHANGED <<server[dh], client[dh], held[dh]>>
  PROVE  NamesDiffer'
<1>0. TypeOK /\ NamesDiffer
  BY DEF IInv
<1>1. /\ ConnName(l) \in Names /\ ConnName(l) # None
      /\ ConnName(l)[1] = l /\ ConnName(l)[2] = counter[l] /\ counter[l] \in Nat
  BY <1>0, NextName
<1>2. /\ name'[ch] = ConnName(l) /\ \A dh \in Channels : dh # ch => name'[dh] = name[dh]
      /\ file'[ConnName(l)] = ch /\ \A n \in Names : n # ConnName(l) => file'[n] = file[n]
      /\ \A m \in Listeners : counter'[m] = IF m = l THEN counter[l] + 1 ELSE counter[m]
  BY <1>0, <1>1 DEF TypeOK, FilesTypeOK
<1>3. ASSUME NEW dh \in Channels, name'[dh] # None PROVE name'[dh][2] < counter'[name'[dh][1]]
  <2>1. CASE dh = ch
    BY <1>1, <1>2, <2>1
  <2>2. CASE dh # ch
    <3>1. /\ name'[dh] = name[dh] /\ name[dh][1] \in Listeners /\ name[dh][2] \in Nat
          /\ counter[name[dh][1]] \in Nat /\ name[dh][2] < counter[name[dh][1]]
      BY <1>0, <1>2, <1>3, <2>2, NameParts DEF NamesDiffer
    <3>. QED  BY <1>1, <1>2, <3>1
  <2>. QED  BY <2>1, <2>2
<1>4. \A dh \in Channels : name[dh] # ConnName(l)
  BY FreshName
<1>5. \A dh, eh \in Channels : name'[dh] # None /\ name'[dh] = name'[eh] => dh = eh
  BY <1>0, <1>2, <1>4 DEF NamesDiffer
<1>6. \A dh \in Channels : name'[dh] = None => Untouched(dh)'
  BY <1>0, <1>1, <1>2 DEF NamesDiffer, Untouched
<1>7. \A n \in Names : file'[n] # None => name'[file'[n]] = n
  <2>1. \A n \in Names : file[n] # None => file[n] \in Channels /\ file[n] # ch
    BY <1>0, NoneIsNothing DEF TypeOK, FilesTypeOK, NamesDiffer
  <2>. QED  BY <1>0, <1>2, <2>1 DEF NamesDiffer
<1>. QED  BY <1>3, <1>5, <1>6, <1>7 DEF NamesDiffer

\* The handshake creates a channel for its client.
LEMMA StepCreateChannel ==
  ASSUME IInv, TypeOK', NEW l \in Listeners, NEW ch \in Channels, CreateChannel(l, ch)
  PROVE  IInv'
<1>0. /\ TypeOK /\ NamesDiffer /\ Makes /\ Tells /\ OwnChannel /\ FileKept /\ LiveFiles
  BY DEF IInv
<1>1. /\ counter[l] < MaxAccepts /\ bound[l] \in alive /\ name[ch] = None
      /\ ConnName(l) \in Names /\ ConnName(l) # None
      /\ file[ConnName(l)] = None
  BY <1>0, NextName DEF CreateChannel, Accepting, Create
<1>2. /\ file' = [file EXCEPT ![ConnName(l)] = ch] /\ name' = [name EXCEPT ![ch] = ConnName(l)]
      /\ server' = [server EXCEPT ![ch] = bound[l]] /\ held' = [held EXCEPT ![ch] = {"server"}]
      /\ counter' = [counter EXCEPT ![l] = @ + 1]
      /\ meant' = [meant EXCEPT ![ch] = serving[l]] /\ making' = [making EXCEPT ![l] = ch]
      /\ UNCHANGED <<client, alive, serving, bound, past, pc, told, returned>>
  BY DEF CreateChannel, Create, endpoints, clients
<1>3. /\ name'[ch] = ConnName(l) /\ server'[ch] = bound[l] /\ held'[ch] = {"server"}
      /\ meant'[ch] = serving[l]
      /\ \A dh \in Channels : dh # ch =>
           UNCHANGED <<name[dh], server[dh], held[dh], meant[dh]>>
      /\ file'[ConnName(l)] = ch /\ \A n \in Names : n # ConnName(l) => file'[n] = file[n]
      /\ making'[l] = ch /\ \A m \in Listeners : m # l => making'[m] = making[m]
  BY <1>0, <1>1, <1>2 DEF TypeOK, FilesTypeOK
<1>4. NamesDiffer'
  BY <1>1, <1>2, <1>3, NamingKeeps
<1>5. client[ch] = None /\ bound[l] # None
  BY <1>0, <1>1, NoneIsNothing DEF NamesDiffer, Untouched, TypeOK, FilesTypeOK
<1>6. Makes'
  <2>1. \A m \in Listeners : making[m] # None => making[m] \in Channels /\ making[m] # ch
    BY <1>0, <1>1 DEF Makes, TypeOK
  <2>. QED  BY <1>0, <1>1, <1>2, <1>3, <1>5, <2>1 DEF Makes
<1>7. Tells'
  <2>1. ASSUME NEW c \in Clients, told'[c] # None
        PROVE  \E dh \in Channels :
                 name'[dh] = told'[c] /\ meant'[dh] = c /\ server'[dh] # None
    <3>1. PICK dh \in Channels : name[dh] = told[c] /\ meant[dh] = c /\ server[dh] # None
      BY <1>0, <1>2, <2>1 DEF Tells
    <3>2. dh # ch
      BY <1>1, <1>2, <2>1, <3>1
    <3>. QED  BY <1>2, <1>3, <3>1, <3>2
  <2>. QED  BY <1>0, <1>2, <2>1 DEF Tells
<1>8. OwnChannel'
  BY <1>0, <1>2, <1>3, <1>5 DEF OwnChannel
<1>9. FileKept'
  <2>1. ASSUME NEW dh \in Channels, dh # ch, "server" \in held[dh], server[dh] \in alive
        PROVE  file'[name[dh]] = dh
    <3>1. file[name[dh]] = dh
      BY <1>0, <2>1 DEF FileKept
    <3>2. name[dh] # None
      BY <1>0, <2>1 DEF NamesDiffer, Untouched
    <3>3. name[dh] \in Names /\ name[dh] # ConnName(l)
      BY <1>0, <1>1, <3>2, FreshName DEF TypeOK, FilesTypeOK
    <3>. QED  BY <1>3, <3>1, <3>3
  <2>. QED  BY <1>2, <1>3, <2>1 DEF FileKept
<1>10. LiveFiles'
  <2>1. ASSUME NEW n \in Names, n # ConnName(l), file[n] # None, server'[file[n]] # None,
               server'[file[n]] \in alive
        PROVE  /\ "server" \in held'[file[n]]
               /\ file[n] \in returned \/ \E m \in Listeners : making'[m] = file[n]
    <3>1. file[n] \in Channels /\ file[n] # ch
      BY <1>0, <1>1, <2>1, NoneIsNothing DEF TypeOK, FilesTypeOK, NamesDiffer
    <3>2. /\ "server" \in held[file[n]]
          /\ file[n] \in returned \/ \E m \in Listeners : making[m] = file[n]
      BY <1>0, <1>3, <2>1, <3>1 DEF LiveFiles
    <3>3. making[l] = None
      BY <1>0 DEF CreateChannel, Accepting, TypeOK
    <3>4. \A m \in Listeners : making[m] = file[n] => making'[m] = file[n]
      BY <1>3, <2>1, <3>3
    <3>. QED  BY <1>3, <3>1, <3>2, <3>4
  <2>. QED  BY <1>2, <1>3, <2>1 DEF LiveFiles
<1>. QED  BY <1>4, <1>6, <1>7, <1>8, <1>9, <1>10 DEF IInv

\* A create that failed leaves at most a file without a server.
LEMMA StepCreateChannelFails ==
  ASSUME IInv, TypeOK', NEW l \in Listeners, NEW ch \in Channels, CreateChannelFails(l, ch)
  PROVE  IInv'
<1>0. /\ TypeOK /\ NamesDiffer /\ Makes /\ Tells /\ OwnChannel /\ FileKept /\ LiveFiles
  BY DEF IInv
<1>1. /\ counter[l] < MaxAccepts /\ ConnName(l) \in Names /\ ConnName(l) # None
      /\ counter' = [counter EXCEPT ![l] = @ + 1]
      /\ UNCHANGED <<bound, past, pc, told, meant, returned>>
      /\ making[l] = None /\ Abandon(l)
  BY <1>0, NextName DEF CreateChannelFails, Accepting, TypeOK, endpoints, history
<1>2. /\ making' = making
      /\ \A m \in Listeners : making[m] # None => serving'[m] = serving[m]
  <2>1. making' = [making EXCEPT ![l] = None] /\ serving' = [serving EXCEPT ![l] = None]
    BY <1>1 DEF Abandon
  <2>. QED  BY <1>0, <1>1, <2>1 DEF TypeOK
<1>3. CASE UNCHANGED files
  <2>1. NamesDiffer'
    <3>1. ASSUME NEW dh \in Channels, name[dh] # None PROVE name[dh][2] < counter'[name[dh][1]]
      <4>1. /\ name[dh][1] \in Listeners /\ name[dh][2] \in Nat
            /\ counter[name[dh][1]] \in Nat /\ name[dh][2] < counter[name[dh][1]]
        BY <1>0, <3>1, NameParts DEF NamesDiffer
      <4>2. \A m \in Listeners : counter'[m] = IF m = l THEN counter[l] + 1 ELSE counter[m]
        BY <1>0, <1>1 DEF TypeOK
      <4>. QED  BY <4>1, <4>2
    <3>. QED  BY <1>0, <1>3, <3>1 DEF NamesDiffer, Untouched, files
  <2>2. Makes' /\ Tells'
    BY <1>0, <1>1, <1>2, <1>3 DEF Makes, Tells, files
  <2>3. OwnChannel' /\ FileKept' /\ LiveFiles'
    BY <1>0, <1>1, <1>2, <1>3 DEF OwnChannel, FileKept, LiveFiles, files
  <2>. QED  BY <2>1, <2>2, <2>3 DEF IInv
<1>4. CASE CreateFails(bound[l], ConnName(l), ch)
  <2>1. /\ name[ch] = None
        /\ file' = [file EXCEPT ![ConnName(l)] = ch] /\ name' = [name EXCEPT ![ch] = ConnName(l)]
        /\ UNCHANGED <<server, client, held, alive>>
    BY <1>4 DEF CreateFails
  <2>2. /\ name'[ch] = ConnName(l) /\ \A dh \in Channels : dh # ch => name'[dh] = name[dh]
        /\ file'[ConnName(l)] = ch /\ \A n \in Names : n # ConnName(l) => file'[n] = file[n]
        /\ Untouched(ch)
    BY <1>0, <1>1, <2>1 DEF TypeOK, FilesTypeOK, NamesDiffer
  <2>3. NamesDiffer'
    BY <1>1, <2>1, NamingKeeps
  <2>4. Makes'
    BY <1>0, <1>1, <1>2, <2>1, <2>2 DEF Makes, TypeOK
  <2>5. Tells'
    <3>1. ASSUME NEW c \in Clients, told[c] # None
          PROVE  \E dh \in Channels : name'[dh] = told[c] /\ meant[dh] = c /\ server[dh] # None
      <4>1. PICK dh \in Channels : name[dh] = told[c] /\ meant[dh] = c /\ server[dh] # None
        BY <1>0, <3>1 DEF Tells
      <4>. QED  BY <2>1, <2>2, <3>1, <4>1
    <3>. QED  BY <1>0, <1>1, <2>1, <3>1 DEF Tells
  <2>6. OwnChannel'
    BY <1>0, <1>1, <2>1 DEF OwnChannel
  <2>7. FileKept'
    <3>1. ASSUME NEW dh \in Channels, "server" \in held[dh], server[dh] \in alive
          PROVE  file'[name'[dh]] = dh
      <4>1. file[name[dh]] = dh /\ name[dh] # None /\ dh # ch
        BY <1>0, <2>2, <3>1 DEF FileKept, NamesDiffer, Untouched
      <4>2. name[dh] \in Names /\ name[dh] # ConnName(l)
        BY <1>0, <1>1, <4>1, FreshName DEF TypeOK, FilesTypeOK
      <4>. QED  BY <2>2, <4>1, <4>2
    <3>. QED  BY <2>1, <3>1 DEF FileKept
  <2>8. LiveFiles'
    BY <1>0, <1>1, <1>2, <2>1, <2>2 DEF LiveFiles, Untouched
  <2>. QED  BY <2>3, <2>4, <2>5, <2>6, <2>7, <2>8 DEF IInv
<1>. QED  BY <1>3, <1>4 DEF CreateChannelFails

\* The client is told the name of the channel that was made for it.
LEMMA StepSendName ==
  ASSUME IInv, TypeOK', NEW l \in Listeners, SendName(l)
  PROVE  IInv'
<1>0. /\ TypeOK /\ NamesDiffer /\ Makes /\ Tells /\ OwnChannel /\ FileKept /\ LiveFiles
  BY DEF IInv
<1>1. /\ making[l] # None /\ making[l] \in Channels /\ serving[l] \in Clients
      /\ told' = [told EXCEPT ![serving[l]] = name[making[l]]]
      /\ returned' = returned \cup {making[l]}
      /\ UNCHANGED files /\ UNCHANGED <<counter, bound, past, pc, meant>>
      /\ Abandon(l)
  BY <1>0 DEF SendName, Accepting, TypeOK, endpoints
<1>2. \A m \in Listeners :
        /\ m # l => making'[m] = making[m] /\ serving'[m] = serving[m]
        /\ m = l => making'[m] = None
  BY <1>0, <1>1, AbandonTypes
<1>3. NamesDiffer' /\ OwnChannel' /\ FileKept'
  BY <1>0, <1>1 DEF NamesDiffer, Untouched, OwnChannel, FileKept, files
<1>4. Makes'
  BY <1>0, <1>1, <1>2 DEF Makes, files
<1>5. Tells'
  <2>1. /\ name[making[l]] # None /\ meant[making[l]] = serving[l]
        /\ server[making[l]] # None
    BY <1>0, <1>1 DEF Makes
  <2>2. \A c \in Clients : told'[c] = IF c = serving[l] THEN name[making[l]] ELSE told[c]
    BY <1>0, <1>1 DEF TypeOK
  <2>. QED  BY <1>0, <1>1, <2>1, <2>2 DEF Tells, files
<1>6. LiveFiles'
  BY <1>0, <1>1, <1>2 DEF LiveFiles, files
<1>. QED  BY <1>3, <1>4, <1>5, <1>6 DEF IInv

\* One end of a channel is dropped; nobody else's file is removed.  Only a
\* server end that is dropped may leave the hands of its accept.
LEMMA DropKeeps ==
  ASSUME IInv, TypeOK', NEW ch \in Channels, NEW end \in {"server", "client"}, Drop(ch, end),
         UNCHANGED <<counter, bound, past, pc, told, meant, returned>>,
         \A l \in Listeners :
           \/ making'[l] = making[l] /\ serving'[l] = serving[l]
           \/ making'[l] = None /\ making[l] = ch /\ end = "server"
  PROVE  IInv'
<1>0. /\ TypeOK /\ NamesDiffer /\ Makes /\ Tells /\ OwnChannel /\ FileKept /\ LiveFiles
  BY DEF IInv
<1>1. /\ held' = [held EXCEPT ![ch] = @ \ {end}]
      /\ UNCHANGED <<name, server, client, alive>>
      /\ file' = IF RemoveOnDrop(ch, end) THEN [file EXCEPT ![name[ch]] = None] ELSE file
  BY DEF Drop
<1>2. name[ch] # None
  BY <1>0 DEF Drop, NamesDiffer, Untouched
<1>3. name[ch] \in Names /\ file[name[ch]] \in {ch, None}
  BY <1>2, OwnName
<1>4. /\ RemoveOnDrop(ch, end) => file'[name[ch]] = None
      /\ \A n \in Names :
           file'[n] = file[n] \/ (RemoveOnDrop(ch, end) /\ n = name[ch] /\ file'[n] = None)
      /\ \A dh \in Channels : dh # ch => held'[dh] = held[dh]
      /\ held'[ch] = held[ch] \ {end}
  BY <1>0, <1>1, <1>3 DEF TypeOK, FilesTypeOK
<1>5. NamesDiffer'
  BY <1>0, <1>1, <1>2, <1>4 DEF NamesDiffer, Untouched
<1>6. Makes' /\ Tells' /\ OwnChannel'
  BY <1>0, <1>1 DEF Makes, Tells, OwnChannel
<1>7. FileKept'
  <2>1. SUFFICES ASSUME NEW dh \in Channels, "server" \in held'[dh], server[dh] \in alive
                 PROVE  file'[name[dh]] = dh
    BY <1>1 DEF FileKept
  <2>2. "server" \in held[dh] /\ file[name[dh]] = dh /\ name[dh] # None
    BY <1>0, <1>4, <2>1 DEF FileKept, NamesDiffer, Untouched
  <2>3. dh = ch => ~RemoveOnDrop(ch, end)
    BY <1>4, <2>1 DEF RemoveOnDrop
  <2>4. dh # ch => name[dh] # name[ch]
    BY <1>0, <2>2 DEF NamesDiffer
  <2>5. name[dh] \in Names
    BY <1>0, <2>2 DEF TypeOK, FilesTypeOK
  <2>. QED  BY <1>4, <2>2, <2>3, <2>4, <2>5
<1>8. LiveFiles'
  <2>1. SUFFICES ASSUME NEW n \in Names, file'[n] # None, server[file'[n]] # None,
                        server[file'[n]] \in alive
                 PROVE  /\ "server" \in held'[file'[n]]
                        /\ file'[n] \in returned \/ \E l \in Listeners : making'[l] = file'[n]
    BY <1>1 DEF LiveFiles
  <2>2. file'[n] = file[n] /\ file[n] \in Channels /\ name[file[n]] = n
    BY <1>0, <1>4, <2>1 DEF TypeOK, FilesTypeOK, NamesDiffer
  <2>3. /\ "server" \in held[file[n]]
        /\ file[n] \in returned \/ \E l \in Listeners : making[l] = file[n]
    BY <1>0, <2>1, <2>2 DEF LiveFiles
  <2>4. end = "server" => file[n] # ch
    BY <1>4, <2>1, <2>2 DEF RemoveOnDrop
  <2>5. "server" \in held'[file[n]]
    BY <1>4, <2>2, <2>3, <2>4
  <2>6. \A l \in Listeners : making[l] = file[n] => making'[l] = file[n]
    BY <2>4
  <2>. QED  BY <2>2, <2>3, <2>5, <2>6
<1>. QED  BY <1>5, <1>6, <1>7, <1>8 DEF IInv

\* A handshake that is given up drops its channel.
LEMMA StepGiveUpHandshake ==
  ASSUME IInv, TypeOK', NEW l \in Listeners, GiveUpHandshake(l)
  PROVE  IInv'
<1>1. /\ TypeOK /\ making[l] \in Channels /\ Drop(making[l], "server") /\ Abandon(l)
      /\ UNCHANGED <<counter, bound, past, pc, told, meant, returned>>
  BY DEF GiveUpHandshake, Accepting, IInv, TypeOK, endpoints, history
<1>2. \A m \in Listeners :
        /\ m # l => making'[m] = making[m] /\ serving'[m] = serving[m]
        /\ m = l => making'[m] = None
  BY <1>1, AbandonTypes
<1>. QED  BY <1>1, <1>2, DropKeeps

\* A connection that is dropped was returned by an accept or opened by a client.
LEMMA StepDropConnection ==
  ASSUME IInv, TypeOK', NEW ch \in Channels, NEW end \in {"server", "client"},
         DropConnection(ch, end)
  PROVE  IInv'
BY DropKeeps DEF DropConnection, endpoints, accepting, clients, history

\* A channel that ends before a client comes keeps its file.
LEMMA StepEndConnection ==
  ASSUME IInv, TypeOK', NEW ch \in Channels, EndConnection(ch)
  PROVE  IInv'
BY QuietKeeps DEF EndConnection, End, endpoints, accepting, clients, history, IInv, Makes, Tells

\* A client opens the file under the name that it was told.
LEMMA StepOpenChannel ==
  ASSUME IInv, TypeOK', NEW c \in Clients, OpenChannel(c)
  PROVE  IInv'
<1>0. /\ TypeOK /\ NamesDiffer /\ Makes /\ Tells /\ OwnChannel /\ FileKept /\ LiveFiles
  BY DEF IInv
<1>. DEFINE ch == file[told[c]]
<1>1. /\ ch # None /\ client' = [client EXCEPT ![ch] = c]
      /\ held' = [held EXCEPT ![ch] = @ \cup {"client"}]
      /\ UNCHANGED <<file, name, server, alive, bound, past, counter, making, serving, meant,
                     returned>>
      /\ told' = [told EXCEPT ![c] = None] /\ pc[c] = "opening" /\ pc' = [pc EXCEPT ![c] = "open"]
  BY DEF OpenChannel, Open, CanOpen, At, Forget, Goto, endpoints, accepting, history
<1>2. told[c] \in Names
  BY <1>0, <1>1 DEF Tells, TypeOK
<1>3. ch \in Channels /\ name[ch] = told[c] /\ name[ch] # None
  BY <1>0, <1>1, <1>2, NoneIsNothing DEF TypeOK, FilesTypeOK, NamesDiffer
<1>4. meant[ch] = c
  BY <1>0, <1>2, <1>3, NoneIsNothing DEF Tells, NamesDiffer
<1>5. /\ client'[ch] = c /\ held'[ch] = held[ch] \cup {"client"}
      /\ \A dh \in Channels : dh # ch => client'[dh] = client[dh] /\ held'[dh] = held[dh]
  BY <1>0, <1>1, <1>3 DEF TypeOK, FilesTypeOK
<1>6. NamesDiffer'
  BY <1>0, <1>1, <1>3, <1>5 DEF NamesDiffer, Untouched
<1>7. Tells'
  <2>1. /\ \A d \in Clients : told'[d] = IF d = c THEN None ELSE told[d]
        /\ \A d \in Clients : pc'[d] = IF d = c THEN "open" ELSE pc[d]
    BY <1>0, <1>1 DEF TypeOK
  <2>. QED  BY <1>0, <1>1, <2>1 DEF Tells
<1>10. Makes'
  BY <1>0, <1>1 DEF Makes
<1>8. OwnChannel'
  BY <1>0, <1>1, <1>4, <1>5 DEF OwnChannel
<1>9. FileKept' /\ LiveFiles'
  <2>1. \A dh \in Channels : "server" \in held'[dh] <=> "server" \in held[dh]
    BY <1>5
  <2>2. FileKept'
    BY <1>0, <1>1, <2>1 DEF FileKept
  <2>3. \A n \in Names : file[n] # None => file[n] \in Channels
    BY <1>0 DEF TypeOK, FilesTypeOK
  <2>4. LiveFiles'
    BY <1>0, <1>1, <2>1, <2>3 DEF LiveFiles
  <2>. QED  BY <2>2, <2>4
<1>. QED  BY <1>6, <1>7, <1>8, <1>9, <1>10 DEF IInv

(***************************************************************************)
(* The theorems.                                                           *)
(***************************************************************************)
\* A name that a client was told is of a channel that was created whole, and a
\* name that has a file is one that its listener has counted past.
LEMMA OrphansAreHarmless ==
  ASSUME IInv, NEW n \in Names, Orphan(n)
  PROVE  n[2] < counter[n[1]] /\ \A c \in Clients : told[c] # n
<1>0. TypeOK /\ NamesDiffer /\ Tells
  BY DEF IInv
<1>1. file[n] \in Channels /\ name[file[n]] = n /\ n # None /\ server[file[n]] = None
  BY <1>0, NoneIsNothing DEF Orphan, TypeOK, FilesTypeOK, NamesDiffer
<1>2. n[2] < counter[n[1]]
  BY <1>0, <1>1 DEF NamesDiffer
<1>3. ASSUME NEW c \in Clients, told[c] = n PROVE FALSE
  <2>1. PICK ch \in Channels : name[ch] = n /\ server[ch] # None
    BY <1>0, <1>1, <1>3 DEF Tells
  <2>2. ch = file[n]
    BY <1>0, <1>1, <2>1 DEF NamesDiffer
  <2>. QED  BY <1>1, <2>1, <2>2
<1>. QED  BY <1>2, <1>3

\* The invariant holds initially.
LEMMA InvInit == Init => IInv
<1>. SUFFICES ASSUME Init PROVE IInv
  OBVIOUS
<1>1. /\ \A n \in Names : file[n] = None
      /\ \A ch \in Channels : name[ch] = None /\ Untouched(ch)
      /\ \A l \in Listeners : bound[l] = None /\ making[l] = None
      /\ \A c \in Clients : told[c] = None /\ pc[c] = "idle"
  BY DEF Init, FilesInit, Untouched
<1>2. NamesDiffer /\ Makes /\ Tells
  BY <1>1 DEF NamesDiffer, Makes, Tells
<1>3. OwnChannel /\ FileKept /\ LiveFiles
  BY <1>1 DEF OwnChannel, FileKept, LiveFiles, Untouched
<1>. QED  BY <1>2, <1>3, TypeInit DEF IInv

\* Every step keeps it.
LEMMA InvStep == IInv /\ [Next]_vars => IInv'
<1>. SUFFICES ASSUME IInv, [Next]_vars PROVE IInv'
  OBVIOUS
<1>0. TypeOK'
  BY TypeStep DEF IInv
<1>1. ASSUME NEW l \in Listeners,
             \/ Bind(l) \/ DropListener(l) \/ AcceptCall(l) \/ Take(l) \/ PrimeFails(l)
             \/ StopWaiting(l)
      PROVE  IInv'
  BY <1>0, <1>1, StepOutside
<1>2. ASSUME NEW l \in Listeners, Handshake(l) PROVE IInv'
  BY <1>0, <1>2, NoneIsNothing, StepCreateChannel, StepCreateChannelFails, StepSendName,
     StepGiveUpHandshake DEF Handshake
<1>3. ASSUME NEW c \in Clients, Connect(c) \/ ClientStep(c) \/ ClientDies(c) PROVE IInv'
  BY <1>0, <1>3, StepClient, StepOpenChannel DEF ClientStep
<1>4. ASSUME NEW ch \in Channels, NEW end \in {"server", "client"}, DropConnection(ch, end)
      PROVE  IInv'
  BY <1>0, <1>4, StepDropConnection
<1>5. ASSUME NEW ch \in Channels, EndConnection(ch) PROVE IInv'
  BY <1>0, <1>5, StepEndConnection
<1>6. ASSUME NEW p \in Servers, ServerDies(p) PROVE IInv'
  BY <1>0, <1>6, StepServerDies
<1>7. CASE CleanupSocket
  BY <1>0, <1>7, StepCleanupSocket
<1>8. CASE UNCHANGED vars
  BY <1>0, <1>8, QuietKeeps DEF vars, files, endpoints, accepting, clients, history, IInv, Makes,
     Tells
<1>. QED  BY <1>1, <1>2, <1>3, <1>4, <1>5, <1>6, <1>7, <1>8 DEF Next

\* The inductive invariant holds in every state.
THEOREM Invariance == Spec => []IInv
BY InvInit, InvStep, PTL DEF Spec

\* Every variable keeps its shape, and an accept has a stream and a channel
\* exactly while it needs them.
THEOREM Typing == Spec => []TypeOK
<1>1. IInv => TypeOK
  BY DEF IInv
<1>. QED  BY <1>1, Invariance, PTL

\* A client opens the channel that was made for it, whoever died, gave up,
\* rebound or accepted others in between (handshake, connect_to).
THEOREM OwnChannelHolds == Spec => []OwnChannel
<1>1. IInv => OwnChannel
  BY DEF IInv
<1>. QED  BY <1>1, Invariance, PTL

\* Under the names of listeners, the file of a live server is never removed by
\* anybody else (Drop for SharedChannel).
THEOREM FileKeptHolds == Spec => []FileKept
<1>1. IInv => FileKept
  BY DEF IInv
<1>. QED  BY <1>1, Invariance, PTL

\* While its server runs, every file is that of a handshake, of a connection
\* that was returned and is held, or an orphan of a failed create, whose name no
\* client is told and no accept comes to again (handshake, create_with_config).
THEOREM FilesAccountedForHolds == Spec => []FilesAccountedFor
<1>1. IInv => FilesAccountedFor
  BY OrphansAreHarmless DEF IInv, LiveFiles, FilesAccountedFor, Orphan
<1>. QED  BY <1>1, Invariance, PTL
=============================================================================
