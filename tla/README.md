# shmem-ipc in TLA+

A model of shmem-ipc, a channel between two processes over a shared memory
file, with TLC runs and TLAPS proofs. Paths below are relative to the
repository (`src/ring.rs` is the ring of the crate).

## The system

A **server** creates a backing file, a **client** opens it. The file holds a
global header (state word, identities of both processes) and two rings, one
for each direction. The rings are single-producer single-consumer queues of
byte messages. Who has to wait spins, then parks on a futex word (Linux) or an
auto-reset event (Windows). Nothing else mediates: no broker, no lock between
the processes. Either may die at any instruction, and the other must notice.

### Inventory

| component | state | operations | model |
|---|---|---|---|
| ring (`ring.rs`) | data bytes, `write_cursor`, `read_cursor`; in the sender `cached_wc`, `cached_rc`, `next_seq`; in the receiver `cached_rc`, `expected_seq` | `send`, `try_send_once`, `recv`, `recv_into`, `try_recv` | `Ring`, `Fifo`; `RingDirection`, `Direction` |
| parking (`wait.rs`, the tails of `publish_message` and `commit_current_message`, `wake_all`) | `notify` and `parked` of each side, the event | `wait_until`, wake if parked, wake all | `WaitWake`, `Direction` |
| channel state (`shared.rs`) | `state`, the peer's `ProcessMonitor` and its mutex, `next_probe_ms` | `check_ready`, `close`, `finish`, drop | `ChannelState`, `Lifecycle` |
| creation and opening (`channel.rs`) | the file, `client_pid`, `client_birth` | `create_with_config`, `try_open`, `cleanup` | `ChannelState` |
| halves (`connection.rs`) | two threads sharing one `SharedChannel` | `split`, forwarding | threads of `ChannelState` |
| process identity (`platform/linux.rs`) | `/proc/<pid>/stat` | `ProcessMonitor::open`, `is_alive` | `ChannelState` |
| Windows events (`platform/windows.rs`) | auto-reset events, timers, registered waits | `wait_on_handle`, `wake_handle`; the asynchronous wait | the first two in `WaitWake`, the last in `AsyncWait` |
| backing files (`shared.rs`, `channel.rs`) | names, which of them lead where | create, open, remove on drop, `cleanup` | `BackingFile` |
| listener (`listener.rs`) | socket file or pipe instances, counter, incarnation | `bind`, `accept`, `accept_timeout`, `connect`, drop, `cleanup` | `Listener` |
| tokio bridge (`tokio/bridge.rs`) | a waiter thread and `Notify`; on Windows a flag and a waker | `snapshot`, `wait_changed`, start, stop | `AsyncWait` |
| tokio API (`tokio/mod.rs`) | none of its own | send, receive and drain loops | its send loop in `Ring`, all of them in `AsyncWait` |
| tokio listener (`tokio/listener.rs`) | as the listener | `bind`, `accept` that may be cancelled | `Listener` |
| errors, layout, crate root, other platforms | none that changes | | not modelled |

### How they interact

- sender and receiver: through the data bytes and the two cursors; a cursor is
  stored only by its owner, after the bytes it speaks of;
- waiter and waker: the waiter stores `parked`, the waker bumps `notify`, each
  then looks at what the other stored;
- every look at a ring passes `check_ready`, which reads the state, gives up on
  a client that does not come, and probes the peer process;
- whoever moves the state to `Closed` or `PeerDisconnected` runs `wake_all`;
- the halves of one connection share the monitor, its mutex and the time of the
  next probe; the last one to be dropped closes the channel and may remove the
  file;
- a future of tokio snapshots its notify word, looks, and waits for the word to
  change: a thread per half sleeps on the futex and tells `Notify`, or the
  system runs a callback when the event fires;
- a listener sends the name of a channel that it has just created over a socket
  or a pipe; from then on its client opens the file as any client does, and the
  two streams end.

### What is hard

Reading bytes that another process is writing; deciding from a cursor that may
be old; wrap-around at every byte; skipping the wake system call without losing
a wake, under store buffers; a close that races an empty look; a death between
any two of these; clients that race for one channel; a client that dies half
connected; a timeout that races a late connection; pids that are used again;
two halves that close, drop and probe at once; futures that are dropped at any
await while a thread, a callback or an event is on its way to them; names that
outlive processes, and processes that outlive names. `PROJECT.json` lists each at its
line, with the property that would catch it. What makes each component correct:

- ring: it is a bounded FIFO queue; nothing unread is overwritten; nothing torn
  is read; an accepted send ends;
- parking: nobody sleeps on news; a close or a death ends every wait; what was
  published before the end is received before the end is reported; what is
  published after it is at most the one message whose sender had looked before;
- channel state: one client; no false death; one cause of the end, for ever; a
  client that was told it is connected is not abandoned; the file stays while
  the server serves it;
- backing files: while a server holds a channel its name leads to it;
- listener: a client gets a channel that is its own; an accept that is cancelled
  or loses its client leaves no file, and the orphan of a create that fails half
  way meets nobody again; connect ends;
- asynchronous waits: a change reaches the future, or the quantum does; no wake
  falls between a flag and a waker; dropping a half or a future ends and leaves
  no trace.

## The modules

**`Fifo`** is the promise of one direction: a queue of messages whose sizes,
with headers, never add up to more than the capacity; `Put`, `Take`, and
`Discard` for a receive into a short buffer.

**`Ring`** is `src/ring.rs`, one byte per step. The sender's variables begin
with `s_`, the receiver's with `r_`. `SendCall`, `SpaceInCache` and
`RefreshReadCursor` are `send` and `try_send_once`; `WriteByte` is one byte of
`write_ring`, `Publish` the release store that ends `publish_message`;
`SpaceFreed`, `SendRetries` and `SendGivesUp` are the ends of a wait for space
(sync, tokio, timeout). `PeekCursor` and `PeekHeader` are the two reads of
`try_peek_message`, `ReadByte` one byte of `read_ring`, and `Commit` is
`commit_current_message` with `validate_seq`. A byte is a record of the word it
belongs to, its place and the word's value: a header decodes only if all its
bytes are of one header, which is what reading a torn header comes to. Cells
start as `ZeroByte`. `queue` and `got` are history. The state of the channel is
not in this module: any send may give up at any try, for whatever reason.

**`Direction`** is the promise of one direction of a channel that may end: a
`Fifo` (by `INSTANCE`), a sender that is admitted to one message at a time by a
look at a channel that has not ended, and a receiver that is told of the end
(`Report`) when nothing is `owed` to it of what was there when the end came.

**`RingDirection`** composes `Ring` with the looks at the channel state that
`send` and `recv` make, and with the end (`ended`), which may come between any
two steps. `s_ready` is the answer of the sender's last `check_ready`: it
precedes one look for space, in `try_send_once` or in the condition of the wait
(`SenderReady`, `LooksForSpace`, `NoSpaceYet`), and no other look follows before
the message is published. `r_look` is the place in `try_peek_or_closed`: a look
for a message, `check_ready` if there is none, and another look for a message if
the channel has ended. `told` is the error that recv returned. Who ends the
channel and why is in `ChannelState`; which sleeps lie between two rounds of a
wait is in `WaitWake`.

**`WaitWake`** is `wait_until` against the three wakers. A message is a unit of
`count`. A look at the condition is several steps (state, space; message,
state, message again), because what happens between them is the point.
`stage` says which look it is: before the snapshot (`try`), after it (`first`),
after `parked = 1` (`second`). `moved[e]` is how far e's notify word is from
e's snapshot, modulo `NotifyMod`, which is all that the futex compares.
`buffer[e]` holds the stores to `parked` that are not visible yet; `Drain`,
`Fence` and the atomic bumps make them visible. `closer` is the thread that runs
`wake_all`, in either process, beside what the two sides do. A process that
dies leaves everything as it is. The module implements `Direction` too
(`ImplementsDirection`): the queue is `count` units, the sender is admitted
between its `check_ready` and its publication, the receiver is told at `failed`.
The two halves of the argument meet there: `RingDirection` shows that the bytes
keep the promise when waits are rounds of a loop, `WaitWake` that sleeping,
waking and dying in these loops break none of it.

**`Lifecycle`** is the promise of a channel about its life, without claims,
probes or identities: it is `open`, then `connected` to one client, and ends once,
of one cause; a half hears of that cause or of none; a death is found only if
there is one; and the server gives up (`GiveUp`) only on a channel that nobody
is connected to.

**`ChannelState`** is the state word from `Init` to the end. Processes are
`Server` and `Clients`; threads are their split halves. `opening[c]` is the
place of client c in `try_open`. `pc[t]` is the place of a half in `check_ready`,
`finish`, `close` or its drop; `seen[t]` is what it loaded before a
`compare_exchange`, `after[t]` what `finish` was called for, `result[t]` how its
last call ended. `IsAlive(pid, birth)` is the answer of `/proc`: of the process
with this pid, running, and born when this process was. `due[p]` says that
`next_probe_ms` has passed; `ProbeInterval` sets it, and a thread that waits for
the mutex then has an old time (`"lock, outdated"`), as in the code, which
reads the clock before it locks. Send and receive are a thread at `wait` that
comes back to `CheckReady` again and again. A monitor is opened by pid and birth
(`MonitorOpens`) and asked again (`PeerRuns`): on Linux this reads `/proc` each
time, on Windows it asks a process object that stays the one it was. Both answer
alike, since a pid that is used again has another birth. `Life` maps the module
to `Lifecycle`: the phase is the state word, the client is the pid in the file
from the moment it is connected, and what a half heard is how its last call
ended.

**`AsyncWait`** is one half used from tokio: the loops of `tokio/mod.rs`, the
bridge thread or the registered wait of Windows, a peer that publishes (or frees
space), and one close. The peer moves after a close too: a receiver drains what is
there, and a sender that had looked at the state before (`PeerAdmitted`)
publishes once more. `pc` is the future, or, between futures, the owner that
drops the half and stops the bridge. `call` and `drained` are the operation and
what `recv_many` holds in its hands. `moved` is the notify word minus the
snapshot of the future, `b_moved` minus what the bridge thread observed; a
difference that nobody compares any more is 0. `bridge` is the place of the
thread in `wait_loop`, `heard` the state of the `Notified` future. On Windows
`armed` is that of `WaitChanged`, `registered` whether the wait is registered
(which lasts as long as the handle), `event`, `signaled` and `waker` are the
event and the two fields of `AsyncWaitState`, `callback[i]` a system thread that
runs `wait_callback`, and `scheduled` a task that was woken. A look at the ring
is one step, and the fence that follows `parked = 1` makes it visible:
`WaitWake` has the store buffers and the steps inside a look, for a sleep that
differs only in who sleeps.

**`BackingFile`** is the files behind the channels and nothing else: `file[n]`
is the channel whose file has name n; `server`, `client` and `held` are the two
ends. `Create` refuses a name that has a file, `Open` is the whole of a
successful `try_open` (its steps are in `ChannelState`), `Drop` is the drop of
the last half of one end and removes the file *by its name*. `End` is a close, or a
`check_ready` that gives up, of a channel that nobody has claimed: the file stays
and its name refuses clients (`ended`). `CreateFails` is a system call that fails
after the file is there, which then stays without a server.

**`Listener`** extends it. A listener is an incarnation, bound by the process
`Host[l]`; several may be bound to one name one after the other, on Unix also at
once. `flavour` picks one of four versions (Unix or Windows, sync or tokio),
which differ in how a client reaches a listener (`CanReach`: the path leads to
the socket; a pipe instance is published), in what may be given up (`StopWaiting`,
`GiveUpHandshake`: a tokio future can be dropped at any await), and in what a
failing call leaves behind (`PrimeFails`). `queue[l]` is the backlog of the
socket, or the client in the pipe of the pending accept. `accept`, `serving` and
`making` are a call of `accept` with its stream and its new channel. On the
side of the client, `at` is the listener at the other end of its stream, `told`
the name that is in it, `hung` that the server's end is closed. `meant` and
`returned` are history: for whose stream a channel was created, and which
channels an `accept` returned. On Unix the sync version does nothing that the
tokio version may not do, so the run has three flavours.

**`MCRing`**, **`MCChannelState`** add symmetry for TLC, **`MCListener`** the names
and hosts of its instance. **`RingProofs`**, **`RingDirectionProofs`**,
**`WaitWakeProofs`**, **`ChannelStateProofs`**, **`AsyncWaitProofs`** and
**`ListenerProofs`** hold the proofs, each about the module that it is named
after; **`LifecycleProofs`** proves that `ChannelState` implements `Lifecycle`,
**`DirectionProofs`** what follows from `Direction` for any implementation.

Operators named `X_Something` next to `X` are plausible mistakes in X; they are
in no specification. `PROJECT.json` names for each property one that breaks it.

## The runs

| run | checks | bounds |
|---|---|---|
| `ring_safety` | `TypeOK`, `NoOverwrite`, `PublishedIntact`, `NeverCorrupt`, `ImplementsFifo` | 8 bytes, header 2, payloads 0, 1, 5, 6, two contents, sequence numbers modulo 3, cursors up to 20 |
| `ring_liveness` | `RingDirection`: `ImplementsDirection`, `EverythingConsumed`, `SendEnds` | header 4 in words of 2, payloads 0, 1, 4, cursors up to 24; the end comes anywhere or not at all |
| `wait_linux` | `TypeOK`, `NoLostWakeup`, `DrainBeforeClosed`, `AtMostOneLate`, `NewsWakes`, `CloseEndsWaits` | 2 messages fit, notify modulo 5 |
| `wait_windows` | `NoLostWakeup`, `NewsWakes`, `CloseEndsWaits`, with auto-reset events | the same |
| `wait_crash` | `NoLostWakeup`, `ImplementsDirection`, `DeathEndsWaits` | 1 message fits, notify modulo 4, both processes may die |
| `channel_safety` | `TypeOK`, `OneWholeClient`, `DeathIsReal`, `NoClientStranded`, `EndsAgree`, `FileServed`, `TerminalForEver` | two clients, two server halves, one client half |
| `channel_liveness` | `ImplementsLifecycle`, `PeerDeathEndsWaits`, `UnreadyEnds` | one client, two server halves, one client half |
| `async_wait` | `TypeOK`, `NoLostWake`, `ParkedMeansWaiter`, `NewsReachesFuture`, `StopEnds` | both platforms, both halves; 1 message fits, batches of 2, notify modulo 4, 2 callbacks at once |
| `async_signal` | violates `NewsReachesFuture` | Linux, no quantum |
| `listener` | `TypeOK`, `OwnChannel`, `FileKept`, `FilesAccountedFor`, `ConnectEnds` | two listeners of one name in two processes, two names each, two clients, two channels |
| `listener_cancel` | violates `NoClientLost` | one listener, one client |
| `file_names` | violates `FileKept` | one name, two channels, three processes |

Why these are enough. In the ring, cursors of 20 are two and a half laps of 8
cells: the payloads start messages at every cell, wrap headers and payloads,
fill the ring to the last byte, and wrap the sequence numbers more than once.
The proofs do not have these bounds. In `RingDirection`, cursors of 24 are three
laps: the end comes before, between, and after messages that fill the ring, while
either side is anywhere in its call. Platform, capacity and crashes change who
sleeps and not what is looked at, so what the three runs of `WaitWake` leave to
each other (`DrainBeforeClosed` on one platform, `ImplementsDirection` with
crashes) the proofs cover for all. In `WaitWake`, two messages let a sender
publish twice while a receiver parks, and the notify word wraps within a wait of
five bumps, so that the bound `NotifyMod > Cap + 2` of the assumption is just
met (the code has 2^32 against at most 2^28 messages). In `ChannelState`, two
clients race the claim; two server halves race each other for the mutex and the
terminal state; a client half more would repeat what the server halves do,
since `check_ready` does not distinguish the roles once connected. `Lifecycle` is
checked with one client, whose claim nobody contests: `OneWholeClient` has two,
and the proof of the refinement any number. All deaths
look `reused` in `/proc` in these runs, the hardest of the three for
`is_alive`. In `AsyncWait`, a batch is longer than the ring, so that it ends
either at its limit, with a publication between two takes, or with less; two
callbacks of one registered wait overlap, one of them late from an earlier
future; `Cancel` and `SetStop` may come at any await any number of times. In
`Listener`, the second listener is bound while the first one runs, after it was
dropped, or after its process died; two clients meet in one queue, one dies
while the other is served, and a listener that gave out a name goes on to the
next. System calls of `accept` fail in the Windows flavours of the run only:
what fails on Unix, the creation of the channel, is the same code there.

`CHECK_DEADLOCK` is off where the system may stop: a ring at its cursor bound,
a receiver with nothing more to receive, processes that are all dead, a half
without a future whose channel is closed, a listener that has given out its names.

### Fairness

- `RingDirection`: a running process takes its next step, so that a send goes
  round its condition or fails once the channel has ended, and the application
  keeps calling `recv` until it is told of the end; nobody has to send, give up
  before the end, bring a short buffer, end the channel, or call `recv` after
  the end. `EverythingConsumed` is about what is published before the end: it
  is consumed even if the end comes first.
- `WaitWake`: a thread that is not asleep runs, and so does the one in
  `wake_all`. `SignalSpec` gives no fairness to the timer: `NewsWakes` and
  `CloseEndsWaits` hold by wakes alone, so the quantum is never needed while
  both processes live. `TimerSpec` adds that a sleep ends after
  `LIVENESS_QUANTUM`, which `wait_until` passes to every `wait_on_handle`; the
  run with crashes needs it.
- `ChannelState`: a half inside a call goes on (it wakes at least every
  `LIVENESS_QUANTUM`), and time passes: `connect_timeout` and the probe
  interval. Clients need not go on with `try_open`, and nobody has to call,
  close, drop or die. Liveness is checked with `ObserverFails = FALSE`: if
  `/proc` can never be read, every probe ends its call with an I/O error, and
  the other half can lose the race for an unfair mutex for ever. The safety
  run has the failing probe.
- `AsyncWait`: a thread, a task that is woken, and a callback go on, and whoever
  has stored its news goes on to bump and wake. Nobody has to call, cancel, drop,
  publish or close. `TimerSpec` adds that `LIVENESS_QUANTUM` passes, which bounds
  every sleep of the bridge and every `wait_changed`.
- `Listener`: a client inside `connect` and a handshake go on, the application
  accepts again and again until it drops its listener, and some of these calls
  leave a client that is there the time to be taken (strong fairness of `Take`:
  an accept with a timeout of zero for ever would take nobody).

### Findings

Three runs expect a violation: what they check is said of the program by its
documents or tests, and the code does otherwise.

- `async_signal`: `docs/tokio-async-design.md:10` wants "no hidden polling
  fallback" and line 27 says of dedicated wait threads that they translate
  shared wait objects into task wakeups. `wait_loop` (`src/tokio/bridge.rs:141`)
  compares the word with what it loaded at the start of each round. A bump between
  the end of one round and the start of the next is nobody's difference: if the
  future waits on an older snapshot, it sleeps until its quantum. The close can be
  that bump. With the quantum (`async_wait`) every future returns; on Windows
  `NoLostWake` says that it is never needed.
- `listener_cancel`: `docs/tokio-async-design.md:214` says of a cancelled
  `accept().await` that no accepted client is lost. A future that is dropped in
  `finish_accept` (`src/tokio/listener.rs:93`) owns the stream of its client, who
  reads an end of file. What does hold is in `listener`: the channel that the
  future had made and its file go with it (`FilesAccountedFor`), and the client's
  `connect` ends (`ConnectEnds`).
- `file_names`: `src/channel.rs:413` asserts that a live server still owns its
  backing file. A client whose server process has ended removes the file by name
  (`src/shared.rs:238`), and with direct names this can be the file of a later
  server that took the name over, after the first one had dropped its own. Names
  that a listener gives out carry its incarnation, and there `FileKept` holds.

One leak contradicts no document and is part of a passing run: when `set_len` or
the mapping of `create_with_config` fails (`src/channel.rs:78`), the file made by
`create_new` stays, and nothing in the crate ever removes it. `Channel::cleanup`
would, but a listener does not tell its application the name. `FilesAccountedFor`
says how far this goes (`Orphan`): no client was told the name, so that none waits
for this file to become ready, and the listener has counted past it, so that no
later accept fails on `create_new`. A listener that counted only after a create
had succeeded would fail for ever (`CreateChannelFails_KeepsNumber`). A direct
channel of that name cannot be created until somebody calls `cleanup`.

## What is proved

TLAPS checks these for every value of the constants that the named assumptions
allow, with no bound on cursors, messages or steps.

`RingProofs`, under `RingAssumption` (a header is not empty and fits in the
ring, lengths are natural numbers, at least two sequence numbers; the ring need
not be a power of two, as indices are taken modulo its size):

- `Invariance`: the inductive invariant. The cells between the read cursor and
  the write cursor are the messages of `queue` in order, byte for byte; the
  sender's cached cursor is never ahead of the real one, so the space it sees
  is there; what it has written so far of the next message is behind the write
  cursor; what the receiver has peeked and copied is of the first message.
  `NoOverwrite` and `NeverCorrupt` are not inductive alone: the first needs that
  the cache is never ahead, the second what the bytes are.
- `Typing`, `NoOverwriteHolds`, `PublishedIntactHolds`, `NeverCorruptHolds`.
- `Refinement`: `Ring` implements `Fifo`; `Publish` is `Put`, `RecvReturns` is
  `Take`, `RecvTooLarge` is `Discard`, every other step a stutter.

The key lemma is that two cursors less than a ring apart are in different
cells; the rest is which action writes which cell.

`RingDirectionProofs`, under the same assumption:

- `KeepsRing`: `DirectionSpec` implies the `Spec` of `Ring`. Each step of the
  composition is one of `Ring` or leaves its variables alone, so the theorems
  of `RingProofs` hold of a channel that ends.
- `DirectionInvariance`: `DirectionInv` is the invariant of the ring, `LooksInv`
  (a sender that writes has been admitted; a receiver looks again only after
  the end; nothing is owed to one that was told) and `SeenWhole`: a header is
  read only below a cursor that covers the whole message. Without it a last look
  that finds "nothing" could have found a part of the first message, and
  the report of the end after it would lose that message.
- `DirectionRefinement`: `RingDirection` implements `Direction`. `SenderReady` is
  `Admit`, `Publishes` is `Put`, `Receives` is `Receive`, the last empty look is
  `Report`, a look that found no space, or a failure, is `GiveUp`. That at most
  one message overtakes the end is then a fact of `Direction`: after the end
  nobody is admitted.
- `EndOfRing`: that fact, and that nothing is owed to a receiver that was told,
  carried back to the ring. Both are theorems of `Direction` alone
  (`EndOfDirection` in `DirectionProofs`: a message that an admitted sender may
  still put counts as if it were in the queue), instantiated with the mapping
  of `RingDirection`.

`WaitWakeProofs`, under `WaitWakeAssumption`, on both platforms, with any set
of processes that may crash:

- `Invariance`: `IInv` is `TypeOK`, `CountInv` and, for each side, six parts.
  `WokenOnNews` is what we want: an asleep side with news is about to be woken.
  To keep it, a side that goes to sleep must have been told: since the look that
  found nothing, its word has moved (or its event is set), or the one with the
  news still has the bump, or the wake, before it (`ToldNews`, `ToldClosed`).
  A waker that reads `parked = 0` must have told somebody who is not armed yet:
  from the fence on `parked` is visibly 1 (`Armed`). And a moved word must look
  moved: it cannot go all the way around, because the other side bumps it at
  most once for every message the ring takes or gives up, and the close once
  (`NotAround`).
- `Typing`, `NoLostWakeupHolds`, `DrainBeforeClosedHolds`.
- `AtMostOneLateHolds`: `try_send_once` looks at the state before it publishes,
  so a close may be followed by a message, but by one only. The property counts
  the messages that wait to be received; that nobody is admitted after the end,
  received or not, is in `ImplementsDirection`. `LateInv` counts the
  message of a sender that is past its look as if it were published.
- `WaitsRefineDirection`: `WaitWake` implements `Direction`. A step that moves no
  message and does not close is quiet, and maps to what it shows of its side:
  `Admit` or `GiveUp` of the sender (`QuietSender`), `Report` or `Ask` of the
  receiver (`QuietReceiver`), or to nothing. What is left are the two cursor
  stores, and the steps that close (`Finish`, a probe that finds a death). The
  invariant is needed for two facts: a look that found space is still right when
  the message is published, and a second look that finds nothing owes nothing.

`ChannelStateProofs`, under `ChannelStateAssumption` (finitely many clients and
halves, at least one half of each side, the server is no client): any number of
clients race for the channel, halves act in any number, and dead processes show
in `/proc` in any of the three ways.

- `Invariance`: the claim orders everything. `Claims` says that one client at
  most is past the `compare_exchange` that claims the channel, and that the
  state and the two identity words tell how far it is. `Places` relates a thread
  to what it has loaded: a half about to retire the channel has seen it unready,
  one about to store a terminal state has not seen one, one that probes has a
  peer. `Monitors` says whom a monitor observes, which needs both words of
  `Claims` to be stored before the state is `Connected`; `Deaths` that a thread on
  its way to `PeerDisconnected` has seen its peer dead, between the answer of the
  probe and the swap of the state; `Removal` that the half that finishes a drop
  is the last of its process, without which `FileServed` is not inductive.
- `Typing`, `OneWholeClientHolds`, `DeathIsRealHolds`, `NoClientStrandedHolds`,
  `EndsAgreeHolds`, `FileServedHolds`, and `TerminalForEverHolds` for the steps.

`LifecycleProofs`, under the same assumption:

- `LifecycleRefinement`: `ChannelState` implements `Lifecycle`. Four kinds of steps
  are seen from outside: the `compare_exchange` that connects a client
  (`Connect`), the ones that end the channel (`Close`, `GiveUp`, `FindDeath`), the
  return of a call (`HearEnd`, `HearNothing`), and a death. That the one who
  ends the channel is alive and is of the server or of its client is `Claims`;
  that a found death is one is `Deaths`; that what a call says on its return is
  the end that stands is `EndsAgree` after the step, where the state may have
  been ended by another half between the load and the return.

`AsyncWaitProofs`, under `AsyncWaitAssumption` (the notify word has more than
`Cap + 2` values), on both platforms, for any batch and any number of callbacks.

- `Invariance`: `Places` says which places of a future go with which platform,
  and that a pending one has left its waker. A future that found nothing has a
  snapshot from before that look, so news since then has moved the word or will
  (`Informed`), and the word has not come around (`NotAround`: the peer bumps it
  once for each message or room there is, but for one from before, and the close
  once). On Windows, once the word was compared under `parked = 1`, a word that
  moved has left an event, a callback that will still set the flag, a flag that
  the future has yet to read, or a wake of its task (`Told`). The flag counts
  only until the future is pending, a callback that has set it only from then
  on: this is why the second look at it under the lock of the waker is needed.
- `Typing`, `NoLostWakeHolds`, `ParkedMeansWaiterHolds`.

`ListenerProofs`, under `ListenerAssumption` (names are pairs of an incarnation
and a number, processes are servers or clients), for any number of listeners,
servers, clients and channels, on every version, with any system call of
`accept` failing.

- `Invariance`: a listener never goes back in its numbers and its incarnation is
  in every name, so that no name is of two channels (`NamesDiffer`). The channel
  that a handshake is making is of the listener's process and for the client it
  serves (`Makes`); the name that a client was told is of a channel made for it
  (`Tells`). What a removal by name removes is then the file it means.
- `Typing`, `OwnChannelHolds`, `FileKeptHolds`, `FilesAccountedForHolds`. The last
  rests on `LiveFiles`, its part about files with a live server, which is in the
  invariant, and on `Tells` for the orphans: a told name is of a channel that was
  created whole. `FileKept` is proved here for the names of listeners only: for direct names it is false
  (`file_names`).

Only model-checked: all liveness (`EverythingConsumed`, `SendEnds`,
`NewsWakes`, `CloseEndsWaits`, `DeathEndsWaits`, `PeerDeathEndsWaits`,
`UnreadyEnds`, `NewsReachesFuture`, `StopEnds`, `ConnectEnds`), which is out of
the prover's reach. Every safety property of a passing run is proved, the
refinements of `Fifo`, `Direction` and `Lifecycle` included.

## What is not modelled, and assumptions

- x86-64, which continuous integration runs: stores are delayed in order, atomic
  read-modify-writes and fences drain them, loads are not reordered. Delayed are
  the stores to `parked`, the only ones a later load of the same thread must not
  overtake. The release store of a cursor is followed by the bump of `notify`,
  which drains it, before anything is read.
- Cursors do not overflow (2^64 bytes).
- Both processes run this code. Foreign writes to the file are outside.
- In `ChannelState`, system calls of `create` that fail: such a channel is never
  ready for a client. What such a call leaves is in `BackingFile` (`CreateFails`). Files of
  another layout and configuration errors: refused before anything is shared.
- In `WaitWake`, I/O errors of `check_ready` (they end the call, as a close does;
  `ChannelState` has the failing probe) and the `wake_all` of a client that has just
  connected (`src/channel.rs:213`): one more wake of a server that waits.
- Reference counts behind dropping are the count of halves that are left.
- On Windows two listeners of one pipe name at once: the tokio version refuses
  the second (first instance), the sync version does not, and its
  `cancel_pending_accept` would then connect to either.
- The thread of a sync pending accept is the published instance and the queue
  that it fills; a pipe client that leaves before `ConnectNamedPipe` returns
  (`ERROR_NO_DATA`) is a client that dies in the queue. The length and the name
  of a connection are one answer; a server that dies between them hangs up.
- What names are made of (paths, incarnations from time and pid, wait keys, event
  names) and their parsing: that two incarnations or wait keys differ is assumed.
- Threads of tokio's own pools, and a panic in a task.

## Plan

Done, in this order: `Fifo` and `Ring`; `WaitWake`; `ChannelState`; `AsyncWait`;
`BackingFile` and `Listener`; the proofs of all of them; the abstract channel in
its two halves, `Direction` and `Lifecycle`, with the proofs that ring, waits and
state implement them. What is left:

1. One module that composes `Direction` (twice) and `Lifecycle`: their `End` and
   the end of the phase are one step of the code (the swap in `finish`).
2. `AsyncWait` as an implementation of `Direction`, and with the store buffers and
   the single steps of `WaitWake`, so that its looks need not be one step.
3. A pipe name with two sync listeners at once (Windows), with the instance that
   `cancel_pending_accept` connects to.
