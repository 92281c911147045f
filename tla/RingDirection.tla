---------------------------- MODULE RingDirection ----------------------------
(***************************************************************************)
(* One direction of a channel until its end and beyond: Ring, composed     *)
(* with the looks at the channel state that send and recv make on their    *)
(* way (src/ring.rs).  Every step of Ring happens here under the look that *)
(* precedes it in the code, and the state may change between any two.      *)
(*                                                                         *)
(* The order of the looks is what matters: the sender looks at the state   *)
(* before the space, once for each try; the receiver looks for a message   *)
(* first, at the state only if there is none, and for a message again if   *)
(* the channel has ended.                                                  *)
(*                                                                         *)
(* How a channel ends is in ChannelState, how its waits are woken in       *)
(* WaitWake.  Here a wait goes round its condition for ever.               *)
(***************************************************************************)
EXTENDS Ring

VARIABLES
  ended,   \* the channel state is Closed or PeerDisconnected
  s_ready, \* the sender's check_ready said yes, for the look that it is in
  r_look,  \* try_peek_or_closed: peek | check | repeek
  told,    \* the last receive returned the error of the end
  owed     \* History: messages in the ring at the end and not consumed since

looks   == <<s_ready, r_look, told>>
ending  == <<ended, owed>>
allvars == <<vars, looks, ending>>

DirectionInit ==
  /\ Init
  /\ ended = FALSE
  /\ s_ready = FALSE
  /\ r_look = "peek"
  /\ told = FALSE
  /\ owed = 0

(***************************************************************************)
(* The sender.                                                             *)
(***************************************************************************)
CallsSend(m) ==
  /\ SendCall(m)
  /\ UNCHANGED <<looks, ending>>

\* check_ready, in try_send_once and in the condition of the wait.
SenderReady ==
  /\ s_pc \in {"space", "full"} /\ ~s_ready
  /\ ~ended
  /\ s_ready' = TRUE
  /\ UNCHANGED <<vars, r_look, told, ending>>

\* The look for space follows; with space in try_send_once the message is
\* written without another look at the state.
LooksForSpace ==
  /\ s_ready
  /\ SpaceInCache \/ RefreshReadCursor \/ SpaceFreed
  /\ s_ready' = (s_pc' = "write")
  /\ UNCHANGED <<r_look, told, ending>>

\* The condition of the wait finds none.
NoSpaceYet ==
  /\ s_ready
  /\ s_pc = "full"
  /\ ~HasSpace(s_cached_wc, read_cursor, s_msg.len)
  /\ s_ready' = FALSE
  /\ UNCHANGED <<vars, r_look, told, ending>>

Retries ==
  /\ ~s_ready
  /\ SendRetries
  /\ UNCHANGED <<looks, ending>>

\* check_ready fails, of the end or because the probe did; or the wait times
\* out; or the future is dropped.
SendFails ==
  /\ ~s_ready
  /\ SendGivesUp
  /\ UNCHANGED <<looks, ending>>

Writes ==
  /\ WriteByte
  /\ UNCHANGED <<looks, ending>>

Publishes ==
  /\ Publish
  /\ s_ready' = FALSE
  /\ UNCHANGED <<r_look, told, ending>>

(***************************************************************************)
(* The receiver.                                                           *)
(***************************************************************************)
\* A receive that was told of the end is over; the caller may call again.
CallsRecv ==
  /\ told
  /\ told' = FALSE
  /\ UNCHANGED <<vars, s_ready, r_look, ending>>

\* try_peek_message returns Empty: the state is next, or the error.
Empty ==
  /\ r_look' = IF r_look = "peek" THEN "check" ELSE "peek"
  /\ told' = (r_look = "repeek")

Peeks ==
  /\ ~told /\ r_look # "check"
  /\ PeekCursor
  /\ UNCHANGED <<looks, ending>>

PeeksNothing ==
  /\ ~told /\ r_look # "check"
  /\ r_pc = "idle"
  /\ write_cursor - r_cached_rc < HeaderSize
  /\ Empty
  /\ UNCHANGED <<vars, s_ready, ending>>

PeeksHeader ==
  /\ PeekHeader
  /\ IF r_pc' = "idle" THEN Empty ELSE UNCHANGED <<r_look, told>>
  /\ UNCHANGED <<s_ready, ending>>

ReceiverChecks_Reports ==
  /\ r_look = "check"
  /\ r_look' = "peek"
  /\ told' = ended
  /\ UNCHANGED <<vars, s_ready, ending>>

\* check_ready; after any error but the end, recv returns.
ReceiverChecks ==
  /\ r_look = "check"
  /\ r_look' = IF ended THEN "repeek" ELSE "peek"
  /\ UNCHANGED <<vars, s_ready, told, ending>>

Copies ==
  /\ BufferFits \/ BufferShort \/ ReadByte
  /\ UNCHANGED <<looks, ending>>

Receives ==
  /\ RecvReturns \/ RecvTooLarge
  /\ r_look' = "peek"
  /\ owed' = IF owed > 0 /\ queue' # queue THEN owed - 1 ELSE owed
  /\ UNCHANGED <<s_ready, told, ended>>

(***************************************************************************)
(* The end, whoever brings it about.                                       *)
(***************************************************************************)
Ends ==
  /\ ~ended
  /\ ended' = TRUE
  /\ owed' = Len(queue)
  /\ UNCHANGED <<vars, looks>>

SenderNext ==
  \/ \E m \in Messages : CallsSend(m)
  \/ SenderReady \/ LooksForSpace \/ NoSpaceYet \/ Retries \/ SendFails \/ Writes \/ Publishes

ReceiverNext ==
  CallsRecv \/ Peeks \/ PeeksNothing \/ PeeksHeader \/ ReceiverChecks \/ Copies \/ Receives

DirectionNext == SenderNext \/ ReceiverNext \/ Ends

DirectionSpec == DirectionInit /\ [][DirectionNext]_allvars

(***************************************************************************)
(* A process that is running takes its next step, a caller that has called *)
(* send stays in the call, and the application keeps calling recv until it *)
(* is told of the end.  Nobody is obliged to call send, to give up before  *)
(* the end, to bring a short buffer, to end the channel, or to call recv   *)
(* once more after the end.                                                *)
(***************************************************************************)
Fairness ==
  /\ WF_allvars(SenderReady \/ LooksForSpace \/ NoSpaceYet \/ Writes \/ Publishes)
  /\ WF_allvars(ended /\ SendFails)
  /\ WF_allvars(Peeks \/ PeeksNothing \/ PeeksHeader \/ ReceiverChecks \/ Receives
                  \/ (Copies /\ ~BufferShort))

LiveSpec == DirectionSpec /\ Fairness

(***************************************************************************)
(* Properties.                                                             *)
(***************************************************************************)
\* The state of Direction, in that of the ring and of its looks.
Promise == INSTANCE Direction WITH
  Capacity <- RingSize,
  queue    <- MessagesOf(queue),
  used     <- write_cursor - read_cursor,
  admitted <- s_ready

\* What Ring promises holds here, and what was published before the end is
\* received before recv reports it, at most one message is published after it,
\* and none by a sender that looked after it: the looks of send and recv in
\* this order implement Direction (try_send_once, try_peek_or_closed).
ImplementsDirection == Promise!Spec

\* Whatever is published before the end is consumed, even if the end comes
\* first, provided that the receiver keeps receiving until it is told.
EverythingConsumed ==
  \A c \in 1 .. MaxCursor : write_cursor = c /\ ~ended ~> read_cursor >= c

\* A send that message_size accepts ends, even one that needs the whole ring
\* to be empty (has_space: >=, not >), in a channel that goes on or one that
\* ends.
SendEnds == s_pc # "idle" ~> s_pc = "idle"

\* Why: the receiver looks again only after the end, and knows of the end only
\* with nothing owed.
LooksInv ==
  /\ ended \in BOOLEAN /\ s_ready \in BOOLEAN /\ told \in BOOLEAN
  /\ owed \in Nat
  /\ r_look \in {"peek", "check", "repeek"}
  /\ s_ready => s_pc \in {"space", "full", "write"}
  /\ s_pc = "write" => s_ready
  /\ owed <= Len(queue)
  /\ ~ended => owed = 0
  /\ r_look = "check" => r_pc = "idle"
  /\ r_look = "repeek" => ended
  /\ told => ended /\ r_look = "peek" /\ r_pc = "idle"

\* And a header that it sees belongs to a message that it sees whole, so a look
\* that finds nothing has found the ring empty.
SeenWhole ==
  r_pc = "header" => queue # <<>> /\ MessageSize(queue[1].msg.len) <= r_seen - r_cached_rc

DirectionInv == IInv /\ LooksInv /\ SeenWhole
=============================================================================
