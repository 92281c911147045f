------------------------------ MODULE Direction ------------------------------
(***************************************************************************)
(* What one direction of a channel promises when the channel ends: a FIFO  *)
(* queue (Fifo) whose sender looks at the state before each message, and   *)
(* whose receiver hears of the end when it has received all that was sent  *)
(* before.  A message may overtake the end only if its sender had looked   *)
(* before, so at most one does.                                            *)
(*                                                                         *)
(* Nothing here mentions waits, wakeups, cursors or who ended the channel. *)
(***************************************************************************)
EXTENDS Naturals, Sequences

CONSTANTS Capacity, HeaderSize, Messages, Payload(_), NoPayload, BufferTooSmall \* as in Fifo

VARIABLES
  queue, used, got, \* as in Fifo
  ended,            \* the channel has ended
  admitted,         \* the sender has seen that it had not
  owed,             \* messages that were there when it ended and still are
  told              \* the last receive reported the end

Queue == INSTANCE Fifo

fifo == <<queue, used, got>>
vars == <<fifo, ended, admitted, owed, told>>

Init ==
  /\ Queue!Init
  /\ ended = FALSE
  /\ admitted = FALSE
  /\ owed = 0
  /\ told = FALSE

\* The sender finds the channel connected, and may send a message or not.
Admit ==
  /\ ~ended
  /\ admitted' = TRUE
  /\ UNCHANGED <<fifo, ended, owed, told>>

GiveUp ==
  /\ admitted' = FALSE
  /\ UNCHANGED <<fifo, ended, owed, told>>

Put(m) ==
  /\ admitted
  /\ Queue!Put(m)
  /\ admitted' = FALSE
  /\ UNCHANGED <<ended, owed, told>>

Receive ==
  /\ ~told
  /\ Queue!Take \/ Queue!Discard
  /\ owed' = IF owed > 0 THEN owed - 1 ELSE 0
  /\ UNCHANGED <<ended, admitted, told>>

\* A close, or a death that was found.
End ==
  /\ ~ended
  /\ ended' = TRUE
  /\ owed' = Len(queue)
  /\ UNCHANGED <<fifo, admitted, told>>

Report ==
  /\ ended
  /\ owed = 0
  /\ told' = TRUE
  /\ UNCHANGED <<fifo, ended, admitted, owed>>

\* The receiver calls again, or is no more.
Ask ==
  /\ told' = FALSE
  /\ UNCHANGED <<fifo, ended, admitted, owed>>

Next ==
  \/ Admit \/ GiveUp \/ \E m \in Messages : Put(m)
  \/ Receive \/ End \/ Report \/ Ask

Spec == Init /\ [][Next]_vars
=============================================================================
