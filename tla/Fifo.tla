-------------------------------- MODULE Fifo --------------------------------
(***************************************************************************)
(* What one direction of a channel promises: a first-in first-out queue of *)
(* messages whose total size, each message counted with its header, never  *)
(* exceeds the capacity of the ring.  A receive returns the payload of the *)
(* oldest message unchanged; a receive into a buffer that is too small     *)
(* drops it and says so.  Nothing here mentions bytes, cursors or caches.  *)
(***************************************************************************)
EXTENDS Naturals, Sequences

CONSTANTS
  Capacity,      \* bytes the ring holds
  HeaderSize,    \* bytes in front of every payload
  Messages,      \* the messages a caller may send, records with a field len
  Payload(_),    \* the payload bytes of a message
  NoPayload,     \* nothing received yet
  BufferTooSmall \* the result of a receive that dropped the message

VARIABLES
  queue,         \* messages sent and not received
  used,          \* bytes they occupy
  got            \* result of the latest receive

vars == <<queue, used, got>>

Size(m) == HeaderSize + m.len

Init ==
  /\ queue = <<>>
  /\ used = 0
  /\ got = NoPayload

Put(m) ==
  /\ used + Size(m) <= Capacity
  /\ queue' = Append(queue, m)
  /\ used' = used + Size(m)
  /\ UNCHANGED got

Remove ==
  /\ queue # <<>>
  /\ queue' = Tail(queue)
  /\ used' = used - Size(Head(queue))

Take ==
  /\ Remove
  /\ got' = Payload(Head(queue))

Discard ==
  /\ Remove
  /\ got' = BufferTooSmall

Next == (\E m \in Messages : Put(m)) \/ Take \/ Discard

Spec == Init /\ [][Next]_vars
=============================================================================
