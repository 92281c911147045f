\* Payloads of 0, 1, 5 and 6 bytes (6 fills the ring), sequence numbers modulo 3.
CONSTANTS
  RingSize = 8
  LenSize = 1
  SeqSize = 1
  SeqMod = 3
  PayloadLens = {0, 1, 5, 6}
  Contents = {c1, c2}
  MaxCursor = 20
  NoMessage = NoMessage
  TornHeader = TornHeader
  NoPayload = NoPayload
  BufferTooSmall = BufferTooSmall
SYMMETRY Symmetry
SPECIFICATION Spec
INVARIANTS
  TypeOK
  NoOverwrite
  PublishedIntact
  NeverCorrupt
PROPERTY
  ImplementsFifo
CHECK_DEADLOCK FALSE
