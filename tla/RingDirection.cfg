\* Words of two bytes, so that a length can be torn; payloads of 0, 1 and 4
\* bytes (4 fills the ring).
CONSTANTS
  RingSize = 8
  LenSize = 2
  SeqSize = 2
  SeqMod = 2
  PayloadLens = {0, 1, 4}
  Contents = {c1}
  MaxCursor = 24
  NoMessage = NoMessage
  TornHeader = TornHeader
  NoPayload = NoPayload
  BufferTooSmall = BufferTooSmall
SPECIFICATION LiveSpec
PROPERTIES
  ImplementsDirection
  EverythingConsumed
  SendEnds
CHECK_DEADLOCK FALSE
