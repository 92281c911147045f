CONSTANTS
  Platform = "linux"
  Cap = 2
  NotifyMod = 5
  MayCrash = {}
SPECIFICATION SignalSpec
INVARIANTS
  TypeOK
  NoLostWakeup
  DrainBeforeClosed
  AtMostOneLate
PROPERTIES
  NewsWakes
  CloseEndsWaits
CHECK_DEADLOCK FALSE
