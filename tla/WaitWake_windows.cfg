CONSTANTS
  Platform = "windows"
  Cap = 2
  NotifyMod = 5
  MayCrash = {}
SPECIFICATION SignalSpec
INVARIANT
  NoLostWakeup
PROPERTIES
  NewsWakes
  CloseEndsWaits
CHECK_DEADLOCK FALSE
