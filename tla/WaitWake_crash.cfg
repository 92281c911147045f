CONSTANTS
  Platform = "linux"
  Cap = 1
  NotifyMod = 4
  MayCrash = {"sender", "receiver"}
SPECIFICATION TimerSpec
INVARIANT
  NoLostWakeup
PROPERTIES
  ImplementsDirection
  DeathEndsWaits
CHECK_DEADLOCK FALSE
