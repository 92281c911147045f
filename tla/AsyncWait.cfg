CONSTANTS
  Platforms = {"linux", "windows"}
  Cap = 1
  MaxMessages = 2
  NotifyMod = 4
  Callbacks = {1, 2}
SPECIFICATION TimerSpec
INVARIANTS
  TypeOK
  NoLostWake
  ParkedMeansWaiter
PROPERTIES
  NewsReachesFuture
  StopEnds
CHECK_DEADLOCK FALSE
