CONSTANTS
  Platforms = {"linux"}
  Cap = 1
  MaxMessages = 2
  NotifyMod = 4
  Callbacks = {1}
SPECIFICATION SignalSpec
PROPERTIES
  NewsReachesFuture
CHECK_DEADLOCK FALSE
