CONSTANTS
  Server = server
  Clients = {c1}
  ServerHalves = {h1, h2}
  ClientHalves = {k}
  Nobody = Nobody
  NoMonitor = NoMonitor
  ObserverFails = FALSE
  DeadAs = {"reused"}
SPECIFICATION LiveSpec
PROPERTIES
  ImplementsLifecycle
  PeerDeathEndsWaits
  UnreadyEnds
CHECK_DEADLOCK FALSE
