CONSTANTS
  Server = server
  Clients = {c1, c2}
  ServerHalves = {h1, h2}
  ClientHalves = {k}
  Nobody = Nobody
  NoMonitor = NoMonitor
  ObserverFails = TRUE
  DeadAs = {"reused"}
SPECIFICATION Spec
INVARIANTS
  TypeOK
  OneWholeClient
  DeathIsReal
  NoClientStranded
  EndsAgree
  FileServed
PROPERTY
  TerminalForEver
SYMMETRY Symmetry
CHECK_DEADLOCK FALSE
