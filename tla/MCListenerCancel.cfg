CONSTANTS
  Listeners = {1}
  MaxAccepts = 1
  Servers = {1}
  Clients = {11}
  Channels = {x}
  None = None
  Names <- ConnNames
  Procs <- Processes
  Host <- OwnHost
  Flavours <- TokioUnix
  Failing = {}
SPECIFICATION Spec
INVARIANT NoClientLost
CHECK_DEADLOCK FALSE
