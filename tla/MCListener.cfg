CONSTANTS
  Listeners = {1, 2}
  MaxAccepts = 2
  Servers = {1, 2}
  Clients = {11, 12}
  Channels = {x, y}
  None = None
  Names <- ConnNames
  Procs <- Processes
  Host <- OwnHost
  Flavours <- ThreeFlavours
  Failing <- WindowsFlavours
SPECIFICATION LiveSpec
INVARIANTS
  TypeOK
  OwnChannel
  FileKept
  FilesAccountedFor
PROPERTIES
  ConnectEnds
CHECK_DEADLOCK FALSE
