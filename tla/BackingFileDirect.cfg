CONSTANTS
  Names = {demo}
  Channels = {first, second}
  Procs = {p1, p2, p3}
  None = None
SPECIFICATION FilesSpec
INVARIANT FileKept
CHECK_DEADLOCK FALSE
