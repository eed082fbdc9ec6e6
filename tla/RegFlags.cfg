\* The register dumps of Inspect.cfg.
CONSTANTS
  Procs = {p1, p2}
  Pids = {1, 2}
  Tids = {11}
  NoProc = NoProc
  NoHandle = NoHandle
  MaxSuspends = 1
  NoReply = NoReply
  Images <- MCImages
  Dword = 32
  Patches = {}
  Dumps <- MCDumps
SPECIFICATION Spec
INVARIANTS FlagsCalculated
CHECK_DEADLOCK FALSE
