CONSTANTS
  MaxStarts = 1
  Procs = {p1, p2}
  PortSpan = 8
  LocalPorts = {5, 6}
  Foreign = {}
  DefaultRep = 1
  DefaultPub = 2
  Settings <- MissingAddress
  NoSocket = NoSocket
  NoFile = NoFile
SPECIFICATION Spec
INVARIANTS DefaultsToLoopback
CHECK_DEADLOCK FALSE
