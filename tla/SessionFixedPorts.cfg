CONSTANTS
  MaxStarts = 1
  Procs = {p1, p2}
  PortSpan = 8
  LocalPorts = {5, 6}
  Foreign = {}
  DefaultRep = 1
  DefaultPub = 2
  Settings <- WidePorts
  NoSocket = NoSocket
  NoFile = NoFile
SPECIFICATION Spec
INVARIANTS FixedPorts
CHECK_DEADLOCK FALSE
