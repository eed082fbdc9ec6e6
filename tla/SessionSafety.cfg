CONSTANTS
  MaxStarts = 3
  Procs = {p1, p2}
  PortSpan = 8
  LocalPorts = {5, 6, 7}
  Foreign = {6}
  DefaultRep = 1
  DefaultPub = 2
  Settings <- EditedSettings
  NoSocket = NoSocket
  NoFile = NoFile
SPECIFICATION FairSpec
INVARIANTS TypeOK FileIsTrue AllOrNothing NothingLeft DialogShowsNext
PROPERTIES LocalStarts AcceptedIsUsed ImplementsBoard
CHECK_DEADLOCK FALSE
