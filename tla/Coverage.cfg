\* Two tracers stand for callbacks on more than one thread; three addresses put
\* one below, one in and one above a range.
CONSTANTS
  Addr = {1, 2, 3}
  Tracers = {t1, t2}
  NoAddr = NoAddr
  Server = Server
  NoOwner = NoOwner
SPECIFICATION FairSpec
INVARIANTS TypeOK SetAccessExclusive StopFreezes
PROPERTIES ImplementsLog StopReturns
