CONSTANTS
  Addr = {1, 2}
  Tracers = {t1}
  NoAddr = NoAddr
  Server = Server
  NoOwner = NoOwner
SPECIFICATION Spec
INVARIANTS EndIsRespected
