CONSTANTS
  Clients = {c1, c2}
  MaxRequests = 2
  Kinds = {"command", "unknown", "quit", "throws"}
  NoRequest = NoRequest
SPECIFICATION Spec
SYMMETRY ClientSymmetry
INVARIANTS TypeOK RepliesFit NothingAfterQuit NoRequestLost
PROPERTIES ImplementsRpc
CHECK_DEADLOCK FALSE
