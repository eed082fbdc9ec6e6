\* Two clients, each with two messages at a time and no last one.
CONSTANTS
  Clients = {c1, c2}
  MaxRequests = 2
  Kinds = {"ping", "quit"}
  NoRequest = NoRequest
SPECIFICATION StreamSpec
PROPERTIES EveryClientServed QuitEndsProcess
CHECK_DEADLOCK FALSE
