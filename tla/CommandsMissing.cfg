CONSTANTS
  Requests <- Unchecked
  UserActs = FALSE
  Beyond <- Leftovers
  Addr <- MCAddr
  Value <- MCValue
  Huge = 9
  Keys <- MCKeys
  Unreadable = Unreadable
  Missing = Missing
  NoReply = NoReply
SPECIFICATION Spec
CHECK_DEADLOCK FALSE
INVARIANTS IncompleteIsRejected
