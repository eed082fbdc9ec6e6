CONSTANTS
  Requests <- Checked
  UserActs = TRUE
  Beyond <- Leftovers
  Addr <- MCAddr
  Value <- MCValue
  Huge = 9
  Keys <- MCKeys
  Unreadable = Unreadable
  Missing = Missing
  NoReply = NoReply
SPECIFICATION Spec
CHECK_DEADLOCK FALSE
INVARIANTS TypeOK IncompleteIsRejected
PROPERTIES ResultIsOwn
