\* The debugger starts, pauses and resumes, and one callback reads memory. The
\* pipe of a subscriber overflows at the third event that it does not receive.
CONSTANTS
  Subscribers = {s1, s2}
  Callbacks = {"CB_INITDEBUG", "CB_OUTPUTDEBUGSTRING", "CB_PAUSEDEBUG", "CB_RESUMEDEBUG"}
  HighWater = 2
  MaxEvents = 4
  NoEvent = NoEvent
SPECIFICATION FairSpec
INVARIANTS TypeOK NoGaps KnowsState EveryEventOut
PROPERTIES ImplementsFeed CallbackReturns
CHECK_DEADLOCK FALSE
