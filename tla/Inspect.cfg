\* Two processes, two process ids, two thread ids, suspend counts up to two.
CONSTANTS
  Procs = {p1, p2}
  Pids = {1, 2}
  Tids = {11, 12}
  NoProc = NoProc
  NoHandle = NoHandle
  MaxSuspends = 2
  NoReply = NoReply
  Images <- MCImages
  Dword = 32
  Patches = {21, 22}
  Dumps <- MCDumps

SPECIFICATION FairSpec

INVARIANTS TypeOK HandlesClosed CallbacksFromFile RegistersDecoded

PROPERTIES StrangersLeftAlone NoFailureStops OncePerCommand OneProcess NearsEnd CommandReturns

\* A command that has run into undefined behaviour does not go on.
CHECK_DEADLOCK FALSE
