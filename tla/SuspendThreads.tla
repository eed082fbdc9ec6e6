--------------------------- MODULE SuspendThreads ---------------------------
(***************************************************************************)
(* dbg_suspend_all_threads (src/src/xauto_cmd.cpp): a snapshot of all      *)
(* threads of the machine, then one OpenThread and one SuspendThread for   *)
(* each entry that names the debuggee's process id. The debuggee runs on   *)
(* meanwhile: threads of the snapshot end, others start, and an id may be  *)
(* a stranger's by the time it is opened.                                  *)
(***************************************************************************)
EXTENDS Debuggee

CONSTANTS
  MaxSuspends,   (* the highest suspend count of a thread (127)            *)
  NoReply        (* nothing has been packed                                *)

ASSUME SuspendAssumption == MaxSuspends \in Nat

VARIABLES
  at,         (* where the server thread is                                *)
  reply,      (* the object packed, or NoReply                             *)
  pid,        (* local: the id DbgGetProcessId returned                    *)
  todo,       (* local: entries <<thread id, process id>> still to come    *)
  suspended,  (* local: the two counters of the reply                      *)
  failed,
  stopped     (* history: ids of the threads this command has suspended    *)

counters == <<suspended, failed>>
walk     == <<todo, counters, stopped>>
suspendVars == <<environment, handle, asked, at, reply, pid, walk>>

XError == [head |-> "XERROR"]
False  == [head |-> "FALSE"]
Counts(s, f) == [head |-> "counts", suspended |-> s, failed |-> f]

WalkSteps == {"snapshot", "walk", "opened"}

-----------------------------------------------------------------------------
(* A command begins by asking for the debuggee's id.                       *)
AsksForPid ==
  /\ at = "idle"
  /\ pid' = DbgGetProcessId
  /\ asked' = debuggee /\ left' = FALSE
  /\ UNCHANGED <<pidOf, owner, suspends, ended, debuggee, since, handle, walk>>

(* The reply is packed. No local outlives the command. *)
Packs(r) ==
  /\ reply' = r
  /\ at' = "packed"
  /\ pid' = 0
  /\ todo' = {} /\ suspended' = 0 /\ failed' = 0 /\ stopped' = {}

(* The server thread sends the reply and takes the next request. *)
NextRequest ==
  /\ at = "packed"
  /\ at' = "idle" /\ reply' = NoReply
  /\ asked' = NoProc /\ left' = FALSE /\ since' = {}
  /\ UNCHANGED <<pidOf, owner, suspends, ended, debuggee, handle, pid, walk>>

dbg_suspend_all_threads ==
  /\ AsksForPid
  /\ IF pid' = 0 THEN at' = "packed" /\ reply' = XError
     ELSE at' = "snapshot" /\ UNCHANGED reply

(* CreateToolhelp32Snapshot(TH32CS_SNAPTHREAD, 0): all threads of the      *)
(* machine, in any order, or none of it. Thread32First and Thread32Next    *)
(* fail only where there is no further entry.                              *)
Snapshot ==
  /\ at = "snapshot"
  /\ \/ /\ Packs(False)
        /\ UNCHANGED since
     \/ /\ todo' = {<<t, pidOf[owner[t]]>> : t \in {u \in Tids : owner[u] # NoProc}}
        /\ since' = {}
        /\ at' = "walk"
        /\ UNCHANGED <<reply, pid, counters, stopped>>
  /\ UNCHANGED <<pidOf, owner, suspends, ended, debuggee, left, handle, asked>>

(* Mutant of OfDebuggee: the owner of an entry not looked at. *)
OfAnyone(e) == TRUE

(* te32.th32OwnerProcessID == pid *)
OfDebuggee(e) == e[2] = pid

Entries == {e \in todo : OfDebuggee(e)}

(* Mutant of OpenThread: an entry that cannot be opened is passed over. *)
OpenThreadPassesOver ==
  /\ at = "walk"
  /\ \E e \in Entries :
       /\ todo' = todo \ {e}
       /\ \/ /\ owner[e[1]] # NoProc
             /\ handle' = e[1] /\ at' = "opened"
          \/ UNCHANGED <<handle, at>>
       /\ UNCHANGED failed
  /\ UNCHANGED <<environment, asked, reply, pid, suspended, stopped>>

(* Mutant of OpenThread: an entry is done with only when it has failed. *)
OpenThreadAgain ==
  /\ at = "walk"
  /\ \E e \in Entries :
       \/ /\ owner[e[1]] # NoProc
          /\ handle' = e[1] /\ at' = "opened"
          /\ UNCHANGED <<todo, failed>>
       \/ /\ todo' = todo \ {e} /\ failed' = failed + 1
          /\ UNCHANGED <<handle, at>>
  /\ UNCHANGED <<environment, asked, reply, pid, suspended, stopped>>

(* The next entry of the debuggee's. Its id names whatever thread has it   *)
(* now; OpenThread fails if none has, and may fail anyway.                 *)
OpenThread ==
  /\ at = "walk"
  /\ \E e \in Entries :
       /\ todo' = todo \ {e}
       /\ \/ /\ owner[e[1]] # NoProc
             /\ handle' = e[1] /\ at' = "opened"
             /\ UNCHANGED failed
          \/ /\ failed' = failed + 1
             /\ UNCHANGED <<handle, at>>
  /\ UNCHANGED <<environment, asked, reply, pid, suspended, stopped>>

(* Mutant of SuspendThread: the handle is closed where the call succeeded. *)
SuspendThreadLeaks ==
  /\ at = "opened"
  /\ \/ /\ owner[handle] # NoProc /\ suspends[handle] < MaxSuspends
        /\ suspends' = [suspends EXCEPT ![handle] = @ + 1]
        /\ suspended' = suspended + 1 /\ stopped' = stopped \union {handle}
        /\ handle' = NoHandle
        /\ UNCHANGED failed
     \/ /\ failed' = failed + 1
        /\ UNCHANGED <<suspends, suspended, stopped, handle>>
  /\ at' = "walk"
  /\ UNCHANGED <<pidOf, owner, ended, debuggee, since, left, asked, reply, pid, todo>>

(* SuspendThread and CloseHandle. The thread may have ended meanwhile, but *)
(* with the handle open its id is not another's.                           *)
SuspendThread ==
  /\ at = "opened"
  /\ \/ /\ owner[handle] # NoProc /\ suspends[handle] < MaxSuspends
        /\ suspends' = [suspends EXCEPT ![handle] = @ + 1]
        /\ suspended' = suspended + 1 /\ stopped' = stopped \union {handle}
        /\ UNCHANGED failed
     \/ /\ failed' = failed + 1
        /\ UNCHANGED <<suspends, suspended, stopped>>
  /\ handle' = NoHandle
  /\ at' = "walk"
  /\ UNCHANGED <<pidOf, owner, ended, debuggee, since, left, asked, reply, pid, todo>>

(* Mutant of EndOfWalk: once more from the start until all are stopped. *)
EndOfWalkRepeats ==
  /\ at = "walk" /\ Entries = {}
  /\ IF \E t \in Tids : owner[t] # NoProc /\ pidOf[owner[t]] = pid /\ suspends[t] = 0
     THEN /\ at' = "snapshot"
          /\ todo' = {} /\ suspended' = 0 /\ failed' = 0 /\ stopped' = {}
          /\ UNCHANGED <<reply, pid>>
     ELSE Packs(Counts(suspended, failed))
  /\ UNCHANGED <<environment, handle, asked>>

(* Thread32Next has no more entries. *)
EndOfWalk ==
  /\ at = "walk" /\ Entries = {}
  /\ Packs(Counts(suspended, failed))
  /\ UNCHANGED <<environment, handle, asked>>

-----------------------------------------------------------------------------
SuspendInit ==
  /\ DebuggeeInit
  /\ at = "idle" /\ reply = NoReply /\ pid = 0
  /\ todo = {} /\ suspended = 0 /\ failed = 0 /\ stopped = {}

WalkNext == Snapshot \/ OpenThread \/ SuspendThread \/ EndOfWalk
SuspendNext == dbg_suspend_all_threads \/ WalkNext \/ NextRequest

(* The environment changes none of the server thread's variables. *)
Elsewhere == DebuggeeNext /\ UNCHANGED <<at, reply, pid, walk>>

SuspendSpec == SuspendInit /\ [][SuspendNext \/ Elsewhere]_suspendVars

-----------------------------------------------------------------------------
(* Properties.                                                             *)

(* A thread that is not the debuggee's is suspended only if its id, or     *)
(* that of the debuggee, has changed hands while the command ran.          *)
StrangersLeftAlone ==
  [][\A t \in Tids : suspends'[t] > suspends[t] =>
       t \in since \/ owner[t] = asked \/ asked \in ended]_suspendVars

(* If the reply counts no failure, then every thread the debuggee had at   *)
(* the snapshot and that has neither ended nor been resumed by somebody    *)
(* else is suspended: only threads started meanwhile can be running.       *)
NoFailureStops ==
  [][EndOfWalk /\ reply'.failed = 0 =>
       \A t \in Tids \ since : (owner[t] = asked /\ asked # NoProc)
                                 => suspends[t] > 0]_suspendVars

(* One command suspends a thread at most once, so that one resume undoes   *)
(* it; and it does not suspend a thread that has got such a thread's id.   *)
OncePerCommand ==
  [][\A t \in stopped : ~(suspends'[t] > suspends[t])]_suspendVars
=============================================================================
