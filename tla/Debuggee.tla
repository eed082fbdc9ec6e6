------------------------------ MODULE Debuggee ------------------------------
(***************************************************************************)
(* What the commands of the plugin look at and do not control: processes   *)
(* and threads of the machine, and which of them x64dbg debugs. Processes  *)
(* and threads start and end, and their ids are used again, while a        *)
(* command runs on the plugin's server thread. A process keeps its id as   *)
(* long as somebody holds a handle of it, and so does a thread.            *)
(*                                                                         *)
(* All of this is external to src/: it is modelled from the calls that     *)
(* src/src/xauto_cmd.cpp makes (DbgGetProcessId, OpenProcess, OpenThread,  *)
(* SuspendThread, ReadProcessMemory) and from what each may return.        *)
(***************************************************************************)
EXTENDS Naturals

CONSTANTS
  Procs,     (* processes, each of which lives once                        *)
  Pids,      (* process ids                                                *)
  Tids,      (* thread ids                                                 *)
  NoProc,    (* no process                                                 *)
  NoHandle   (* the server thread holds no handle                          *)

ASSUME DebuggeeAssumption ==
  /\ 0 \notin Pids /\ Pids \subseteq Nat
  /\ NoProc \notin Procs
  /\ NoHandle \notin Procs \union Tids
  /\ Procs \intersect Tids = {}

VARIABLES
  pidOf,     (* pidOf[p]: the id process p has or had or will get          *)
  owner,     (* owner[t]: the process of the thread with id t, or NoProc   *)
  suspends,  (* suspends[t]: that thread's suspend count                   *)
  ended,     (* the processes that have ended                              *)
  debuggee,  (* the process x64dbg debugs, or NoProc                       *)
  handle,    (* what the server thread holds a handle of, or NoHandle      *)
  since,     (* history: ids of threads started, or resumed by somebody    *)
             (* else, since the last snapshot                              *)
  asked,     (* history: the debuggee when the command asked for its id    *)
  left       (* history: x64dbg has stopped debugging it since             *)

environment == <<pidOf, owner, suspends, ended, debuggee, since, left>>

Alive == {p \in Procs : \E t \in Tids : owner[t] = p}

(* Ids are taken while a process lives, is debugged or has a handle open.  *)
PidTaken(id) ==
  \E p \in Alive \union ({debuggee, handle} \intersect Procs) : pidOf[p] = id

(* A process, or another thread of one, starts. *)
StartThread(p, t) ==
  /\ owner[t] = NoProc /\ t # handle
  /\ p \notin ended
  /\ p \in Alive \/ ~PidTaken(pidOf[p])
  /\ owner' = [owner EXCEPT ![t] = p]
  /\ suspends' = [suspends EXCEPT ![t] = 0]
  /\ since' = since \union {t}
  /\ UNCHANGED <<pidOf, ended, debuggee, left, handle, asked>>

(* A thread ends; with its last one its process does. *)
EndThread(t) ==
  /\ owner[t] # NoProc
  /\ owner' = [owner EXCEPT ![t] = NoProc]
  /\ suspends' = [suspends EXCEPT ![t] = 0]
  /\ ended' = IF \E u \in Tids \ {t} : owner[u] = owner[t] THEN ended
              ELSE ended \union {owner[t]}
  /\ UNCHANGED <<pidOf, debuggee, since, left, handle, asked>>

(* x64dbg's user, or the process itself, resumes a thread. *)
ResumeThread(t) ==
  /\ suspends[t] > 0
  /\ suspends' = [suspends EXCEPT ![t] = @ - 1]
  /\ since' = since \union {t}
  /\ UNCHANGED <<pidOf, owner, ended, debuggee, left, handle, asked>>

Attach(p) ==
  /\ debuggee = NoProc /\ p \in Alive
  /\ debuggee' = p
  /\ UNCHANGED <<pidOf, owner, suspends, ended, since, left, handle, asked>>

(* Debugging stops: the debuggee has ended, or the user detaches. *)
StopDebugging ==
  /\ debuggee # NoProc
  /\ debuggee' = NoProc
  /\ left' = (left \/ debuggee = asked)
  /\ UNCHANGED <<pidOf, owner, suspends, ended, since, handle, asked>>

DebuggeeInit ==
  /\ pidOf \in [Procs -> Pids]
  /\ owner \in [Tids -> Procs \union {NoProc}]
  /\ \A p, q \in Alive : p # q => pidOf[p] # pidOf[q]
  /\ suspends = [t \in Tids |-> 0]
  /\ ended = {}
  /\ debuggee \in Alive \union {NoProc}
  /\ handle = NoHandle
  /\ since = {} /\ asked = NoProc /\ left = FALSE

DebuggeeNext ==
  \/ \E p \in Procs, t \in Tids : StartThread(p, t)
  \/ \E t \in Tids : EndThread(t) \/ ResumeThread(t)
  \/ \E p \in Procs : Attach(p)
  \/ StopDebugging

DebuggeeTypeOK ==
  /\ pidOf \in [Procs -> Pids]
  /\ owner \in [Tids -> Procs \union {NoProc}]
  /\ suspends \in [Tids -> Nat]
  /\ ended \subseteq Procs
  /\ debuggee \in Procs \union {NoProc}
  /\ handle \in Procs \union Tids \union {NoHandle}
  /\ since \subseteq Tids
  /\ asked \in Procs \union {NoProc}
  /\ left \in BOOLEAN

-----------------------------------------------------------------------------
(* The calls the commands make.                                            *)

(* DbgGetProcessId: 0 without a debuggee. *)
DbgGetProcessId == IF debuggee = NoProc THEN 0 ELSE pidOf[debuggee]

(* The processes OpenProcess may open by an id: at most one lives. *)
Holders(id) == {p \in Alive : pidOf[p] = id}
=============================================================================
