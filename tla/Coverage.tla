------------------------------ MODULE Coverage ------------------------------
(***************************************************************************)
(* Coverage tracking: the commands coverage_start, coverage_stop,          *)
(* coverage_get and coverage_clear, carried out by the server thread       *)
(* (src/src/xauto_cmd.cpp), and cb_trace_execute (src/src/plugin.cpp), run *)
(* by x64dbg for each traced instruction. They share g_coverage_active, an *)
(* atomic flag, and g_coverage_set, guarded by g_coverage_mutex.           *)
(***************************************************************************)
EXTENDS Naturals, FiniteSets

CONSTANTS Addr,     (* addresses the debuggee executes                     *)
          Tracers,  (* threads on which x64dbg runs the trace callback     *)
          NoAddr,   (* "no address"                                        *)
          Server,   (* the server thread                                   *)
          NoOwner   (* the mutex is free                                   *)

ASSUME CoverageAssumption ==
  /\ Addr \subseteq Nat \ {0} /\ IsFiniteSet(Addr)
  /\ NoAddr \notin Addr
  /\ Server \notin Tracers /\ NoOwner \notin Tracers \union {Server}

VARIABLES
  g_coverage_active,
  g_coverage_set,
  g_coverage_mutex,  (* the thread that holds it, or NoOwner               *)
  op,        (* the command the server thread carries out, or "none"       *)
  at,        (* where in it the server thread is                           *)
  range,     (* the filter of a get: <<start_filter, end_filter>>          *)
  todo,      (* get: the elements its loop has still to visit              *)
  addrs,     (* get: the elements its loop has kept                        *)
  tracer,    (* tracer[t]: where in the callback thread t is               *)
  cip,       (* cip[t]: the address t is about to insert, or NoAddr        *)
  reply,     (* the last response packed                                   *)
  allowed    (* history: since the last stop, what the set may hold        *)

flag    == g_coverage_active
command == <<op, at, range, todo, addrs, reply>>
trace   == <<tracer, cip>>
vars    == <<flag, g_coverage_set, g_coverage_mutex, command, trace, allowed>>

Bounds == Addr \union {0}

(* The condition of coverage_get's loop. *)
Kept(x, from, to) == from = 0 \/ (x >= from /\ (to = 0 \/ x < to))

InFlight == {cip[t] : t \in Tracers} \ {NoAddr}

-----------------------------------------------------------------------------
(* The commands. A command begins when the server thread dispatches it.    *)

(* The flag is stored before the mutex is asked for. *)
coverage_start ==
  /\ op = "none"
  /\ op' = "start" /\ at' = "lock"
  /\ g_coverage_active' = TRUE
  /\ UNCHANGED <<g_coverage_set, g_coverage_mutex, range, todo, addrs, reply, trace, allowed>>

(* Mutant of coverage_stop: the mutex asked for first, the flag still set. *)
StopLeavesFlag ==
  /\ op = "none"
  /\ op' = "stop" /\ at' = "lock"
  /\ UNCHANGED <<flag, g_coverage_set, g_coverage_mutex, range, todo, addrs,
                 reply, trace, allowed>>

coverage_stop ==
  /\ op = "none"
  /\ op' = "stop" /\ at' = "lock"
  /\ g_coverage_active' = FALSE
  /\ allowed' = g_coverage_set \union InFlight
  /\ UNCHANGED <<g_coverage_set, g_coverage_mutex, range, todo, addrs, reply, trace>>

(* Fewer than two arguments: both filters are 0. An argument that is no    *)
(* number throws: a request of kind "throws" in RepServer.                 *)
coverage_get ==
  /\ op = "none"
  /\ op' = "get" /\ at' = "lock"
  /\ range' \in Bounds \X Bounds
  /\ addrs' = {}
  /\ UNCHANGED <<flag, g_coverage_set, g_coverage_mutex, todo, reply, trace, allowed>>

coverage_clear ==
  /\ op = "none"
  /\ op' = "clear" /\ at' = "lock"
  /\ UNCHANGED <<flag, g_coverage_set, g_coverage_mutex, range, todo, addrs,
                 reply, trace, allowed>>

(* Mutant of Lock: the loop of coverage_get runs without the mutex. *)
LockExceptGet ==
  /\ at = "lock" /\ op # "none"
  /\ IF op = "get" THEN UNCHANGED g_coverage_mutex
     ELSE g_coverage_mutex = NoOwner /\ g_coverage_mutex' = Server
  /\ at' = "locked"
  /\ todo' = IF op = "get" THEN g_coverage_set ELSE {}
  /\ UNCHANGED <<flag, g_coverage_set, op, range, addrs, reply, trace, allowed>>

Lock ==
  /\ at = "lock" /\ g_coverage_mutex = NoOwner
  /\ g_coverage_mutex' = Server
  /\ at' = "locked"
  /\ todo' = IF op = "get" THEN g_coverage_set ELSE {}
  /\ UNCHANGED <<flag, g_coverage_set, op, range, addrs, reply, trace, allowed>>

(* lock_guard's destructor, when the command is done with the set. *)
Unlock ==
  /\ g_coverage_mutex' = NoOwner
  /\ op' = "none" /\ at' = "idle"
  /\ range' = <<0, 0>> /\ todo' = {} /\ addrs' = {}

(* Packed under the lock: the state the command set, and the set's size. *)
AnswerSwitch ==
  /\ at = "locked" /\ op \in {"start", "stop"}
  /\ reply' = [op |-> "switch", active |-> (op = "start"), size |-> Cardinality(g_coverage_set)]
  /\ Unlock
  /\ UNCHANGED <<flag, g_coverage_set, trace, allowed>>

AnswerClear ==
  /\ at = "locked" /\ op = "clear"
  /\ g_coverage_set' = {}
  /\ reply' = [op |-> "clear"]
  /\ Unlock
  /\ UNCHANGED <<flag, trace, allowed>>

(* One turn of coverage_get's loop. *)
Visit ==
  /\ at = "locked" /\ op = "get"
  /\ \E x \in todo :
       /\ todo' = todo \ {x}
       /\ addrs' = IF Kept(x, range[1], range[2]) THEN addrs \union {x} ELSE addrs
  /\ UNCHANGED <<flag, g_coverage_set, g_coverage_mutex, op, at, range, reply, trace, allowed>>

(* The loop ends. What follows, outside the lock, works on a local vector: *)
(* sorted, it is determined by the set of its elements.                    *)
AnswerGet ==
  /\ at = "locked" /\ op = "get" /\ todo = {}
  /\ reply' = [op |-> "get", addrs |-> addrs]
  /\ Unlock
  /\ UNCHANGED <<flag, g_coverage_set, trace, allowed>>

-----------------------------------------------------------------------------
(* cb_trace_execute.                                                       *)

(* Mutant of TraceCheck: the flag not looked at. *)
TraceUnchecked(t) ==
  /\ tracer[t] = "idle"
  /\ \E x \in Addr : cip' = [cip EXCEPT ![t] = x]
  /\ tracer' = [tracer EXCEPT ![t] = "lock"]
  /\ UNCHANGED <<flag, g_coverage_set, g_coverage_mutex, command, allowed>>

(* Mutant of TraceCheck: the callback's information not read. *)
TraceWithoutCip(t) ==
  /\ tracer[t] = "idle" /\ g_coverage_active
  /\ tracer' = [tracer EXCEPT ![t] = "lock"]
  /\ UNCHANGED <<flag, g_coverage_set, g_coverage_mutex, command, cip, allowed>>

(* An instruction is executed; if the flag is set the callback goes on.    *)
TraceCheck(t) ==
  /\ tracer[t] = "idle" /\ g_coverage_active
  /\ \E x \in Addr : cip' = [cip EXCEPT ![t] = x]
  /\ tracer' = [tracer EXCEPT ![t] = "lock"]
  /\ UNCHANGED <<flag, g_coverage_set, g_coverage_mutex, command, allowed>>

TraceLock(t) ==
  /\ tracer[t] = "lock" /\ g_coverage_mutex = NoOwner
  /\ g_coverage_mutex' = t
  /\ tracer' = [tracer EXCEPT ![t] = "locked"]
  /\ UNCHANGED <<flag, g_coverage_set, command, cip, allowed>>

TraceInsert(t) ==
  /\ tracer[t] = "locked"
  /\ g_coverage_set' = g_coverage_set \union {cip[t]}
  /\ g_coverage_mutex' = NoOwner
  /\ tracer' = [tracer EXCEPT ![t] = "idle"]
  /\ cip' = [cip EXCEPT ![t] = NoAddr]
  /\ UNCHANGED <<flag, command, allowed>>

-----------------------------------------------------------------------------
Init ==
  /\ g_coverage_active = FALSE
  /\ g_coverage_set = {}
  /\ g_coverage_mutex = NoOwner
  /\ op = "none" /\ at = "idle" /\ range = <<0, 0>> /\ todo = {} /\ addrs = {}
  /\ tracer = [t \in Tracers |-> "idle"]
  /\ cip = [t \in Tracers |-> NoAddr]
  /\ reply = [op |-> "none"]
  /\ allowed = {}

Begin == coverage_start \/ coverage_stop \/ coverage_get \/ coverage_clear

ServerStep == Lock \/ AnswerSwitch \/ AnswerClear \/ Visit \/ AnswerGet

TracerStep(t) == TraceCheck(t) \/ TraceLock(t) \/ TraceInsert(t)

Next == Begin \/ ServerStep \/ \E t \in Tracers : TracerStep(t)

Spec == Init /\ [][Next]_vars

(* A thread that is not waiting for the mutex keeps running. The mutex is  *)
(* not fair: a thread that waits is only sure to get it once it stays free *)
(* (WF, not SF). The debuggee need not run, and no command has to come.    *)
Fairness == /\ WF_vars(ServerStep)
            /\ \A t \in Tracers : WF_vars(TraceLock(t) \/ TraceInsert(t))

FairSpec == Spec /\ Fairness

-----------------------------------------------------------------------------
(* Properties.                                                             *)

(* What the four commands may answer.                                      *)
Replies == [op : {"none", "clear"}]
             \union [op : {"switch"}, active : BOOLEAN, size : Nat]
             \union [op : {"get"}, addrs : SUBSET Addr]

(* Types of the coverage globals, of the command in progress and of the    *)
(* tracer threads: the set only ever holds addresses a tracer read from    *)
(* CIP, never its unset value.                                             *)
TypeOK ==
  /\ g_coverage_active \in BOOLEAN
  /\ g_coverage_set \subseteq Addr
  /\ g_coverage_mutex \in Tracers \union {Server, NoOwner}
  /\ op \in {"none", "start", "stop", "get", "clear"}
  /\ at \in {"idle", "lock", "locked"}
  /\ range \in Bounds \X Bounds
  /\ todo \subseteq Addr
  /\ addrs \subseteq Addr
  /\ tracer \in [Tracers -> {"idle", "lock", "locked"}]
  /\ cip \in [Tracers -> Addr \union {NoAddr}]
  /\ reply \in Replies
  /\ allowed \subseteq Addr

(* No data race on g_coverage_set: of all the threads that read, insert,   *)
(* clear or iterate, only one is between lock and unlock.                  *)
InSet == {t \in Tracers : tracer[t] = "locked"}
           \union {s \in {Server} : at = "locked"}
SetAccessExclusive == \A s, t \in InSet : s = t

(* Once coverage_stop has stored FALSE the recording is frozen: the set    *)
(* may still gain the address a callback had in hand, and nothing else,    *)
(* until it is started again.                                              *)
StopFreezes == ~g_coverage_active => g_coverage_set \union InFlight \subseteq allowed

(* Every answer of the commands is the one for the set at one moment, also *)
(* a coverage_get that walks the set while the debuggee is being traced.   *)
Filter(S, from, to) == {x \in S : Kept(x, from, to)}

LOG == INSTANCE CoverageLog WITH
         Size    <- Cardinality,
         on      <- g_coverage_active,
         log     <- g_coverage_set,
         noticed <- cip,
         answer  <- reply

ImplementsLog == LOG!Spec

(* coverage_stop returns even if the debuggee is being traced so hard that *)
(* the callback takes the mutex again and again, and the mutex is unfair:  *)
(* the flag it stored first dries up the competition.                      *)
StopReturns == op = "stop" ~> op = "none"

(* The comment at coverage_get: "both 0 = return all". With an end alone,  *)
(* not everything is to be returned.                                       *)
EndIsRespected ==
  at = "locked" /\ op = "get" /\ range[2] # 0 => \A x \in addrs : x < range[2]
=============================================================================
