--------------------------- MODULE CoverageProofs ---------------------------
(***************************************************************************)
(* Proofs about Coverage for any finite set of addresses and any number of *)
(* tracing threads: types, mutual exclusion on the set, the freeze after   *)
(* coverage_stop, and that it implements CoverageLog.                      *)
(***************************************************************************)
EXTENDS Coverage, FiniteSetTheorems, TLAPS

(* The size that start and stop report is a number. *)
LEMMA SizeType ==
  ASSUME g_coverage_set \subseteq Addr
  PROVE  Cardinality(g_coverage_set) \in Nat
  BY CoverageAssumption, FS_Subset, FS_CardinalityType

LEMMA TypeInit == Init => TypeOK
  <1> SUFFICES ASSUME Init PROVE TypeOK
    OBVIOUS
  <1>1. reply \in Replies
    BY DEF Init, Replies
  <1>2. range \in Bounds \X Bounds
    BY DEF Init, Bounds
  <1> QED
    BY <1>1, <1>2 DEF Init, TypeOK

(* A tracer past its check has an address in hand. *)
InHand == \A t \in Tracers : tracer[t] # "idle" <=> cip[t] # NoAddr

LEMMA TypeStep == TypeOK /\ InHand /\ [Next]_vars => TypeOK' /\ InHand'
  <1> SUFFICES ASSUME TypeOK, InHand, [Next]_vars PROVE TypeOK' /\ InHand'
    OBVIOUS
  <1> USE DEF flag, command, trace
  <1>1. CASE Begin
    <2>1. InFlight \subseteq Addr
      BY DEF InFlight, TypeOK
    <2> QED
      BY <1>1, <2>1 DEF Begin, coverage_start, coverage_stop, coverage_get, coverage_clear,
                        TypeOK, InHand
  <1>2. CASE Lock
    BY <1>2 DEF Lock, TypeOK, InHand
  <1>3. CASE AnswerSwitch
    <2>1. reply' \in Replies
      BY <1>3, SizeType DEF AnswerSwitch, TypeOK, Replies
    <2> QED
      BY <1>3, <2>1 DEF AnswerSwitch, Unlock, TypeOK, InHand, Bounds
  <1>4. CASE AnswerClear
    <2>1. reply' \in Replies
      BY <1>4 DEF AnswerClear, Replies
    <2> QED
      BY <1>4, <2>1 DEF AnswerClear, Unlock, TypeOK, InHand, Bounds
  <1>5. CASE Visit
    BY <1>5 DEF Visit, TypeOK, InHand
  <1>6. CASE AnswerGet
    <2>1. reply' \in Replies
      BY <1>6 DEF AnswerGet, TypeOK, Replies
    <2> QED
      BY <1>6, <2>1 DEF AnswerGet, Unlock, TypeOK, InHand, Bounds
  <1>7. ASSUME NEW t \in Tracers, TraceCheck(t) PROVE TypeOK' /\ InHand'
    BY <1>7, CoverageAssumption DEF TraceCheck, TypeOK, InHand
  <1>8. ASSUME NEW t \in Tracers, TraceLock(t) PROVE TypeOK' /\ InHand'
    BY <1>8 DEF TraceLock, TypeOK, InHand
  <1>9. ASSUME NEW t \in Tracers, TraceInsert(t) PROVE TypeOK' /\ InHand'
    BY <1>9 DEF TraceInsert, TypeOK, InHand
  <1>10. CASE UNCHANGED vars
    BY <1>10 DEF vars, TypeOK, InHand
  <1> QED
    BY <1>1, <1>2, <1>3, <1>4, <1>5, <1>6, <1>7, <1>8, <1>9, <1>10
       DEF Next, ServerStep, TracerStep

(* Every variable keeps its range; what is inserted is an address.         *)
THEOREM TypeCorrect == Spec => []TypeOK
  <1>1. Init => InHand
    BY DEF Init, InHand
  <1> QED
    BY <1>1, TypeInit, TypeStep, PTL DEF Spec

-----------------------------------------------------------------------------
(* The inductive invariant.                                                *)

(* Who is between lock and unlock holds the mutex.                         *)
Holders ==
  /\ at = "locked" <=> g_coverage_mutex = Server
  /\ \A t \in Tracers : tracer[t] = "locked" <=> g_coverage_mutex = t
  /\ at # "idle" <=> op # "none"

(* The walk: what is kept and what is still to be visited make up the set. *)
Walk ==
  at = "locked" /\ op = "get" =>
    /\ todo \subseteq g_coverage_set
    /\ addrs = Filter(g_coverage_set \ todo, range[1], range[2])

(* Before the walk nothing has been kept. *)
BeforeWalk == at # "locked" => addrs = {}

(* The server thread is alone in setting the flag, so the state it packs   *)
(* is the one the flag has.                                                *)
FlagStored == /\ op = "start" => g_coverage_active
              /\ op = "stop" => ~g_coverage_active

CoverageInv ==
  InHand /\ Holders /\ Walk /\ BeforeWalk /\ FlagStored /\ StopFreezes

LEMMA CoverageInit == Init => CoverageInv
  BY CoverageAssumption DEF Init, CoverageInv, InHand, Holders, Walk, BeforeWalk,
                            FlagStored, StopFreezes, InFlight

LEMMA CoverageStep == TypeOK /\ CoverageInv /\ [Next]_vars => CoverageInv'
  <1> SUFFICES ASSUME TypeOK, CoverageInv, [Next]_vars PROVE CoverageInv'
    OBVIOUS
  <1> USE DEF flag, command, trace
  <1>1. InHand'
    BY TypeStep DEF CoverageInv
  <1>0. FlagStored'
    BY DEF CoverageInv, FlagStored, Next, Begin, ServerStep, TracerStep, coverage_start,
           coverage_stop, coverage_get, coverage_clear, Lock, AnswerSwitch, AnswerClear,
           Visit, AnswerGet, Unlock, TraceCheck, TraceLock, TraceInsert, vars
  <1>2. CASE Begin
    <2>1. /\ UNCHANGED <<g_coverage_set, g_coverage_mutex, trace>>
          /\ op = "none" /\ at' = "lock" /\ op' # "none"
      BY <1>2 DEF Begin, coverage_start, coverage_stop, coverage_get, coverage_clear
    <2>2. Holders' /\ Walk'
      BY <2>1 DEF CoverageInv, Holders, Walk
    <2>3. StopFreezes'
      BY <1>2, <2>1 DEF Begin, coverage_start, coverage_stop, coverage_get, coverage_clear,
                        CoverageInv, StopFreezes, InFlight
    <2>4. BeforeWalk'
      BY <1>2, <2>1 DEF Begin, coverage_start, coverage_stop, coverage_get, coverage_clear,
                        CoverageInv, Holders, BeforeWalk
    <2> QED
      BY <1>1, <1>0, <2>2, <2>3, <2>4 DEF CoverageInv
  <1>3. CASE Lock
    <2>1. Holders' /\ Walk' /\ BeforeWalk'
      BY <1>3, CoverageAssumption DEF Lock, CoverageInv, Holders, Walk, BeforeWalk, Filter
    <2>2. StopFreezes'
      BY <1>3 DEF Lock, CoverageInv, StopFreezes, InFlight
    <2> QED
      BY <1>1, <1>0, <2>1, <2>2 DEF CoverageInv
  <1>4. CASE AnswerSwitch \/ AnswerClear \/ AnswerGet
    <2>1. /\ g_coverage_mutex = Server /\ g_coverage_mutex' = NoOwner
          /\ op' = "none" /\ at' = "idle" /\ addrs' = {}
          /\ g_coverage_set' \subseteq g_coverage_set
          /\ UNCHANGED <<flag, trace, allowed>>
      BY <1>4 DEF AnswerSwitch, AnswerClear, AnswerGet, Unlock, CoverageInv, Holders
    <2>2. Holders'
      BY <2>1, CoverageAssumption DEF CoverageInv, Holders
    <2>3. Walk' /\ BeforeWalk'
      BY <2>1 DEF Walk, BeforeWalk
    <2>4. StopFreezes'
      BY <2>1 DEF CoverageInv, StopFreezes, InFlight
    <2> QED
      BY <1>1, <1>0, <2>2, <2>3, <2>4 DEF CoverageInv
  <1>5. CASE Visit
    <2>1. PICK x \in todo :
            /\ todo' = todo \ {x}
            /\ addrs' = IF Kept(x, range[1], range[2]) THEN addrs \union {x} ELSE addrs
      BY <1>5 DEF Visit
    <2>2. /\ at = "locked" /\ op = "get"
          /\ UNCHANGED <<flag, g_coverage_set, g_coverage_mutex, op, at, range, trace, allowed>>
      BY <1>5 DEF Visit
    <2>3. Walk'
      <3>1. todo \subseteq g_coverage_set /\ addrs = Filter(g_coverage_set \ todo, range[1], range[2])
        BY <2>2 DEF CoverageInv, Walk
      <3>2. g_coverage_set \ todo' = (g_coverage_set \ todo) \union {x}
        BY <2>1, <3>1
      <3>3. addrs' = Filter(g_coverage_set \ todo', range[1], range[2])
        BY <2>1, <3>1, <3>2 DEF Filter
      <3> QED
        BY <2>1, <2>2, <3>1, <3>3 DEF Walk
    <2>4. Holders' /\ BeforeWalk'
      BY <2>2 DEF CoverageInv, Holders, BeforeWalk
    <2>5. StopFreezes'
      BY <2>2 DEF CoverageInv, StopFreezes, InFlight
    <2> QED
      BY <1>1, <1>0, <2>3, <2>4, <2>5 DEF CoverageInv
  <1>6. ASSUME NEW t \in Tracers, TraceCheck(t) PROVE CoverageInv'
    <2>1. Holders' /\ Walk' /\ BeforeWalk'
      BY <1>6, CoverageAssumption DEF TraceCheck, CoverageInv, Holders, Walk, BeforeWalk, TypeOK
    <2>2. StopFreezes'
      BY <1>6 DEF TraceCheck, StopFreezes
    <2> QED
      BY <1>1, <1>0, <2>1, <2>2 DEF CoverageInv
  <1>7. ASSUME NEW t \in Tracers, TraceLock(t) PROVE CoverageInv'
    <2>1. Holders' /\ Walk' /\ BeforeWalk'
      BY <1>7, CoverageAssumption DEF TraceLock, CoverageInv, Holders, Walk, BeforeWalk, TypeOK
    <2>2. StopFreezes'
      BY <1>7 DEF TraceLock, CoverageInv, StopFreezes, InFlight
    <2> QED
      BY <1>1, <1>0, <2>1, <2>2 DEF CoverageInv
  <1>8. ASSUME NEW t \in Tracers, TraceInsert(t) PROVE CoverageInv'
    <2>1. /\ tracer[t] = "locked" /\ g_coverage_mutex = t
          /\ g_coverage_set' = g_coverage_set \union {cip[t]}
          /\ g_coverage_mutex' = NoOwner
          /\ tracer' = [tracer EXCEPT ![t] = "idle"]
          /\ cip' = [cip EXCEPT ![t] = NoAddr]
          /\ UNCHANGED <<flag, command, allowed>>
      BY <1>8 DEF TraceInsert, CoverageInv, Holders
    <2>2. Holders' /\ Walk' /\ BeforeWalk'
      BY <2>1, CoverageAssumption DEF CoverageInv, Holders, Walk, BeforeWalk, TypeOK
    <2>3. StopFreezes'
      <3>1. cip[t] \in InFlight
        BY <2>1 DEF InFlight, CoverageInv, InHand
      <3>2. InFlight' \subseteq InFlight
        BY <2>1 DEF InFlight, TypeOK
      <3> QED
        BY <2>1, <3>1, <3>2 DEF CoverageInv, StopFreezes
    <2> QED
      BY <1>1, <1>0, <2>2, <2>3 DEF CoverageInv
  <1>9. CASE UNCHANGED vars
    BY <1>1, <1>0, <1>9 DEF vars, CoverageInv, Holders, Walk, BeforeWalk, StopFreezes, InFlight
  <1> QED
    BY <1>2, <1>3, <1>4, <1>5, <1>6, <1>7, <1>8, <1>9 DEF Next, ServerStep, TracerStep

LEMMA CoverageInvariant == Spec => [](TypeOK /\ CoverageInv)
  <1>1. CoverageInv => InHand
    BY DEF CoverageInv
  <1> QED
    BY <1>1, TypeInit, TypeStep, CoverageInit, CoverageStep, PTL DEF Spec

(* No two threads are ever inside the coverage set.                        *)
THEOREM NoDataRace == Spec => []SetAccessExclusive
  <1>1. CoverageInv => SetAccessExclusive
    BY CoverageAssumption DEF CoverageInv, Holders, SetAccessExclusive, InSet
  <1> QED
    BY <1>1, CoverageInvariant, PTL

(* After a stop only addresses that were already in hand are added.        *)
THEOREM Frozen == Spec => []StopFreezes
  BY CoverageInvariant, PTL DEF CoverageInv

-----------------------------------------------------------------------------
(* Refinement.                                                             *)

LEMMA LogStep == TypeOK /\ CoverageInv /\ [Next]_vars => [LOG!Next]_LOG!vars
  <1> SUFFICES ASSUME TypeOK, CoverageInv, [Next]_vars
               PROVE  LOG!Next \/ UNCHANGED LOG!vars
    OBVIOUS
  <1> USE DEF flag, command, trace
  <1>1. CASE coverage_start
    <2>1. LOG!Switch(TRUE)
      BY <1>1 DEF coverage_start, LOG!Switch
    <2> QED
      BY <2>1 DEF LOG!Next
  <1>2. CASE coverage_stop
    <2>1. LOG!Switch(FALSE)
      BY <1>2 DEF coverage_stop, LOG!Switch
    <2> QED
      BY <2>1 DEF LOG!Next
  <1>3. CASE coverage_get \/ coverage_clear \/ Lock \/ Visit
    BY <1>3 DEF coverage_get, coverage_clear, Lock, Visit, LOG!vars
  <1>4. CASE AnswerSwitch
    <2>1. (op = "start") = g_coverage_active
      <3>1. op = "start" <=> g_coverage_active
        BY <1>4 DEF AnswerSwitch, CoverageInv, FlagStored
      <3>2. g_coverage_active \in BOOLEAN
        BY DEF TypeOK
      <3> QED
        BY <3>1, <3>2
    <2>2. reply' = [op |-> "switch", active |-> g_coverage_active,
                    size |-> Cardinality(g_coverage_set)]
      BY <1>4, <2>1 DEF AnswerSwitch
    <2>3. UNCHANGED <<g_coverage_active, g_coverage_set, cip>>
      BY <1>4 DEF AnswerSwitch
    <2>4. LOG!AnswerSwitch
      BY <2>2, <2>3, Zenon DEF LOG!AnswerSwitch
    <2> QED
      BY <2>4 DEF LOG!Next
  <1>5. CASE AnswerClear
    <2>1. LOG!Clear
      BY <1>5 DEF AnswerClear, LOG!Clear
    <2> QED
      BY <2>1 DEF LOG!Next
  <1>6. CASE AnswerGet
    <2>1. addrs = Filter(g_coverage_set, range[1], range[2])
      <3>1. g_coverage_set \ todo = g_coverage_set
        BY <1>6 DEF AnswerGet
      <3> QED
        BY <1>6, <3>1 DEF AnswerGet, CoverageInv, Walk
    <2>2. range[1] \in Addr \union {0} /\ range[2] \in Addr \union {0}
      BY DEF TypeOK, Bounds
    <2>3. LOG!AnswerGet(range[1], range[2])
      BY <1>6, <2>1 DEF AnswerGet, LOG!AnswerGet
    <2> QED
      BY <2>2, <2>3 DEF LOG!Next
  <1>7. ASSUME NEW t \in Tracers, TraceCheck(t) PROVE LOG!Next
    <2>1. PICK x \in Addr : cip' = [cip EXCEPT ![t] = x]
      BY <1>7 DEF TraceCheck
    <2>2. cip[t] = NoAddr
      BY <1>7 DEF TraceCheck, CoverageInv, InHand
    <2>3. LOG!Notice(t, x)
      BY <1>7, <2>1, <2>2 DEF TraceCheck, LOG!Notice
    <2> QED
      BY <2>3 DEF LOG!Next
  <1>8. ASSUME NEW t \in Tracers, TraceLock(t) PROVE UNCHANGED LOG!vars
    BY <1>8 DEF TraceLock, LOG!vars
  <1>9. ASSUME NEW t \in Tracers, TraceInsert(t) PROVE LOG!Next
    <2>1. cip[t] # NoAddr
      BY <1>9 DEF TraceInsert, CoverageInv, InHand
    <2>2. LOG!Enter(t)
      BY <1>9, <2>1 DEF TraceInsert, LOG!Enter
    <2> QED
      BY <2>2 DEF LOG!Next
  <1>10. CASE UNCHANGED vars
    BY <1>10 DEF vars, LOG!vars
  <1> QED
    BY <1>1, <1>2, <1>3, <1>4, <1>5, <1>6, <1>7, <1>8, <1>9, <1>10
       DEF Next, Begin, ServerStep, TracerStep

(* The locked, looping implementation gives the answers of a set that is   *)
(* read and changed in single steps.                                       *)
THEOREM Linearizable == Spec => ImplementsLog
  <1>1. Init => LOG!Init
    BY DEF Init, LOG!Init
  <1> QED
    BY <1>1, LogStep, CoverageInvariant, PTL DEF Spec, ImplementsLog, LOG!Spec
=============================================================================
