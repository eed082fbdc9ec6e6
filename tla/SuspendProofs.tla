--------------------------- MODULE SuspendProofs ---------------------------
(***************************************************************************)
(* Proofs about SuspendThreads for any processes, threads and ids, and any *)
(* number of threads that start and end while the snapshot is walked.      *)
(***************************************************************************)
EXTENDS SuspendThreads, TLAPS

SuspendTypeOK ==
  /\ DebuggeeTypeOK
  /\ pid \in Pids \union {0}
  /\ todo \subseteq Tids \X Pids
  /\ suspended \in Nat /\ failed \in Nat
  /\ stopped \subseteq Tids
  /\ at = "opened" => handle \in Tids

-----------------------------------------------------------------------------
(* The inductive invariant.                                                *)

Walking == at \in {"walk", "opened"}

(* No two living processes have the same id. *)
PidsApart == \A p, q \in Alive : pidOf[p] = pidOf[q] => p = q

(* The debuggee, and the one the command asked for, live or have ended. *)
DebuggeeKnown ==
  /\ debuggee # NoProc => debuggee \in Alive \union ended
  /\ asked # NoProc => asked \in Alive \union ended

(* The id the command works with is that of the process it asked for. *)
PidIsAsked == at \in WalkSteps => asked # NoProc /\ pid = pidOf[asked]

(* What an entry says of its thread stays true until the id is given away. *)
Belongs(t, id) == (t \notin since /\ owner[t] # NoProc) => pidOf[owner[t]] = id
EntriesTrue ==
  /\ Walking => \A e \in todo : Belongs(e[1], e[2])
  /\ at = "opened" => Belongs(handle, pid)

(* A thread is in the list once, and not when it has been dealt with. *)
EntriesOnce ==
  /\ ~Walking => stopped = {} /\ failed = 0
  /\ Walking => \A e \in todo : /\ e[1] \notin stopped
                                /\ \A f \in todo : e[1] = f[1] => e = f
  /\ at = "opened" => handle \notin stopped /\ \A e \in todo : e[1] # handle

(* Each thread of the debuggee's is still to come, suspended or a failure. *)
Covered ==
  Walking /\ failed = 0 =>
    \A t \in Tids \ since : owner[t] = asked =>
      \/ <<t, pid>> \in todo
      \/ at = "opened" /\ handle = t
      \/ suspends[t] > 0

SuspendInv ==
  /\ SuspendTypeOK /\ PidsApart /\ DebuggeeKnown /\ PidIsAsked
  /\ EntriesTrue /\ EntriesOnce /\ Covered

LEMMA InitHolds == SuspendInit => SuspendInv
  <1> SUFFICES ASSUME SuspendInit PROVE SuspendInv
    OBVIOUS
  <1> USE DEF SuspendInit, DebuggeeInit
  <1>1. SuspendTypeOK
    BY DEF SuspendTypeOK, DebuggeeTypeOK, Alive
  <1>2. PidsApart /\ DebuggeeKnown
    BY DEF PidsApart, DebuggeeKnown
  <1>3. PidIsAsked /\ EntriesTrue /\ EntriesOnce /\ Covered
    BY DEF PidIsAsked, EntriesTrue, EntriesOnce, Covered, Walking, WalkSteps
  <1> QED
    BY <1>1, <1>2, <1>3 DEF SuspendInv

-----------------------------------------------------------------------------
(* The environment.                                                        *)

LEMMA StartHolds ==
  ASSUME SuspendInv, NEW p \in Procs, NEW t \in Tids, StartThread(p, t),
         UNCHANGED <<at, reply, pid, walk>>
  PROVE  SuspendInv'
  <1> USE DEF walk, counters
  <1>1. /\ owner[t] = NoProc /\ t # handle
        /\ owner' = [owner EXCEPT ![t] = p]
        /\ suspends' = [suspends EXCEPT ![t] = 0]
        /\ since' = since \union {t}
        /\ UNCHANGED <<pidOf, ended, debuggee, left, handle, asked>>
    BY DEF StartThread
  <1>2. owner \in [Tids -> Procs \union {NoProc}] /\ suspends \in [Tids -> Nat]
    BY DEF SuspendInv, SuspendTypeOK, DebuggeeTypeOK
  <1>3. SuspendTypeOK'
    BY <1>1, <1>2 DEF SuspendInv, SuspendTypeOK, DebuggeeTypeOK
  <1>4. Alive' = Alive \union {p}
    BY <1>1, <1>2, DebuggeeAssumption DEF Alive
  <1>5. PidsApart'
    <2>1. p \in Alive \/ \A q \in Alive : pidOf[q] # pidOf[p]
      BY DEF StartThread, PidTaken
    <2> QED
      BY <1>1, <1>4, <2>1 DEF SuspendInv, PidsApart
  <1>6. DebuggeeKnown' /\ PidIsAsked'
    BY <1>1, <1>4 DEF SuspendInv, DebuggeeKnown, PidIsAsked
  <1>7. EntriesTrue'
    BY <1>1, <1>2 DEF SuspendInv, SuspendTypeOK, EntriesTrue, Belongs, Walking
  <1>8. EntriesOnce' /\ Covered'
    BY <1>1, <1>2 DEF SuspendInv, EntriesOnce, Covered, Walking
  <1> QED
    BY <1>3, <1>5, <1>6, <1>7, <1>8 DEF SuspendInv

LEMMA EndHolds ==
  ASSUME SuspendInv, NEW t \in Tids, EndThread(t), UNCHANGED <<at, reply, pid, walk>>
  PROVE  SuspendInv'
  <1> USE DEF walk, counters
  <1>1. /\ owner[t] # NoProc
        /\ owner' = [owner EXCEPT ![t] = NoProc]
        /\ suspends' = [suspends EXCEPT ![t] = 0]
        /\ UNCHANGED <<pidOf, debuggee, since, left, handle, asked>>
    BY DEF EndThread
  <1>2. owner \in [Tids -> Procs \union {NoProc}] /\ suspends \in [Tids -> Nat]
    BY DEF SuspendInv, SuspendTypeOK, DebuggeeTypeOK
  <1>3. owner[t] \in Procs
    BY <1>1, <1>2
  <1>4. SuspendTypeOK'
    BY <1>1, <1>2, <1>3 DEF SuspendInv, SuspendTypeOK, DebuggeeTypeOK, EndThread
  <1>5. Alive' \subseteq Alive
    BY <1>1, <1>2, DebuggeeAssumption DEF Alive
  <1>6. Alive \union ended \subseteq Alive' \union ended'
    <2>1. ASSUME NEW q \in Alive, q \notin Alive' PROVE q \in ended'
      <3>1. PICK u \in Tids : owner[u] = q
        BY DEF Alive
      <3>2. \A v \in Tids : owner'[v] # q
        BY <2>1 DEF Alive
      <3>3. u = t /\ \A v \in Tids \ {t} : owner[v] # q
        BY <1>1, <1>2, <3>1, <3>2
      <3> QED
        BY <3>1, <3>3 DEF EndThread
    <2>2. ended \subseteq ended'
      BY DEF EndThread
    <2> QED
      BY <2>1, <2>2
  <1>7. PidsApart'
    BY <1>1, <1>5 DEF SuspendInv, PidsApart
  <1>8. DebuggeeKnown' /\ PidIsAsked'
    BY <1>1, <1>6 DEF SuspendInv, DebuggeeKnown, PidIsAsked
  <1>9. EntriesTrue'
    BY <1>1, <1>2 DEF SuspendInv, SuspendTypeOK, EntriesTrue, Belongs, Walking
  <1>10. EntriesOnce'
    BY <1>1 DEF SuspendInv, EntriesOnce, Walking
  <1>11. Covered'
    <2>1. ASSUME Walking', failed' = 0, NEW u \in Tids \ since, owner'[u] = asked
          PROVE  <<u, pid>> \in todo \/ (at = "opened" /\ handle = u) \/ suspends'[u] > 0
      <3>1. asked # NoProc
        BY <2>1 DEF SuspendInv, PidIsAsked, Walking, WalkSteps
      <3>2. u # t /\ owner[u] = asked /\ suspends'[u] = suspends[u]
        BY <1>1, <1>2, <2>1, <3>1
      <3> QED
        BY <2>1, <3>2 DEF SuspendInv, Covered, Walking
    <2> QED
      BY <1>1, <2>1 DEF Covered
  <1> QED
    BY <1>4, <1>7, <1>8, <1>9, <1>10, <1>11 DEF SuspendInv

LEMMA ElsewhereHolds ==
  ASSUME SuspendInv, Elsewhere
  PROVE  SuspendInv'
  <1>1. UNCHANGED <<at, reply, pid, walk>>
    BY DEF Elsewhere
  <1>2. CASE \E p \in Procs, t \in Tids : StartThread(p, t)
    BY <1>1, <1>2, StartHolds
  <1>3. CASE \E t \in Tids : EndThread(t)
    BY <1>1, <1>3, EndHolds
  <1>4. ASSUME NEW t \in Tids, ResumeThread(t) PROVE SuspendInv'
    <2>1. /\ suspends[t] > 0 /\ suspends' = [suspends EXCEPT ![t] = @ - 1]
          /\ since' = since \union {t}
          /\ UNCHANGED <<pidOf, owner, ended, debuggee, left, handle, asked, at, pid,
                         todo, suspended, failed, stopped>>
      BY <1>1, <1>4 DEF ResumeThread, walk, counters
    <2>2. suspends \in [Tids -> Nat]
      BY DEF SuspendInv, SuspendTypeOK, DebuggeeTypeOK
    <2>3. SuspendTypeOK'
      BY <2>1, <2>2 DEF SuspendInv, SuspendTypeOK, DebuggeeTypeOK
    <2>4. PidsApart' /\ DebuggeeKnown' /\ PidIsAsked'
      BY <2>1 DEF SuspendInv, PidsApart, DebuggeeKnown, PidIsAsked, Alive
    <2>5. EntriesTrue' /\ EntriesOnce'
      BY <2>1 DEF SuspendInv, EntriesTrue, EntriesOnce, Belongs, Walking
    <2>6. Covered'
      BY <2>1, <2>2 DEF SuspendInv, Covered, Walking
    <2> QED
      BY <2>3, <2>4, <2>5, <2>6 DEF SuspendInv
  <1>5. ASSUME StopDebugging \/ \E p \in Procs : Attach(p) PROVE SuspendInv'
    <2>1. /\ debuggee' \in Alive \union {NoProc}
          /\ UNCHANGED <<pidOf, owner, suspends, ended, since, handle, asked, at, pid,
                         todo, suspended, failed, stopped>>
      BY <1>1, <1>5 DEF StopDebugging, Attach, walk, counters
    <2>2. left' \in BOOLEAN
      BY <1>5 DEF StopDebugging, Attach, SuspendInv, SuspendTypeOK, DebuggeeTypeOK
    <2>3. SuspendTypeOK'
      BY <2>1, <2>2 DEF SuspendInv, SuspendTypeOK, DebuggeeTypeOK, Alive
    <2>4. PidsApart' /\ DebuggeeKnown' /\ PidIsAsked'
      BY <2>1 DEF SuspendInv, PidsApart, DebuggeeKnown, PidIsAsked, Alive
    <2>5. EntriesTrue' /\ EntriesOnce' /\ Covered'
      BY <2>1 DEF SuspendInv, EntriesTrue, EntriesOnce, Belongs, Walking, Covered
    <2> QED
      BY <2>3, <2>4, <2>5 DEF SuspendInv
  <1> QED
    BY <1>2, <1>3, <1>4, <1>5 DEF Elsewhere, DebuggeeNext
-----------------------------------------------------------------------------
(* The command.                                                            *)

LEMMA AskHolds ==
  ASSUME SuspendInv, dbg_suspend_all_threads
  PROVE  SuspendInv'
  <1> USE DEF walk, counters
  <1>1. /\ at = "idle" /\ asked' = debuggee /\ left' = FALSE
        /\ pid' = DbgGetProcessId
        /\ UNCHANGED <<pidOf, owner, suspends, ended, debuggee, since, handle, todo,
                       suspended, failed, stopped>>
    BY DEF dbg_suspend_all_threads, AsksForPid
  <1>2. /\ at' \in {"packed", "snapshot"}
        /\ at' = "snapshot" => pid' # 0
    BY DEF dbg_suspend_all_threads
  <1>3. pid' \in Pids \union {0} /\ (pid' # 0 => debuggee # NoProc /\ pid' = pidOf[debuggee])
    BY <1>1 DEF DbgGetProcessId, SuspendInv, SuspendTypeOK, DebuggeeTypeOK
  <1>4. SuspendTypeOK'
    BY <1>1, <1>2, <1>3 DEF SuspendInv, SuspendTypeOK, DebuggeeTypeOK, WalkSteps
  <1>5. PidsApart' /\ DebuggeeKnown' /\ PidIsAsked'
    BY <1>1, <1>2, <1>3
       DEF SuspendInv, PidsApart, DebuggeeKnown, PidIsAsked, Alive, WalkSteps
  <1>6. EntriesTrue' /\ EntriesOnce' /\ Covered'
    BY <1>1, <1>2 DEF SuspendInv, EntriesTrue, EntriesOnce, Covered, Walking
  <1> QED
    BY <1>4, <1>5, <1>6 DEF SuspendInv

(* A step that packs a reply, or that sends it. *)
LEMMA RestHolds ==
  ASSUME SuspendInv, at' \in {"packed", "idle"}, pid' \in Pids \union {0},
         todo' \subseteq Tids \X Pids, suspended' \in Nat, failed' = 0, stopped' = {},
         since' \subseteq Tids, left' \in BOOLEAN,
         asked' \in {asked, NoProc},
         UNCHANGED <<pidOf, owner, suspends, ended, debuggee, handle>>
  PROVE  SuspendInv'
  <1>1. SuspendTypeOK'
    BY DEF SuspendInv, SuspendTypeOK, DebuggeeTypeOK, WalkSteps
  <1>2. PidsApart' /\ DebuggeeKnown' /\ PidIsAsked'
    BY DEF SuspendInv, PidsApart, DebuggeeKnown, PidIsAsked, Alive, WalkSteps
  <1>3. EntriesTrue' /\ EntriesOnce' /\ Covered'
    BY DEF EntriesTrue, EntriesOnce, Covered, Walking
  <1> QED
    BY <1>1, <1>2, <1>3 DEF SuspendInv

LEMMA SnapshotHolds ==
  ASSUME SuspendInv, Snapshot
  PROVE  SuspendInv'
  <1>1. /\ at = "snapshot"
        /\ UNCHANGED <<pidOf, owner, suspends, ended, debuggee, left, handle, asked>>
    BY DEF Snapshot
  <1>2. CASE Packs(False) /\ UNCHANGED since
    BY <1>1, <1>2, RestHolds DEF Packs, SuspendInv, SuspendTypeOK, DebuggeeTypeOK
  <1>3. ASSUME todo' = {<<t, pidOf[owner[t]]>> : t \in {u \in Tids : owner[u] # NoProc}},
               since' = {}, at' = "walk", UNCHANGED <<reply, pid, counters, stopped>>
        PROVE  SuspendInv'
    <2>1. owner \in [Tids -> Procs \union {NoProc}] /\ pidOf \in [Procs -> Pids]
      BY DEF SuspendInv, SuspendTypeOK, DebuggeeTypeOK
    <2>2. UNCHANGED <<pid, suspended, failed, stopped>>
      BY <1>3 DEF counters
    <2>3. SuspendTypeOK'
      BY <1>1, <1>3, <2>1, <2>2 DEF SuspendInv, SuspendTypeOK, DebuggeeTypeOK, WalkSteps
    <2>4. PidsApart' /\ DebuggeeKnown' /\ PidIsAsked'
      BY <1>1, <1>3, <2>2
         DEF SuspendInv, PidsApart, DebuggeeKnown, PidIsAsked, Alive, WalkSteps
    <2>5. EntriesTrue' /\ EntriesOnce'
      BY <1>1, <1>3, <2>2 DEF SuspendInv, EntriesTrue, EntriesOnce, Belongs, Walking
    <2>6. Covered'
      BY <1>1, <1>3, <2>2 DEF SuspendInv, Covered, PidIsAsked, WalkSteps
    <2> QED
      BY <2>3, <2>4, <2>5, <2>6 DEF SuspendInv
  <1> QED
    BY <1>1, <1>2, <1>3 DEF Snapshot

LEMMA OpenHolds ==
  ASSUME SuspendInv, OpenThread
  PROVE  SuspendInv'
  <1>1. PICK e \in Entries :
          /\ todo' = todo \ {e}
          /\ \/ handle' = e[1] /\ at' = "opened" /\ failed' = failed
             \/ failed' = failed + 1 /\ handle' = handle /\ at' = at
    BY DEF OpenThread
  <1>2. /\ at = "walk"
        /\ UNCHANGED <<pidOf, owner, suspends, ended, debuggee, since, left, asked, pid,
                       suspended, stopped>>
    BY DEF OpenThread, environment
  <1>3. e \in todo /\ e \in Tids \X Pids /\ e[2] = pid
    BY DEF Entries, OfDebuggee, SuspendInv, SuspendTypeOK
  <1>4. SuspendTypeOK'
    BY <1>1, <1>2, <1>3 DEF SuspendInv, SuspendTypeOK, DebuggeeTypeOK, WalkSteps
  <1>5. PidsApart' /\ DebuggeeKnown' /\ PidIsAsked'
    BY <1>1, <1>2 DEF SuspendInv, PidsApart, DebuggeeKnown, PidIsAsked, Alive, WalkSteps
  <1>6. EntriesTrue'
    BY <1>1, <1>2, <1>3 DEF SuspendInv, EntriesTrue, Belongs, Walking
  <1>7. EntriesOnce'
    BY <1>1, <1>2, <1>3 DEF SuspendInv, EntriesOnce, Walking
  <1>8. Covered'
    <2>1. CASE failed' = failed + 1
      <3>1. failed' # 0
        BY <2>1 DEF SuspendInv, SuspendTypeOK
      <3> QED
        BY <3>1 DEF Covered
    <2>2. CASE handle' = e[1] /\ at' = "opened" /\ failed' = failed
      <3>1. e = <<e[1], pid>>
        BY <1>3
      <3> QED
        BY <1>1, <1>2, <2>2, <3>1 DEF SuspendInv, Covered, Walking
    <2> QED
      BY <1>1, <2>1, <2>2
  <1> QED
    BY <1>4, <1>5, <1>6, <1>7, <1>8 DEF SuspendInv

LEMMA SuspendHolds ==
  ASSUME SuspendInv, SuspendThread
  PROVE  SuspendInv'
  <1>1. /\ at = "opened" /\ handle' = NoHandle /\ at' = "walk" /\ handle \in Tids
        /\ UNCHANGED <<pidOf, owner, ended, debuggee, since, left, asked, pid, todo>>
    BY DEF SuspendThread, SuspendInv, SuspendTypeOK
  <1>2. \/ /\ suspends' = [suspends EXCEPT ![handle] = @ + 1]
           /\ suspended' = suspended + 1 /\ stopped' = stopped \union {handle}
           /\ failed' = failed
        \/ failed' = failed + 1 /\ UNCHANGED <<suspends, suspended, stopped>>
    BY DEF SuspendThread
  <1>3. suspends \in [Tids -> Nat] /\ suspended \in Nat /\ failed \in Nat
    BY DEF SuspendInv, SuspendTypeOK, DebuggeeTypeOK
  <1>4. SuspendTypeOK'
    BY <1>1, <1>2, <1>3 DEF SuspendInv, SuspendTypeOK, DebuggeeTypeOK, WalkSteps
  <1>5. PidsApart' /\ DebuggeeKnown' /\ PidIsAsked'
    BY <1>1 DEF SuspendInv, PidsApart, DebuggeeKnown, PidIsAsked, Alive, WalkSteps
  <1>6. EntriesTrue' /\ EntriesOnce'
    BY <1>1, <1>2 DEF SuspendInv, EntriesTrue, EntriesOnce, Belongs, Walking
  <1>7. Covered'
    BY <1>1, <1>2, <1>3 DEF SuspendInv, Covered, Walking
  <1> QED
    BY <1>4, <1>5, <1>6, <1>7 DEF SuspendInv

LEMMA StepHolds == SuspendInv /\ [SuspendNext \/ Elsewhere]_suspendVars => SuspendInv'
  <1> SUFFICES ASSUME SuspendInv, [SuspendNext \/ Elsewhere]_suspendVars PROVE SuspendInv'
    OBVIOUS
  <1>1. CASE dbg_suspend_all_threads
    BY <1>1, AskHolds
  <1>2. CASE Snapshot
    BY <1>2, SnapshotHolds
  <1>3. CASE OpenThread
    BY <1>3, OpenHolds
  <1>4. CASE SuspendThread
    BY <1>4, SuspendHolds
  <1>5. CASE EndOfWalk
    BY <1>5, RestHolds
       DEF EndOfWalk, Packs, environment, SuspendInv, SuspendTypeOK, DebuggeeTypeOK
  <1>6. CASE NextRequest
    <2>1. ~Walking
      BY <1>6 DEF NextRequest, Walking
    <2>2. suspended' = suspended
      BY <1>6 DEF NextRequest, walk, counters
    <2> QED
      BY <1>6, <2>1, <2>2, RestHolds
         DEF NextRequest, walk, counters, SuspendInv, SuspendTypeOK, EntriesOnce
  <1>7. CASE Elsewhere
    BY <1>7, ElsewhereHolds
  <1>8. CASE UNCHANGED suspendVars
    BY <1>8 DEF suspendVars, environment, walk, counters, SuspendInv, SuspendTypeOK,
                DebuggeeTypeOK, PidsApart, DebuggeeKnown, PidIsAsked, EntriesTrue,
                EntriesOnce, Covered, Belongs, Walking, Alive
  <1> QED
    BY <1>1, <1>2, <1>3, <1>4, <1>5, <1>6, <1>7, <1>8 DEF SuspendNext, WalkNext

LEMMA SuspendInvariant == SuspendSpec => []SuspendInv
  BY InitHolds, StepHolds, PTL DEF SuspendSpec

-----------------------------------------------------------------------------
(* The theorems.                                                           *)

(* Only one step makes a suspend count grow. *)
LEMMA OnlySuspendThread ==
  ASSUME SuspendInv, SuspendNext \/ Elsewhere, NEW t \in Tids, suspends'[t] > suspends[t]
  PROVE  SuspendThread /\ t = handle /\ owner[t] # NoProc
  <1>1. suspends \in [Tids -> Nat]
    BY DEF SuspendInv, SuspendTypeOK, DebuggeeTypeOK
  <1>2. ~Elsewhere
    <2>1. ASSUME NEW u \in Tids, suspends' = [suspends EXCEPT ![u] = 0] PROVE FALSE
      BY <1>1, <2>1
    <2>2. ASSUME NEW u \in Tids, suspends[u] > 0, suspends' = [suspends EXCEPT ![u] = @ - 1]
          PROVE  FALSE
      BY <1>1, <2>2
    <2>3. suspends' # suspends
      BY <1>1
    <2> QED
      BY <2>1, <2>2, <2>3 DEF Elsewhere, DebuggeeNext, StartThread, EndThread, ResumeThread,
                              Attach, StopDebugging
  <1>3. suspends' # suspends
    BY <1>1
  <1>4. SuspendThread
    BY <1>2, <1>3 DEF SuspendNext, WalkNext, dbg_suspend_all_threads, AsksForPid, Snapshot,
                      OpenThread, EndOfWalk, NextRequest, environment
  <1>5. /\ owner[handle] # NoProc
        /\ suspends' = [suspends EXCEPT ![handle] = @ + 1]
    BY <1>3, <1>4 DEF SuspendThread
  <1> QED
    BY <1>1, <1>4, <1>5

(* What the three properties say of a step. *)
StrangersSpared ==
  \A t \in Tids : suspends'[t] > suspends[t] =>
    t \in since \/ owner[t] = asked \/ asked \in ended

NoneTwice == \A t \in stopped : ~(suspends'[t] > suspends[t])

StopsAll ==
  EndOfWalk /\ reply'.failed = 0 =>
    \A t \in Tids \ since : (owner[t] = asked /\ asked # NoProc) => suspends[t] > 0

LEMMA SparedStep ==
  ASSUME SuspendInv, SuspendNext \/ Elsewhere
  PROVE  StrangersSpared
  <1> SUFFICES ASSUME NEW t \in Tids, suspends'[t] > suspends[t], t \notin since,
                      asked \notin ended
               PROVE  owner[t] = asked
    BY DEF StrangersSpared
  <1>1. SuspendThread /\ t = handle /\ owner[t] # NoProc
    BY OnlySuspendThread
  <1>2. at = "opened"
    BY <1>1 DEF SuspendThread
  <1>3. asked # NoProc /\ pid = pidOf[asked]
    BY <1>2 DEF SuspendInv, PidIsAsked, WalkSteps
  <1>4. asked \in Alive
    BY <1>3 DEF SuspendInv, DebuggeeKnown
  <1>5. owner[t] \in Alive
    BY <1>1 DEF Alive, SuspendInv, SuspendTypeOK, DebuggeeTypeOK
  <1>6. pidOf[owner[t]] = pid
    BY <1>1, <1>2 DEF SuspendInv, EntriesTrue, Belongs
  <1> QED
    BY <1>3, <1>4, <1>5, <1>6 DEF SuspendInv, PidsApart

LEMMA TwiceStep ==
  ASSUME SuspendInv, SuspendNext \/ Elsewhere
  PROVE  NoneTwice
  <1> SUFFICES ASSUME NEW t \in stopped, suspends'[t] > suspends[t]
               PROVE  FALSE
    BY DEF NoneTwice
  <1>1. t \in Tids
    BY DEF SuspendInv, SuspendTypeOK
  <1>2. SuspendThread /\ t = handle
    BY <1>1, OnlySuspendThread
  <1> QED
    BY <1>2 DEF SuspendThread, SuspendInv, EntriesOnce

LEMMA StopsStep ==
  ASSUME SuspendInv
  PROVE  StopsAll
  <1> SUFFICES ASSUME EndOfWalk, reply'.failed = 0,
                      NEW t \in Tids \ since, owner[t] = asked
               PROVE  suspends[t] > 0
    BY DEF StopsAll
  <1>1. at = "walk" /\ Entries = {} /\ reply' = Counts(suspended, failed)
    BY DEF EndOfWalk, Packs
  <1>2. failed = 0
    BY <1>1 DEF Counts
  <1>3. <<t, pid>> \notin todo
    BY <1>1 DEF Entries, OfDebuggee
  <1> QED
    BY <1>1, <1>2, <1>3 DEF SuspendInv, Covered, Walking

(* A thread of another process is suspended only where ids changed hands.  *)
THEOREM StrangersSafe == SuspendSpec => StrangersLeftAlone
  <1>1. SuspendInv /\ [SuspendNext \/ Elsewhere]_suspendVars => [StrangersSpared]_suspendVars
    BY SparedStep
  <1> QED
    BY <1>1, SuspendInvariant, PTL DEF SuspendSpec, StrangersLeftAlone, StrangersSpared

(* One command suspends no thread twice.                                   *)
THEOREM SuspendedOnce == SuspendSpec => OncePerCommand
  <1>1. SuspendInv /\ [SuspendNext \/ Elsewhere]_suspendVars => [NoneTwice]_suspendVars
    BY TwiceStep
  <1> QED
    BY <1>1, SuspendInvariant, PTL DEF SuspendSpec, OncePerCommand, NoneTwice

(* A reply without failures means that the debuggee's threads stand still. *)
THEOREM AllStopped == SuspendSpec => NoFailureStops
  <1>1. SuspendInv /\ [SuspendNext \/ Elsewhere]_suspendVars => [StopsAll]_suspendVars
    BY StopsStep
  <1> QED
    BY <1>1, SuspendInvariant, PTL DEF SuspendSpec, NoFailureStops, StopsAll
=============================================================================
