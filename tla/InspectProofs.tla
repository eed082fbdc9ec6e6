--------------------------- MODULE InspectProofs ---------------------------
(***************************************************************************)
(* Proofs about Inspect for any processes, threads, ids, program files and *)
(* patches: handles are closed, the parts of a reply are of one process,   *)
(* callbacks come from where the TLS directory or a refused seek leads,    *)
(* register dumps tell the fields as the processor lays them out, and no   *)
(* step of a command keeps it from ending.                                 *)
(***************************************************************************)
EXTENDS Inspect, SuspendProofs, RegDumpProofs, SequenceTheorems, FiniteSetTheorems

-----------------------------------------------------------------------------
(* The machine around the plugin.                                          *)

MachineOK == DebuggeeTypeOK /\ PidsApart /\ DebuggeeKnown

(* Whoever was debugged when the command asked still is, or was left.      *)
AskedOrLeft == asked = NoProc \/ debuggee = asked \/ left

LEMMA StartKeeps ==
  ASSUME MachineOK, NEW p \in Procs, NEW t \in Tids, StartThread(p, t)
  PROVE  MachineOK'
  <1>1. /\ owner[t] = NoProc
        /\ owner' = [owner EXCEPT ![t] = p]
        /\ suspends' = [suspends EXCEPT ![t] = 0]
        /\ since' = since \union {t}
        /\ UNCHANGED <<pidOf, ended, debuggee, left, handle, asked>>
    BY DEF StartThread
  <1>2. owner \in [Tids -> Procs \union {NoProc}] /\ suspends \in [Tids -> Nat]
    BY DEF MachineOK, DebuggeeTypeOK
  <1>3. DebuggeeTypeOK'
    BY <1>1, <1>2 DEF MachineOK, DebuggeeTypeOK
  <1>4. Alive' = Alive \union {p}
    BY <1>1, <1>2, DebuggeeAssumption DEF Alive
  <1>5. PidsApart'
    <2>1. p \in Alive \/ \A q \in Alive : pidOf[q] # pidOf[p]
      BY DEF StartThread, PidTaken
    <2> QED
      BY <1>1, <1>4, <2>1 DEF MachineOK, PidsApart
  <1>6. DebuggeeKnown'
    BY <1>1, <1>4 DEF MachineOK, DebuggeeKnown
  <1> QED
    BY <1>3, <1>5, <1>6 DEF MachineOK

LEMMA EndKeeps ==
  ASSUME MachineOK, NEW t \in Tids, EndThread(t)
  PROVE  MachineOK' /\ ended \subseteq ended'
  <1>1. /\ owner[t] # NoProc
        /\ owner' = [owner EXCEPT ![t] = NoProc]
        /\ suspends' = [suspends EXCEPT ![t] = 0]
        /\ UNCHANGED <<pidOf, debuggee, since, left, handle, asked>>
    BY DEF EndThread
  <1>2. owner \in [Tids -> Procs \union {NoProc}] /\ suspends \in [Tids -> Nat]
    BY DEF MachineOK, DebuggeeTypeOK
  <1>3. DebuggeeTypeOK'
    BY <1>1, <1>2 DEF MachineOK, DebuggeeTypeOK, EndThread
  <1>4. Alive' \subseteq Alive
    BY <1>1, <1>2, DebuggeeAssumption DEF Alive
  <1>5. ended \subseteq ended'
    BY DEF EndThread
  <1>6. ASSUME NEW q \in Alive, q \notin Alive' PROVE q \in ended'
    <2>1. PICK u \in Tids : owner[u] = q
      BY DEF Alive
    <2>2. \A v \in Tids : owner'[v] # q
      BY <1>6 DEF Alive
    <2>3. u = t /\ \A v \in Tids \ {t} : owner[v] # q
      BY <1>1, <1>2, <2>1, <2>2
    <2> QED
      BY <2>1, <2>3 DEF EndThread
  <1>7. PidsApart' /\ DebuggeeKnown'
    BY <1>1, <1>4, <1>5, <1>6 DEF MachineOK, PidsApart, DebuggeeKnown
  <1> QED
    BY <1>3, <1>5, <1>7 DEF MachineOK

LEMMA MachineKeeps ==
  ASSUME MachineOK, DebuggeeNext
  PROVE  /\ MachineOK' /\ ended \subseteq ended'
         /\ UNCHANGED <<pidOf, handle, asked>>
         /\ AskedOrLeft => AskedOrLeft'
         /\ left => left'
  <1>1. ASSUME NEW p \in Procs, NEW t \in Tids, StartThread(p, t)
        PROVE  MachineOK' /\ UNCHANGED <<pidOf, handle, asked, ended, debuggee, left>>
    BY <1>1, StartKeeps DEF StartThread
  <1>2. ASSUME NEW t \in Tids, EndThread(t)
        PROVE  MachineOK' /\ ended \subseteq ended' /\ UNCHANGED <<pidOf, handle, asked, debuggee, left>>
    BY <1>2, EndKeeps DEF EndThread
  <1>3. ASSUME NEW t \in Tids, ResumeThread(t)
        PROVE  MachineOK' /\ UNCHANGED <<pidOf, handle, asked, ended, debuggee, left>>
    BY <1>3 DEF ResumeThread, MachineOK, DebuggeeTypeOK, PidsApart, DebuggeeKnown, Alive
  <1>4. ASSUME NEW p \in Procs, Attach(p)
        PROVE  /\ MachineOK' /\ UNCHANGED <<pidOf, handle, asked, ended, left>>
               /\ AskedOrLeft => AskedOrLeft'
    <2>1. /\ debuggee = NoProc /\ debuggee' = p /\ p \in Alive
          /\ UNCHANGED <<pidOf, owner, suspends, ended, since, left, handle, asked>>
      BY <1>4 DEF Attach
    <2> QED
      BY <2>1 DEF MachineOK, DebuggeeTypeOK, PidsApart, DebuggeeKnown, Alive, AskedOrLeft
  <1>5. CASE StopDebugging
    <2>1. /\ debuggee' = NoProc /\ left' = (left \/ debuggee = asked)
          /\ UNCHANGED <<pidOf, owner, suspends, ended, since, handle, asked>>
      BY <1>5 DEF StopDebugging
    <2>2. MachineOK'
      BY <2>1 DEF MachineOK, DebuggeeTypeOK, PidsApart, DebuggeeKnown, Alive
    <2> QED
      BY <2>1, <2>2 DEF AskedOrLeft
  <1> QED
    BY <1>1, <1>2, <1>3, <1>4, <1>5, Zenon DEF DebuggeeNext, AskedOrLeft

(* A step of the server thread that leaves the machine alone. *)
LEMMA MachineRests ==
  ASSUME MachineOK, UNCHANGED <<pidOf, owner, ended, debuggee>>,
         suspends' \in [Tids -> Nat], since' \subseteq Tids, left' \in BOOLEAN,
         handle' \in Procs \union Tids \union {NoHandle},
         asked' \in {asked, debuggee, NoProc}
  PROVE  MachineOK'
  BY DEF MachineOK, DebuggeeTypeOK, PidsApart, DebuggeeKnown, Alive

-----------------------------------------------------------------------------
(* The inductive invariant.                                                *)

(* Where the command holds a handle of a process, and where it works with  *)
(* the id it asked for.                                                    *)
Holding == {"name", "file", "directory", "array", "peb"}
Asking  == {"tid", "open"} \union Holding \union WalkSteps

AskedFor ==
  at \in Asking => /\ pid = IF asked = NoProc THEN 0 ELSE pidOf[asked]
                   /\ AskedOrLeft

(* The process held has the id asked for, and is the one that was debugged *)
(* unless that one has ended.                                              *)
HoldsOne == handle \in Procs /\ pidOf[handle] = pid /\ (handle = asked \/ asked \in ended)

HandleIs ==
  /\ at \in Holding => HoldsOne
  /\ at = "opened" => handle \in Tids
  /\ at \notin Holding \union {"opened"} => handle = NoHandle

PartsAre ==
  /\ parts \in [Part -> Procs \union {NoProc}]
  /\ at \notin {"open"} \union Holding => parts = Nothing
  /\ \A x \in Part \ {"tid"} : parts[x] = NoProc \/ (at \in Holding /\ parts[x] = handle)
  /\ parts["tid"] \in {NoProc, asked} \/ left \/ asked = NoProc
  /\ at = "peb" => pos \in 1 .. Len(PebFields)

InspectInv ==
  MachineOK /\ AskedFor /\ HandleIs /\ PartsAre /\ todo \subseteq Tids \X Pids

LEMMA PartNames ==
  /\ "tid" \in Part /\ "path" \in Part /\ "header" \in Part
  /\ Len(PebFields) = 5
  /\ \A i \in 1 .. 5 : PebFields[i] \in Part /\ PebFields[i] # "tid"
  /\ Nothing \in [Part -> Procs \union {NoProc}]
  /\ \A x \in Part : Nothing[x] = NoProc
  BY DEF Part, PebFields, Nothing

LEMMA InspectInit == Init => InspectInv
  <1> SUFFICES ASSUME Init PROVE InspectInv
    OBVIOUS
  <1>1. MachineOK /\ todo \subseteq Tids \X Pids
    BY InitHolds DEF Init, SuspendInv, SuspendTypeOK, MachineOK
  <1>2. AskedFor /\ HandleIs /\ PartsAre
    BY PartNames DEF Init, SuspendInit, DebuggeeInit, AskedFor, HandleIs, PartsAre,
                     Asking, Holding, WalkSteps
  <1> QED
    BY <1>1, <1>2 DEF InspectInv

(* A step that ends a command. *)
LEMMA EndsHolds ==
  ASSUME InspectInv, at' \in {"packed", "undefined", "idle", "patches"},
         UNCHANGED <<pidOf, owner, ended, debuggee, suspends>>,
         since' \in {since, {}}, left' \in BOOLEAN, asked' \in {asked, NoProc, debuggee},
         handle' = NoHandle, parts' = Nothing, todo' \subseteq Tids \X Pids
  PROVE  InspectInv'
  <1>1. MachineOK'
    BY MachineRests DEF InspectInv, MachineOK, DebuggeeTypeOK
  <1>2. AskedFor' /\ HandleIs' /\ PartsAre'
    BY PartNames DEF AskedFor, HandleIs, PartsAre, Asking, Holding, WalkSteps
  <1> QED
    BY <1>1, <1>2 DEF InspectInv

LEMMA AnswersHolds ==
  ASSUME InspectInv, NEW r, Answers(r)
  PROVE  InspectInv'
  <1>1. /\ at' = "packed" /\ handle' = NoHandle /\ parts' = Nothing /\ todo' = {}
        /\ UNCHANGED <<pidOf, owner, suspends, ended, debuggee, since, left, asked>>
    BY DEF Answers, Packs, environment
  <1> QED
    BY <1>1, EndsHolds DEF InspectInv, MachineOK, DebuggeeTypeOK

(* A step of a command that holds a process and goes on. *)
LEMMA GoesHolds ==
  ASSUME InspectInv, at \in Holding, NEW step \in Holding, Goes(step), handle' = handle,
         parts' \in {parts} \union {[parts EXCEPT ![x] = handle] : x \in Part \ {"tid"}},
         step = "peb" => pos' \in 1 .. Len(PebFields)
  PROVE  InspectInv'
  <1>1. /\ at' = step
        /\ UNCHANGED <<pidOf, owner, suspends, ended, debuggee, since, left, asked, pid, todo>>
    BY DEF Goes, environment, walk
  <1>2. MachineOK'
    BY <1>1, MachineRests DEF InspectInv, MachineOK, DebuggeeTypeOK
  <1>3. AskedFor'
    BY <1>1 DEF InspectInv, AskedFor, AskedOrLeft, Asking
  <1>4. HandleIs'
    BY <1>1 DEF InspectInv, HandleIs, HoldsOne, Holding
  <1>5. PartsAre'
    <2>1. handle \in Procs /\ parts \in [Part -> Procs \union {NoProc}]
      BY DEF InspectInv, HandleIs, HoldsOne, PartsAre
    <2>2. CASE parts' = parts
      BY <1>1, <2>2 DEF InspectInv, PartsAre
    <2>3. ASSUME NEW x \in Part \ {"tid"}, parts' = [parts EXCEPT ![x] = handle]
          PROVE  PartsAre'
      BY <1>1, <2>1, <2>3, PartNames DEF InspectInv, PartsAre
    <2> QED
      BY <2>2, <2>3
  <1> QED
    BY <1>1, <1>2, <1>3, <1>4, <1>5 DEF InspectInv

-----------------------------------------------------------------------------
(* The steps.                                                              *)

LEMMA BeginsHolds ==
  ASSUME InspectInv, NEW c, NEW step \in {"tid", "open"}, Begins(c, step)
  PROVE  InspectInv'
  <1>1. /\ at = "idle" /\ at' = step /\ asked' = debuggee /\ left' = FALSE
        /\ pid' = IF debuggee = NoProc THEN 0 ELSE pidOf[debuggee]
        /\ UNCHANGED <<pidOf, owner, suspends, ended, debuggee, since, handle, todo, parts>>
    BY DEF Begins, AsksForPid, DbgGetProcessId, walk
  <1>2. MachineOK'
    BY <1>1, MachineRests DEF InspectInv, MachineOK, DebuggeeTypeOK
  <1>3. parts' = Nothing /\ handle' = NoHandle
    BY <1>1 DEF InspectInv, PartsAre, HandleIs, Holding
  <1>4. AskedFor' /\ HandleIs' /\ PartsAre'
    BY <1>1, <1>3, PartNames
       DEF AskedFor, AskedOrLeft, HandleIs, PartsAre, Holding, Asking, WalkSteps
  <1> QED
    BY <1>1, <1>2, <1>4 DEF InspectInv

LEMMA AtOnceHolds ==
  ASSUME InspectInv, NEW c, NEW r, AnswersAtOnce(c, r)
  PROVE  InspectInv'
  <1>1. /\ at = "idle" /\ at' = "packed"
        /\ UNCHANGED <<pidOf, owner, suspends, ended, debuggee, since, left, asked, handle,
                       todo, parts>>
    BY DEF AnswersAtOnce, environment, walk
  <1>2. parts' = Nothing /\ handle' = NoHandle
    BY <1>1 DEF InspectInv, PartsAre, HandleIs, Holding
  <1> QED
    BY <1>1, <1>2, EndsHolds DEF InspectInv, MachineOK, DebuggeeTypeOK

LEMMA UndefinedHolds ==
  ASSUME InspectInv, NEW c, at \in {"idle", "patches"}, Undefined(c)
  PROVE  InspectInv'
  <1>1. /\ at' = "undefined"
        /\ UNCHANGED <<pidOf, owner, suspends, ended, debuggee, since, left, asked, handle,
                       todo, parts>>
    BY DEF Undefined, environment, walk
  <1>2. parts' = Nothing /\ handle' = NoHandle
    BY <1>1 DEF InspectInv, PartsAre, HandleIs, Holding
  <1> QED
    BY <1>1, <1>2, EndsHolds DEF InspectInv, MachineOK, DebuggeeTypeOK

LEMMA ThreadIdHolds ==
  ASSUME InspectInv, DbgGetThreadId
  PROVE  InspectInv'
  <1> DEFINE now == [parts EXCEPT !["tid"] = debuggee]
  <1>1. CASE Answers(Parts(now))
    BY <1>1, AnswersHolds
  <1>2. CASE Goes("open") /\ parts' = now /\ UNCHANGED <<handle, image, pos, list>>
    <2>1. /\ at = "tid" /\ at' = "open" /\ parts' = now
          /\ UNCHANGED <<pidOf, owner, suspends, ended, debuggee, since, left, asked, pid,
                         todo, handle>>
      BY <1>2 DEF DbgGetThreadId, Goes, environment, walk
    <2>2. MachineOK'
      BY <2>1, MachineRests DEF InspectInv, MachineOK, DebuggeeTypeOK
    <2>3. AskedFor' /\ HandleIs'
      BY <2>1 DEF InspectInv, AskedFor, AskedOrLeft, HandleIs, Asking, Holding
    <2>4. parts = Nothing /\ debuggee \in Procs \union {NoProc} /\ AskedOrLeft
      BY <2>1 DEF InspectInv, PartsAre, Holding, MachineOK, DebuggeeTypeOK, AskedFor, Asking
    <2>5. /\ now \in [Part -> Procs \union {NoProc}] /\ now["tid"] = debuggee
          /\ \A x \in Part \ {"tid"} : now[x] = NoProc
      BY <2>4, PartNames
    <2>6. PartsAre'
      BY <2>1, <2>4, <2>5 DEF PartsAre, AskedOrLeft, Holding
    <2> QED
      BY <2>1, <2>2, <2>3, <2>6 DEF InspectInv
  <1> QED
    BY <1>1, <1>2 DEF DbgGetThreadId

LEMMA OpenProcessHolds ==
  ASSUME InspectInv, OpenProcess
  PROVE  InspectInv'
  <1>1. CASE Answers(IF cmd = "dbg_get_process_info" THEN Parts(parts) ELSE XError)
    BY <1>1, AnswersHolds
  <1>2. ASSUME NEW p \in Opened(pid), handle' = p, UNCHANGED <<parts, image, list>>,
               IF cmd = "dbg_get_peb" THEN Goes("peb") /\ pos' = 1
               ELSE Goes("name") /\ pos' = pos
        PROVE  InspectInv'
    <2>1. /\ at = "open" /\ at' \in {"peb", "name"} /\ (at' = "peb" => pos' = 1)
          /\ UNCHANGED <<pidOf, owner, suspends, ended, debuggee, since, left, asked, pid,
                         todo, parts>>
      BY <1>2 DEF OpenProcess, Goes, environment, walk
    <2>2. p \in Alive /\ p \in Procs /\ pidOf[p] = pid
      BY <1>2 DEF Opened, Holders, Alive
    <2>3. pid = (IF asked = NoProc THEN 0 ELSE pidOf[asked]) /\ AskedOrLeft
      BY <2>1 DEF InspectInv, AskedFor, Asking
    <2>4. asked # NoProc
      BY <2>2, <2>3, DebuggeeAssumption DEF InspectInv, MachineOK, DebuggeeTypeOK
    <2>5. p = asked \/ asked \in ended
      BY <2>2, <2>3, <2>4 DEF InspectInv, MachineOK, DebuggeeKnown, PidsApart
    <2>6. MachineOK'
      BY <1>2, <2>1, <2>2, MachineRests DEF InspectInv, MachineOK, DebuggeeTypeOK
    <2>7. AskedFor'
      BY <2>1, <2>3 DEF AskedFor, AskedOrLeft
    <2>8. HandleIs'
      BY <1>2, <2>1, <2>2, <2>5 DEF HandleIs, HoldsOne, Holding
    <2>9. PartsAre'
      BY <2>1, PartNames DEF InspectInv, PartsAre, Holding
    <2> QED
      BY <2>1, <2>6, <2>7, <2>8, <2>9 DEF InspectInv
  <1> QED
    BY <1>1, <1>2 DEF OpenProcess

LEMMA ReadsHolds ==
  ASSUME InspectInv,
         QueryName \/ ReadHeaders \/ ReadDirectory \/ ReadCallback \/ NoPeb \/ ReadPeb
  PROVE  InspectInv'
  <1>1. ASSUME NEW r, Answers(r) PROVE InspectInv'
    BY <1>1, AnswersHolds
  <1>2. CASE QueryName
    <2>1. at \in Holding /\ "path" \in Part \ {"tid"} /\ "file" \in Holding
      BY <1>2, PartNames DEF QueryName, Holding
    <2> QED
      BY <1>1, <1>2, <2>1, GoesHolds DEF QueryName
  <1>3. CASE ReadHeaders
    <2>1. at \in Holding /\ "directory" \in Holding
      BY <1>3 DEF ReadHeaders, Holding
    <2> QED
      BY <1>1, <1>3, <2>1, GoesHolds DEF ReadHeaders
  <1>4. CASE ReadDirectory
    <2>1. at \in Holding /\ "array" \in Holding
      BY <1>4 DEF ReadDirectory, Holding
    <2>2. (\E r : Answers(r)) \/ (Goes("array") /\ UNCHANGED <<handle, parts>>)
      BY <1>4, Zenon DEF ReadDirectory
    <2> QED
      BY <1>1, <2>1, <2>2, GoesHolds
  <1>5. CASE ReadCallback
    <2>1. at \in Holding /\ "array" \in Holding
      BY <1>5 DEF ReadCallback, Holding
    <2>2. (\E r : Answers(r)) \/ (Goes("array") /\ UNCHANGED <<handle, parts>>)
      BY <1>5 DEF ReadCallback
    <2> QED
      BY <1>1, <2>1, <2>2, GoesHolds
  <1>6. CASE NoPeb
    BY <1>1, <1>6 DEF NoPeb
  <1>7. CASE ReadPeb
    <2>1. at \in Holding /\ "peb" \in Holding /\ pos \in 1 .. 5 /\ Len(PebFields) = 5
      BY <1>7, PartNames DEF ReadPeb, Holding, InspectInv, PartsAre
    <2>2. PebFields[pos] \in Part \ {"tid"}
      BY <2>1, PartNames
    <2>3. PICK now \in {parts, [parts EXCEPT ![PebFields[pos]] = handle]} :
            \/ Answers(Parts(now))
            \/ /\ pos # 5 /\ parts' = now /\ pos' = pos + 1
               /\ Goes("peb") /\ UNCHANGED <<handle, image, list>>
      BY <1>7, <2>1 DEF ReadPeb
    <2>4. pos # 5 /\ pos' = pos + 1 => pos' \in 1 .. 5
      BY <2>1
    <2> QED
      BY <1>1, <2>1, <2>2, <2>3, <2>4, GoesHolds
  <1> QED
    BY <1>2, <1>3, <1>4, <1>5, <1>6, <1>7

LEMMA ListsHold ==
  ASSUME InspectInv, dbg_get_patches \/ EnumPatches \/ UserPatches
                       \/ \E c \in Unchecked \union Checked : Lists(c)
  PROVE  InspectInv'
  <1>1. ASSUME NEW r, Answers(r) PROVE InspectInv'
    BY <1>1, AnswersHolds
  <1>2. ASSUME NEW c, NEW r, AnswersAtOnce(c, r) PROVE InspectInv'
    BY <1>2, AtOnceHolds
  <1>3. ASSUME NEW c, at \in {"idle", "patches"}, Undefined(c) PROVE InspectInv'
    BY <1>3, UndefinedHolds
  <1>4. CASE dbg_get_patches
    <2>1. CASE AnswersAtOnce("dbg_get_patches", List({}))
      BY <1>2, <2>1
    <2>2. CASE /\ at' = "patches"
               /\ UNCHANGED <<environment, handle, asked, reply, pid, walk, parts, image, pos, list>>
      <3>1. UNCHANGED <<pidOf, owner, suspends, ended, debuggee, since, left, asked, handle,
                        todo, parts>> /\ at = "idle"
        BY <1>4, <2>2 DEF dbg_get_patches, environment, walk
      <3>2. parts' = Nothing /\ handle' = NoHandle
        BY <3>1 DEF InspectInv, PartsAre, HandleIs, Holding
      <3> QED
        BY <2>2, <3>1, <3>2, EndsHolds DEF InspectInv, MachineOK, DebuggeeTypeOK
    <2> QED
      BY <1>4, <2>1, <2>2 DEF dbg_get_patches
  <1>5. CASE EnumPatches
    BY <1>1, <1>3, <1>5 DEF EnumPatches
  <1>6. CASE UserPatches
    BY <1>6 DEF UserPatches, suspendVars, environment, walk, InspectInv, MachineOK,
       DebuggeeTypeOK, PidsApart, DebuggeeKnown, Alive, AskedFor, AskedOrLeft, HandleIs,
       HoldsOne, PartsAre, Holding, Asking, WalkSteps
  <1>7. ASSUME NEW c, Lists(c) PROVE InspectInv'
    BY <1>2, <1>3, <1>7 DEF Lists
  <1> QED
    BY <1>4, <1>5, <1>6, <1>7

LEMMA WalkHolds ==
  ASSUME InspectInv, Suspend
  PROVE  InspectInv'
  <1> USE DEF environment, walk, counters
  <1>1. parts' = parts
    BY DEF Suspend
  <1>3. ASSUME at \in WalkSteps, at' \in WalkSteps, parts = Nothing,
               UNCHANGED <<pidOf, owner, ended, debuggee, left, asked, pid>>,
               since' \subseteq Tids, suspends' \in [Tids -> Nat],
               todo' \subseteq Tids \X Pids,
               handle' \in Tids \union {NoHandle}, at' # "opened" => handle' = NoHandle,
               at' = "opened" => handle' \in Tids
        PROVE  InspectInv'
    <2>1. MachineOK'
      BY <1>3, MachineRests DEF InspectInv, MachineOK, DebuggeeTypeOK
    <2>2. AskedFor'
      BY <1>3 DEF InspectInv, AskedFor, AskedOrLeft, Asking
    <2>3. HandleIs' /\ PartsAre'
      BY <1>1, <1>3, PartNames DEF HandleIs, PartsAre, Holding, WalkSteps
    <2> QED
      BY <1>3, <2>1, <2>2, <2>3 DEF InspectInv
  <1>4. CASE dbg_suspend_all_threads
    <2>1. /\ at = "idle" /\ at' \in {"packed", "snapshot"} /\ asked' = debuggee /\ left' = FALSE
          /\ pid' = IF debuggee = NoProc THEN 0 ELSE pidOf[debuggee]
          /\ UNCHANGED <<pidOf, owner, suspends, ended, debuggee, since, handle, todo>>
      BY <1>4 DEF dbg_suspend_all_threads, AsksForPid, DbgGetProcessId
    <2>2. MachineOK'
      BY <2>1, MachineRests DEF InspectInv, MachineOK, DebuggeeTypeOK
    <2>3. parts' = Nothing /\ handle' = NoHandle
      BY <1>1, <2>1 DEF InspectInv, PartsAre, HandleIs, Holding
    <2>4. AskedFor' /\ HandleIs' /\ PartsAre'
      BY <2>1, <2>3, PartNames
         DEF AskedFor, AskedOrLeft, HandleIs, PartsAre, Holding, Asking, WalkSteps
    <2> QED
      BY <2>1, <2>2, <2>4 DEF InspectInv
  <1>5. ASSUME NEW r, Packs(r), UNCHANGED <<environment, handle, asked>>, at \in {"snapshot", "walk"}
        PROVE  InspectInv'
    <2>1. parts' = Nothing /\ handle' = NoHandle
      BY <1>1, <1>5 DEF InspectInv, PartsAre, HandleIs, Holding
    <2>2. at' = "packed" /\ todo' = {}
      BY <1>5 DEF Packs
    <2> QED
      BY <1>5, <2>1, <2>2, EndsHolds DEF InspectInv, MachineOK, DebuggeeTypeOK
  <1>6. CASE Snapshot
    <2>1. /\ at = "snapshot"
          /\ UNCHANGED <<pidOf, owner, suspends, ended, debuggee, left, handle, asked>>
      BY <1>6 DEF Snapshot
    <2>2. CASE Packs(False) /\ UNCHANGED since
      BY <1>5, <2>1, <2>2
    <2>3. CASE /\ todo' = {<<t, pidOf[owner[t]]>> : t \in {u \in Tids : owner[u] # NoProc}}
               /\ since' = {} /\ at' = "walk" /\ UNCHANGED <<reply, pid, counters, stopped>>
      <3>1. owner \in [Tids -> Procs \union {NoProc}] /\ pidOf \in [Procs -> Pids]
            /\ suspends \in [Tids -> Nat]
        BY DEF InspectInv, MachineOK, DebuggeeTypeOK
      <3>2. todo' \subseteq Tids \X Pids
        BY <2>3, <3>1
      <3>3. parts = Nothing /\ handle = NoHandle
        BY <2>1 DEF InspectInv, PartsAre, HandleIs, Holding
      <3> QED
        BY <1>3, <2>1, <2>3, <3>1, <3>2, <3>3 DEF WalkSteps
    <2> QED
      BY <1>6, <2>2, <2>3 DEF Snapshot
  <1>7. CASE OpenThread
    <2>1. PICK e \in Entries :
            /\ todo' = todo \ {e}
            /\ \/ handle' = e[1] /\ at' = "opened"
               \/ handle' = handle /\ at' = at
      BY <1>7 DEF OpenThread
    <2>2. /\ at = "walk"
          /\ UNCHANGED <<pidOf, owner, suspends, ended, debuggee, since, left, asked, pid>>
      BY <1>7 DEF OpenThread
    <2>3. e \in Tids \X Pids /\ todo' \subseteq Tids \X Pids
      BY <2>1 DEF Entries, InspectInv
    <2>4. parts = Nothing /\ handle = NoHandle
      BY <2>2 DEF InspectInv, PartsAre, HandleIs, Holding
    <2>5. since \subseteq Tids /\ suspends \in [Tids -> Nat]
      BY DEF InspectInv, MachineOK, DebuggeeTypeOK
    <2> QED
      BY <1>3, <2>1, <2>2, <2>3, <2>4, <2>5 DEF WalkSteps
  <1>8. CASE SuspendThread
    <2>1. /\ at = "opened" /\ handle' = NoHandle /\ at' = "walk"
          /\ UNCHANGED <<pidOf, owner, ended, debuggee, since, left, asked, pid, todo>>
          /\ \/ suspends' = [suspends EXCEPT ![handle] = @ + 1]
             \/ suspends' = suspends
      BY <1>8 DEF SuspendThread
    <2>2. since \subseteq Tids /\ suspends \in [Tids -> Nat]
      BY DEF InspectInv, MachineOK, DebuggeeTypeOK
    <2>3. parts = Nothing /\ todo \subseteq Tids \X Pids /\ handle \in Tids
      BY <2>1 DEF InspectInv, PartsAre, HandleIs, Holding
    <2>4. suspends' \in [Tids -> Nat]
      BY <2>1, <2>2, <2>3
    <2> QED
      BY <1>3, <2>1, <2>2, <2>3, <2>4 DEF WalkSteps
  <1>9. CASE EndOfWalk
    BY <1>5, <1>9 DEF EndOfWalk
  <1> QED
    BY <1>4, <1>6, <1>7, <1>8, <1>9 DEF Suspend, WalkNext

LEMMA InspectStep == InspectInv /\ [Next]_vars => InspectInv'
  <1> SUFFICES ASSUME InspectInv, [Next]_vars PROVE InspectInv'
    OBVIOUS
  <1>1. CASE Suspend
    BY <1>1, WalkHolds
  <1>2. CASE Sent
    <2>1. /\ at = "packed" /\ at' = "idle" /\ asked' = NoProc /\ left' = FALSE /\ since' = {}
          /\ UNCHANGED <<pidOf, owner, suspends, ended, debuggee, handle, todo, parts>>
      BY <1>2 DEF Sent, NextRequest, walk
    <2>2. parts' = Nothing /\ handle' = NoHandle
      BY <2>1 DEF InspectInv, PartsAre, HandleIs, Holding
    <2> QED
      BY <2>1, <2>2, EndsHolds DEF InspectInv
  <1>3. CASE DbgGetThreadId
    BY <1>3, ThreadIdHolds
  <1>4. CASE OpenProcess
    BY <1>4, OpenProcessHolds
  <1>5. CASE QueryName \/ ReadHeaders \/ ReadDirectory \/ ReadCallback \/ NoPeb \/ ReadPeb
    BY <1>5, ReadsHolds
  <1>6. CASE dbg_get_peb \/ dbg_get_tls_callbacks \/ dbg_get_process_info
    BY <1>6, BeginsHolds, AtOnceHolds
       DEF dbg_get_peb, dbg_get_tls_callbacks, dbg_get_process_info, Refuses
  <1>7. CASE dbg_get_patches \/ EnumPatches \/ UserPatches
               \/ \E c \in Unchecked \union Checked : Lists(c)
    BY <1>7, ListsHold
  <1>8. CASE dbg_read_regs \/ \E c \in Constants : Constant(c)
    BY <1>8, AtOnceHolds DEF dbg_read_regs, Constant
  <1>9. CASE Elsewhere /\ UNCHANGED locals
    <2>1. /\ DebuggeeNext /\ UNCHANGED <<at, pid, todo, parts, pos>>
      BY <1>9 DEF Elsewhere, walk, locals
    <2>2. /\ MachineOK' /\ ended \subseteq ended' /\ UNCHANGED <<pidOf, handle, asked>>
          /\ AskedOrLeft => AskedOrLeft'
          /\ left => left'
      BY <2>1, MachineKeeps DEF InspectInv
    <2>3. AskedFor'
      BY <2>1, <2>2 DEF InspectInv, AskedFor
    <2>4. HandleIs' /\ PartsAre'
      BY <2>1, <2>2 DEF InspectInv, HandleIs, HoldsOne, PartsAre
    <2> QED
      BY <2>1, <2>2, <2>3, <2>4 DEF InspectInv
  <1>10. CASE UNCHANGED vars
    BY <1>10 DEF vars, locals, suspendVars, environment, walk, InspectInv, MachineOK,
       DebuggeeTypeOK, PidsApart, DebuggeeKnown, Alive, AskedFor, AskedOrLeft, HandleIs,
       HoldsOne, PartsAre, Holding, Asking, WalkSteps
  <1> QED
    BY <1>1, <1>2, <1>3, <1>4, <1>5, <1>6, <1>7, <1>8, <1>9, <1>10 DEF Next, Continues

LEMMA InspectInvariant == Spec => []InspectInv
  BY InspectInit, InspectStep, PTL DEF Spec

-----------------------------------------------------------------------------
(* Handles, and processes.                                                 *)

(* Between commands the server thread holds no handle, whatever way the    *)
(* commands before have ended.                                             *)
THEOREM NoneHeld == Spec => []HandlesClosed
  <1>1. InspectInv => HandlesClosed
    BY DEF InspectInv, HandleIs, HandlesClosed, Holding
  <1> QED
    BY <1>1, InspectInvariant, PTL

OfOneProcess(r) ==
  LET of == {r[x] : x \in Part \ {"tid"}} \ {NoProc}
  IN  /\ \A p \in of : pidOf[p] = pid /\ (p = asked \/ asked \in ended)
      /\ Cardinality(of) <= 1
      /\ r["tid"] \in {NoProc, asked} \/ left \/ asked = NoProc

LEMMA OneProcessRead ==
  ASSUME InspectInv, NEW r \in [Part -> Procs \union {NoProc}],
         \A x \in Part \ {"tid"} : r[x] = NoProc \/ (at \in Holding /\ r[x] = handle),
         r["tid"] \in {NoProc, asked} \/ left \/ asked = NoProc
  PROVE  OfOneProcess(r)
  <1> DEFINE of == {r[x] : x \in Part \ {"tid"}} \ {NoProc}
  <1>1. \A p \in of : at \in Holding /\ p = handle
    OBVIOUS
  <1>2. \A p \in of : pidOf[p] = pid /\ (p = asked \/ asked \in ended)
    BY <1>1 DEF InspectInv, HandleIs, HoldsOne
  <1>3. Cardinality(of) <= 1
    <2>1. of = {} \/ of = {handle}
      BY <1>1
    <2>2. Cardinality({}) = 0 /\ Cardinality({handle}) = 1
      BY FS_EmptySet, FS_Singleton
    <2> QED
      BY <2>1, <2>2
  <1> QED
    BY <1>2, <1>3 DEF OfOneProcess

(* What has been read so far. *)
LEMMA OneProcessSoFar ==
  ASSUME InspectInv
  PROVE  /\ OfOneProcess(parts)
         /\ at \in Holding => \A x \in Part \ {"tid"} : OfOneProcess([parts EXCEPT ![x] = handle])
         /\ at = "tid" => OfOneProcess([parts EXCEPT !["tid"] = debuggee])
  <1>1. /\ parts \in [Part -> Procs \union {NoProc}]
        /\ \A x \in Part \ {"tid"} : parts[x] = NoProc \/ (at \in Holding /\ parts[x] = handle)
        /\ parts["tid"] \in {NoProc, asked} \/ left \/ asked = NoProc
    BY DEF InspectInv, PartsAre
  <1>2. OfOneProcess(parts)
    BY <1>1, OneProcessRead
  <1>3. ASSUME at \in Holding, NEW x \in Part \ {"tid"}
        PROVE  OfOneProcess([parts EXCEPT ![x] = handle])
    <2> DEFINE r == [parts EXCEPT ![x] = handle]
    <2>1. handle \in Procs
      BY <1>3 DEF InspectInv, HandleIs, HoldsOne
    <2>2. /\ r \in [Part -> Procs \union {NoProc}] /\ r["tid"] = parts["tid"]
          /\ \A y \in Part : r[y] = IF y = x THEN handle ELSE parts[y]
      BY <1>1, <2>1, PartNames
    <2> HIDE DEF r
    <2>3. OfOneProcess(r)
      BY <1>1, <1>3, <2>2, OneProcessRead
    <2> QED
      BY <2>3 DEF r
  <1>4. ASSUME at = "tid" PROVE OfOneProcess([parts EXCEPT !["tid"] = debuggee])
    <2> DEFINE r == [parts EXCEPT !["tid"] = debuggee]
    <2>1. debuggee \in Procs \union {NoProc} /\ AskedOrLeft
      BY <1>4 DEF InspectInv, MachineOK, DebuggeeTypeOK, AskedFor, Asking
    <2>2. /\ r \in [Part -> Procs \union {NoProc}] /\ r["tid"] = debuggee
          /\ \A y \in Part \ {"tid"} : r[y] = parts[y]
      BY <1>1, <2>1, PartNames
    <2> HIDE DEF r
    <2>3. r["tid"] \in {NoProc, asked} \/ left \/ asked = NoProc
      BY <2>1, <2>2 DEF AskedOrLeft
    <2>4. OfOneProcess(r)
      BY <1>1, <2>2, <2>3, OneProcessRead
    <2> QED
      BY <2>4 DEF r
  <1> QED
    BY <1>2, <1>3, <1>4

LEMMA OneProcessStep ==
  ASSUME InspectInv, Next, at # "packed", at' = "packed", reply'.head = "parts"
  PROVE  OfOneProcess(reply'.parts)
  <1>1. ASSUME NEW q, Answers(Parts(q)), OfOneProcess(q) PROVE OfOneProcess(reply'.parts)
    BY <1>1 DEF Answers, Packs, Parts
  <1>2. ASSUME NEW r, reply' = r, r.head # "parts" PROVE FALSE
    BY <1>2
  <1>3. XError.head # "parts" /\ False.head # "parts" /\ Value.head # "parts"
        /\ (\A l : List(l).head # "parts")
        /\ (\A a, b : Counts(a, b).head # "parts")
    BY DEF XError, False, Value, List, Counts
  <1>4. ASSUME Answers(XError) \/ \E l : Answers(List(l)) PROVE FALSE
    BY <1>2, <1>3, <1>4 DEF Answers, Packs
  <1>5. ASSUME Answers(SoFar) PROVE OfOneProcess(reply'.parts)
    BY <1>1, <1>4, <1>5, OneProcessSoFar DEF SoFar
  <1>6. CASE DbgGetThreadId
    BY <1>1, <1>6, OneProcessSoFar DEF DbgGetThreadId, Goes
  <1>7. CASE OpenProcess
    BY <1>1, <1>4, <1>7, OneProcessSoFar DEF OpenProcess, Goes
  <1>8. CASE QueryName \/ ReadDirectory \/ ReadCallback \/ NoPeb
    BY <1>5, <1>8 DEF QueryName, ReadDirectory, ReadCallback, NoPeb, Goes
  <1>9. CASE ReadHeaders
    <2>1. at \in Holding /\ "header" \in Part \ {"tid"}
      BY <1>9, PartNames DEF ReadHeaders, Holding
    <2> QED
      BY <1>1, <1>5, <1>9, <2>1, OneProcessSoFar DEF ReadHeaders, Goes
  <1>10. CASE ReadPeb
    <2>1. at \in Holding /\ PebFields[pos] \in Part \ {"tid"}
      BY <1>10, PartNames DEF ReadPeb, Holding, InspectInv, PartsAre
    <2> QED
      BY <1>1, <1>10, <2>1, OneProcessSoFar DEF ReadPeb, Goes
  <1>11. CASE EnumPatches
    BY <1>4, <1>11 DEF EnumPatches, Undefined
  <1>12. ASSUME NEW c, NEW r, AnswersAtOnce(c, r), r.head # "parts" PROVE FALSE
    BY <1>2, <1>12 DEF AnswersAtOnce
  <1>13. CASE dbg_get_peb \/ dbg_get_tls_callbacks \/ dbg_get_process_info
    BY <1>3, <1>12, <1>13
       DEF dbg_get_peb, dbg_get_tls_callbacks, dbg_get_process_info, Refuses, Begins
  <1>14. CASE dbg_get_patches \/ \E c \in Unchecked \union Checked : Lists(c)
    BY <1>3, <1>12, <1>14 DEF dbg_get_patches, Lists, Undefined
  <1>15. CASE dbg_read_regs \/ \E c \in Constants : Constant(c)
    BY <1>3, <1>12, <1>15 DEF dbg_read_regs, Constant
  <1>16. CASE Suspend
    <2>1. reply' \in {XError, False} \/ \E a, b : reply' = Counts(a, b)
      BY <1>16 DEF Suspend, WalkNext, dbg_suspend_all_threads, Snapshot, OpenThread,
                   SuspendThread, EndOfWalk, Packs
    <2> QED
      BY <1>2, <1>3, <2>1
  <1>17. CASE Sent \/ UserPatches \/ Elsewhere
    BY <1>17 DEF Sent, NextRequest, UserPatches, suspendVars, Elsewhere
  <1> QED
    BY <1>6, <1>7, <1>8, <1>9, <1>10, <1>11, <1>13, <1>14, <1>15, <1>16, <1>17
       DEF Next, Continues

(* The parts of a reply were read from one process, the one asked for; the *)
(* thread id may be of a debuggee that came since.                         *)
THEOREM PartsOfOneProcess == Spec => OneProcess
  <1>1. InspectInv /\ Next =>
          (at # "packed" /\ at' = "packed" /\ reply'.head = "parts"
             => OfOneProcess(reply'.parts))
    BY OneProcessStep
  <1>2. InspectInv /\ [Next]_vars =>
          [at # "packed" /\ at' = "packed" /\ reply'.head = "parts" =>
             LET of == {reply'.parts[x] : x \in Part \ {"tid"}} \ {NoProc}
             IN  /\ \A p \in of : pidOf[p] = pid /\ (p = asked \/ asked \in ended)
                 /\ Cardinality(of) <= 1
                 /\ reply'.parts["tid"] \in {NoProc, asked} \/ left \/ asked = NoProc]_vars
    BY <1>1 DEF OfOneProcess
  <1> QED
    BY <1>2, InspectInvariant, PTL DEF Spec, OneProcess

-----------------------------------------------------------------------------
(* The program file.                                                       *)

(* Where the callbacks are, by a TLS directory that is all in the file.    *)
Named == (image.file[DirectoryAt + 4] + Dword - image.base) % Dword

StartsAt(n) ==
  DirectoryAt + 6 <= Len(image.file) =>
    n = IF 2 * Named < Dword THEN Named ELSE DirectoryAt + 6

(* The list is what was read just before the position, from the start on.  *)
JustRead ==
  /\ Len(list) <= pos
  /\ list # <<>> => pos <= Len(image.file)
  /\ \A j \in 1 .. Len(list) : list[j] = image.file[pos - Len(list) + j] /\ list[j] # 0
  /\ StartsAt(pos - Len(list))

Reading ==
  /\ image \in Images \union {NoImage}
  /\ list \in Seq(0 .. Dword - 1)
  /\ pos \in 0 .. Dword - 1 + Len(image.file)
  /\ at \notin {"directory", "array"} => image = NoImage
  /\ list # <<>> => at = "array"
  /\ at = "array" => JustRead

LEMMA ImageType ==
  ASSUME NEW i \in Images \union {NoImage}
  PROVE  /\ i.file \in Seq(0 .. Dword - 1) /\ Len(i.file) \in Nat
         /\ \A k \in 1 .. Len(i.file) : i.file[k] \in 0 .. Dword - 1
         /\ i.head \in 0 .. Dword - 1 /\ i.tls \in 0 .. Dword - 1 /\ i.base \in 0 .. Dword - 1
  <1>1. /\ i.file \in Seq(0 .. Dword - 1)
        /\ i.head \in 0 .. Dword - 1 /\ i.tls \in 0 .. Dword - 1 /\ i.base \in 0 .. Dword - 1
    <2>1. CASE i \in Images
      BY <2>1, InspectAssumption
    <2>2. CASE i = NoImage
      <3>1. i.file = <<>> /\ i.head = 0 /\ i.tls = 0 /\ i.base = 0
        BY <2>2 DEF NoImage
      <3> QED
        BY <3>1, InspectAssumption
    <2> QED
      BY <2>1, <2>2
  <1> QED
    BY <1>1, ElementOfSeq, LenProperties

(* Where the directory is looked for, and where reading it leads.          *)
LEMMA SeekType ==
  ASSUME Reading
  PROVE  /\ DirectoryAt \in 0 .. Dword - 1
         /\ AfterDirectory \in 0 .. Dword - 1 + Len(image.file)
         /\ DirectoryAt + 6 <= Len(image.file) => AfterDirectory = DirectoryAt + 6
  <1>1. /\ Len(image.file) \in Nat
        /\ image.head \in 0 .. Dword - 1 /\ image.tls \in 0 .. Dword - 1
    BY ImageType DEF Reading
  <1>2. DirectoryAt \in 0 .. Dword - 1
    BY <1>1 DEF DirectoryAt, Seek
  <1> QED
    BY <1>1, <1>2, InspectAssumption DEF AfterDirectory

LEMMA ReadingInit == Init => Reading
  <1> SUFFICES ASSUME Init PROVE Reading
    OBVIOUS
  <1>1. at = "idle" /\ image = NoImage /\ list = <<>> /\ pos = 0
    BY DEF Init, SuspendInit
  <1>2. pos \in 0 .. Dword - 1 + Len(image.file)
    BY <1>1, InspectAssumption DEF NoImage
  <1> QED
    BY <1>1, <1>2, InspectAssumption DEF Reading

LEMMA ReadingAnswers ==
  ASSUME Reading, NEW r, Answers(r)
  PROVE  Reading'
  BY InspectAssumption DEF Answers, Packs, Reading, NoImage

(* A step away from the file. *)
LEMMA ReadingElsewhere ==
  ASSUME Reading, UNCHANGED <<image, list>>, pos' \in {pos} \union 0 .. 5,
         \/ at \notin {"directory", "array"} /\ at' \notin {"directory", "array"}
         \/ at' = at /\ pos' = pos
  PROVE  Reading'
  <1>1. CASE at' = at /\ pos' = pos
    BY <1>1 DEF Reading, JustRead, StartsAt, Named, DirectoryAt
  <1>2. CASE at \notin {"directory", "array"} /\ at' \notin {"directory", "array"}
    <2>1. image = NoImage /\ list = <<>> /\ Len(image.file) = 0
      BY <1>2 DEF Reading, NoImage
    <2>2. pos' \in 0 .. Dword - 1 + Len(image.file)
      BY <2>1, InspectAssumption DEF Reading
    <2> QED
      BY <1>2, <2>1, <2>2 DEF Reading
  <1> QED
    BY <1>1, <1>2

LEMMA ReadingFile ==
  ASSUME Reading, ReadHeaders \/ ReadDirectory \/ ReadCallback
  PROVE  Reading'
  <1>1. ASSUME NEW r, Answers(r) PROVE Reading'
    BY <1>1, ReadingAnswers
  <1>2. CASE ReadHeaders
    <2>1. ASSUME NEW i \in Images, image' = i, Goes("directory"), UNCHANGED <<handle, parts, pos, list>>
          PROVE  Reading'
      <3>1. at = "file" /\ at' = "directory"
        BY <1>2, <2>1 DEF ReadHeaders, Goes
      <3>2. list = <<>> /\ image = NoImage
        BY <3>1 DEF Reading
      <3>3. pos \in 0 .. Dword - 1 /\ Len(i.file) \in Nat
        BY <3>2, InspectAssumption, ImageType DEF Reading, NoImage
      <3>4. pos' \in 0 .. Dword - 1 + Len(image'.file)
        BY <2>1, <3>3, InspectAssumption
      <3> QED
        BY <2>1, <3>1, <3>2, <3>4 DEF Reading
    <2> QED
      BY <1>1, <1>2, <2>1 DEF ReadHeaders
  <1>3. CASE ReadDirectory
    <2>1. ASSUME NEW v \in AddressOfCallBacks,
                 pos' = Seek(AfterDirectory, (v + Dword - image.base) % Dword),
                 Goes("array"), UNCHANGED <<handle, parts, image, list>>
          PROVE  Reading'
      <3> DEFINE rva == (v + Dword - image.base) % Dword
      <3>1. at = "directory" /\ at' = "array" /\ list = <<>> /\ image \in Images \union {NoImage}
        BY <1>3, <2>1 DEF ReadDirectory, Goes, Reading
      <3>2. image.base \in 0 .. Dword - 1 /\ Len(image.file) \in Nat
            /\ \A k \in 1 .. Len(image.file) : image.file[k] \in 0 .. Dword - 1
        BY <3>1, ImageType
      <3>3. /\ DirectoryAt \in 0 .. Dword - 1
            /\ AfterDirectory \in 0 .. Dword - 1 + Len(image.file)
            /\ DirectoryAt + 6 <= Len(image.file) => AfterDirectory = DirectoryAt + 6
        BY SeekType
      <3>4. v \in 0 .. Dword - 1
        <4>1. CASE v \in 0 .. Dword - 1
          BY <4>1
        <4>2. CASE DirectoryAt + 4 <= Len(image.file) /\ v = image.file[DirectoryAt + 4]
          <5>1. DirectoryAt + 4 \in 1 .. Len(image.file)
            BY <3>2, <3>3, <4>2
          <5> QED
            BY <3>2, <4>2, <5>1
        <4> QED
          BY <2>1, <4>1, <4>2 DEF AddressOfCallBacks
      <3>5. v + Dword - image.base \in Nat
        BY <3>2, <3>4, InspectAssumption
      <3>6. rva \in 0 .. Dword - 1
        BY <3>5, InspectAssumption
      <3>7. DirectoryAt + 6 <= Len(image.file) => v = image.file[DirectoryAt + 4]
        BY <2>1, <3>2, <3>3 DEF AddressOfCallBacks
      <3>8. DirectoryAt + 6 <= Len(image.file) => rva = Named
        BY <3>7 DEF Named
      <3> HIDE DEF rva
      <3>9. pos' = IF 2 * rva < Dword THEN rva ELSE AfterDirectory
        BY <2>1 DEF Seek, rva
      <3>10. pos' \in 0 .. Dword - 1 + Len(image.file)
        BY <3>2, <3>3, <3>6, <3>9, InspectAssumption
      <3>11. list' = <<>> /\ Len(list') = 0 /\ pos' - Len(list') = pos' /\ image' = image
        BY <2>1, <3>1, <3>10, InspectAssumption, <3>2
      <3>12. StartsAt(pos')
        BY <3>3, <3>8, <3>9 DEF StartsAt
      <3>13. StartsAt(pos)'
        BY <3>11, <3>12 DEF StartsAt, Named, DirectoryAt
      <3>14. JustRead'
        BY <3>2, <3>10, <3>11, <3>13, InspectAssumption DEF JustRead
      <3> QED
        BY <2>1, <3>1, <3>10, <3>11, <3>14 DEF Reading
    <2>2. (\E r : Answers(r)) \/ \E v \in AddressOfCallBacks :
            /\ pos' = Seek(AfterDirectory, (v + Dword - image.base) % Dword)
            /\ Goes("array") /\ UNCHANGED <<handle, parts, image, list>>
      BY <1>3, Zenon DEF ReadDirectory
    <2> QED
      BY <1>1, <2>1, <2>2
  <1>4. CASE ReadCallback
    <2>1. CASE /\ pos < Len(image.file) /\ image.file[pos + 1] # 0
               /\ list' = Append(list, image.file[pos + 1]) /\ pos' = pos + 1
               /\ Goes("array") /\ UNCHANGED <<handle, parts, image>>
      <3> DEFINE x == image.file[pos + 1]
      <3>1. at' = "array" /\ image' = image
        BY <2>1 DEF Goes
      <3>2. /\ Len(image.file) \in Nat /\ pos \in Nat
            /\ \A k \in 1 .. Len(image.file) : image.file[k] \in 0 .. Dword - 1
            /\ list \in Seq(0 .. Dword - 1) /\ Len(list) \in Nat
        BY ImageType, InspectAssumption DEF Reading
      <3>3. pos + 1 \in 1 .. Len(image.file)
        BY <2>1, <3>2
      <3>4. x \in 0 .. Dword - 1
        BY <3>2, <3>3
      <3> HIDE DEF x
      <3>5. /\ list' \in Seq(0 .. Dword - 1) /\ Len(list') = Len(list) + 1
            /\ \A j \in 1 .. Len(list) : list'[j] = list[j]
            /\ list'[Len(list) + 1] = x
        BY <2>1, <3>2, <3>4, AppendProperties DEF x
      <3>6. pos' \in 0 .. Dword - 1 + Len(image'.file)
        BY <2>1, <3>1, <3>2, <3>3, InspectAssumption
      <3>7. /\ Len(list) <= pos
            /\ \A j \in 1 .. Len(list) : list[j] = image.file[pos - Len(list) + j] /\ list[j] # 0
            /\ StartsAt(pos - Len(list))
        BY <1>4 DEF ReadCallback, Reading, JustRead
      <3>8. JustRead'
        <4>1. Len(list') <= pos' /\ pos' <= Len(image'.file)
          BY <2>1, <3>1, <3>2, <3>3, <3>5, <3>7
        <4>2. pos' - Len(list') = pos - Len(list)
          BY <2>1, <3>2, <3>5
        <4>3. ASSUME NEW j \in 1 .. Len(list')
              PROVE  list'[j] = image.file[pos - Len(list) + j] /\ list'[j] # 0
          <5>1. CASE j = Len(list) + 1
            <6>1. pos - Len(list) + j = pos + 1
              BY <3>2, <5>1
            <6> QED
              BY <2>1, <3>5, <5>1, <6>1 DEF x
          <5>2. CASE j \in 1 .. Len(list)
            BY <3>5, <3>7, <5>2
          <5> QED
            BY <3>2, <3>5, <5>1, <5>2
        <4>4. StartsAt(pos - Len(list))'
          BY <3>1, <3>7, <4>2 DEF StartsAt, Named, DirectoryAt
        <4> QED
          BY <3>1, <4>1, <4>2, <4>3, <4>4 DEF JustRead
      <3> QED
        BY <3>1, <3>5, <3>6, <3>8 DEF Reading
    <2> QED
      BY <1>1, <1>4, <2>1 DEF ReadCallback
  <1> QED
    BY <1>2, <1>3, <1>4

LEMMA ReadingStep == InspectInv /\ Reading /\ [Next]_vars => Reading'
  <1> SUFFICES ASSUME InspectInv, Reading, [Next]_vars PROVE Reading'
    OBVIOUS
  <1> DEFINE Away == at \notin {"directory", "array"} /\ at' \notin {"directory", "array"}
  <1>1. ASSUME NEW r, Answers(r) PROVE Reading'
    BY <1>1, ReadingAnswers
  <1>2. ASSUME UNCHANGED <<image, pos, list>>, Away \/ at' = at PROVE Reading'
    BY <1>2, ReadingElsewhere
  <1>3. CASE ReadHeaders \/ ReadDirectory \/ ReadCallback
    BY <1>3, ReadingFile
  <1>4. CASE DbgGetThreadId \/ QueryName \/ NoPeb
    BY <1>1, <1>2, <1>4 DEF DbgGetThreadId, QueryName, NoPeb, Goes
  <1>5. CASE OpenProcess
    <2>1. (\E r : Answers(r)) \/ (Away /\ UNCHANGED <<image, list>> /\ pos' \in {pos, 1})
      BY <1>5 DEF OpenProcess, Goes
    <2> QED
      BY <1>1, <2>1, ReadingElsewhere
  <1>6. CASE ReadPeb
    <2>1. pos \in 1 .. 5 /\ Len(PebFields) = 5
      BY <1>6, PartNames DEF ReadPeb, InspectInv, PartsAre
    <2>2. (\E r : Answers(r))
            \/ (Away /\ UNCHANGED <<image, list>> /\ pos # 5 /\ pos' = pos + 1)
      BY <1>6, <2>1 DEF ReadPeb, Goes
    <2>3. pos # 5 /\ pos' = pos + 1 => pos' \in 0 .. 5
      BY <2>1
    <2> QED
      BY <1>1, <2>2, <2>3, ReadingElsewhere
  <1>7. ASSUME NEW c, NEW r, AnswersAtOnce(c, r) PROVE Reading'
    BY <1>2, <1>7 DEF AnswersAtOnce
  <1>8. ASSUME NEW c, NEW step \in {"tid", "open"}, Begins(c, step) PROVE Reading'
    BY <1>2, <1>8 DEF Begins, AsksForPid
  <1>9. ASSUME NEW c, at \in {"idle", "patches"}, Undefined(c) PROVE Reading'
    BY <1>2, <1>9 DEF Undefined
  <1>10. CASE dbg_get_peb \/ dbg_get_tls_callbacks \/ dbg_get_process_info
    BY <1>7, <1>8, <1>10
       DEF dbg_get_peb, dbg_get_tls_callbacks, dbg_get_process_info, Refuses
  <1>11. CASE dbg_read_regs \/ \E c \in Constants : Constant(c)
    BY <1>7, <1>11 DEF dbg_read_regs, Constant
  <1>12. ASSUME NEW c, Lists(c) PROVE Reading'
    BY <1>7, <1>9, <1>12 DEF Lists
  <1>13. CASE EnumPatches
    BY <1>1, <1>9, <1>13 DEF EnumPatches
  <1>14. CASE dbg_get_patches
    BY <1>2, <1>7, <1>14 DEF dbg_get_patches
  <1>15. CASE UserPatches \/ (Elsewhere /\ UNCHANGED locals) \/ UNCHANGED vars
    BY <1>2, <1>15 DEF UserPatches, Elsewhere, suspendVars, vars, locals
  <1>16. CASE Sent \/ Suspend
    <2>1. Away /\ UNCHANGED <<image, pos, list>>
      BY <1>16 DEF Sent, NextRequest, Suspend, WalkNext, dbg_suspend_all_threads, AsksForPid,
                   Snapshot, OpenThread, SuspendThread, EndOfWalk, Packs
    <2> QED
      BY <1>2, <2>1
  <1> QED
    BY <1>3, <1>4, <1>5, <1>6, <1>10, <1>11, <1>12, <1>13, <1>14, <1>15, <1>16
       DEF Next, Continues

LEMMA ReadingInvariant == Spec => []Reading
  BY ReadingInit, ReadingStep, InspectInvariant, PTL DEF Spec

(* For any file and any TLS directory the callbacks are a run of non-zero  *)
(* DWORDs of the file. Where it begins is told by the directory, if that   *)
(* is all there, also where the address it names is one that the seek      *)
(* refuses.                                                                *)
THEOREM CallbacksRead == Spec => []CallbacksFromFile
  <1>1. Reading => CallbacksFromFile
    <2> SUFFICES ASSUME Reading, at = "array" PROVE CallbacksFromFile
      BY DEF CallbacksFromFile
    <2> QED
      BY DEF Reading, JustRead, CallbacksFromFile, StartsAt, Named
  <1> QED
    BY <1>1, ReadingInvariant, PTL

-----------------------------------------------------------------------------
(* The rest of the state.                                                  *)

InRange ==
  /\ suspends \in [Tids -> 0 .. MaxSuspends]
  /\ at \in Steps
  /\ pid \in Pids \union {0}
  /\ suspended \in Nat /\ failed \in Nat /\ stopped \subseteq Tids
  /\ first \in SUBSET Patches /\ patches \in SUBSET Patches

LEMMA RangeInit == Init => InRange
  BY SuspendAssumption
     DEF Init, SuspendInit, DebuggeeInit, InRange, Steps

(* A step that changes nothing of a walk and is not about patches.         *)
LEMMA RangeAside ==
  ASSUME InRange, UNCHANGED suspends, at' \in Steps,
         pid' \in Pids \union {0},
         counters' \in {counters, <<0, 0>>}, stopped' \in {stopped, {}},
         first' \in {first, {}}, patches' \in {patches, {}}
  PROVE  InRange'
  BY DEF InRange, counters

LEMMA RangeAnswers ==
  ASSUME InRange, NEW r, Answers(r)
  PROVE  InRange'
  BY RangeAside DEF Answers, Packs, environment, counters, Steps

LEMMA RangeGoes ==
  ASSUME InRange, NEW step \in Holding \union {"open"}, Goes(step)
  PROVE  InRange'
  <1>1. step \in Steps
    BY DEF Steps, Holding
  <1> QED
    BY <1>1, RangeAside DEF Goes, environment, walk, InRange

LEMMA RangeAtOnce ==
  ASSUME InRange, NEW c, NEW r, AnswersAtOnce(c, r)
  PROVE  InRange'
  BY RangeAside DEF AnswersAtOnce, environment, walk, Steps, InRange

(* The debuggee's id, if there is one, is an id. *)
LEMMA IdAsked ==
  ASSUME InspectInv
  PROVE  DbgGetProcessId \in Pids \union {0}
  BY DEF InspectInv, MachineOK, DebuggeeTypeOK, DbgGetProcessId

LEMMA RangeBegins ==
  ASSUME InspectInv, InRange, NEW c, NEW step \in {"tid", "open"}, Begins(c, step)
  PROVE  InRange'
  BY RangeAside, IdAsked DEF Begins, AsksForPid, walk, Steps

LEMMA RangeWalk ==
  ASSUME InspectInv, InRange, Suspend
  PROVE  InRange'
  <1>1. UNCHANGED <<first, patches>>
    BY DEF Suspend
  <1>2. CASE dbg_suspend_all_threads
    BY <1>1, <1>2, RangeAside, IdAsked
       DEF dbg_suspend_all_threads, AsksForPid, walk, Steps, WalkSteps
  <1>3. CASE Snapshot
    <2>1. /\ UNCHANGED suspends /\ at' \in {"packed", "walk"} /\ pid' \in {pid, 0}
          /\ counters' \in {counters, <<0, 0>>} /\ stopped' \in {stopped, {}}
      BY <1>3 DEF Snapshot, Packs, counters
    <2> QED
      BY <1>1, <2>1, RangeAside DEF Steps, WalkSteps, InRange
  <1>4. CASE OpenThread
    <2>1. /\ at = "walk" /\ at' \in {"walk", "opened"}
          /\ UNCHANGED <<suspends, pid, suspended, stopped>> /\ failed' \in {failed, failed + 1}
      BY <1>4 DEF OpenThread, environment
    <2> QED
      BY <1>1, <2>1 DEF InRange, Steps, WalkSteps
  <1>5. CASE SuspendThread
    <2>1. handle \in Tids /\ at' = "walk" /\ pid' = pid
      BY <1>5 DEF SuspendThread, InspectInv, HandleIs
    <2>2. suspends' \in [Tids -> 0 .. MaxSuspends]
      <3>1. CASE suspends' = suspends
        BY <3>1 DEF InRange
      <3>2. CASE suspends[handle] < MaxSuspends /\ suspends' = [suspends EXCEPT ![handle] = @ + 1]
        <4>1. suspends[handle] + 1 \in 0 .. MaxSuspends
          BY <2>1, <3>2, SuspendAssumption DEF InRange
        <4> QED
          BY <3>2, <4>1 DEF InRange
      <3> QED
        BY <1>5, <3>1, <3>2 DEF SuspendThread
    <2>3. suspended' \in Nat /\ failed' \in Nat /\ stopped' \subseteq Tids
      BY <1>5, <2>1 DEF SuspendThread, InRange
    <2> QED
      BY <1>1, <2>1, <2>2, <2>3 DEF InRange, Steps, WalkSteps
  <1>6. CASE EndOfWalk
    BY <1>1, <1>6, RangeAside DEF EndOfWalk, Packs, environment, counters, Steps
  <1> QED
    BY <1>2, <1>3, <1>4, <1>5, <1>6 DEF Suspend, WalkNext

(* The debuggee's threads come and go; suspend counts only get lower. *)
LEMMA RangeElsewhere ==
  ASSUME InspectInv, InRange, at # "undefined", Elsewhere, UNCHANGED locals
  PROVE  InRange'
  <1>1. /\ DebuggeeNext /\ UNCHANGED <<at, pid, suspended, failed, stopped, cmd, first, patches>>
    BY DEF Elsewhere, walk, counters, locals
  <1>2. suspends' \in [Tids -> 0 .. MaxSuspends]
    <2>1. ASSUME NEW t \in Tids, suspends' = [suspends EXCEPT ![t] = 0]
          PROVE  suspends' \in [Tids -> 0 .. MaxSuspends]
      BY <2>1, SuspendAssumption DEF InRange
    <2>2. ASSUME NEW t \in Tids, ResumeThread(t)
          PROVE  suspends' \in [Tids -> 0 .. MaxSuspends]
      <3>1. suspends[t] - 1 \in 0 .. MaxSuspends
        BY <2>2, SuspendAssumption DEF ResumeThread, InRange
      <3> QED
        BY <2>2, <3>1 DEF ResumeThread, InRange
    <2>3. \/ \E t \in Tids : suspends' = [suspends EXCEPT ![t] = 0] \/ ResumeThread(t)
          \/ suspends' = suspends
      BY <1>1 DEF DebuggeeNext, StartThread, EndThread, Attach, StopDebugging
    <2> QED
      BY <2>1, <2>2, <2>3 DEF InRange
  <1> QED
    BY <1>1, <1>2 DEF InRange

LEMMA RangeStep == InspectInv /\ InRange /\ [Next]_vars => InRange'
  <1> SUFFICES ASSUME InspectInv, InRange, [Next]_vars PROVE InRange'
    OBVIOUS
  <1>1. ASSUME NEW r, Answers(r) PROVE InRange'
    BY <1>1, RangeAnswers
  <1>2. ASSUME NEW step \in Holding \union {"open"}, Goes(step) PROVE InRange'
    BY <1>2, RangeGoes
  <1>3. ASSUME NEW c, NEW r, AnswersAtOnce(c, r) PROVE InRange'
    BY <1>3, RangeAtOnce
  <1>4. CASE DbgGetThreadId \/ QueryName \/ ReadHeaders \/ NoPeb
    BY <1>1, <1>2, <1>4 DEF DbgGetThreadId, QueryName, ReadHeaders, NoPeb, Holding
  <1>5. CASE OpenProcess \/ ReadDirectory \/ ReadCallback \/ ReadPeb
    <2>1. (\E r : Answers(r)) \/ \E step \in Holding : Goes(step)
      BY <1>5 DEF OpenProcess, ReadDirectory, ReadCallback, ReadPeb, Holding
    <2> QED
      BY <1>1, <1>2, <2>1
  <1>6. CASE dbg_get_peb \/ dbg_get_tls_callbacks \/ dbg_get_process_info
    BY <1>3, <1>6, RangeBegins
       DEF dbg_get_peb, dbg_get_tls_callbacks, dbg_get_process_info, Refuses
  <1>7. CASE dbg_read_regs \/ \E c \in Constants : Constant(c)
    BY <1>3, <1>7 DEF dbg_read_regs, Constant
  <1>8. CASE dbg_get_patches
    <2>1. ASSUME NEW s \in SUBSET Patches, first' = s, patches' = s,
                 cmd' = "dbg_get_patches", at' = "patches",
                 UNCHANGED <<environment, pid, walk>>
          PROVE  InRange'
      BY <2>1 DEF environment, walk, counters, InRange, Steps
    <2> QED
      BY <1>3, <1>8, <2>1 DEF dbg_get_patches
  <1>9. CASE UserPatches
    BY <1>9 DEF UserPatches, suspendVars, environment, walk, counters, InRange, Steps
  <1>10. ASSUME NEW c, Undefined(c) PROVE InRange'
    BY <1>10, RangeAside DEF Undefined, environment, walk, Steps, InRange
  <1>11. CASE EnumPatches \/ \E c \in Unchecked \union Checked : Lists(c)
    BY <1>1, <1>3, <1>10, <1>11 DEF EnumPatches, Lists
  <1>12. CASE Suspend
    BY <1>12, RangeWalk
  <1>13. CASE Sent
    BY <1>13, RangeAside DEF Sent, NextRequest, walk, Steps, InRange
  <1>14. CASE at # "undefined" /\ Elsewhere /\ UNCHANGED locals
    BY <1>14, RangeElsewhere
  <1>15. CASE UNCHANGED vars
    BY <1>15 DEF vars, locals, suspendVars, environment, walk, counters, InRange
  <1> QED
    BY <1>4, <1>5, <1>6, <1>7, <1>8, <1>9, <1>11, <1>12, <1>13, <1>14, <1>15
       DEF Next, Continues

LEMMA RangeInvariant == Spec => []InRange
  BY RangeInit, RangeStep, InspectInvariant, PTL DEF Spec

(* Every variable of the server thread and of the machine around it has    *)
(* its type: file positions and callbacks stay DWORDs within the file, and *)
(* suspend counts do not pass their limit.                                 *)
THEOREM TypeCorrect == Spec => []TypeOK
  <1>1. InspectInv /\ Reading /\ InRange => TypeOK
    BY DEF InspectInv, MachineOK, PartsAre, Reading, InRange, TypeOK
  <1> QED
    BY <1>1, InspectInvariant, ReadingInvariant, RangeInvariant, PTL

-----------------------------------------------------------------------------
(* Register dumps.                                                         *)

(* A reply with registers is the decoding of a dump.                       *)
DumpReplied ==
  at = "packed" /\ reply.head = "regs" =>
    reply.rd \in Dumps /\ reply.regs = RegDump(reply.rd)

LEMMA DumpRepliedStep == DumpReplied /\ [Next]_vars => DumpReplied'
  <1> SUFFICES ASSUME DumpReplied, [Next]_vars PROVE DumpReplied'
    OBVIOUS
  <1>1. ASSUME NEW r, reply' = r, r.head # "regs" PROVE DumpReplied'
    BY <1>1 DEF DumpReplied
  <1>2. XError.head # "regs" /\ False.head # "regs" /\ Value.head # "regs"
        /\ (\A l : List(l).head # "regs") /\ (\A q : Parts(q).head # "regs")
        /\ (\A a, b : Counts(a, b).head # "regs")
    BY DEF XError, False, Value, List, Parts, Counts
  <1>3. ASSUME Answers(XError) \/ (\E l : Answers(List(l))) \/ (\E q : Answers(Parts(q)))
        PROVE  DumpReplied'
    BY <1>1, <1>2, <1>3 DEF Answers, Packs
  <1>4. ASSUME Answers(SoFar) PROVE DumpReplied'
    BY <1>3, <1>4 DEF SoFar
  <1>5. ASSUME NEW c, NEW r, AnswersAtOnce(c, r), r.head # "regs" PROVE DumpReplied'
    BY <1>1, <1>5 DEF AnswersAtOnce
  <1>6. ASSUME NEW step \in Holding \union {"open"}, Goes(step) PROVE DumpReplied'
    BY <1>6 DEF Goes, DumpReplied, Holding
  <1>7. CASE DbgGetThreadId \/ OpenProcess \/ QueryName \/ ReadHeaders \/ ReadDirectory
             \/ ReadCallback \/ NoPeb \/ ReadPeb
    <2>1. \/ Answers(XError) \/ (\E l : Answers(List(l))) \/ (\E q : Answers(Parts(q)))
          \/ Answers(SoFar) \/ \E step \in Holding \union {"open"} : Goes(step)
      BY <1>7 DEF DbgGetThreadId, OpenProcess, QueryName, ReadHeaders, ReadDirectory,
                  ReadCallback, NoPeb, ReadPeb, Holding
    <2> QED
      BY <1>3, <1>4, <1>6, <2>1
  <1>8. CASE dbg_get_peb \/ dbg_get_tls_callbacks \/ dbg_get_process_info
    BY <1>2, <1>5, <1>8
       DEF dbg_get_peb, dbg_get_tls_callbacks, dbg_get_process_info, Refuses, Begins, DumpReplied
  <1>9. CASE dbg_get_patches \/ EnumPatches \/ \E c \in Unchecked \union Checked : Lists(c)
    BY <1>2, <1>3, <1>5, <1>9 DEF dbg_get_patches, EnumPatches, Lists, Undefined, DumpReplied
  <1>10. CASE \E c \in Constants : Constant(c)
    BY <1>2, <1>5, <1>10 DEF Constant
  <1>11. CASE dbg_read_regs
    BY <1>11 DEF dbg_read_regs, AnswersAtOnce, DumpReplied
  <1>12. CASE Suspend
    <2>1. at' # "packed" \/ reply' \in {XError, False} \/ \E a, b : reply' = Counts(a, b)
      BY <1>12 DEF Suspend, WalkNext, dbg_suspend_all_threads, Snapshot, OpenThread,
                   SuspendThread, EndOfWalk, Packs
    <2> QED
      BY <1>1, <1>2, <2>1 DEF DumpReplied
  <1>13. CASE Sent
    BY <1>13 DEF Sent, NextRequest, DumpReplied
  <1>14. CASE UserPatches \/ (Elsewhere /\ UNCHANGED locals) \/ UNCHANGED vars
    BY <1>14 DEF UserPatches, Elsewhere, suspendVars, vars, DumpReplied
  <1> QED
    BY <1>7, <1>8, <1>9, <1>10, <1>11, <1>12, <1>13, <1>14 DEF Next, Continues

(* For any register dumps, every reply of dbg_read_regs has each bit of    *)
(* the control and status words in its field, and each x87 register with   *)
(* its own contents, place in the stack and tag.                           *)
THEOREM RegistersRight == Spec => []RegistersDecoded
  <1>1. Init => DumpReplied
    BY DEF Init, SuspendInit, DumpReplied
  <1>2. DumpReplied => RegistersDecoded
    BY InspectAssumption, DumpFaithful DEF DumpReplied, RegistersDecoded
  <1> QED
    BY <1>1, <1>2, DumpRepliedStep, PTL DEF Spec

-----------------------------------------------------------------------------
(* Every command comes nearer to its end.                                  *)

(* A snapshot has finitely many entries. *)
LEMMA SnapshotFinite ==
  IsFiniteSet({<<t, pidOf[owner[t]]>> : t \in {u \in Tids : owner[u] # NoProc}})
  <1> DEFINE alive   == {u \in Tids : owner[u] # NoProc}
             entries == {<<t, pidOf[owner[t]]>> : t \in alive}
             entry   == [t \in alive |-> <<t, pidOf[owner[t]]>>]
  <1>1. IsFiniteSet(alive)
    BY InspectAssumption, FS_Subset
  <1>2. entry \in Surjection(alive, entries)
    BY DEF Surjection
  <1> HIDE DEF entry, entries
  <1>3. IsFiniteSet(entries)
    BY <1>1, <1>2, FS_Surjection
  <1> QED
    BY <1>3 DEF entries

TodoFinite == IsFiniteSet(todo)

LEMMA TodoFiniteStep == TodoFinite /\ [Next]_vars => TodoFinite'
  <1> SUFFICES ASSUME IsFiniteSet(todo), [Next]_vars PROVE IsFiniteSet(todo')
    BY DEF TodoFinite
  <1> USE DEF walk
  <1>1. ASSUME todo' \subseteq todo PROVE IsFiniteSet(todo')
    BY <1>1, FS_Subset
  <1>2. ASSUME NEW r, Answers(r) PROVE todo' \subseteq todo
    BY <1>2 DEF Answers, Packs
  <1>3. ASSUME NEW step, Goes(step) PROVE todo' \subseteq todo
    BY <1>3 DEF Goes
  <1>4. CASE DbgGetThreadId \/ OpenProcess \/ QueryName \/ ReadHeaders \/ ReadDirectory
             \/ ReadCallback \/ NoPeb \/ ReadPeb
    <2>1. (\E r : Answers(r)) \/ \E step : Goes(step)
      BY <1>4 DEF DbgGetThreadId, OpenProcess, QueryName, ReadHeaders, ReadDirectory,
                  ReadCallback, NoPeb, ReadPeb
    <2> QED
      BY <1>1, <1>2, <1>3, <2>1
  <1>5. CASE dbg_get_peb \/ dbg_get_tls_callbacks \/ dbg_get_process_info \/ dbg_get_patches
             \/ EnumPatches \/ dbg_read_regs \/ (\E c \in Constants : Constant(c))
             \/ \E c \in Unchecked \union Checked : Lists(c)
    BY <1>1, <1>2, <1>5
       DEF dbg_get_peb, dbg_get_tls_callbacks, dbg_get_process_info, Refuses, Begins,
           AsksForPid, AnswersAtOnce, dbg_get_patches, EnumPatches, dbg_read_regs, Constant,
           Lists, Undefined
  <1>6. CASE Suspend
    <2>1. \/ todo' \subseteq todo
          \/ todo' = {<<t, pidOf[owner[t]]>> : t \in {u \in Tids : owner[u] # NoProc}}
      BY <1>6 DEF Suspend, WalkNext, dbg_suspend_all_threads, AsksForPid, Snapshot, OpenThread,
                  SuspendThread, EndOfWalk, Packs
    <2> QED
      BY <1>1, <2>1, SnapshotFinite
  <1>7. CASE Sent \/ UserPatches \/ (Elsewhere /\ UNCHANGED locals) \/ UNCHANGED vars
    BY <1>7 DEF Sent, NextRequest, UserPatches, Elsewhere, suspendVars, vars
  <1> QED
    BY <1>4, <1>5, <1>6, <1>7 DEF Next, Continues

LEMMA TodoFiniteInvariant == Spec => []TodoFinite
  <1>1. Init => TodoFinite
    BY FS_EmptySet DEF Init, SuspendInit, TodoFinite
  <1> QED
    BY <1>1, TodoFiniteStep, PTL DEF Spec

LEMMA TurnsOf ==
  ASSUME InspectInv, Reading, TodoFinite
  PROVE  /\ at = "peb" => pos \in 1 .. 5 /\ TurnsLeft = 5 - pos
         /\ at = "array" /\ pos < Len(image.file) => TurnsLeft = Len(image.file) - pos
         /\ at = "walk" => TurnsLeft = 2 * Cardinality(todo)
         /\ at = "opened" => TurnsLeft = 2 * Cardinality(todo) + 1
         /\ pos \in Nat /\ Len(image.file) \in Nat /\ Cardinality(todo) \in Nat
         /\ TurnsLeft \in Nat
  <1>1. pos \in Nat /\ Len(image.file) \in Nat /\ Cardinality(todo) \in Nat
    BY ImageType, InspectAssumption, FS_CardinalityType DEF Reading, TodoFinite
  <1>2. Len(PebFields) = 5 /\ (at = "peb" => pos \in 1 .. 5)
    BY PartNames DEF InspectInv, PartsAre
  <1> HIDE DEF PebFields
  <1>3. TurnsLeft \in Nat
    BY <1>1, <1>2 DEF TurnsLeft
  <1> QED
    BY <1>1, <1>2, <1>3 DEF TurnsLeft

(* The turns of the walk: an entry is taken off, and a thread opened is    *)
(* done with before the next.                                              *)
LEMMA WalkNearer ==
  ASSUME InspectInv, Reading, TodoFinite, TodoFinite', WalkNext
  PROVE  Nearer
  <1>1. CASE Snapshot
    <2>1. at = "snapshot" /\ at' \in {"packed", "walk"}
      BY <1>1 DEF Snapshot, Packs
    <2>2. Stage = 2 /\ Stage' \in {0, 1}
      BY <2>1 DEF Stage
    <2> QED
      BY <2>2 DEF Nearer
  <1>2. CASE OpenThread
    <2>1. PICK e \in todo : todo' = todo \ {e} /\ at = "walk" /\ at' \in {"walk", "opened"}
      BY <1>2 DEF OpenThread, Entries
    <2>2. Stage = 1 /\ Stage' = 1
      BY <2>1 DEF Stage
    <2>3. Cardinality(todo) \in Nat /\ Cardinality(todo') = Cardinality(todo) - 1
          /\ Cardinality(todo') \in Nat
      BY <2>1, FS_RemoveElement, FS_CardinalityType DEF TodoFinite
    <2>4. TurnsLeft = 2 * Cardinality(todo)
          /\ TurnsLeft' \in {2 * Cardinality(todo'), 2 * Cardinality(todo') + 1}
      BY <2>1 DEF TurnsLeft
    <2>5. TurnsLeft' \in 0 .. TurnsLeft - 1
      BY <2>3, <2>4
    <2> QED
      BY <2>2, <2>5 DEF Nearer
  <1>3. CASE SuspendThread
    <2>1. at = "opened" /\ at' = "walk" /\ todo' = todo
      BY <1>3 DEF SuspendThread
    <2>2. Stage = 1 /\ Stage' = 1
      BY <2>1 DEF Stage
    <2>3. Cardinality(todo) \in Nat
      BY FS_CardinalityType DEF TodoFinite
    <2>4. TurnsLeft = 2 * Cardinality(todo) + 1 /\ TurnsLeft' = 2 * Cardinality(todo)
      BY <2>1 DEF TurnsLeft
    <2>5. TurnsLeft' \in 0 .. TurnsLeft - 1
      BY <2>3, <2>4
    <2> QED
      BY <2>2, <2>5 DEF Nearer
  <1>4. CASE EndOfWalk
    <2>1. at = "walk" /\ at' = "packed"
      BY <1>4 DEF EndOfWalk, Packs
    <2>2. Stage = 1 /\ Stage' = 0
      BY <2>1 DEF Stage
    <2> QED
      BY <2>2 DEF Nearer
  <1> QED
    BY <1>1, <1>2, <1>3, <1>4 DEF WalkNext

LEMMA ContinuesNearer ==
  ASSUME InspectInv, Reading, TodoFinite, TodoFinite', Continues
  PROVE  Nearer
  <1>1. ASSUME at' \in {"packed", "undefined"},
               at \in {"tid", "open", "name", "peb", "file", "directory", "array", "patches"}
        PROVE  Nearer
    <2>1. Stage' = 0 /\ Stage > 0
      BY <1>1 DEF Stage
    <2> QED
      BY <2>1 DEF Nearer
  <1>2. ASSUME NEW r, Answers(r) PROVE at' = "packed"
    BY <1>2 DEF Answers, Packs
  <1>3. ASSUME <<at, at'>> \in {<<"tid", "open">>, <<"open", "name">>, <<"open", "peb">>,
                                <<"name", "file">>, <<"file", "directory">>,
                                <<"directory", "array">>}
        PROVE  Nearer
    <2>1. Stage' < Stage
      BY <1>3 DEF Stage
    <2> QED
      BY <2>1 DEF Nearer
  <1>4. CASE DbgGetThreadId \/ OpenProcess \/ QueryName \/ ReadHeaders \/ NoPeb
    BY <1>1, <1>2, <1>3, <1>4
       DEF DbgGetThreadId, OpenProcess, QueryName, ReadHeaders, NoPeb, Goes
  <1>5. CASE ReadDirectory
    <2>1. at = "directory" /\ ((\E r : Answers(r)) \/ Goes("array"))
      BY <1>5 DEF ReadDirectory
    <2> QED
      BY <1>1, <1>2, <1>3, <2>1 DEF Goes
  <1>6. CASE ReadCallback
    <2>1. CASE /\ at = "array" /\ at' = "array" /\ pos < Len(image.file)
               /\ pos' = pos + 1 /\ image' = image
      <3>1. Stage = 1 /\ Stage' = 1
        BY <2>1 DEF Stage
      <3>2. pos \in Nat /\ Len(image.file) \in Nat /\ TurnsLeft = Len(image.file) - pos
        BY <2>1, TurnsOf
      <3>3. TurnsLeft' = IF pos + 1 < Len(image.file) THEN Len(image.file) - (pos + 1) ELSE 0
        BY <2>1 DEF TurnsLeft
      <3>4. TurnsLeft' \in 0 .. TurnsLeft - 1
        BY <2>1, <3>2, <3>3
      <3> QED
        BY <3>1, <3>4 DEF Nearer
    <2> QED
      BY <1>1, <1>2, <1>6, <2>1 DEF ReadCallback, Goes
  <1>7. CASE ReadPeb
    <2>1. CASE at = "peb" /\ at' = "peb" /\ pos # 5 /\ pos' = pos + 1
      <3>1. Stage = 4 /\ Stage' = 4
        BY <2>1 DEF Stage
      <3>2. pos \in 1 .. 5 /\ TurnsLeft = 5 - pos
        BY <2>1, TurnsOf
      <3>3. Len(PebFields) = 5
        BY PartNames
      <3>4. TurnsLeft' = 5 - (pos + 1)
        BY <2>1, <3>3 DEF TurnsLeft
      <3>5. TurnsLeft' \in 0 .. TurnsLeft - 1
        BY <2>1, <3>2, <3>4
      <3> QED
        BY <3>1, <3>5 DEF Nearer
    <2> QED
      BY <1>1, <1>2, <1>7, <2>1, PartNames DEF ReadPeb, Goes
  <1>8. CASE EnumPatches
    BY <1>1, <1>2, <1>8 DEF EnumPatches, Undefined
  <1>9. CASE Suspend /\ at # "idle"
    BY <1>9, WalkNearer DEF Suspend, dbg_suspend_all_threads, AsksForPid
  <1> QED
    BY <1>4, <1>5, <1>6, <1>7, <1>8, <1>9 DEF Continues

(* A step of the debuggee or the user leaves the command where it is. *)
LEMMA OthersStandBy ==
  ASSUME InspectInv, Reading, TodoFinite, TodoFinite', [Next]_vars,
         at \notin {"idle", "packed", "undefined"}, ~Continues
  PROVE  UNCHANGED <<Stage, TurnsLeft>>
  <1>1. UNCHANGED <<at, pos, image, todo>>
    <2>1. CASE UserPatches \/ (Elsewhere /\ UNCHANGED locals) \/ UNCHANGED vars
      BY <2>1 DEF UserPatches, Elsewhere, suspendVars, vars, locals, walk
    <2>2. CASE Suspend
      BY <2>2 DEF Continues
    <2>3. CASE Sent
      BY <2>3 DEF Sent, NextRequest
    <2>4. ASSUME \/ dbg_get_peb \/ dbg_get_tls_callbacks \/ dbg_get_process_info
                 \/ dbg_get_patches \/ dbg_read_regs
                 \/ (\E c \in Unchecked \union Checked : Lists(c))
                 \/ \E c \in Constants : Constant(c)
          PROVE  at = "idle"
      BY <2>4 DEF dbg_get_peb, dbg_get_tls_callbacks, dbg_get_process_info, Refuses, Begins,
           AsksForPid, AnswersAtOnce, dbg_get_patches, dbg_read_regs, Constant, Lists
    <2> QED
      BY <2>1, <2>2, <2>3, <2>4 DEF Next
  <1> QED
    BY <1>1 DEF Stage, TurnsLeft

(* For any number of threads, any file and any debuggee, every step of a   *)
(* command brings it nearer to its end and no other step takes it away     *)
(* from it: commands run on the server's only thread, which would answer   *)
(* no client any more.                                                     *)
THEOREM CommandsDescend == Spec => NearsEnd
  <1>1. InspectInv /\ Reading /\ TodoFinite /\ TodoFinite' /\ [Next]_vars =>
          [at \notin {"idle", "packed", "undefined"} =>
             \/ Continues /\ Nearer
             \/ ~Continues /\ UNCHANGED <<Stage, TurnsLeft>>]_vars
    BY ContinuesNearer, OthersStandBy
  <1> QED
    BY <1>1, InspectInvariant, ReadingInvariant, TodoFiniteInvariant, PTL DEF Spec, NearsEnd

-----------------------------------------------------------------------------
(* The walk over the threads, among all other commands.                    *)

(* A step of another command, outside any walk.                            *)
Aside ==
  /\ at \notin WalkSteps /\ at' \notin WalkSteps
  /\ UNCHANGED suspends
  /\ pid' \in Pids \union {0}
  /\ UNCHANGED walk \/ (todo' = {} /\ suspended' = 0 /\ failed' = 0 /\ stopped' = {})

LEMMA AsideAnswers ==
  ASSUME at \notin WalkSteps, NEW r, Answers(r)
  PROVE  Aside
  BY DEF Answers, Packs, environment, WalkSteps, Aside

LEMMA AsideGoes ==
  ASSUME InRange, at \notin WalkSteps, NEW step \in Holding \union {"open"}, Goes(step)
  PROVE  Aside
  BY DEF Goes, environment, WalkSteps, Holding, Aside, InRange

LEMMA AsideAtOnce ==
  ASSUME InRange, NEW c, NEW r, AnswersAtOnce(c, r)
  PROVE  Aside
  BY DEF AnswersAtOnce, environment, WalkSteps, Aside, InRange

LEMMA AsideBegins ==
  ASSUME InspectInv, NEW c, NEW step \in {"tid", "open"}, Begins(c, step)
  PROVE  Aside
  BY IdAsked DEF Begins, AsksForPid, WalkSteps, Aside

LEMMA AsideUndefined ==
  ASSUME InRange, NEW c, at \in {"idle", "patches"}, Undefined(c)
  PROVE  Aside
  BY DEF Undefined, environment, WalkSteps, Aside, InRange

(* Every step is one of SuspendSpec or aside. *)
LEMMA StepOf ==
  ASSUME InspectInv, InRange, [Next]_vars
  PROVE  [SuspendNext \/ Elsewhere]_suspendVars \/ Aside
  <1> DEFINE Goal == [SuspendNext \/ Elsewhere]_suspendVars \/ Aside
  <1>1. ASSUME NEW r, Answers(r), at \notin WalkSteps PROVE Goal
    BY <1>1, AsideAnswers
  <1>2. ASSUME NEW step \in Holding \union {"open"}, Goes(step), at \notin WalkSteps PROVE Goal
    BY <1>2, AsideGoes
  <1>3. ASSUME NEW c, NEW r, AnswersAtOnce(c, r) PROVE Goal
    BY <1>3, AsideAtOnce
  <1>4. ASSUME NEW c, at \in {"idle", "patches"}, Undefined(c) PROVE Goal
    BY <1>4, AsideUndefined
  <1>5. CASE DbgGetThreadId \/ QueryName \/ ReadHeaders \/ NoPeb
             \/ OpenProcess \/ ReadDirectory \/ ReadCallback \/ ReadPeb
    <2>1. at \notin WalkSteps
      BY <1>5 DEF DbgGetThreadId, QueryName, ReadHeaders, NoPeb, OpenProcess, ReadDirectory,
                  ReadCallback, ReadPeb, WalkSteps
    <2>2. (\E r : Answers(r)) \/ \E step \in Holding \union {"open"} : Goes(step)
      BY <1>5 DEF DbgGetThreadId, QueryName, ReadHeaders, NoPeb, OpenProcess, ReadDirectory,
                  ReadCallback, ReadPeb, Holding
    <2> QED
      BY <1>1, <1>2, <2>1, <2>2
  <1>6. CASE dbg_get_peb \/ dbg_get_tls_callbacks \/ dbg_get_process_info
    BY <1>3, <1>6, AsideBegins
       DEF dbg_get_peb, dbg_get_tls_callbacks, dbg_get_process_info, Refuses
  <1>7. CASE dbg_read_regs \/ \E c \in Constants : Constant(c)
    BY <1>3, <1>7 DEF dbg_read_regs, Constant
  <1>8. CASE dbg_get_patches
    <2>1. ASSUME NEW s \in SUBSET Patches, at' = "patches", UNCHANGED <<environment, pid, walk>>
          PROVE  Aside
      BY <1>8, <2>1 DEF dbg_get_patches, environment, WalkSteps, Aside, InRange
    <2> QED
      BY <1>3, <1>8, <2>1 DEF dbg_get_patches
  <1>9. CASE EnumPatches
    <2>1. at = "patches" /\ at \notin WalkSteps
      BY <1>9 DEF EnumPatches, WalkSteps
    <2> QED
      BY <1>1, <1>4, <1>9, <2>1 DEF EnumPatches
  <1>10. ASSUME NEW c \in Unchecked \union Checked, Lists(c) PROVE Goal
    BY <1>3, <1>4, <1>10 DEF Lists
  <1>11. CASE Suspend \/ Sent
    BY <1>11 DEF Suspend, Sent, SuspendNext
  <1>12. CASE UserPatches \/ (Elsewhere /\ UNCHANGED locals) \/ UNCHANGED vars
    BY <1>12 DEF UserPatches, vars
  <1> QED
    BY <1>5, <1>6, <1>7, <1>8, <1>9, <1>10, <1>11, <1>12 DEF Next, Continues

LEMMA AsideHolds ==
  ASSUME SuspendInv, InspectInv', Aside
  PROVE  SuspendInv'
  <1>1. ~Walking /\ ~Walking' /\ at' \notin WalkSteps /\ at' # "opened"
    BY DEF Aside, Walking, WalkSteps
  <1>2. MachineOK' /\ (todo \subseteq Tids \X Pids)'
    BY DEF InspectInv
  <1>3. /\ suspended' \in Nat /\ failed' = 0 /\ stopped' = {}
    BY <1>1 DEF SuspendInv, SuspendTypeOK, EntriesOnce, Aside, walk, counters
  <1>4. SuspendTypeOK'
    BY <1>1, <1>2, <1>3 DEF MachineOK, SuspendTypeOK, Aside
  <1>5. PidIsAsked' /\ EntriesTrue' /\ EntriesOnce' /\ Covered'
    BY <1>1, <1>3 DEF PidIsAsked, EntriesTrue, EntriesOnce, Covered
  <1> QED
    BY <1>2, <1>4, <1>5 DEF SuspendInv, MachineOK

LEMMA WalkInvariant == Spec => []SuspendInv
  <1>1. Init => SuspendInv
    BY InitHolds DEF Init
  <1>2. InspectInv /\ InspectInv' /\ InRange /\ SuspendInv /\ [Next]_vars => SuspendInv'
    BY StepOf, StepHolds, AsideHolds
  <1> QED
    BY <1>1, <1>2, InspectInvariant, RangeInvariant, PTL DEF Spec

LEMMA WalkStep ==
  ASSUME SuspendInv, InspectInv, InRange, [Next]_vars
  PROVE  [StrangersSpared /\ NoneTwice /\ StopsAll]_suspendVars
  <1>1. CASE SuspendNext \/ Elsewhere
    BY <1>1, SparedStep, TwiceStep, StopsStep
  <1>2. CASE Aside
    <2>1. suspends \in [Tids -> Nat] /\ stopped \subseteq Tids
      BY DEF SuspendInv, SuspendTypeOK, DebuggeeTypeOK
    <2>2. \A t \in Tids : ~(suspends'[t] > suspends[t])
      BY <1>2, <2>1 DEF Aside
    <2> QED
      BY <2>1, <2>2, StopsStep DEF StrangersSpared, NoneTwice
  <1> QED
    BY <1>1, <1>2, StepOf

(* With all commands together, a thread of another process is suspended    *)
(* only where ids changed hands.                                           *)
THEOREM StrangersSafeHere == Spec => StrangersLeftAlone
  <1>1. SuspendInv /\ InspectInv /\ InRange /\ [Next]_vars => [StrangersSpared]_suspendVars
    BY WalkStep
  <1> QED
    BY <1>1, WalkInvariant, InspectInvariant, RangeInvariant, PTL
       DEF Spec, StrangersLeftAlone, StrangersSpared

(* With all commands together, no command suspends a thread twice.         *)
THEOREM SuspendedOnceHere == Spec => OncePerCommand
  <1>1. SuspendInv /\ InspectInv /\ InRange /\ [Next]_vars => [NoneTwice]_suspendVars
    BY WalkStep
  <1> QED
    BY <1>1, WalkInvariant, InspectInvariant, RangeInvariant, PTL
       DEF Spec, OncePerCommand, NoneTwice

(* With all commands together, a reply of dbg_suspend_all_threads without  *)
(* failures means that the debuggee's threads stand still.                 *)
THEOREM AllStoppedHere == Spec => NoFailureStops
  <1>1. SuspendInv /\ InspectInv /\ InRange /\ [Next]_vars => [StopsAll]_suspendVars
    BY WalkStep
  <1> QED
    BY <1>1, WalkInvariant, InspectInvariant, RangeInvariant, PTL
       DEF Spec, NoFailureStops, StopsAll
=============================================================================
