--------------------------- MODULE SessionProofs ----------------------------
(***************************************************************************)
(* Proofs about Session for any number of processes, starts, ports and     *)
(* settings. What processes bind, and what they leave behind, is proved    *)
(* whatever x64dbg.ini holds. That session files are true, and with it     *)
(* that sessions implement SessionBoard, needs one thing of it, NoWrap: no *)
(* configured port is a multiple of 65536 (such a port becomes 0, and the  *)
(* file then names port 0 whatever the system chose).                      *)
(***************************************************************************)
EXTENDS Session, TLAPS

Narrow(s) == ConfiguredRep(s) # 0 /\ ConfiguredPub(s) # 0

NoWrap == \A s \in Settings : Narrow(s)

LEMMA Constants ==
  /\ MaxStarts \in Nat /\ PortSpan \in Nat /\ PortSpan > 0
  /\ DefaultRep \in Nat /\ DefaultPub \in Nat
  /\ 0 \in Port /\ NoSettings \in Setting /\ Settings \subseteq Setting
  <1>1. MaxStarts \in Nat /\ PortSpan \in Nat /\ PortSpan > 0
    BY SessionAssumption
  <1>2. DefaultRep \in Port /\ DefaultPub \in Port
    BY SessionAssumption
  <1>3. 0 \in Port /\ Port \subseteq Nat
    BY <1>1 DEF Port
  <1>4. NoSettings \in Setting
    BY DEF NoSettings, Setting
  <1> QED
    BY <1>1, <1>2, <1>3, <1>4, SessionAssumption

(* A configured port, after the cast, is a 16-bit number. *)
LEMMA CastType ==
  ASSUME NEW s \in Setting
  PROVE  ConfiguredRep(s) \in Port /\ ConfiguredPub(s) \in Port
  <1>1. ASSUME NEW n \in Nat PROVE n % PortSpan \in Port
    BY Constants DEF Port
  <1>2. Or(s.rep, DefaultRep) \in Nat /\ Or(s.pub, DefaultPub) \in Nat
    BY Constants DEF Or, Setting
  <1> QED
    BY <1>1, <1>2 DEF ConfiguredRep, ConfiguredPub

LEMMA SmallRemainder ==
  ASSUME NEW n \in Nat, NEW m \in Nat, n < m
  PROVE  n % m = n
  OBVIOUS

(* What the dialog shows is a setting that the file may hold.              *)
LEMMA ShownType ==
  ASSUME NEW s \in Setting
  PROVE  Shown(s) \in Setting /\ [Shown(s) EXCEPT !.mode = "remote"] \in Setting
  BY Constants DEF Shown, Setting, Or

(* The dialog accepts no port that the cast would change.                  *)
LEMMA AcceptedIsNarrow ==
  ASSUME NEW s \in Setting, s.mode = "remote", DialogAccepts(s)
  PROVE  ConfiguredRep(s) = s.rep /\ ConfiguredPub(s) = s.pub /\ Narrow(s)
  <1>1. /\ s.rep \in Nat /\ s.rep # 0 /\ s.rep < PortSpan
        /\ s.pub \in Nat /\ s.pub # 0 /\ s.pub < PortSpan
    <2>1. s.rep \in 1 .. PortSpan - 1 /\ s.pub \in 1 .. PortSpan - 1
      BY DEF DialogAccepts
    <2>2. PortSpan \in Nat
      BY Constants
    <2> QED
      BY <2>1, <2>2
  <1>2. s.rep % PortSpan = s.rep /\ s.pub % PortSpan = s.pub
    BY <1>1, Constants, SmallRemainder
  <1> QED
    BY <1>1, <1>2 DEF ConfiguredRep, ConfiguredPub, Or, Narrow

LEMMA SavedSetting ==
  ASSUME TypeOK, NEW p \in Procs, SaveSettings(p)
  PROVE  /\ ini' \in Setting
         /\ ini'.mode = "remote" => DialogAccepts(ini')
  <1>1. PICK s \in Setting : DialogAccepts(s) /\ ini' = Stored(s)
    BY ShownType, SessionAssumption DEF SaveSettings, TypeOK
  <1> QED
    BY <1>1 DEF Stored, Setting, TypeOK

LEMMA BindType ==
  ASSUME TypeOK, NEW p \in Procs, NEW port \in Port, NEW e \in BindTo(p, port)
  PROVE  /\ e \in Endpoint /\ e # NoSocket /\ Free(e) /\ e.addr = address[p]
         /\ port # 0 => e = At(p, port)
  BY SessionAssumption DEF TypeOK, BindTo, Endpoint, At, Port

LEMMA LocalType ==
  ASSUME TypeOK, NEW p \in Procs, NEW port \in LocalPorts
  PROVE  At(p, port) \in Endpoint /\ At(p, port) # NoSocket /\ port \in Port
  BY SessionAssumption DEF TypeOK, Endpoint, At, Port

-----------------------------------------------------------------------------
(* Types.                                                                  *)

LEMMA TypeInit == Init => TypeOK
  <1> SUFFICES ASSUME Init PROVE TypeOK
    OBVIOUS
  <1>1. starts \in 0 .. MaxStarts /\ ini \in Setting
    BY Constants DEF Init
  <1> QED
    BY <1>1, Constants DEF Init, TypeOK, Steps, Addresses

(* Every process is writing a file it opened. *)
Opened == \A p \in Procs : pc[p] = "write" => file[p] # NoFile /\ file[p].lines < 3

LEMMA EndType ==
  ASSUME TypeOK, Opened, NEW p \in Procs, EndProcess(p)
  PROVE  /\ starts' \in 0 .. MaxStarts /\ ini' \in Setting
         /\ pc' \in [Procs -> Steps] /\ cfg' \in [Procs -> Setting]
         /\ address' \in [Procs -> Addresses]
         /\ repPort' \in [Procs -> Port] /\ pubPort' \in [Procs -> Port]
         /\ repSock' \in [Procs -> Endpoint \union {NoSocket}]
         /\ pubSock' \in [Procs -> Endpoint \union {NoSocket}]
         /\ \A q \in Procs : pc'[q] = "write" => q # p /\ pc[q] = "write"
  <1>1. NoSettings \in Setting /\ 0 \in Port /\ "localhost" \in Addresses
    BY Constants DEF Addresses
  <1> QED
    BY <1>1 DEF EndProcess, TypeOK, Steps

LEMMA TypeStep == TypeOK /\ Opened /\ [Next]_vars => TypeOK' /\ Opened'
  <1> SUFFICES ASSUME TypeOK, Opened, [Next]_vars PROVE TypeOK' /\ Opened'
    OBVIOUS
  <1> USE DEF sockets
  <1>1. ASSUME NEW p \in Procs, SaveSettings(p) PROVE TypeOK' /\ Opened'
    <2>1. ini' \in Setting
      BY <1>1, SavedSetting
    <2> QED
      BY <1>1, <2>1 DEF SaveSettings, TypeOK, Opened
  <1>2. ASSUME NEW p \in Procs, Start(p) PROVE TypeOK' /\ Opened'
    <2>1. starts' \in 0 .. MaxStarts
      <3>1. starts \in 0 .. MaxStarts /\ MaxStarts \in Nat
        BY Constants DEF TypeOK
      <3>2. starts < MaxStarts /\ starts' = starts + 1
        BY <1>2 DEF Start
      <3> QED
        BY <3>1, <3>2
    <2>2. address' \in [Procs -> Addresses]
      BY <1>2 DEF Start, TypeOK, Setting, Addresses, ConfiguredAddress
    <2> QED
      BY <1>2, <2>1, <2>2 DEF Start, TypeOK, Opened, Steps
  <1>3. ASSUME NEW p \in Procs, BindRepRemote(p) PROVE TypeOK' /\ Opened'
    <2>1. ConfiguredRep(cfg[p]) \in Port
      BY CastType DEF TypeOK
    <2>2. repSock' \in [Procs -> Endpoint \union {NoSocket}]
      BY <1>3, <2>1, BindType DEF BindRepRemote, TypeOK
    <2> QED
      BY <1>3, <2>1, <2>2 DEF BindRepRemote, TypeOK, Opened, Steps
  <1>4. ASSUME NEW p \in Procs, BindPubRemote(p) PROVE TypeOK' /\ Opened'
    <2>1. ConfiguredPub(cfg[p]) \in Port
      BY CastType DEF TypeOK
    <2>2. /\ repSock' \in [Procs -> Endpoint \union {NoSocket}]
          /\ pubSock' \in [Procs -> Endpoint \union {NoSocket}]
      BY <1>4, <2>1, BindType DEF BindPubRemote, TypeOK
    <2> QED
      BY <1>4, <2>1, <2>2 DEF BindPubRemote, TypeOK, Opened, Steps
  <1>5. ASSUME NEW p \in Procs, BindRepLocal(p) PROVE TypeOK' /\ Opened'
    <2>1. PICK port \in LocalPorts :
            /\ repPort' = [repPort EXCEPT ![p] = port]
            /\ \/ repSock' = [repSock EXCEPT ![p] = At(p, port)]
               \/ UNCHANGED repSock
      BY <1>5 DEF BindRepLocal
    <2> QED
      BY <1>5, <2>1, LocalType DEF BindRepLocal, TypeOK, Opened, Steps
  <1>6. ASSUME NEW p \in Procs, BindPubLocal(p) PROVE TypeOK' /\ Opened'
    <2>1. PICK port \in LocalPorts :
            /\ pubPort' = [pubPort EXCEPT ![p] = port]
            /\ \/ pubSock' = [pubSock EXCEPT ![p] = At(p, port)]
               \/ UNCHANGED pubSock
      BY <1>6 DEF BindPubLocal
    <2> QED
      BY <1>6, <2>1, LocalType DEF BindPubLocal, TypeOK, Opened, Steps
  <1>7. ASSUME NEW p \in Procs, OpenFile(p) PROVE TypeOK' /\ Opened'
    <2>1. Written(p, 0) \in SessionFile
      BY DEF Written, SessionFile, TypeOK
    <2>2. Written(p, 0) # NoFile /\ Written(p, 0).lines < 3
      BY <2>1, SessionAssumption DEF Written
    <2> QED
      BY <1>7, <2>1, <2>2 DEF OpenFile, TypeOK, Opened, Steps
  <1>8. ASSUME NEW p \in Procs, WriteLine(p) PROVE TypeOK' /\ Opened'
    <2> DEFINE n == file[p].lines + 1
    <2>1. n \in 1 .. 3
      BY <1>8 DEF WriteLine, Opened, TypeOK, SessionFile
    <2>2. Written(p, n) \in SessionFile /\ Written(p, n) # NoFile /\ Written(p, n).lines = n
      BY <2>1, SessionAssumption DEF Written, SessionFile, TypeOK
    <2>3. /\ file' = [file EXCEPT ![p] = Written(p, n)]
          /\ pc' = IF n = 3 THEN [pc EXCEPT ![p] = "serving"] ELSE pc
          /\ UNCHANGED <<starts, ini, cfg, address, repPort, pubPort, sockets, leftover>>
      BY <1>8 DEF WriteLine
    <2> HIDE DEF n
    <2>4. TypeOK'
      BY <2>2, <2>3 DEF TypeOK, Steps
    <2>5. Opened'
      BY <2>1, <2>2, <2>3 DEF Opened, TypeOK
    <2> QED
      BY <2>4, <2>5
  <1>9. ASSUME NEW p \in Procs, CloseRep(p) \/ ClosePub(p) PROVE TypeOK' /\ Opened'
    BY <1>9 DEF CloseRep, ClosePub, TypeOK, Opened, Steps
  <1>10. ASSUME NEW p \in Procs, RemoveFile(p) PROVE TypeOK' /\ Opened'
    <2>1. file' \in {file, [file EXCEPT ![p] = NoFile]} /\ leftover' \subseteq Procs
      BY <1>10 DEF RemoveFile, TypeOK
    <2>2. EndProcess(p)
      BY <1>10 DEF RemoveFile
    <2> QED
      BY <2>1, <2>2, EndType DEF TypeOK, Opened
  <1>11. ASSUME NEW p \in Procs, Crash(p) PROVE TypeOK' /\ Opened'
    <2>1. file' = file /\ leftover' \subseteq Procs
      BY <1>11 DEF Crash, TypeOK
    <2>2. EndProcess(p)
      BY <1>11 DEF Crash
    <2> QED
      BY <2>1, <2>2, EndType DEF TypeOK, Opened
  <1>12. CASE UNCHANGED vars
    BY <1>12 DEF vars, TypeOK, Opened
  <1> QED
    BY <1>1, <1>2, <1>3, <1>4, <1>5, <1>6, <1>7, <1>8, <1>9, <1>10, <1>11, <1>12
       DEF Next, Acquire, ReleaseSession

(* Every variable keeps its range, whatever ports x64dbg.ini holds: what   *)
(* is stored, bound and written to the file are 16-bit ports.              *)
THEOREM TypeCorrect == Spec => []TypeOK
  <1>1. Init => Opened
    BY DEF Init, Opened
  <1> QED
    BY <1>1, TypeInit, TypeStep, PTL DEF Spec

-----------------------------------------------------------------------------
(* The inductive invariant.                                                *)

(* What each step of acquire_session and release_session has bound, and at *)
(* which port unless the system has chosen it.                             *)
BoundSoFar == \A p \in Procs :
  /\ repSock[p] # NoSocket <=> pc[p] \in {"bindPub", "openFile", "write", "serving", "unfiled"}
  /\ repSock[p] # NoSocket /\ repPort[p] # 0 => repSock[p] = At(p, repPort[p])
  /\ pc[p] \in {"openFile", "write", "serving", "unfiled"} => pubSock[p] # NoSocket
  /\ pubSock[p] # NoSocket /\ pubPort[p] # 0 => pubSock[p] = At(p, pubPort[p])
  /\ pc[p] \in {"off", "bindRep", "bindPub", "failed", "removeFile"} => pubSock[p] = NoSocket

(* No two bound sockets are on the same endpoint.                          *)
Exclusive == \A p, q \in Procs :
  /\ repSock[p] # NoSocket /\ pubSock[q] # NoSocket => ~Clash(repSock[p], pubSock[q])
  /\ p # q /\ repSock[p] # NoSocket /\ repSock[q] # NoSocket => ~Clash(repSock[p], repSock[q])
  /\ p # q /\ pubSock[p] # NoSocket /\ pubSock[q] # NoSocket => ~Clash(pubSock[p], pubSock[q])

(* What each step has written: before the file is opened there is none,    *)
(* except one left over.                                                   *)
WrittenSoFar == \A p \in Procs :
  /\ pc[p] \in {"write", "serving"} => p \notin leftover /\ file[p] # NoFile
                                      /\ file[p] = Written(p, file[p].lines)
  /\ pc[p] = "serving" => file[p].lines = 3
  /\ pc[p] = "write" => file[p].lines < 3
  /\ pc[p] \in {"off", "bindRep", "bindPub", "openFile", "failed", "unfiled"} =>
       p \in leftover \/ file[p] = NoFile

SessionInv == BoundSoFar /\ Exclusive /\ WrittenSoFar

LEMMA ClashSymmetric ==
  ASSUME NEW e, NEW f, Clash(e, f) PROVE Clash(f, e)
  BY DEF Clash

LEMMA SessionInit == Init => SessionInv
  <1> SUFFICES ASSUME Init PROVE SessionInv
    OBVIOUS
  <1>1. BoundSoFar
    BY DEF Init, BoundSoFar
  <1>2. Exclusive
    BY DEF Init, Exclusive
  <1>3. WrittenSoFar
    BY DEF Init, WrittenSoFar
  <1> QED
    BY <1>1, <1>2, <1>3 DEF SessionInv

(* Adding a free endpoint keeps the sockets apart.                         *)
LEMMA RepStaysExclusive ==
  ASSUME TypeOK, Exclusive, NEW p \in Procs, NEW e \in Endpoint, Free(e),
         repSock' = [repSock EXCEPT ![p] = e], UNCHANGED pubSock
  PROVE  Exclusive'
  <1>1. \A q \in Procs : repSock[q] # NoSocket => ~Clash(e, repSock[q])
    BY DEF Free, Bound
  <1>2. \A q \in Procs : pubSock[q] # NoSocket => ~Clash(e, pubSock[q])
    BY DEF Free, Bound
  <1>3. \A q \in Procs : repSock'[q] = IF q = p THEN e ELSE repSock[q]
    BY DEF TypeOK
  <1> QED
    BY <1>1, <1>2, <1>3, ClashSymmetric DEF Exclusive

LEMMA PubStaysExclusive ==
  ASSUME TypeOK, Exclusive, NEW p \in Procs, NEW e \in Endpoint, Free(e),
         pubSock' = [pubSock EXCEPT ![p] = e], UNCHANGED repSock
  PROVE  Exclusive'
  <1>1. \A q \in Procs : repSock[q] # NoSocket => ~Clash(e, repSock[q])
    BY DEF Free, Bound
  <1>2. \A q \in Procs : pubSock[q] # NoSocket => ~Clash(e, pubSock[q])
    BY DEF Free, Bound
  <1>3. \A q \in Procs : pubSock'[q] = IF q = p THEN e ELSE pubSock[q]
    BY DEF TypeOK
  <1> QED
    BY <1>1, <1>2, <1>3, ClashSymmetric DEF Exclusive

(* Closing sockets does too.                                               *)
LEMMA ClosingStaysExclusive ==
  ASSUME TypeOK, Exclusive,
         \A q \in Procs : repSock'[q] \in {repSock[q], NoSocket},
         \A q \in Procs : pubSock'[q] \in {pubSock[q], NoSocket}
  PROVE  Exclusive'
  BY DEF Exclusive

(* acquire_session: each bind adds a free endpoint at the port it stores.  *)
LEMMA AcquireStep ==
  ASSUME TypeOK, Opened, SessionInv, NEW p \in Procs, Acquire(p)
  PROVE  SessionInv'
  <1> USE DEF sockets
  <1>1. CASE BindRepRemote(p)
    <2>1. ConfiguredRep(cfg[p]) \in Port
      BY CastType DEF TypeOK
    <2>2. UNCHANGED <<starts, ini, cfg, address, pubPort, pubSock, file, leftover>>
      BY <1>1 DEF BindRepRemote
    <2>4. pc[p] = "bindRep" /\ repPort' = [repPort EXCEPT ![p] = ConfiguredRep(cfg[p])]
      BY <1>1 DEF BindRepRemote
    <2>5. CASE \E e \in BindTo(p, ConfiguredRep(cfg[p])) :
                 repSock' = [repSock EXCEPT ![p] = e] /\ pc' = [pc EXCEPT ![p] = "bindPub"]
      <3>1. PICK e \in BindTo(p, ConfiguredRep(cfg[p])) :
                 repSock' = [repSock EXCEPT ![p] = e] /\ pc' = [pc EXCEPT ![p] = "bindPub"]
        BY <2>5
      <3>2. e \in Endpoint /\ e # NoSocket /\ Free(e)
            /\ (ConfiguredRep(cfg[p]) # 0 => e = At(p, ConfiguredRep(cfg[p])))
        BY <2>1, BindType
      <3>3. Exclusive'
        BY <2>2, <3>1, <3>2, RepStaysExclusive DEF SessionInv
      <3>4. BoundSoFar'
        BY <2>2, <2>4, <3>1, <3>2 DEF SessionInv, BoundSoFar, TypeOK, At
      <3>5. WrittenSoFar'
        BY <2>2, <2>4, <3>1 DEF SessionInv, WrittenSoFar, TypeOK, Written
      <3> QED
        BY <3>3, <3>4, <3>5 DEF SessionInv
    <2>6. CASE pc' = [pc EXCEPT ![p] = "failed"] /\ UNCHANGED repSock
      <3>1. Exclusive'
        BY <2>2, <2>6, ClosingStaysExclusive DEF SessionInv
      <3>2. BoundSoFar'
        BY <2>2, <2>4, <2>6 DEF SessionInv, BoundSoFar, TypeOK, At
      <3>3. WrittenSoFar'
        BY <2>2, <2>4, <2>6 DEF SessionInv, WrittenSoFar, TypeOK, Written
      <3> QED
        BY <3>1, <3>2, <3>3 DEF SessionInv
    <2> QED
      BY <1>1, <2>5, <2>6 DEF BindRepRemote
  <1>2. CASE BindPubRemote(p)
    <2>1. ConfiguredPub(cfg[p]) \in Port
      BY CastType DEF TypeOK
    <2>2. UNCHANGED <<starts, ini, cfg, address, repPort, file, leftover>>
      BY <1>2 DEF BindPubRemote
    <2>4. pc[p] = "bindPub" /\ pubPort' = [pubPort EXCEPT ![p] = ConfiguredPub(cfg[p])]
      BY <1>2 DEF BindPubRemote
    <2>5. CASE \E e \in BindTo(p, ConfiguredPub(cfg[p])) :
                 /\ pubSock' = [pubSock EXCEPT ![p] = e] /\ UNCHANGED repSock
                 /\ pc' = [pc EXCEPT ![p] = "openFile"]
      <3>1. PICK e \in BindTo(p, ConfiguredPub(cfg[p])) :
                 /\ pubSock' = [pubSock EXCEPT ![p] = e] /\ UNCHANGED repSock
                 /\ pc' = [pc EXCEPT ![p] = "openFile"]
        BY <2>5
      <3>2. e \in Endpoint /\ e # NoSocket /\ Free(e)
            /\ (ConfiguredPub(cfg[p]) # 0 => e = At(p, ConfiguredPub(cfg[p])))
        BY <2>1, BindType
      <3>3. Exclusive'
        BY <3>1, <3>2, PubStaysExclusive DEF SessionInv
      <3>4. BoundSoFar'
        BY <2>2, <2>4, <3>1, <3>2 DEF SessionInv, BoundSoFar, TypeOK, At
      <3>5. WrittenSoFar'
        BY <2>2, <2>4, <3>1 DEF SessionInv, WrittenSoFar, TypeOK, Written
      <3> QED
        BY <3>3, <3>4, <3>5 DEF SessionInv
    <2>6. CASE /\ pc' = [pc EXCEPT ![p] = "failed"] /\ UNCHANGED pubSock
               /\ repSock' = [repSock EXCEPT ![p] = NoSocket]
      <3>1. \A q \in Procs : repSock'[q] = IF q = p THEN NoSocket ELSE repSock[q]
        BY <2>6 DEF TypeOK
      <3>2. Exclusive'
        BY <2>6, <3>1, ClosingStaysExclusive DEF SessionInv
      <3>3. BoundSoFar'
        BY <2>2, <2>4, <2>6, <3>1 DEF SessionInv, BoundSoFar, TypeOK, At
      <3>4. WrittenSoFar'
        BY <2>2, <2>4, <2>6 DEF SessionInv, WrittenSoFar, TypeOK, Written
      <3> QED
        BY <3>2, <3>3, <3>4 DEF SessionInv
    <2> QED
      BY <1>2, <2>5, <2>6 DEF BindPubRemote
  <1>3. CASE BindRepLocal(p)
    <2>1. PICK port \in LocalPorts :
            /\ repPort' = [repPort EXCEPT ![p] = port]
            /\ IF Free(At(p, port))
               THEN /\ repSock' = [repSock EXCEPT ![p] = At(p, port)]
                    /\ pc' = [pc EXCEPT ![p] = "bindPub"]
               ELSE UNCHANGED <<repSock, pc>>
      BY <1>3 DEF BindRepLocal
    <2>2. pc[p] = "bindRep" /\ UNCHANGED <<ini, cfg, address, pubPort, pubSock, file, leftover>>
      BY <1>3 DEF BindRepLocal
    <2>3. Exclusive'
      BY <2>1, <2>2, LocalType, RepStaysExclusive, ClosingStaysExclusive DEF SessionInv
    <2>4. BoundSoFar'
      BY <2>1, <2>2, LocalType DEF SessionInv, BoundSoFar, TypeOK, At
    <2>5. WrittenSoFar'
      BY <2>1, <2>2 DEF SessionInv, WrittenSoFar, TypeOK, Written
    <2> QED
      BY <2>2, <2>3, <2>4, <2>5 DEF SessionInv
  <1>4. CASE BindPubLocal(p)
    <2>1. PICK port \in LocalPorts :
            /\ pubPort' = [pubPort EXCEPT ![p] = port]
            /\ IF Free(At(p, port))
               THEN /\ pubSock' = [pubSock EXCEPT ![p] = At(p, port)]
                    /\ pc' = [pc EXCEPT ![p] = "openFile"]
               ELSE UNCHANGED <<pubSock, pc>>
      BY <1>4 DEF BindPubLocal
    <2>2. pc[p] = "bindPub" /\ UNCHANGED <<ini, cfg, address, repPort, repSock, file, leftover>>
      BY <1>4 DEF BindPubLocal
    <2>3. Exclusive'
      BY <2>1, <2>2, LocalType, PubStaysExclusive, ClosingStaysExclusive DEF SessionInv
    <2>4. BoundSoFar'
      BY <2>1, <2>2, LocalType DEF SessionInv, BoundSoFar, TypeOK, At
    <2>5. WrittenSoFar'
      BY <2>1, <2>2 DEF SessionInv, WrittenSoFar, TypeOK, Written
    <2> QED
      BY <2>2, <2>3, <2>4, <2>5 DEF SessionInv
  <1>5. CASE OpenFile(p) \/ WriteLine(p)
    <2>1. UNCHANGED <<ini, cfg, address, repPort, pubPort, repSock, pubSock>>
      BY <1>5 DEF OpenFile, WriteLine
    <2>2. Exclusive'
      BY <2>1, ClosingStaysExclusive DEF SessionInv
    <2>3. BoundSoFar'
      BY <1>5, <2>1 DEF OpenFile, WriteLine, SessionInv, BoundSoFar, TypeOK, At
    <2>4. CASE OpenFile(p)
      <3>1. /\ Written(p, 0) \in SessionFile /\ Written(p, 0).lines = 0
            /\ Written(p, 0) # NoFile
        BY SessionAssumption DEF Written, SessionFile, TypeOK
      <3>2. WrittenSoFar'
        BY <2>1, <2>4, <3>1 DEF OpenFile, SessionInv, WrittenSoFar, TypeOK, Written
      <3> QED
        BY <2>1, <2>2, <2>3, <3>2 DEF SessionInv
    <2>5. CASE WriteLine(p)
      <3> DEFINE n == file[p].lines + 1
      <3>1. n \in 1 .. 3
        BY <2>5 DEF WriteLine, Opened, TypeOK, SessionFile
      <3>2. Written(p, n) # NoFile /\ Written(p, n).lines = n
        BY <3>1, SessionAssumption DEF Written, SessionFile, TypeOK
      <3>3. /\ pc[p] = "write"
            /\ file' = [file EXCEPT ![p] = Written(p, n)]
            /\ pc' = IF n = 3 THEN [pc EXCEPT ![p] = "serving"] ELSE pc
            /\ UNCHANGED leftover
        BY <2>5 DEF WriteLine
      <3> HIDE DEF n
      <3>4. WrittenSoFar'
        BY <2>1, <3>1, <3>2, <3>3 DEF SessionInv, WrittenSoFar, TypeOK, Written
      <3> QED
        BY <2>1, <2>2, <2>3, <3>4 DEF SessionInv
    <2> QED
      BY <1>5, <2>4, <2>5
  <1> QED
    BY <1>1, <1>2, <1>3, <1>4, <1>5 DEF Acquire

(* release_session and the end of a process, by itself or in a crash.      *)
LEMMA ReleaseStep ==
  ASSUME TypeOK, SessionInv, NEW p \in Procs, ReleaseSession(p) \/ Crash(p)
  PROVE  SessionInv'
  <1> USE DEF sockets
  <1>1. CASE CloseRep(p) \/ ClosePub(p)
    <2>1. UNCHANGED <<ini, cfg, address, repPort, pubPort, file, leftover>>
      BY <1>1 DEF CloseRep, ClosePub
    <2>2. /\ \A q \in Procs : repSock'[q] \in {repSock[q], NoSocket}
          /\ \A q \in Procs : pubSock'[q] \in {pubSock[q], NoSocket}
      BY <1>1 DEF CloseRep, ClosePub, TypeOK
    <2>3. Exclusive'
      BY <2>2, ClosingStaysExclusive DEF SessionInv
    <2>4. BoundSoFar'
      BY <1>1, <2>1 DEF CloseRep, ClosePub, SessionInv, BoundSoFar, TypeOK, At
    <2>5. WrittenSoFar'
      BY <1>1, <2>1 DEF CloseRep, ClosePub, SessionInv, WrittenSoFar, TypeOK, Written
    <2> QED
      BY <2>1, <2>3, <2>4, <2>5 DEF SessionInv
  <1>2. CASE RemoveFile(p) \/ Crash(p)
    <2>1. EndProcess(p)
      BY <1>2 DEF RemoveFile, Crash
    <2>2. /\ \A q \in Procs \ {p} :
               /\ pc'[q] = pc[q] /\ cfg'[q] = cfg[q] /\ address'[q] = address[q]
               /\ repPort'[q] = repPort[q] /\ pubPort'[q] = pubPort[q]
               /\ repSock'[q] = repSock[q] /\ pubSock'[q] = pubSock[q]
          /\ pc'[p] = "off" /\ cfg'[p] = NoSettings
          /\ repSock'[p] = NoSocket /\ pubSock'[p] = NoSocket
      BY <2>1 DEF EndProcess, TypeOK
    <2>3. Exclusive'
      BY <2>2, ClosingStaysExclusive DEF SessionInv
    <2>4. BoundSoFar'
      BY <2>2 DEF SessionInv, BoundSoFar, At
    <2>5. /\ \A q \in Procs \ {p} : file'[q] = file[q] /\ (q \in leftover' <=> q \in leftover)
          /\ p \in leftover' \/ file'[p] = NoFile
      BY <1>2 DEF RemoveFile, Crash, TypeOK
    <2>6. WrittenSoFar'
      BY <2>2, <2>5 DEF SessionInv, WrittenSoFar, Written
    <2> QED
      BY <2>3, <2>4, <2>6 DEF SessionInv
  <1> QED
    BY <1>1, <1>2 DEF ReleaseSession

LEMMA SessionStep == TypeOK /\ Opened /\ SessionInv /\ [Next]_vars => SessionInv'
  <1> SUFFICES ASSUME TypeOK, Opened, SessionInv, [Next]_vars PROVE SessionInv'
    OBVIOUS
  <1> USE DEF sockets
  <1>1. ASSUME NEW p \in Procs, SaveSettings(p) PROVE SessionInv'
    <2>1. UNCHANGED <<pc, cfg, address, repPort, pubPort, repSock, pubSock, file, leftover>>
      BY <1>1 DEF SaveSettings
    <2> QED
      BY <2>1 DEF SessionInv, BoundSoFar, Exclusive, WrittenSoFar, At, Written
  <1>2. ASSUME NEW p \in Procs, Start(p) PROVE SessionInv'
    <2>1. /\ pc[p] = "off" /\ pc' = [pc EXCEPT ![p] = "bindRep"]
          /\ cfg' = [cfg EXCEPT ![p] = ini]
          /\ UNCHANGED <<ini, repPort, pubPort, repSock, pubSock, file, leftover>>
      BY <1>2 DEF Start
    <2>2. \A q \in Procs : q # p => address'[q] = address[q]
      BY <1>2 DEF Start, TypeOK
    <2>3. BoundSoFar'
      BY <2>1, <2>2 DEF SessionInv, BoundSoFar, TypeOK, At
    <2>4. Exclusive'
      BY <2>1, ClosingStaysExclusive DEF SessionInv
    <2>5. WrittenSoFar'
      BY <2>1, <2>2 DEF SessionInv, WrittenSoFar, TypeOK, Written
    <2> QED
      BY <2>3, <2>4, <2>5 DEF SessionInv
  <1>3. ASSUME NEW p \in Procs, Acquire(p) PROVE SessionInv'
    BY <1>3, AcquireStep
  <1>4. ASSUME NEW p \in Procs, ReleaseSession(p) \/ Crash(p) PROVE SessionInv'
    BY <1>4, ReleaseStep
  <1>5. CASE UNCHANGED vars
    BY <1>5 DEF vars, SessionInv, BoundSoFar, Exclusive, WrittenSoFar, At, Written
  <1> QED
    BY <1>1, <1>2, <1>3, <1>4, <1>5 DEF Next

LEMMA SessionInvariant == Spec => [](TypeOK /\ Opened /\ SessionInv)
  <1>1. Init => Opened
    BY DEF Init, Opened
  <1> QED
    BY <1>1, SessionInit, SessionStep, TypeInit, TypeStep, PTL DEF Spec

-----------------------------------------------------------------------------
(* Without NoWrap.                                                         *)

(* All or nothing of a session's sockets, in every state between.          *)
THEOREM SocketsAllOrNothing == Spec => []AllOrNothing
  <1>1. TypeOK /\ SessionInv => AllOrNothing
    <2> SUFFICES ASSUME TypeOK, SessionInv PROVE AllOrNothing
      OBVIOUS
    <2>1. ASSUME NEW p \in Procs, repSock[p] # NoSocket, pubSock[p] # NoSocket
          PROVE  repSock[p] # pubSock[p]
      BY <2>1 DEF SessionInv, Exclusive, Clash
    <2> QED
      BY <2>1 DEF SessionInv, BoundSoFar, AllOrNothing
  <1> QED
    BY <1>1, SessionInvariant, PTL

(* Stopping leaves no session file behind.                                 *)
THEOREM StopLeavesNothing == Spec => []NothingLeft
  <1>1. SessionInv => NothingLeft
    BY DEF SessionInv, WrittenSoFar, NothingLeft
  <1> QED
    BY <1>1, SessionInvariant, PTL

-----------------------------------------------------------------------------
(* With NoWrap.                                                            *)

(* Ports that no cast has made 0: those x64dbg.ini holds, those processes  *)
(* run with and those they have bound, which the dialog and the random     *)
(* draw keep.                                                              *)
PortsKnown ==
  /\ ini.mode = "remote" => Narrow(ini)
  /\ \A p \in Procs : /\ cfg[p].mode = "remote" => Narrow(cfg[p])
                      /\ repSock[p] # NoSocket => repPort[p] # 0
                      /\ pubSock[p] # NoSocket => pubPort[p] # 0

LEMMA PortsKnownInit == NoWrap /\ Init => PortsKnown
  <1> SUFFICES ASSUME NoWrap, Init PROVE PortsKnown
    OBVIOUS
  <1>1. Narrow(ini)
    BY DEF Init, NoWrap
  <1>2. \A p \in Procs : cfg[p].mode = "local" /\ repSock[p] = NoSocket /\ pubSock[p] = NoSocket
    BY DEF Init, NoSettings
  <1> QED
    BY <1>1, <1>2 DEF PortsKnown

LEMMA PortsKnownStep == TypeOK /\ PortsKnown /\ [Next]_vars => PortsKnown'
  <1> SUFFICES ASSUME TypeOK, PortsKnown, [Next]_vars PROVE PortsKnown'
    OBVIOUS
  <1> USE DEF sockets
  <1>1. ASSUME NEW p \in Procs, SaveSettings(p) PROVE PortsKnown'
    <2>1. ini'.mode = "remote" => Narrow(ini')
      BY <1>1, SavedSetting, AcceptedIsNarrow
    <2> QED
      BY <1>1, <2>1 DEF SaveSettings, PortsKnown
  <1>2. ASSUME NEW p \in Procs, Start(p) PROVE PortsKnown'
    BY <1>2 DEF Start, PortsKnown, TypeOK
  <1>3. ASSUME NEW p \in Procs, BindRepRemote(p) \/ BindPubRemote(p) PROVE PortsKnown'
    <2>1. ConfiguredRep(cfg[p]) # 0 /\ ConfiguredPub(cfg[p]) # 0
      BY <1>3 DEF BindRepRemote, BindPubRemote, PortsKnown, Narrow
    <2>2. UNCHANGED <<ini, cfg>>
      BY <1>3 DEF BindRepRemote, BindPubRemote
    <2>3. \A q \in Procs : /\ repSock'[q] # NoSocket => repPort'[q] # 0
                           /\ pubSock'[q] # NoSocket => pubPort'[q] # 0
      BY <1>3, <2>1 DEF BindRepRemote, BindPubRemote, PortsKnown, TypeOK
    <2> QED
      BY <2>2, <2>3 DEF PortsKnown
  <1>4. ASSUME NEW p \in Procs, BindRepLocal(p) \/ BindPubLocal(p) PROVE PortsKnown'
    <2>1. 0 \notin LocalPorts
      BY SessionAssumption
    <2>2. UNCHANGED <<ini, cfg>>
      BY <1>4 DEF BindRepLocal, BindPubLocal
    <2>3. \A q \in Procs : /\ repSock'[q] # NoSocket => repPort'[q] # 0
                           /\ pubSock'[q] # NoSocket => pubPort'[q] # 0
      <3>1. CASE BindRepLocal(p)
        BY <2>1, <3>1 DEF BindRepLocal, PortsKnown, TypeOK
      <3>2. CASE BindPubLocal(p)
        BY <2>1, <3>2 DEF BindPubLocal, PortsKnown, TypeOK
      <3> QED
        BY <1>4, <3>1, <3>2
    <2> QED
      BY <2>2, <2>3 DEF PortsKnown
  <1>5. ASSUME NEW p \in Procs, OpenFile(p) \/ WriteLine(p) \/ CloseRep(p) \/ ClosePub(p)
        PROVE  PortsKnown'
    BY <1>5 DEF OpenFile, WriteLine, CloseRep, ClosePub, PortsKnown, TypeOK
  <1>6. ASSUME NEW p \in Procs, RemoveFile(p) \/ Crash(p) PROVE PortsKnown'
    <2>1. EndProcess(p)
      BY <1>6 DEF RemoveFile, Crash
    <2>2. /\ ini' = ini /\ cfg'[p].mode = "local"
          /\ repSock'[p] = NoSocket /\ pubSock'[p] = NoSocket
      BY <2>1 DEF EndProcess, TypeOK, NoSettings
    <2>3. \A q \in Procs \ {p} :
            /\ cfg'[q] = cfg[q] /\ repPort'[q] = repPort[q] /\ pubPort'[q] = pubPort[q]
            /\ repSock'[q] = repSock[q] /\ pubSock'[q] = pubSock[q]
      BY <2>1 DEF EndProcess, TypeOK
    <2> QED
      BY <2>2, <2>3 DEF PortsKnown
  <1>7. CASE UNCHANGED vars
    BY <1>7 DEF vars, PortsKnown
  <1> QED
    BY <1>1, <1>2, <1>3, <1>4, <1>5, <1>6, <1>7 DEF Next, Acquire, ReleaseSession

LEMMA PortsKnownInvariant ==
  ASSUME NoWrap
  PROVE  Spec => []PortsKnown
  <1>1. Init => PortsKnown
    BY PortsKnownInit
  <1> QED
    BY <1>1, PortsKnownStep, TypeCorrect, PTL DEF Spec

(* A complete session file names the sockets its process has bound.        *)
THEOREM FilesAreTrue ==
  ASSUME NoWrap
  PROVE  Spec => []FileIsTrue
  <1>1. TypeOK /\ SessionInv /\ PortsKnown => FileIsTrue
    BY DEF SessionInv, PortsKnown, TypeOK, Steps, BoundSoFar, WrittenSoFar, FileIsTrue, Complete,
           Written, At
  <1> QED
    BY <1>1, SessionInvariant, PortsKnownInvariant, PTL

(* No two serving processes advertise the same endpoint.                   *)
THEOREM SessionsApart ==
  ASSUME NoWrap
  PROVE  Spec => []ServeApart
  <1>1. TypeOK /\ SessionInv /\ PortsKnown => ServeApart
    <2> SUFFICES ASSUME TypeOK, SessionInv, PortsKnown, NEW p \in Procs, NEW q \in Procs, p # q,
                        pc[p] = "serving", pc[q] = "serving"
                 PROVE  \A i \in {file[p].rep, file[p].pub}, j \in {file[q].rep, file[q].pub} :
                          ~Clash([addr |-> file[p].addr, port |-> i],
                                 [addr |-> file[q].addr, port |-> j])
      BY DEF ServeApart
    <2>1. ASSUME NEW r \in {p, q}
          PROVE  /\ repSock[r] = [addr |-> file[r].addr, port |-> file[r].rep]
                 /\ pubSock[r] = [addr |-> file[r].addr, port |-> file[r].pub]
                 /\ repSock[r] # NoSocket /\ pubSock[r] # NoSocket
      <3>1. /\ repSock[r] = At(r, repPort[r]) /\ pubSock[r] = At(r, pubPort[r])
            /\ file[r] = Written(r, file[r].lines)
        BY DEF SessionInv, PortsKnown, BoundSoFar, WrittenSoFar
      <3>2. repSock[r] # NoSocket /\ pubSock[r] # NoSocket
        BY DEF SessionInv, BoundSoFar
      <3> QED
        BY <3>1, <3>2 DEF At, Written
    <2>2. ~Clash(repSock[p], repSock[q]) /\ ~Clash(pubSock[p], pubSock[q])
          /\ ~Clash(repSock[p], pubSock[q]) /\ ~Clash(pubSock[p], repSock[q])
      BY <2>1, ClashSymmetric DEF SessionInv, Exclusive
    <2> QED
      BY <2>1, <2>2
  <1> QED
    BY <1>1, SessionInvariant, PortsKnownInvariant, PTL

-----------------------------------------------------------------------------
(* The settings dialog and acquire_session agree, whatever the file holds. *)

(* What the dialog shows, if it would accept it, is what a start binds.    *)
THEOREM DialogIsTrue == Spec => []DialogShowsNext
  <1>1. TypeOK => DialogShowsNext
    <2> SUFFICES ASSUME TypeOK, DialogAccepts(Shown(ini)) PROVE DialogShowsNext
      BY DEF DialogShowsNext
    <2> DEFINE s == Shown(ini)
    <2>1. ini \in Setting /\ s \in Setting /\ s.mode = ini.mode
      BY ShownType DEF TypeOK, Shown
    <2>2. CASE ini.mode = "remote"
      <3>1. ConfiguredRep(s) = s.rep /\ ConfiguredPub(s) = s.pub
        BY <2>1, <2>2, AcceptedIsNarrow
      <3>2. s.rep = Or(ini.rep, DefaultRep) /\ s.pub = Or(ini.pub, DefaultPub)
        BY DEF Shown
      <3>3. Or(s.rep, DefaultRep) = s.rep /\ Or(s.pub, DefaultPub) = s.pub
        BY <3>2 DEF Or
      <3>4. ConfiguredRep(ini) = s.rep /\ ConfiguredPub(ini) = s.pub
        BY <3>1, <3>2, <3>3 DEF ConfiguredRep, ConfiguredPub
      <3>5. ConfiguredAddress(ini) = s.addr /\ ConfiguredAddress(s) = s.addr
        BY <2>1, <2>2 DEF ConfiguredAddress, Shown
      <3>6. Stored(s) = s
        BY <2>1, <2>2 DEF Stored
      <3> QED
        BY <2>1, <2>2, <3>1, <3>4, <3>5, <3>6 DEF DialogShowsNext, Binding
    <2>3. CASE ini.mode = "local"
      <3>1. Stored(s) = ini
        BY <2>1, <2>3 DEF Stored, Setting
      <3> QED
        BY <2>3, <3>1 DEF DialogShowsNext
    <2> QED
      BY <2>1, <2>2, <2>3 DEF Setting
  <1> QED
    BY <1>1, TypeCorrect, PTL

(* What the dialog has stored reaches the next start unchanged.            *)
THEOREM AcceptedReachesStart == Spec => AcceptedIsUsed
  <1> DEFINE Used == ini' # ini /\ ini'.mode = "remote" =>
                       /\ Binding(ini') = <<ini'.addr, ini'.rep, ini'.pub>>
                       /\ ini'.rep # ini'.pub
  <1>1. TypeOK /\ [Next]_vars => [Used]_vars
    <2> SUFFICES ASSUME TypeOK, Next, ini' # ini, ini'.mode = "remote"
                 PROVE  /\ Binding(ini') = <<ini'.addr, ini'.rep, ini'.pub>>
                        /\ ini'.rep # ini'.pub
      OBVIOUS
    <2>1. PICK p \in Procs : SaveSettings(p)
      BY DEF Next, Start, Acquire, BindRepRemote, BindPubRemote, BindRepLocal, BindPubLocal,
             OpenFile, WriteLine, ReleaseSession, CloseRep, ClosePub, RemoveFile, Crash,
             EndProcess
    <2>2. ini' \in Setting /\ DialogAccepts(ini')
      BY <2>1, SavedSetting
    <2>3. ConfiguredRep(ini') = ini'.rep /\ ConfiguredPub(ini') = ini'.pub
      BY <2>2, AcceptedIsNarrow
    <2>4. ConfiguredAddress(ini') = ini'.addr /\ ini'.rep # ini'.pub
      BY <2>2 DEF DialogAccepts, ConfiguredAddress
    <2> QED
      BY <2>3, <2>4 DEF Binding
  <1> QED
    BY <1>1, TypeCorrect, PTL DEF Spec, AcceptedIsUsed

-----------------------------------------------------------------------------
(* Refinement: the sessions implement the board. The step of one process   *)
(* leaves what the others hold and have posted, so it is enough to say     *)
(* what it does to its own.                                                *)

HeldBy(p)   == {repSock[p], pubSock[p]} \ {NoSocket}
NoticeOf(p) == IF Complete(p) THEN {<<[addr |-> file[p].addr, port |-> file[p].rep],
                                      [addr |-> file[p].addr, port |-> file[p].pub]>>}
               ELSE {}
IsStale(p)  == Complete(p) /\ (p \in leftover \/ pc[p] \in {"closePub", "removeFile"})

LEMMA BoardRead ==
  /\ Held = [p \in Procs |-> HeldBy(p)]
  /\ Notice = [p \in Procs |-> NoticeOf(p)]
  /\ Stale = {p \in Procs : IsStale(p)}
  /\ \A p \in Procs : NoticeOf(p) = {} <=> ~Complete(p)
  BY DEF Held, Notice, Stale, HeldBy, NoticeOf, IsStale

LEMMA BoardReadNext ==
  /\ Held' = [p \in Procs |-> HeldBy(p)']
  /\ Notice' = [p \in Procs |-> NoticeOf(p)']
  /\ Stale' = {p \in Procs : IsStale(p)'}
  BY DEF Held, Notice, Stale, HeldBy, NoticeOf, IsStale

KeepsSockets(p) == repSock'[p] = repSock[p] /\ pubSock'[p] = pubSock[p]
KeepsFile(p) == /\ file'[p] = file[p]
                /\ IsStale(p)' <=> IsStale(p)

(* What a step of p leaves to the others. *)
OthersKeep(p) == \A q \in Procs \ {p} : KeepsSockets(q) /\ KeepsFile(q)

LEMMA Kept ==
  ASSUME NEW p
  PROVE  /\ KeepsSockets(p) => HeldBy(p)' = HeldBy(p)
         /\ KeepsFile(p) => NoticeOf(p)' = NoticeOf(p) /\ (Complete(p)' <=> Complete(p))
  BY DEF KeepsSockets, KeepsFile, HeldBy, NoticeOf, Complete

LEMMA BoardStutters ==
  ASSUME NEW p \in Procs, OthersKeep(p), HeldBy(p)' = HeldBy(p),
         NoticeOf(p)' = NoticeOf(p), IsStale(p)' <=> IsStale(p)
  PROVE  UNCHANGED BOARD!vars
  <1>1. \A q \in Procs : /\ HeldBy(q)' = HeldBy(q) /\ NoticeOf(q)' = NoticeOf(q)
                         /\ IsStale(q)' <=> IsStale(q)
    BY Kept DEF OthersKeep, KeepsFile
  <1>2. UNCHANGED Held /\ UNCHANGED Notice /\ UNCHANGED Stale
    BY <1>1, BoardRead, BoardReadNext
  <1> QED
    BY <1>2 DEF BOARD!vars

LEMMA BoardTakes ==
  ASSUME NEW p \in Procs, OthersKeep(p), KeepsFile(p),
         Complete(p) => IsStale(p),
         NEW e \in Endpoint, Free(e), HeldBy(p)' = HeldBy(p) \union {e}
  PROVE  BOARD!Next
  <1>1. /\ \A q \in Procs : NoticeOf(q)' = NoticeOf(q) /\ (IsStale(q)' <=> IsStale(q))
        /\ \A q \in Procs \ {p} : HeldBy(q)' = HeldBy(q)
    BY Kept DEF OthersKeep, KeepsFile
  <1>2. UNCHANGED Notice /\ UNCHANGED Stale /\ Held' = [Held EXCEPT ![p] = @ \union {e}]
    BY <1>1, BoardRead, BoardReadNext
  <1>3. e \in Held'[p]
    BY <1>2, BoardRead
  <1>4. ~BOARD!Live(p)
    BY BoardRead DEF BOARD!Live
  <1>5. \A q \in Procs : \A f \in Held[q] : ~Clash(e, f)
    BY BoardRead DEF Free, Bound, HeldBy
  <1>6. BOARD!Take(p)
    BY <1>2, <1>3, <1>4, <1>5 DEF BOARD!Take
  <1> QED
    BY <1>6 DEF BOARD!Next

LEMMA BoardPosts ==
  ASSUME NEW p \in Procs, OthersKeep(p), KeepsSockets(p), ~Complete(p),
         ~IsStale(p), ~IsStale(p)', repSock[p] # pubSock[p],
         repSock[p] # NoSocket, pubSock[p] # NoSocket,
         NoticeOf(p)' = {<<repSock[p], pubSock[p]>>}
  PROVE  BOARD!Next
  <1>1. /\ \A q \in Procs : HeldBy(q)' = HeldBy(q) /\ (IsStale(q)' <=> IsStale(q))
        /\ \A q \in Procs \ {p} : NoticeOf(q)' = NoticeOf(q)
    BY Kept DEF OthersKeep, KeepsFile
  <1>2. UNCHANGED Held /\ UNCHANGED Stale
        /\ Notice' = [Notice EXCEPT ![p] = {<<repSock[p], pubSock[p]>>}]
    BY <1>1, BoardRead, BoardReadNext
  <1>3. repSock[p] \in Held[p] /\ pubSock[p] \in Held[p] /\ Notice[p] = {}
    BY BoardRead DEF HeldBy
  <1>4. BOARD!Post(p)
    BY <1>2, <1>3 DEF BOARD!Post
  <1> QED
    BY <1>4 DEF BOARD!Next

(* Giving sockets up, by itself or in the end of a process.                *)
LEMMA BoardLeaves ==
  ASSUME NEW p \in Procs, OthersKeep(p), file'[p] = file[p],
         HeldBy(p)' \subseteq HeldBy(p),
         IsStale(p)' <=> Complete(p),
         HeldBy(p)' = HeldBy(p) => (IsStale(p) <=> Complete(p))
  PROVE  BOARD!Next \/ UNCHANGED BOARD!vars
  <1>1. NoticeOf(p)' = NoticeOf(p)
    BY DEF NoticeOf, Complete
  <1>2. CASE HeldBy(p)' = HeldBy(p)
    BY <1>1, <1>2, BoardStutters
  <1>3. CASE HeldBy(p)' # HeldBy(p)
    <2>1. /\ \A q \in Procs : NoticeOf(q)' = NoticeOf(q)
          /\ \A q \in Procs \ {p} : HeldBy(q)' = HeldBy(q) /\ (IsStale(q)' <=> IsStale(q))
      BY <1>1, Kept DEF OthersKeep, KeepsFile
    <2>2. UNCHANGED Notice /\ Held' = [Held EXCEPT ![p] = HeldBy(p)']
      BY <2>1, BoardRead, BoardReadNext
    <2>3. HeldBy(p)' \in SUBSET Held[p] /\ HeldBy(p)' # Held[p]
      BY <1>3, BoardRead
    <2>4. IsStale(p) => Complete(p)
      BY DEF IsStale
    <2>5. Stale' = Stale \union {q \in {p} : Notice[p] # {}}
      BY <2>1, <2>4, BoardRead, BoardReadNext
    <2>6. BOARD!Leave(p)
      BY <2>2, <2>3, <2>5 DEF BOARD!Leave
    <2> QED
      BY <2>6 DEF BOARD!Next
  <1> QED
    BY <1>2, <1>3

(* A file that nobody keeps is truncated or removed.                       *)
LEMMA BoardTakesDown ==
  ASSUME NEW p \in Procs, OthersKeep(p), HeldBy(p)' = HeldBy(p),
         Complete(p) => IsStale(p), ~Complete(p)'
  PROVE  BOARD!Next \/ UNCHANGED BOARD!vars
  <1>1. NoticeOf(p)' = {} /\ ~IsStale(p)'
    BY DEF NoticeOf, IsStale
  <1>2. CASE ~Complete(p)
    <2>1. NoticeOf(p) = {} /\ ~IsStale(p)
      BY <1>2 DEF NoticeOf, IsStale
    <2> QED
      BY <1>1, <2>1, BoardStutters
  <1>3. CASE Complete(p)
    <2>1. /\ \A q \in Procs : HeldBy(q)' = HeldBy(q)
          /\ \A q \in Procs \ {p} : /\ NoticeOf(q)' = NoticeOf(q)
                                    /\ IsStale(q)' <=> IsStale(q)
      BY Kept DEF OthersKeep, KeepsFile
    <2>2. UNCHANGED Held /\ Notice' = [Notice EXCEPT ![p] = {}] /\ Stale' = Stale \ {p}
      BY <1>1, <2>1, BoardRead, BoardReadNext
    <2>3. p \in Stale
      BY <1>3, BoardRead
    <2>4. BOARD!TakeDown(p)
      BY <2>2, <2>3 DEF BOARD!TakeDown
    <2> QED
      BY <2>4 DEF BOARD!Next
  <1> QED
    BY <1>2, <1>3

(* A complete file is stale unless its process serves, as far as its       *)
(* process has come.                                                       *)
LEMMA StaleUnlessServing ==
  ASSUME TypeOK, SessionInv, NEW p \in Procs
  PROVE  /\ Complete(p) /\ pc[p] # "serving" => IsStale(p)
         /\ pc[p] = "write" => ~Complete(p)
  BY DEF SessionInv, WrittenSoFar, TypeOK, Steps, Complete, IsStale

(* A process that removes its file has given up its sockets.               *)
LEMMA HeldAtRemoval ==
  ASSUME SessionInv, NEW p \in Procs
  PROVE  pc[p] = "removeFile" => HeldBy(p) = {}
  BY DEF SessionInv, BoundSoFar, HeldBy

LEMMA BoardStutterSteps ==
  ASSUME TypeOK, NEW p \in Procs, SaveSettings(p) \/ Start(p)
  PROVE  UNCHANGED BOARD!vars
  <1> USE DEF sockets
  <1>1. /\ UNCHANGED <<repSock, pubSock, file, leftover>>
        /\ pc' = pc \/ (pc[p] = "off" /\ pc' = [pc EXCEPT ![p] = "bindRep"])
    BY DEF SaveSettings, Start
  <1>2. OthersKeep(p) /\ KeepsSockets(p) /\ KeepsFile(p)
    BY <1>1 DEF OthersKeep, KeepsSockets, KeepsFile, IsStale, Complete, TypeOK
  <1> QED
    BY <1>2, Kept, BoardStutters DEF KeepsFile

(* A bind takes a free endpoint, or, if it fails, leaves what was held.    *)
LEMMA BoardBindRep ==
  ASSUME TypeOK, SessionInv, NEW p \in Procs, BindRepRemote(p) \/ BindRepLocal(p)
  PROVE  BOARD!Next \/ UNCHANGED BOARD!vars
  <1>1. pc[p] = "bindRep" /\ UNCHANGED <<pubSock, file, leftover>>
    BY DEF BindRepRemote, BindRepLocal
  <1>2. \/ \E e \in Endpoint : /\ e # NoSocket /\ Free(e)
                               /\ repSock' = [repSock EXCEPT ![p] = e]
                               /\ pc' = [pc EXCEPT ![p] = "bindPub"]
        \/ /\ UNCHANGED repSock
           /\ pc' = pc \/ pc' = [pc EXCEPT ![p] = "failed"]
    <2>1. CASE BindRepRemote(p)
      <3>1. ConfiguredRep(cfg[p]) \in Port
        BY CastType DEF TypeOK
      <3> QED
        BY <2>1, <3>1, BindType DEF BindRepRemote
    <2>2. CASE BindRepLocal(p)
      BY <2>2, LocalType DEF BindRepLocal
    <2> QED
      BY <2>1, <2>2
  <1>3. OthersKeep(p) /\ KeepsFile(p)
    BY <1>1, <1>2 DEF OthersKeep, KeepsSockets, KeepsFile, IsStale, Complete, TypeOK
  <1>4. Complete(p) => IsStale(p)
    BY <1>1, StaleUnlessServing
  <1>5. CASE UNCHANGED repSock
    <2>1. HeldBy(p)' = HeldBy(p)
      BY <1>1, <1>5 DEF HeldBy
    <2> QED
      BY <1>3, <2>1, Kept, BoardStutters DEF KeepsFile
  <1>6. ASSUME NEW e \in Endpoint, e # NoSocket, Free(e), repSock' = [repSock EXCEPT ![p] = e]
        PROVE  BOARD!Next
    <2>1. repSock[p] = NoSocket
      BY <1>1 DEF SessionInv, BoundSoFar
    <2>2. HeldBy(p)' = HeldBy(p) \union {e}
      BY <1>1, <1>6, <2>1 DEF HeldBy, TypeOK
    <2> QED
      BY <1>3, <1>4, <1>6, <2>2, BoardTakes
  <1> QED
    BY <1>2, <1>5, <1>6

LEMMA BoardBindPub ==
  ASSUME TypeOK, SessionInv, NEW p \in Procs, BindPubRemote(p) \/ BindPubLocal(p)
  PROVE  BOARD!Next \/ UNCHANGED BOARD!vars
  <1>1. pc[p] = "bindPub" /\ UNCHANGED <<file, leftover>>
    BY DEF BindPubRemote, BindPubLocal
  <1>2. \/ \E e \in Endpoint : /\ e # NoSocket /\ Free(e)
                               /\ pubSock' = [pubSock EXCEPT ![p] = e]
                               /\ pc' = [pc EXCEPT ![p] = "openFile"]
                               /\ UNCHANGED repSock
        \/ UNCHANGED <<repSock, pubSock, pc>>
        \/ /\ pc' = [pc EXCEPT ![p] = "failed"]
           /\ repSock' = [repSock EXCEPT ![p] = NoSocket]
           /\ UNCHANGED pubSock
    <2>1. CASE BindPubRemote(p)
      <3>1. ConfiguredPub(cfg[p]) \in Port
        BY CastType DEF TypeOK
      <3> QED
        BY <2>1, <3>1, BindType DEF BindPubRemote
    <2>2. CASE BindPubLocal(p)
      BY <2>2, LocalType DEF BindPubLocal
    <2> QED
      BY <2>1, <2>2
  <1>3. OthersKeep(p) /\ KeepsFile(p)
    BY <1>1, <1>2 DEF OthersKeep, KeepsSockets, KeepsFile, IsStale, Complete, TypeOK
  <1>4. Complete(p) => IsStale(p)
    BY <1>1, StaleUnlessServing
  <1>5. CASE UNCHANGED <<repSock, pubSock, pc>>
    <2>1. KeepsSockets(p)
      BY <1>5 DEF KeepsSockets
    <2> QED
      BY <1>3, <2>1, Kept, BoardStutters DEF KeepsFile
  <1>6. ASSUME NEW e \in Endpoint, e # NoSocket, Free(e), pubSock' = [pubSock EXCEPT ![p] = e],
               UNCHANGED repSock
        PROVE  BOARD!Next
    <2>1. pubSock[p] = NoSocket
      BY <1>1 DEF SessionInv, BoundSoFar
    <2>2. HeldBy(p)' = HeldBy(p) \union {e}
      BY <1>6, <2>1 DEF HeldBy, TypeOK
    <2> QED
      BY <1>3, <1>4, <1>6, <2>2, BoardTakes
  <1>7. CASE repSock' = [repSock EXCEPT ![p] = NoSocket] /\ UNCHANGED pubSock
    <2>1. HeldBy(p)' \subseteq HeldBy(p)
      BY <1>7 DEF HeldBy, TypeOK
    <2>2. file'[p] = file[p] /\ (IsStale(p)' <=> Complete(p)) /\ (IsStale(p) <=> Complete(p))
      BY <1>3, <1>4 DEF KeepsFile, IsStale
    <2> QED
      BY <1>3, <2>1, <2>2, BoardLeaves
  <1> QED
    BY <1>2, <1>5, <1>6, <1>7

(* The session file: truncated, then posted with its third line.           *)
LEMMA BoardWrites ==
  ASSUME TypeOK, Opened, SessionInv, PortsKnown, NEW p \in Procs, OpenFile(p) \/ WriteLine(p)
  PROVE  BOARD!Next \/ UNCHANGED BOARD!vars
  <1> USE DEF sockets
  <1>1. UNCHANGED <<address, repPort, pubPort, repSock, pubSock>>
    BY DEF OpenFile, WriteLine
  <1>2. HeldBy(p)' = HeldBy(p) /\ KeepsSockets(p)
    BY <1>1 DEF HeldBy, KeepsSockets
  <1>3. OthersKeep(p)
    BY <1>1 DEF OpenFile, WriteLine, OthersKeep, KeepsSockets, KeepsFile, IsStale, Complete,
                TypeOK
  <1>4. CASE OpenFile(p)
    <2>1. pc[p] = "openFile"
      BY <1>4 DEF OpenFile
    <2>2. Complete(p) => IsStale(p)
      BY <2>1, StaleUnlessServing
    <2>3. CASE file' = [file EXCEPT ![p] = Written(p, 0)]
      <3>1. ~Complete(p)'
        BY <2>3 DEF Complete, Written, TypeOK
      <3> QED
        BY <1>2, <1>3, <2>2, <3>1, BoardTakesDown
    <2>4. CASE UNCHANGED <<file, leftover>> /\ pc' = [pc EXCEPT ![p] = "unfiled"]
      <3>1. KeepsFile(p)
        BY <2>1, <2>4 DEF KeepsFile, IsStale, Complete, TypeOK
      <3> QED
        BY <1>2, <1>3, <3>1, Kept, BoardStutters DEF KeepsFile
    <2> QED
      BY <1>4, <2>3, <2>4 DEF OpenFile
  <1>5. CASE WriteLine(p)
    <2> DEFINE n == file[p].lines + 1
    <2>1. n \in 1 .. 3
      BY <1>5 DEF WriteLine, Opened, TypeOK, SessionFile
    <2>2. pc[p] = "write" /\ UNCHANGED leftover
      BY <1>5 DEF WriteLine
    <2>3. ~Complete(p) /\ ~IsStale(p)
      BY <2>2, StaleUnlessServing DEF IsStale
    <2>4. file'[p] = Written(p, n) /\ pc' = IF n = 3 THEN [pc EXCEPT ![p] = "serving"] ELSE pc
      BY <1>5 DEF WriteLine, TypeOK
    <2>5. Written(p, n) # NoFile /\ Written(p, n).lines = n
      BY <2>1, SessionAssumption DEF Written, SessionFile, TypeOK
    <2>6. p \notin leftover' /\ pc'[p] \in {"write", "serving"}
      BY <2>2, <2>4 DEF SessionInv, WrittenSoFar, TypeOK
    <2> HIDE DEF n
    <2>7. ~IsStale(p)'
      BY <2>6 DEF IsStale
    <2>8. CASE n # 3
      <3>1. ~Complete(p)'
        BY <2>4, <2>5, <2>8 DEF Complete
      <3> QED
        BY <1>2, <1>3, <2>3, <3>1, BoardTakesDown
    <2>9. CASE n = 3
      <3>1. /\ repSock[p] # NoSocket /\ repSock[p] = At(p, repPort[p])
            /\ pubSock[p] # NoSocket /\ pubSock[p] = At(p, pubPort[p])
        BY <2>2 DEF SessionInv, BoundSoFar, PortsKnown
      <3>2. repSock[p] # pubSock[p]
        BY <3>1 DEF SessionInv, Exclusive, Clash
      <3>3. Complete(p)'
        BY <2>4, <2>5, <2>9 DEF Complete
      <3>4. /\ file'[p].rep = repPort[p] /\ file'[p].pub = pubPort[p]
            /\ file'[p].addr = address[p]
        BY <2>4 DEF Written
      <3>5. NoticeOf(p)' = {<<repSock[p], pubSock[p]>>}
        BY <3>1, <3>3, <3>4 DEF NoticeOf, At
      <3> QED
        BY <1>2, <1>3, <2>3, <2>7, <3>1, <3>2, <3>5, BoardPosts
    <2> QED
      BY <2>8, <2>9
  <1> QED
    BY <1>4, <1>5

(* release_session and the end of a process.                               *)
LEMMA BoardReleases ==
  ASSUME TypeOK, SessionInv, NEW p \in Procs, ReleaseSession(p) \/ Crash(p)
  PROVE  BOARD!Next \/ UNCHANGED BOARD!vars
  <1> USE DEF sockets
  <1>1. OthersKeep(p) /\ HeldBy(p)' \subseteq HeldBy(p)
    <2>1. CASE CloseRep(p) \/ ClosePub(p)
      <3>1. OthersKeep(p)
        BY <2>1 DEF CloseRep, ClosePub, OthersKeep, KeepsSockets, KeepsFile, IsStale, Complete,
                    TypeOK
      <3>2. HeldBy(p)' \subseteq HeldBy(p)
        BY <2>1 DEF CloseRep, ClosePub, HeldBy, TypeOK
      <3> QED
        BY <3>1, <3>2
    <2>2. CASE RemoveFile(p) \/ Crash(p)
      <3>1. EndProcess(p)
        BY <2>2 DEF RemoveFile, Crash
      <3>2. \A q \in Procs \ {p} : file'[q] = file[q] /\ (q \in leftover' <=> q \in leftover)
        BY <2>2 DEF RemoveFile, Crash, TypeOK
      <3>3. \A q \in Procs \ {p} : KeepsSockets(q) /\ pc'[q] = pc[q]
        BY <3>1 DEF EndProcess, KeepsSockets, TypeOK
      <3>4. OthersKeep(p)
        BY <3>2, <3>3 DEF OthersKeep, KeepsFile, IsStale, Complete
      <3>5. HeldBy(p)' = {}
        BY <3>1 DEF EndProcess, HeldBy, TypeOK
      <3> QED
        BY <3>4, <3>5
    <2> QED
      BY <2>1, <2>2 DEF ReleaseSession
  <1>2. CASE CloseRep(p) \/ ClosePub(p)
    <2>1. file' = file /\ (IsStale(p)' <=> Complete(p))
      BY <1>2 DEF CloseRep, ClosePub, IsStale, Complete, TypeOK
    <2>2. HeldBy(p)' = HeldBy(p) => (IsStale(p) <=> Complete(p))
      <3>1. CASE pc[p] = "serving"
        <4>1. repSock[p] # NoSocket /\ repSock[p] # pubSock[p] /\ repSock'[p] = NoSocket
              /\ pubSock'[p] = pubSock[p]
          BY <1>2, <3>1 DEF CloseRep, ClosePub, SessionInv, BoundSoFar, Exclusive, Clash, TypeOK
        <4> QED
          BY <4>1 DEF HeldBy
      <3>2. CASE pc[p] # "serving"
        BY <3>2, StaleUnlessServing DEF IsStale
      <3> QED
        BY <3>1, <3>2
    <2> QED
      BY <1>1, <2>1, <2>2, BoardLeaves
  <1>3. CASE RemoveFile(p) /\ file' = [file EXCEPT ![p] = NoFile]
    <2>1. pc[p] = "removeFile" /\ ~Complete(p)'
      BY <1>3 DEF RemoveFile, Complete, TypeOK
    <2>2. HeldBy(p) = {} /\ (Complete(p) => IsStale(p))
      BY <2>1, HeldAtRemoval, StaleUnlessServing
    <2> QED
      BY <1>1, <2>1, <2>2, BoardTakesDown
  <1>4. CASE file' = file /\ (RemoveFile(p) \/ Crash(p))
    <2>1. IsStale(p)' <=> Complete(p)
      <3>1. Complete(p)' <=> Complete(p)
        BY <1>4 DEF Complete
      <3>2. p \in leftover' \/ file[p] = NoFile
        BY <1>4 DEF RemoveFile, Crash, TypeOK
      <3> QED
        BY <3>1, <3>2 DEF IsStale, Complete
    <2>2. HeldBy(p)' = HeldBy(p) => (IsStale(p) <=> Complete(p))
      <3>1. CASE pc[p] = "serving"
        <4>1. repSock[p] # NoSocket /\ repSock'[p] = NoSocket /\ pubSock'[p] = NoSocket
          BY <1>4, <3>1 DEF RemoveFile, Crash, EndProcess, SessionInv, BoundSoFar, TypeOK
        <4> QED
          BY <4>1 DEF HeldBy
      <3>2. CASE pc[p] # "serving"
        BY <3>2, StaleUnlessServing DEF IsStale
      <3> QED
        BY <3>1, <3>2
    <2> QED
      BY <1>1, <1>4, <2>1, <2>2, BoardLeaves
  <1> QED
    BY <1>2, <1>3, <1>4 DEF ReleaseSession, RemoveFile, Crash

LEMMA BoardStep ==
  TypeOK /\ Opened /\ SessionInv /\ PortsKnown /\ [Next]_vars => [BOARD!Next]_(BOARD!vars)
  <1> SUFFICES ASSUME TypeOK, Opened, SessionInv, PortsKnown, [Next]_vars
               PROVE  BOARD!Next \/ UNCHANGED BOARD!vars
    OBVIOUS
  <1>1. CASE Next
    <2>1. PICK p \in Procs : \/ SaveSettings(p) \/ Start(p) \/ Acquire(p)
                             \/ ReleaseSession(p) \/ Crash(p)
      BY <1>1 DEF Next
    <2> QED
      BY <2>1, BoardStutterSteps, BoardBindRep, BoardBindPub, BoardWrites, BoardReleases
         DEF Acquire
  <1>2. CASE UNCHANGED vars
    BY <1>2 DEF vars, sockets, BOARD!vars, Held, Notice, Stale, Complete
  <1> QED
    BY <1>1, <1>2

LEMMA BoardInit == Init => BOARD!Init
  BY DEF Init, BOARD!Init, Held, Notice, Stale, Complete

(* Seen from outside, sessions take endpoints nobody listens at, post two  *)
(* of their own in the file, and let go of neither before the other: a     *)
(* client that reads a complete file reads where its process listens until *)
(* that process stops or dies, and only then can the file go.              *)
THEOREM SessionsImplementBoard ==
  ASSUME NoWrap
  PROVE  Spec => ImplementsBoard
  <1> QED
    BY BoardInit, BoardStep, SessionInvariant, PortsKnownInvariant, PTL
       DEF Spec, ImplementsBoard, BOARD!Spec

(* What the board promises follows from its specification alone: whoever   *)
(* reads a notice that is not stale finds its process, and only that one,  *)
(* at the endpoints it names.                                              *)
LEMMA PromiseStep ==
  ASSUME BOARD!Promise, [BOARD!Next]_(BOARD!vars)
  PROVE  BOARD!Promise'
  <1> USE DEF BOARD!Live
  <1> DEFINE Board(h, n) == h = [p \in Procs |-> h[p]] /\ n = [p \in Procs |-> n[p]]
  <1>1. Board(Held, Notice) /\ Board(Held', Notice')
    BY DEF Held, Notice
  <1>2. ASSUME NEW p \in Procs, BOARD!Take(p) PROVE BOARD!Promise'
    <2>1. PICK e \in Endpoint : /\ \A q \in Procs : \A f \in Held[q] : ~Clash(e, f)
                                /\ Held' = [Held EXCEPT ![p] = @ \union {e}]
      BY <1>2 DEF BOARD!Take
    <2>2. ~BOARD!Live(p) /\ UNCHANGED <<Notice, Stale>>
      BY <1>2 DEF BOARD!Take
    <2>3. \A q \in Procs : Held'[q] = IF q = p THEN Held[q] \union {e} ELSE Held[q]
      BY <1>1, <2>1
    <2> QED
      BY <2>1, <2>2, <2>3, ClashSymmetric DEF BOARD!Promise
  <1>3. ASSUME NEW p \in Procs, BOARD!Post(p) PROVE BOARD!Promise'
    <2>1. PICK rep \in Held[p], pub \in Held[p] : Notice' = [Notice EXCEPT ![p] = {<<rep, pub>>}]
      BY <1>3 DEF BOARD!Post
    <2>2. UNCHANGED <<Held, Stale>>
      BY <1>3 DEF BOARD!Post
    <2>3. \A q \in Procs : Notice'[q] = IF q = p THEN {<<rep, pub>>} ELSE Notice[q]
      BY <1>1, <2>1
    <2> QED
      BY <2>1, <2>2, <2>3 DEF BOARD!Promise
  <1>4. ASSUME NEW p \in Procs, BOARD!Leave(p) PROVE BOARD!Promise'
    <2>1. PICK rest \in SUBSET Held[p] : Held' = [Held EXCEPT ![p] = rest]
      BY <1>4 DEF BOARD!Leave
    <2>2. Stale' = Stale \union {q \in {p} : Notice[p] # {}} /\ Notice' = Notice
      BY <1>4 DEF BOARD!Leave
    <2>3. \A q \in Procs : Held'[q] = IF q = p THEN rest ELSE Held[q]
      BY <1>1, <2>1
    <2> QED
      BY <2>1, <2>2, <2>3 DEF BOARD!Promise
  <1>5. ASSUME NEW p \in Procs, BOARD!TakeDown(p) PROVE BOARD!Promise'
    <2>1. /\ Notice' = [Notice EXCEPT ![p] = {}]
          /\ Stale' = Stale \ {p} /\ Held' = Held
      BY <1>5 DEF BOARD!TakeDown
    <2>2. \A q \in Procs : Notice'[q] = IF q = p THEN {} ELSE Notice[q]
      BY <1>1, <2>1
    <2> QED
      BY <2>1, <2>2 DEF BOARD!Promise
  <1>6. CASE UNCHANGED BOARD!vars
    BY <1>6 DEF BOARD!vars, BOARD!Promise
  <1> QED
    BY <1>2, <1>3, <1>4, <1>5, <1>6 DEF BOARD!Next

THEOREM BoardKeepsPromise == BOARD!Spec => []BOARD!Promise
  <1>1. BOARD!Init => BOARD!Promise
    BY DEF BOARD!Init, BOARD!Promise, BOARD!Live
  <1> QED
    BY <1>1, PromiseStep, PTL DEF BOARD!Spec

(* What a client reads in a complete session file is true, and true of one *)
(* process only, until that process stops or dies.                         *)
THEOREM ClientsFindTheirSession ==
  ASSUME NoWrap
  PROVE  Spec => []BOARD!Promise
  BY SessionsImplementBoard, BoardKeepsPromise, PTL DEF ImplementsBoard
=============================================================================
