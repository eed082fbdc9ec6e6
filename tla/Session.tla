------------------------------ MODULE Session -------------------------------
(***************************************************************************)
(* The sessions of the x64dbg processes on one machine: acquire_session    *)
(* and release_session (src/src/xauto_server.cpp). Each process binds a    *)
(* REP and a PUB socket, on configured ports (remote mode) or on random    *)
(* free ones (local mode), and advertises them in a session file named     *)
(* after its process id, which clients read to find it. Processes start,   *)
(* stop and crash at any step, and process ids are reused: a member of     *)
(* Procs is a process id.                                                  *)
(***************************************************************************)
EXTENDS Integers

CONSTANTS
  MaxStarts,   (* bound: how many processes are started in all             *)
  Procs,       (* process ids                                              *)
  PortSpan,    (* the number of 16-bit values (65536 in the code)          *)
  LocalPorts,  (* 0xc000 .. 0xFFFF; Windows' ephemeral ports too           *)
  Foreign,     (* ports other programs keep                                *)
  DefaultRep, DefaultPub,  (* 27066 and 27067                              *)
  Settings,    (* contents the [XAutomate] section of x64dbg.ini may have  *)
  NoSocket,    (* a socket that is not bound                               *)
  NoFile       (* a session file that does not exist                       *)

Addresses == {"0.0.0.0", "127.0.0.1", "localhost"}
Port == 0 .. PortSpan - 1
Endpoint == [addr : Addresses, port : Port \ {0}]

(* A session file holds the first "lines" of: rep port, pub port, address. *)
SessionFile == [lines : 0 .. 3, rep : Port, pub : Port, addr : Addresses]

(* A missing setting reads as "" or 0. *)
Setting == [mode : {"local", "remote"}, addr : {"0.0.0.0", "127.0.0.1", ""},
            rep : Nat, pub : Nat]
NoSettings == [mode |-> "local", addr |-> "", rep |-> 0, pub |-> 0]

ASSUME SessionAssumption ==
  /\ MaxStarts \in Nat
  /\ PortSpan \in Nat \ {0}
  /\ LocalPorts \subseteq Port \ {0}
  /\ {DefaultRep, DefaultPub} \subseteq Port \ {0}
  /\ Settings \subseteq Setting
  /\ NoSocket \notin Endpoint
  /\ NoFile \notin SessionFile

VARIABLES
  starts,   (* how many processes have been started                        *)
  ini,      (* x64dbg.ini                                                  *)
  pc,       (* pc[p]: where process p is                                   *)
  cfg,      (* cfg[p]: the settings p read when it started                 *)
  address,  (* address[p]: bind_address                                    *)
  repPort,  (* repPort[p]: sess_req_rep_port                               *)
  pubPort,  (* pubPort[p]: sess_pub_sub_port                               *)
  repSock,  (* repSock[p]: where rep_socket is bound, or NoSocket          *)
  pubSock,  (* pubSock[p]: where pub_socket is bound, or NoSocket          *)
  file,     (* file[p]: p's session file, or NoFile                        *)
  leftover  (* history: pids whose file outlived the process that wrote it *)

sockets == <<repSock, pubSock>>
vars == <<starts, ini, pc, cfg, address, repPort, pubPort, sockets, file, leftover>>

(* "failed": a bind failed; "unfiled": the session file could not be       *)
(* opened. The code does the same in both: no thread, no session.          *)
Steps == {"off", "bindRep", "bindPub", "openFile", "write", "serving",
          "failed", "unfiled", "closePub", "removeFile"}

-----------------------------------------------------------------------------
(* Sockets.                                                                *)

Host(a) == IF a = "localhost" THEN "127.0.0.1" ELSE a

(* A bind fails where a socket already listens, the wildcard address       *)
(* standing for every address.                                             *)
Clash(e, f) ==
  /\ e.port = f.port
  /\ Host(e.addr) = Host(f.addr) \/ "0.0.0.0" \in {e.addr, f.addr}

Bound == ({repSock[p] : p \in Procs} \union {pubSock[p] : p \in Procs}) \ {NoSocket}

Free(e) == e.port \notin Foreign /\ \A f \in Bound : ~Clash(e, f)

At(p, port) == [addr |-> address[p], port |-> port]

(* Where a bind to "tcp://address:port" may end up: on that port, or, when *)
(* the port is 0, on whichever free ephemeral port the system picks.       *)
BindTo(p, port) ==
  {e \in [addr : {address[p]}, port : IF port = 0 THEN LocalPorts ELSE {port}] :
     Free(e)}

-----------------------------------------------------------------------------
(* What the settings mean to acquire_session.                              *)

Or(value, default) == IF value = 0 THEN default ELSE value

(* Mutant of ConfiguredRep: no cast. *)
ConfiguredRepUncast(s) == Or(s.rep, DefaultRep)

(* The casts to uint16_t. *)
ConfiguredRep(s) == Or(s.rep, DefaultRep) % PortSpan
ConfiguredPub(s) == Or(s.pub, DefaultPub) % PortSpan

(* The address to bind to, by the settings. *)
ConfiguredAddress(s) ==
  IF s.mode = "local" THEN "localhost" ELSE IF s.addr = "" THEN "0.0.0.0" ELSE s.addr

-----------------------------------------------------------------------------
(* The settings dialog.                                                    *)

(* Mutant of Shown: each port in the field of the other.                   *)
ShownCrossed(s) == [mode |-> s.mode, addr |-> IF s.addr = "" THEN "0.0.0.0" ELSE s.addr,
                    rep |-> Or(s.pub, DefaultPub), pub |-> Or(s.rep, DefaultRep)]

(* WM_INITDIALOG: what the controls show. Those of the remote mode are     *)
(* filled in local mode too, disabled until the user selects the other.    *)
Shown(s) == [mode |-> s.mode, addr |-> IF s.addr = "" THEN "0.0.0.0" ELSE s.addr,
             rep |-> Or(s.rep, DefaultRep), pub |-> Or(s.pub, DefaultPub)]

(* Mutant of DialogAccepts: any number is a port.                          *)
DialogAcceptsAnyPort(s) == s.mode = "remote" => s.rep # s.pub /\ s.addr # ""

(* IDOK: what is accepted. In local mode nothing is looked at. *)
DialogAccepts(s) ==
  s.mode = "remote" =>
    /\ s.rep \in 1 .. PortSpan - 1 /\ s.pub \in 1 .. PortSpan - 1
    /\ s.rep # s.pub
    /\ s.addr # ""

(* IDOK: what is stored. In local mode the rest stays. *)
Stored(s) == IF s.mode = "remote" THEN s ELSE [ini EXCEPT !.mode = "local"]

(* The dialog is opened, its controls are edited or left as they are, and  *)
(* OK is clicked. If it refuses the dialog stays open; IDCANCEL and        *)
(* WM_CLOSE store nothing. A running session keeps what it read.           *)
SaveSettings(p) ==
  /\ pc[p] \in {"serving", "failed", "unfiled"}
  /\ \E s \in Settings \union {Shown(ini), [Shown(ini) EXCEPT !.mode = "remote"]} :
       /\ DialogAccepts(s)
       /\ ini' = Stored(s)
  /\ UNCHANGED <<starts, pc, cfg, address, repPort, pubPort, sockets, file, leftover>>

-----------------------------------------------------------------------------
(* acquire_session.                                                        *)

(* pluginit constructs the server, which reads the mode, address and ports. *)
Start(p) ==
  /\ pc[p] = "off"
  /\ starts < MaxStarts
  /\ starts' = starts + 1
  /\ pc' = [pc EXCEPT ![p] = "bindRep"]
  /\ cfg' = [cfg EXCEPT ![p] = ini]
  /\ address' = [address EXCEPT ![p] = ConfiguredAddress(ini)]
  /\ UNCHANGED <<ini, repPort, pubPort, sockets, file, leftover>>

(* Mutant of BindRepRemote: a failed bind logged and not acted on.         *)
BindRepRemoteGoesOn(p) ==
  /\ pc[p] = "bindRep" /\ cfg[p].mode = "remote"
  /\ repPort' = [repPort EXCEPT ![p] = ConfiguredRep(cfg[p])]
  /\ pc' = [pc EXCEPT ![p] = "bindPub"]
  /\ LET targets == BindTo(p, ConfiguredRep(cfg[p]))
     IN  \/ \E e \in targets : repSock' = [repSock EXCEPT ![p] = e]
         \/ targets = {} /\ UNCHANGED repSock
  /\ UNCHANGED <<starts, ini, cfg, address, pubPort, pubSock, file, leftover>>

(* Remote mode: the one configured port; if its bind throws, both sockets  *)
(* are closed and the plugin stays without a session.                      *)
BindRepRemote(p) ==
  /\ pc[p] = "bindRep" /\ cfg[p].mode = "remote"
  /\ repPort' = [repPort EXCEPT ![p] = ConfiguredRep(cfg[p])]
  /\ LET targets == BindTo(p, ConfiguredRep(cfg[p]))
     IN  \/ \E e \in targets : /\ repSock' = [repSock EXCEPT ![p] = e]
                               /\ pc' = [pc EXCEPT ![p] = "bindPub"]
         \/ /\ targets = {}
            /\ pc' = [pc EXCEPT ![p] = "failed"]
            /\ UNCHANGED repSock
  /\ UNCHANGED <<starts, ini, cfg, address, pubPort, pubSock, file, leftover>>

(* Mutant of BindPubRemote: the first socket stays bound when the second   *)
(* bind fails.                                                             *)
BindPubRemoteKeepsRep(p) ==
  /\ pc[p] = "bindPub" /\ cfg[p].mode = "remote"
  /\ pubPort' = [pubPort EXCEPT ![p] = ConfiguredPub(cfg[p])]
  /\ LET targets == BindTo(p, ConfiguredPub(cfg[p]))
     IN  \/ \E e \in targets : /\ pubSock' = [pubSock EXCEPT ![p] = e]
                               /\ pc' = [pc EXCEPT ![p] = "openFile"]
         \/ /\ targets = {}
            /\ pc' = [pc EXCEPT ![p] = "failed"]
            /\ UNCHANGED pubSock
  /\ UNCHANGED <<starts, ini, cfg, address, repPort, repSock, file, leftover>>

BindPubRemote(p) ==
  /\ pc[p] = "bindPub" /\ cfg[p].mode = "remote"
  /\ pubPort' = [pubPort EXCEPT ![p] = ConfiguredPub(cfg[p])]
  /\ LET targets == BindTo(p, ConfiguredPub(cfg[p]))
     IN  \/ \E e \in targets : /\ pubSock' = [pubSock EXCEPT ![p] = e]
                               /\ pc' = [pc EXCEPT ![p] = "openFile"]
                               /\ UNCHANGED repSock
         \/ /\ targets = {}
            /\ pc' = [pc EXCEPT ![p] = "failed"]
            /\ repSock' = [repSock EXCEPT ![p] = NoSocket]
            /\ UNCHANGED pubSock
  /\ UNCHANGED <<starts, ini, cfg, address, repPort, file, leftover>>

(* Local mode: ports are drawn until a bind succeeds. The port is stored   *)
(* before each attempt, so a failed attempt leaves its port behind.        *)
BindRepLocal(p) ==
  /\ pc[p] = "bindRep" /\ cfg[p].mode = "local"
  /\ \E port \in LocalPorts :
       /\ repPort' = [repPort EXCEPT ![p] = port]
       /\ IF Free(At(p, port))
          THEN /\ repSock' = [repSock EXCEPT ![p] = At(p, port)]
               /\ pc' = [pc EXCEPT ![p] = "bindPub"]
          ELSE UNCHANGED <<repSock, pc>>
  /\ UNCHANGED <<starts, ini, cfg, address, pubPort, pubSock, file, leftover>>

(* Mutants of BindPubLocal. The port drawn once, outside the loop:         *)
BindPubLocalSamePort(p) ==
  /\ pc[p] = "bindPub" /\ cfg[p].mode = "local"
  /\ \E port \in IF pubPort[p] = 0 THEN LocalPorts ELSE {pubPort[p]} :
       /\ pubPort' = [pubPort EXCEPT ![p] = port]
       /\ IF Free(At(p, port))
          THEN /\ pubSock' = [pubSock EXCEPT ![p] = At(p, port)]
               /\ pc' = [pc EXCEPT ![p] = "openFile"]
          ELSE UNCHANGED <<pubSock, pc>>
  /\ UNCHANGED <<starts, ini, cfg, address, repPort, repSock, file, leftover>>

(* The port of the first attempt stays stored:                             *)
BindPubLocalStoresFirst(p) ==
  /\ pc[p] = "bindPub" /\ cfg[p].mode = "local"
  /\ \E port \in LocalPorts :
       /\ pubPort' = [pubPort EXCEPT ![p] = Or(@, port)]
       /\ IF Free(At(p, port))
          THEN /\ pubSock' = [pubSock EXCEPT ![p] = At(p, port)]
               /\ pc' = [pc EXCEPT ![p] = "openFile"]
          ELSE UNCHANGED <<pubSock, pc>>
  /\ UNCHANGED <<starts, ini, cfg, address, repPort, repSock, file, leftover>>

BindPubLocal(p) ==
  /\ pc[p] = "bindPub" /\ cfg[p].mode = "local"
  /\ \E port \in LocalPorts :
       /\ pubPort' = [pubPort EXCEPT ![p] = port]
       /\ IF Free(At(p, port))
          THEN /\ pubSock' = [pubSock EXCEPT ![p] = At(p, port)]
               /\ pc' = [pc EXCEPT ![p] = "openFile"]
          ELSE UNCHANGED <<pubSock, pc>>
  /\ UNCHANGED <<starts, ini, cfg, address, repPort, repSock, file, leftover>>

Written(p, n) ==
  [lines |-> n, rep |-> repPort[p], pub |-> pubPort[p], addr |-> address[p]]

(* Opening the file truncates what an earlier process of that id left. If  *)
(* it cannot be opened the sockets stay bound.                             *)
OpenFile(p) ==
  /\ pc[p] = "openFile"
  /\ \/ /\ file' = [file EXCEPT ![p] = Written(p, 0)]
        /\ leftover' = leftover \ {p}
        /\ pc' = [pc EXCEPT ![p] = "write"]
     \/ /\ pc' = [pc EXCEPT ![p] = "unfiled"]
        /\ UNCHANGED <<file, leftover>>
  /\ UNCHANGED <<starts, ini, cfg, address, repPort, pubPort, sockets>>

(* std::endl flushes: clients can see one or two lines. After the third    *)
(* the server thread is started.                                           *)
WriteLine(p) ==
  /\ pc[p] = "write"
  /\ LET n == file[p].lines + 1
     IN  /\ file' = [file EXCEPT ![p] = Written(p, n)]
         /\ pc' = IF n = 3 THEN [pc EXCEPT ![p] = "serving"] ELSE pc
  /\ UNCHANGED <<starts, ini, cfg, address, repPort, pubPort, sockets, leftover>>

-----------------------------------------------------------------------------
(* release_session, called by plugstop whether or not a session was        *)
(* acquired.                                                               *)

CloseRep(p) ==
  /\ pc[p] \in {"serving", "failed", "unfiled"}
  /\ repSock' = [repSock EXCEPT ![p] = NoSocket]
  /\ pc' = [pc EXCEPT ![p] = "closePub"]
  /\ UNCHANGED <<starts, ini, cfg, address, repPort, pubPort, pubSock, file, leftover>>

(* The process ends, and its memory with it: the next one of this id       *)
(* begins with the members' initial values.                                *)
EndProcess(p) ==
  /\ pc' = [pc EXCEPT ![p] = "off"]
  /\ cfg' = [cfg EXCEPT ![p] = NoSettings]
  /\ address' = [address EXCEPT ![p] = "localhost"]
  /\ repPort' = [repPort EXCEPT ![p] = 0]
  /\ pubPort' = [pubPort EXCEPT ![p] = 0]
  /\ repSock' = [repSock EXCEPT ![p] = NoSocket]
  /\ pubSock' = [pubSock EXCEPT ![p] = NoSocket]
  /\ UNCHANGED <<starts, ini>>

(* Mutant of ClosePub: the last step of release_session.                   *)
ClosePubAndReturn(p) ==
  /\ pc[p] = "closePub"
  /\ EndProcess(p)
  /\ UNCHANGED <<file, leftover>>

ClosePub(p) ==
  /\ pc[p] = "closePub"
  /\ pubSock' = [pubSock EXCEPT ![p] = NoSocket]
  /\ pc' = [pc EXCEPT ![p] = "removeFile"]
  /\ UNCHANGED <<starts, ini, cfg, address, repPort, pubPort, repSock, file, leftover>>

(* The removal may fail (another program has the file open), which is only *)
(* logged. Then the process ends.                                          *)
RemoveFile(p) ==
  /\ pc[p] = "removeFile"
  /\ EndProcess(p)
  /\ \/ /\ file' = [file EXCEPT ![p] = NoFile]
        /\ leftover' = leftover \ {p}
     \/ /\ file[p] # NoFile
        /\ leftover' = leftover \union {p}
        /\ UNCHANGED file

(* The process dies: the system closes its sockets, the file stays.        *)
Crash(p) ==
  /\ pc[p] # "off"
  /\ EndProcess(p)
  /\ leftover' = IF file[p] = NoFile THEN leftover ELSE leftover \union {p}
  /\ UNCHANGED file

-----------------------------------------------------------------------------
Init ==
  /\ starts = 0
  /\ ini \in Settings
  /\ pc = [p \in Procs |-> "off"]
  /\ cfg = [p \in Procs |-> NoSettings]
  /\ address = [p \in Procs |-> "localhost"]
  /\ repPort = [p \in Procs |-> 0]
  /\ pubPort = [p \in Procs |-> 0]
  /\ repSock = [p \in Procs |-> NoSocket]
  /\ pubSock = [p \in Procs |-> NoSocket]
  /\ file = [p \in Procs |-> NoFile]
  /\ leftover = {}

Acquire(p) == \/ BindRepRemote(p) \/ BindPubRemote(p)
              \/ BindRepLocal(p) \/ BindPubLocal(p)
              \/ OpenFile(p) \/ WriteLine(p)

ReleaseSession(p) == CloseRep(p) \/ ClosePub(p) \/ RemoveFile(p)

Next == \E p \in Procs :
          \/ SaveSettings(p) \/ Start(p) \/ Acquire(p)
          \/ ReleaseSession(p) \/ Crash(p)

Spec == Init /\ [][Next]_vars

(* A process that starts keeps running. The ports it draws are uniformly   *)
(* distributed, so as long as one is free it is drawn sooner or later:     *)
(* WF on the attempts that succeed. Nobody has to start, stop or crash.    *)
BindLocalOk(p) ==
  \/ BindRepLocal(p) /\ repSock' # repSock
  \/ BindPubLocal(p) /\ pubSock' # pubSock

Fairness == \A p \in Procs :
  /\ WF_vars(BindLocalOk(p))
  /\ WF_vars(BindRepRemote(p) \/ BindPubRemote(p) \/ OpenFile(p) \/ WriteLine(p))
  /\ WF_vars(ClosePub(p) \/ RemoveFile(p))

FairSpec == Spec /\ Fairness

-----------------------------------------------------------------------------
(* Properties.                                                             *)

(* Types of the settings, of each server object and of the session files.  *)
(* Ports stay 16-bit whatever the settings hold: the casts of              *)
(* acquire_session do not let a larger value through.                      *)
TypeOK ==
  /\ starts \in 0 .. MaxStarts
  /\ ini \in Setting
  /\ pc \in [Procs -> Steps]
  /\ cfg \in [Procs -> Setting]
  /\ address \in [Procs -> Addresses]
  /\ repPort \in [Procs -> Port]
  /\ pubPort \in [Procs -> Port]
  /\ repSock \in [Procs -> Endpoint \union {NoSocket}]
  /\ pubSock \in [Procs -> Endpoint \union {NoSocket}]
  /\ file \in [Procs -> SessionFile \union {NoFile}]
  /\ leftover \subseteq Procs

(* A client can use the file once it has its three lines. *)
Complete(p) == file[p] # NoFile /\ file[p].lines = 3

(* A complete session file is true: unless its writer died or is stopping, *)
(* it names the two sockets its process has bound.                         *)
FileIsTrue ==
  \A p \in Procs :
    (Complete(p) /\ p \notin leftover /\ pc[p] \notin {"closePub", "removeFile"})
      => /\ pc[p] = "serving"
         /\ repSock[p] = [addr |-> file[p].addr, port |-> file[p].rep]
         /\ pubSock[p] = [addr |-> file[p].addr, port |-> file[p].pub]

(* Two sessions never tell clients the same endpoint, however the starts   *)
(* of their processes interleave and whatever settings they read.          *)
(* ImplementsBoard contains it.                                            *)
ServeApart ==
  \A p, q \in Procs : p # q /\ pc[p] = "serving" /\ pc[q] = "serving" =>
    \A i \in {file[p].rep, file[p].pub}, j \in {file[q].rep, file[q].pub} :
      ~Clash([addr |-> file[p].addr, port |-> i], [addr |-> file[q].addr, port |-> j])

(* A process whose bind failed keeps no port from the others; one with a   *)
(* session holds two different ones.                                       *)
AllOrNothing ==
  \A p \in Procs :
    /\ pc[p] \in {"off", "failed"} => repSock[p] = NoSocket /\ pubSock[p] = NoSocket
    /\ pc[p] \in {"openFile", "write", "serving", "unfiled"} =>
         repSock[p] # NoSocket /\ pubSock[p] # NoSocket /\ repSock[p] # pubSock[p]

(* A session file without a process is left only by a crash or a removal   *)
(* that failed: a process that was stopped leaves nothing behind, not even *)
(* what an earlier process of its id had left.                             *)
NothingLeft == \A p \in Procs : pc[p] = "off" /\ p \notin leftover => file[p] = NoFile

(* In local mode a start ends in a session, whatever the other processes   *)
(* do to the ports meanwhile, unless the session file cannot be opened,    *)
(* the process dies, or there comes a moment when it still needs a port    *)
(* and none of the range is free.                                          *)
LocalStarts ==
  \A p \in Procs :
    pc[p] = "bindRep" /\ cfg[p].mode = "local"
      ~> \/ pc[p] \in {"serving", "unfiled", "off"}
         \/ /\ pc[p] \in {"bindRep", "bindPub"}
            /\ \A port \in LocalPorts : ~Free(At(p, port))

(* What a start binds in remote mode. *)
Binding(s) == <<ConfiguredAddress(s), ConfiguredRep(s), ConfiguredPub(s)>>

(* The dialog shows what the next start will use: the defaults it fills in *)
(* are those of acquire_session, and OK without an edit changes nothing.   *)
(* Only ports that it refuses may be used otherwise than shown.            *)
DialogShowsNext ==
  DialogAccepts(Shown(ini)) =>
    /\ ini.mode = "remote" =>
         Binding(ini) = <<Shown(ini).addr, Shown(ini).rep, Shown(ini).pub>>
    /\ Stored(Shown(ini)).mode = ini.mode
    /\ Binding(Stored(Shown(ini))) = Binding(ini)

(* What OK accepted is what the next start uses, with no default and no    *)
(* cast in between, whatever the file held before; its two ports differ.   *)
AcceptedIsUsed ==
  [][ini' # ini /\ ini'.mode = "remote" =>
       /\ Binding(ini') = <<ini'.addr, ini'.rep, ini'.pub>>
       /\ ini'.rep # ini'.pub]_vars

(* What the sockets and the session files are to the other processes and   *)
(* to clients.                                                             *)
Held   == [p \in Procs |-> {repSock[p], pubSock[p]} \ {NoSocket}]
Notice == [p \in Procs |->
             IF Complete(p) THEN {<<[addr |-> file[p].addr, port |-> file[p].rep],
                                    [addr |-> file[p].addr, port |-> file[p].pub]>>}
             ELSE {}]
Stale  == {p \in Procs : /\ Complete(p)
                         /\ p \in leftover \/ pc[p] \in {"closePub", "removeFile"}}

(* The sessions implement the board: what a process binds clashes with     *)
(* nothing bound, its file becomes complete only when it names the two     *)
(* endpoints the process is bound to, stays so as long as the process      *)
(* keeps them, and is truncated or removed only after that.                *)
BOARD == INSTANCE SessionBoard WITH
           Endpoints <- Endpoint,
           held      <- Held,
           notice    <- Notice,
           stale     <- Stale

ImplementsBoard == BOARD!Spec

(* README: ReqRepPort and PubSubPort are the fixed ports in remote mode.   *)
FixedPorts ==
  \A p \in Procs : pc[p] = "serving" /\ cfg[p].mode = "remote" =>
    /\ cfg[p].rep # 0 => repSock[p].port = cfg[p].rep
    /\ cfg[p].pub # 0 => pubSock[p].port = cfg[p].pub

(* README: the default of BindAddress in remote mode is 127.0.0.1.         *)
DefaultsToLoopback ==
  \A p \in Procs : cfg[p].mode = "remote" /\ cfg[p].addr = "" /\ repSock[p] # NoSocket
    => Host(repSock[p].addr) = "127.0.0.1"
=============================================================================
