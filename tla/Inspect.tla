------------------------------ MODULE Inspect -------------------------------
(***************************************************************************)
(* The commands without arguments that look at the debuggee (src/src/      *)
(* xauto_cmd.cpp), on the server thread, one request at a time, together   *)
(* with dbg_suspend_all_threads. Most take several calls, between which    *)
(* the debuggee runs on, ends or is replaced by another, and the user of   *)
(* x64dbg makes patches. What a call returns is modelled by where it comes *)
(* from: a part of a reply is the process that it was read from.           *)
(***************************************************************************)
EXTENDS SuspendThreads, RegDump, FiniteSets

CONSTANTS
  Images,   (* program files: [head, tls, base, file], see ReadHeaders     *)
  Dword,    (* the number of values of a DWORD (2^32)                      *)
  Patches,  (* addresses the user may patch                                *)
  Dumps     (* register dumps: [eflags, mxcsr, control, status, tag]       *)

ASSUME InspectAssumption ==
  /\ Dword \in Nat /\ Dword > 5  (* more than there are PEB fields *)
  /\ IsFiniteSet(Patches) /\ IsFiniteSet(Tids)
  /\ Images \subseteq [head : 0 .. Dword - 1, tls : 0 .. Dword - 1, base : 0 .. Dword - 1,
                      file : Seq(0 .. Dword - 1)]
  /\ Dumps \subseteq [eflags : Nat, mxcsr : Nat, control : Nat, status : Nat, tag : Nat]

VARIABLES
  cmd,      (* the command carried out, or "none"                          *)
  parts,    (* local: what has been read, by the process it is from        *)
  image,    (* local: the program file opened, or NoImage                  *)
  pos,      (* local: the PEB field, or the file position, to read next    *)
  list,     (* local: callback_rvas                                        *)
  first,    (* history: the patches when they were counted                 *)
  patches   (* x64dbg's patches, while the command looks at them           *)

locals == <<cmd, parts, image, pos, list, first, patches>>
vars   == <<suspendVars, locals>>

NoImage == [head |-> 0, tls |-> 0, base |-> 0, file |-> <<>>]

(* The fields of the PEB in the order they are read, and process info.     *)
PebFields == <<"being_debugged", "nt_global_flag", "heap", "heap_flags", "heap_force_flags">>
Part == {PebFields[i] : i \in 1 .. Len(PebFields)} \union {"tid", "path", "header"}
Nothing == [x \in Part |-> NoProc]

Parts(r) == [head |-> "parts", parts |-> r]
List(s)  == [head |-> "list", list |-> s]
Value    == [head |-> "value"]

(* A command that holds a process packs its reply and closes the handle.   *)
Answers(r) ==
  /\ Packs(r)
  /\ handle' = NoHandle
  /\ cmd' = cmd /\ parts' = Nothing /\ image' = NoImage /\ pos' = 0 /\ list' = <<>>
  /\ first' = {} /\ patches' = {}
  /\ UNCHANGED <<environment, asked>>

(* A command that asks x64dbg for one thing and packs it. *)
AnswersAtOnce(c, r) ==
  /\ at = "idle"
  /\ cmd' = c
  /\ reply' = r /\ at' = "packed"
  /\ UNCHANGED <<environment, handle, asked, pid, walk, parts, image, pos, list, first, patches>>

(* The process is gone after what was just done. *)
Undefined(c) ==
  /\ at' = "undefined" /\ cmd' = c
  /\ UNCHANGED <<environment, handle, asked, reply, pid, walk, parts, image, pos, list,
                 first, patches>>

-----------------------------------------------------------------------------
(* Process information, PEB and TLS callbacks.                             *)

Begins(c, step) ==
  /\ AsksForPid
  /\ cmd' = c
  /\ at' = step
  /\ UNCHANGED <<reply, parts, image, pos, list, first, patches>>

Refuses(c) ==
  /\ debuggee = NoProc
  /\ AnswersAtOnce(c, XError)

dbg_get_peb ==
  \/ debuggee # NoProc /\ Begins("dbg_get_peb", "open")
  \/ Refuses("dbg_get_peb")

dbg_get_tls_callbacks ==
  \/ debuggee # NoProc /\ Begins("dbg_get_tls_callbacks", "open")
  \/ Refuses("dbg_get_tls_callbacks")

(* Here no debuggee is no error. *)
dbg_get_process_info == Begins("dbg_get_process_info", "tid")

Goes(step) ==
  /\ at' = step
  /\ UNCHANGED <<environment, asked, reply, pid, walk, cmd, first, patches>>

(* DbgGetThreadId is a second call: of whatever is debugged by now. *)
DbgGetThreadId ==
  /\ at = "tid"
  /\ LET now == [parts EXCEPT !["tid"] = debuggee]
     IN  IF pid = 0 THEN Answers(Parts(now))
         ELSE Goes("open") /\ parts' = now /\ UNCHANGED <<handle, image, pos, list>>

(* Mutant of Opened: the debuggee's id asked for again.                    *)
OpenedNow(id) == Holders(DbgGetProcessId)

(* The process OpenProcess opens by the id, if there is one. *)
Opened(id) == Holders(id)

(* OpenProcess, which may fail. *)
OpenProcess ==
  /\ at = "open"
  /\ \/ \E p \in Opened(pid) :
          /\ handle' = p
          /\ IF cmd = "dbg_get_peb" THEN Goes("peb") /\ pos' = 1
             ELSE Goes("name") /\ pos' = pos
          /\ UNCHANGED <<parts, image, list>>
     \/ Answers(IF cmd = "dbg_get_process_info" THEN Parts(parts) ELSE XError)

(* What the command replies when it cannot go on. *)
SoFar == IF cmd = "dbg_get_tls_callbacks" THEN List(list) ELSE Parts(parts)

(* QueryFullProcessImageNameW. *)
QueryName ==
  /\ at = "name"
  /\ \/ /\ parts' = [parts EXCEPT !["path"] = handle]
        /\ Goes("file") /\ UNCHANGED <<handle, image, pos, list>>
     \/ Answers(SoFar)

(* CreateFileW and the two headers. Of a file that is there and is a       *)
(* program, process info takes the fields. The callbacks go on if it has a *)
(* TLS directory; of the file they need the position behind the headers,   *)
(* the address of that directory and the address the program is linked to. *)
ReadHeaders ==
  /\ at = "file"
  /\ \/ /\ cmd = "dbg_get_process_info"
        /\ Answers(Parts([parts EXCEPT !["header"] = handle]))
     \/ /\ cmd = "dbg_get_tls_callbacks"
        /\ \E i \in Images :
             /\ i.tls # 0
             /\ image' = i
             /\ Goes("directory") /\ UNCHANGED <<handle, parts, pos, list>>
     \/ Answers(SoFar)

(* SetFilePointer takes the distance as a signed LONG: an address in the   *)
(* upper half of a DWORD is one in front of the file's beginning. That     *)
(* fails, which is not looked at, and the position stays.                  *)
Seek(from, to) == IF 2 * to < Dword THEN to ELSE from

(* The TLS directory is looked for in the file at its address in memory.   *)
DirectoryAt == Seek(image.head, image.tls)

(* The position when its six DWORDs, or those that there are, are read.    *)
AfterDirectory ==
  IF DirectoryAt + 6 <= Len(image.file) THEN DirectoryAt + 6
  ELSE IF DirectoryAt <= Len(image.file) THEN Len(image.file)
  ELSE DirectoryAt

(* The fourth is AddressOfCallBacks. At the end of the file ReadFile       *)
(* succeeds and reads less, and tls is not initialised.                    *)
AddressOfCallBacks ==
  IF DirectoryAt + 4 <= Len(image.file) THEN {image.file[DirectoryAt + 4]} ELSE 0 .. Dword - 1

(* Mutant of ReadDirectory: a difference that does not wrap around, and a  *)
(* position of 64 bits.                                                    *)
ReadDirectoryWide ==
  /\ at = "directory"
  /\ \/ \E v \in AddressOfCallBacks :
          LET rva == v + Dword - image.base
          IN  IF rva = 0 THEN Answers(SoFar)
              ELSE /\ pos' = rva
                   /\ Goes("array") /\ UNCHANGED <<handle, parts, image, list>>
     \/ Answers(SoFar)

ReadDirectory ==
  /\ at = "directory"
  /\ \/ \E v \in AddressOfCallBacks :
          LET rva == (v + Dword - image.base) % Dword
          IN  IF rva = 0 THEN Answers(SoFar)
              ELSE /\ pos' = Seek(AfterDirectory, rva)
                   /\ Goes("array") /\ UNCHANGED <<handle, parts, image, list>>
     \/ Answers(SoFar)

(* Mutant of ReadCallback: bytes_read not looked at. *)
ReadCallbackBlindly ==
  /\ at = "array"
  /\ IF pos >= Len(image.file) \/ image.file[pos + 1] # 0
     THEN /\ list' = Append(list, IF pos < Len(image.file) THEN image.file[pos + 1] ELSE 1)
          /\ pos' = pos + 1
          /\ Goes("array") /\ UNCHANGED <<handle, parts, image>>
     ELSE Answers(SoFar)

(* One turn of the loop: up to a zero, the end of the file or an error.    *)
ReadCallback ==
  /\ at = "array"
  /\ \/ /\ pos < Len(image.file) /\ image.file[pos + 1] # 0
        /\ list' = Append(list, image.file[pos + 1])
        /\ pos' = pos + 1
        /\ Goes("array") /\ UNCHANGED <<handle, parts, image>>
     \/ Answers(SoFar)

(* NtQueryInformationProcess fails, or gives no PEB. *)
NoPeb == at = "peb" /\ pos = 1 /\ Answers(SoFar)

(* One ReadProcessMemory, which may fail and does if the process has ended:*)
(* the field stays zero. The heap is looked at if its address is known.    *)
ReadPeb ==
  /\ at = "peb"
  /\ \E now \in {parts, [parts EXCEPT ![PebFields[pos]] = handle]} :
       /\ handle \in Alive \/ now = parts
       /\ IF pos = Len(PebFields) \/ (PebFields[pos] = "heap" /\ now["heap"] = NoProc)
          THEN Answers(Parts(now))
          ELSE /\ parts' = now /\ pos' = pos + 1
               /\ Goes("peb") /\ UNCHANGED <<handle, image, list>>

-----------------------------------------------------------------------------
(* Patches.                                                                *)

dbg_get_patches ==
  /\ at = "idle"
  /\ \E s \in SUBSET Patches :
       IF s = {} THEN AnswersAtOnce("dbg_get_patches", List({}))
       ELSE /\ cmd' = "dbg_get_patches" /\ at' = "patches"
            /\ first' = s /\ patches' = s
            /\ UNCHANGED <<environment, handle, asked, reply, pid, walk, parts, image, pos, list>>

(* The user makes patches and takes them back. *)
UserPatches ==
  /\ at = "patches"
  /\ patches' \in SUBSET Patches
  /\ UNCHANGED <<suspendVars, cmd, parts, image, pos, list, first>>

(* PatchEnum fills the buffer, which has room for as many patches as were  *)
(* counted, behind its end too if there are more now, and counts again.    *)
EnumPatches ==
  /\ at = "patches"
  /\ \/ Cardinality(patches) <= Cardinality(first) /\ Answers(List(patches))
     \/ Cardinality(patches) > Cardinality(first) /\ Undefined(cmd)
     \/ Answers(List({}))

-----------------------------------------------------------------------------
(* Commands of one call.                                                   *)

Unchecked == {"dbg_memmap", "dbg_get_callstack", "dbg_get_threads", "dbg_get_seh_chain"}
Checked   == {"dbg_get_modules", "dbg_get_handles"}
Constants == {"get_debugger_pid", "get_compat_v", "get_debugger_version", "dbg_get_bitness",
              "dbg_is_elevated", "gui_refresh_views"}

(* Some commands look at what the call returned, and answer an empty list  *)
(* if it failed. The others pass a structure that is not initialised, and  *)
(* go through it and free it whatever the call has left in it: if it left  *)
(* it as it was, anything.                                                 *)
Lists(c) ==
  /\ at = "idle"
  /\ \/ AnswersAtOnce(c, List({c}))
     \/ AnswersAtOnce(c, List({}))
     \/ c \in Unchecked /\ Undefined(c)

Constant(c) == AnswersAtOnce(c, Value)

(* The dump is the debuggee's, or, as the result of DbgGetRegDumpEx is not *)
(* looked at and rd not initialised, whatever was on the stack (of NoProc).*)
dbg_read_regs ==
  /\ at = "idle"
  /\ \E rd \in Dumps, of \in {debuggee, NoProc} :
       AnswersAtOnce("dbg_read_regs",
                     [head |-> "regs", of |-> of, rd |-> rd, regs |-> RegDump(rd)])

-----------------------------------------------------------------------------
Init ==
  /\ SuspendInit
  /\ cmd = "none" /\ parts = Nothing /\ image = NoImage /\ pos = 0 /\ list = <<>>
  /\ first = {} /\ patches = {}

Suspend ==
  /\ \/ dbg_suspend_all_threads /\ cmd' = "dbg_suspend_all_threads"
     \/ WalkNext /\ cmd' = cmd
  /\ UNCHANGED <<parts, image, pos, list, first, patches>>

Sent ==
  /\ NextRequest
  /\ cmd' = "none"
  /\ UNCHANGED <<parts, image, pos, list, first, patches>>

(* The steps of a command once it is under way. *)
Continues ==
  \/ DbgGetThreadId \/ OpenProcess \/ QueryName \/ ReadHeaders
  \/ ReadDirectory \/ ReadCallback \/ NoPeb \/ ReadPeb \/ EnumPatches
  \/ Suspend /\ at # "idle"

Next ==
  \/ Suspend \/ Sent \/ Continues
  \/ dbg_get_peb \/ dbg_get_tls_callbacks \/ dbg_get_process_info
  \/ dbg_get_patches \/ dbg_read_regs
  \/ \E c \in Unchecked \union Checked : Lists(c)
  \/ \E c \in Constants : Constant(c)
  \/ UserPatches
  \/ at # "undefined" /\ Elsewhere /\ UNCHANGED locals

Spec == Init /\ [][Next]_vars

(* A command that has begun runs on. *)
FairSpec == Spec /\ WF_vars(Continues)

-----------------------------------------------------------------------------
(* Properties.                                                             *)

Steps == {"idle", "packed", "undefined", "tid", "open", "name", "file", "directory",
          "array", "peb", "patches"} \union WalkSteps

(* Types of the server thread's variables, over those of the environment.  *)
(* Suspend counts do not pass their limit, and a position in the file is a *)
(* DWORD, or was reached by reading on from one.                           *)
TypeOK ==
  /\ DebuggeeTypeOK
  /\ suspends \in [Tids -> 0 .. MaxSuspends]
  /\ at \in Steps
  /\ pid \in Pids \union {0}
  /\ todo \subseteq Tids \X Pids
  /\ suspended \in Nat /\ failed \in Nat /\ stopped \subseteq Tids
  /\ parts \in [Part -> Procs \union {NoProc}]
  /\ image \in Images \union {NoImage}
  /\ pos \in 0 .. Dword - 1 + Len(image.file) /\ list \in Seq(0 .. Dword - 1)
  /\ {first, patches} \subseteq SUBSET Patches

(* Whatever way a command ends, it has closed the handle it had opened: a  *)
(* handle kept would keep the process's or the thread's id from being used *)
(* again.                                                                  *)
HandlesClosed == at \in {"idle", "packed"} => handle = NoHandle

(* The parts of a reply read by different calls are of one process, which  *)
(* has the id the reply begins with and is the one that was debugged when  *)
(* the command asked, unless that one has ended. Only the thread id may be *)
(* of a debuggee that came since.                                          *)
OneProcess ==
  [][at # "packed" /\ at' = "packed" /\ reply'.head = "parts" =>
       LET of == {reply'.parts[x] : x \in Part \ {"tid"}} \ {NoProc}
       IN  /\ \A p \in of : pidOf[p] = pid /\ (p = asked \/ asked \in ended)
           /\ Cardinality(of) <= 1
           /\ reply'.parts["tid"] \in {NoProc, asked} \/ left \/ asked = NoProc]_vars

(* The callbacks are a run of non-zero DWORDs of the program file, whether *)
(* or not there is a zero to end them. If the whole directory was in the   *)
(* file the run begins at the address it names, taken relative to the      *)
(* program and modulo 2^32; but right behind the directory where that is   *)
(* an address SetFilePointer refuses.                                      *)
CallbacksFromFile ==
  at = "array" =>
    LET start == pos - Len(list)
        rva   == (image.file[DirectoryAt + 4] + Dword - image.base) % Dword
    IN  /\ list # <<>> => pos <= Len(image.file)
        /\ \A j \in 1 .. Len(list) : list[j] = image.file[start + j] /\ list[j] # 0
        /\ DirectoryAt + 6 <= Len(image.file) =>
             start = IF 2 * rva < Dword THEN rva ELSE DirectoryAt + 6

(* The fields of a reply of dbg_read_regs are those the processor defines. *)
RegistersDecoded ==
  at = "packed" /\ reply.head = "regs" => Faithful(reply.regs, reply.rd)

(* "// Calculated", the comment over the structure of the flags: they are  *)
(* calculated from EFLAGS.                                                 *)
FlagsCalculated ==
  at = "packed" /\ reply.head = "regs" =>
    \A i \in 1 .. 9 : reply.regs.flags[i] = Bit(reply.regs.eflags, FlagBits[i])

(* How far a command is from its end: the calls it makes once, and, of the *)
(* one it makes again and again, the turns left.                           *)
Stage ==
  CASE at = "tid" -> 6
    [] at = "open" -> 5
    [] at \in {"name", "peb"} -> 4
    [] at = "file" -> 3
    [] at \in {"directory", "snapshot"} -> 2
    [] at \in {"array", "patches", "walk", "opened"} -> 1
    [] OTHER -> 0

TurnsLeft ==
  CASE at = "peb" -> Len(PebFields) - pos
    [] at = "array" /\ pos < Len(image.file) -> Len(image.file) - pos
    [] at = "walk" -> 2 * Cardinality(todo)
    [] at = "opened" -> 2 * Cardinality(todo) + 1
    [] OTHER -> 0

Nearer ==
  \/ Stage' < Stage
  \/ Stage' = Stage /\ TurnsLeft' \in 0 .. TurnsLeft - 1

(* While a command is under way each of its own steps brings it nearer to  *)
(* its end, and nothing the debuggee or the user does takes it further     *)
(* away: the walk over the threads is over those of the snapshot, however  *)
(* many are started meanwhile.                                             *)
NearsEnd ==
  [][at \notin {"idle", "packed", "undefined"} =>
       \/ Continues /\ Nearer
       \/ ~Continues /\ UNCHANGED <<Stage, TurnsLeft>>]_vars

(* Every command returns, or ends in undefined behaviour, however the      *)
(* debuggee's threads come and go.                                         *)
CommandReturns == at \notin {"idle", "undefined"} ~> at \in {"packed", "undefined"}
=============================================================================
