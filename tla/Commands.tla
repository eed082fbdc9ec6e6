------------------------------ MODULE Commands ------------------------------
(***************************************************************************)
(* The commands that take arguments (src/src/xauto_cmd.cpp), as the server *)
(* thread carries them out: the check of the arguments, the calls into     *)
(* x64dbg, and the object packed as the reply. The debuggee, and x64dbg's  *)
(* user where UserActs, change the same state at any step. What a lookup   *)
(* finds in x64dbg's databases is left open.                               *)
(***************************************************************************)
EXTENDS Naturals, Sequences

CONSTANTS
  Requests,   (* what clients send: a command and its arguments            *)
  Beyond,     (* what the memory after a request's array may read as       *)
  Addr,       (* addresses of the debuggee's memory                        *)
  Value,      (* contents of a cell, values of a setting and of $result    *)
  Huge,       (* sizes from here on cannot be allocated, nor numbers from  *)
              (* here on converted to 32 bits                              *)
  Keys,       (* <<section, name>> of the settings                         *)
  UserActs,   (* does the user of x64dbg do anything?                      *)
  Unreadable, Missing,  (* memory that cannot be read, no such setting     *)
  NoReply

(* An element of a request after its head: its MessagePack type and value. *)
Argument == [type : {"STR", "BIN", "OTHER"}, v : Value] \union [type : {"INT"}, v : Nat]

WithAddress ==
  {"dbg_is_valid_read_ptr", "disassemble_at", "get_breakpoints", "get_comment_at",
   "get_symbol_at", "dbg_get_xrefs", "dbg_get_function", "dbg_analyze_function",
   "dbg_get_string"}

(* The arguments each command needs. *)
Needs(cmd) ==
  CASE cmd \in {"dbg_eval", "dbg_cmd_exec_direct", "dbg_cmd_exec_direct_ex"} -> <<"STR">>
    [] cmd \in {"dbg_is_running", "dbg_is_debugging"} -> <<>>
    [] cmd \in WithAddress                     -> <<"INT">>
    [] cmd \in {"dbg_read_memory", "get_label_at"} -> <<"INT", "INT">>
    [] cmd = "dbg_write_memory"                -> <<"INT", "BIN">>
    [] cmd = "assemble_at"                     -> <<"INT", "STR">>
    [] cmd = "dbg_virtual_protect_ex"          -> <<"INT", "INT", "INT">>
    [] cmd \in {"dbg_read_setting_sz", "dbg_read_setting_uint"} -> <<"STR", "STR">>
    [] cmd = "dbg_write_setting_sz"            -> <<"STR", "STR", "STR">>
    [] cmd = "dbg_write_setting_uint"          -> <<"STR", "STR", "INT">>

Cmds == WithAddress \union
  {"dbg_eval", "dbg_cmd_exec_direct", "dbg_cmd_exec_direct_ex", "dbg_is_running",
   "dbg_is_debugging", "dbg_read_memory", "dbg_write_memory", "get_label_at", "assemble_at", "dbg_virtual_protect_ex",
   "dbg_read_setting_sz", "dbg_read_setting_uint", "dbg_write_setting_sz",
   "dbg_write_setting_uint"}

Request == [cmd : Cmds, args : Seq(Argument)]
Setting == [type : {"sz", "uint"}, v : Nat]
Debuggers == {"none", "running", "paused"}

(* A reply is an error tuple (XERROR_..., message), or true or false, or a *)
(* value, which may come with a flag.                                      *)
Reply == [head : {"XERROR", "TRUE", "FALSE"}]
           \union [head : {"value"}, ok : BOOLEAN, v : Nat]

ASSUME CommandsAssumption ==
  /\ Requests \subseteq Request /\ Beyond \subseteq Argument
  /\ Addr \subseteq Nat /\ Keys \subseteq Nat \X Nat
  /\ 0 \in Value /\ Value \subseteq Nat
  /\ Huge \in Nat /\ UserActs \in BOOLEAN
  /\ Unreadable \notin Value /\ Missing \notin Setting /\ NoReply \notin Reply

VARIABLES
  debugger,  (* is there a debuggee, and does it run?                      *)
  mem,       (* the debuggee's memory                                      *)
  result,    (* x64dbg's variable $result                                  *)
  settings,  (* x64dbg.ini                                                 *)
  at,        (* "idle", "eval" (inside a command) or "gone"                *)
  reply,     (* the last reply packed, or NoReply                          *)
  success,   (* dbg_cmd_exec_direct_ex: the command's success              *)
  own,       (* history: $result as that command left it, and whether the  *)
             (* user has changed anything since                            *)
  last       (* history: had the last request its arguments, and did       *)
             (* carrying it out change anything?                           *)

target == <<debugger, mem, result, settings>>
local  == <<success, own>>
vars   == <<target, at, reply, local, last>>

-----------------------------------------------------------------------------
(* Arguments and replies.                                                  *)

(* Mutant of Has: the types not looked at. *)
HasSize(q, types) == Len(q.args) >= Len(types)

(* The check at the head of a command: array size and types. *)
Has(q, types) ==
  /\ Len(q.args) >= Len(types)
  /\ \A i \in 1 .. Len(types) : q.args[i].type = types[i]

Checks(q) == Has(q, Needs(q.cmd))

(* What the check is for. *)
Complete(q) ==
  LET n == Len(Needs(q.cmd))
  IN  Len(q.args) >= n /\ [i \in 1 .. n |-> q.args[i].type] = Needs(q.cmd)

Arg(q, i) == q.args[i].v

XError     == [head |-> "XERROR"]
Bool(b)    == [head |-> IF b THEN "TRUE" ELSE "FALSE"]
Found(b,v) == [head |-> "value", ok |-> b, v |-> v]

(* The server thread takes the next request when it is done with the last. *)
(* (Anytime is a mutant of Idle: a thread for each request.)               *)
Anytime == at # "gone"
Idle    == at = "idle"

Takes(q, cmd) == Idle /\ q.cmd = cmd

Replies(r) == reply' = r /\ UNCHANGED <<at, local>>
Only(r)    == Replies(r) /\ UNCHANGED target   (* and nothing changes *)

(* The process ends: of an exception other than zmq::error_t, or because   *)
(* memory is freed that was never allocated.                               *)
Throws == at' = "gone" /\ UNCHANGED <<target, reply, local>>

-----------------------------------------------------------------------------
(* Commands for x64dbg. One may change anything in the debuggee.           *)

NoMemory == [a \in Addr |-> Unreadable]

Command == /\ debugger' \in Debuggers
           /\ mem' \in IF debugger' = "none" THEN {NoMemory}
                      ELSE [Addr -> Value \union {Unreadable}]
           /\ result' \in Value
           /\ UNCHANGED settings

dbg_eval(q) ==
  /\ Takes(q, "dbg_eval")
  /\ IF Checks(q)
     THEN /\ \E b \in BOOLEAN, v \in Value : Replies(Found(b, v))
          /\ UNCHANGED target
     ELSE Only(XError)

dbg_cmd_exec_direct(q) ==
  /\ Takes(q, "dbg_cmd_exec_direct")
  /\ IF Checks(q) THEN Command /\ \E b \in BOOLEAN : Replies(Bool(b))
     ELSE Only(XError)

NoResult == [v |-> 0, user |-> FALSE]

(* The first of the two calls of dbg_cmd_exec_direct_ex ...                *)
dbg_cmd_exec_direct_ex(q) ==
  /\ Takes(q, "dbg_cmd_exec_direct_ex")
  /\ IF Checks(q)
     THEN /\ Command
          /\ success' \in BOOLEAN
          /\ own' = [v |-> result', user |-> FALSE]
          /\ at' = "eval"
          /\ UNCHANGED reply
     ELSE Only(XError)

(* ... and the second: DbgEval("$result").                                 *)
EvalResult ==
  /\ at = "eval"
  /\ reply' = Found(success, result)
  /\ at' = "idle"
  /\ success' = FALSE /\ own' = NoResult
  /\ UNCHANGED <<target, last>>

dbg_is_running(q) ==
  Takes(q, "dbg_is_running") /\ Only(Bool(debugger = "running"))

dbg_is_debugging(q) ==
  Takes(q, "dbg_is_debugging") /\ Only(Bool(debugger # "none"))

-----------------------------------------------------------------------------
(* Memory.                                                                 *)

Readable(a) == a \in Addr /\ mem[a] # Unreadable

(* Mutant of dbg_read_memory: what the read returns not looked at.         *)
ReadMemoryGoesOn(q) ==
  /\ Takes(q, "dbg_read_memory")
  /\ \/ ~Checks(q) /\ Only(XError)
     \/ Checks(q) /\ Arg(q, 2) >= Huge /\ Throws
     \/ /\ Checks(q) /\ Arg(q, 2) < Huge
        /\ Only(Found(TRUE, mem[Arg(q, 1)]))

dbg_read_memory(q) ==
  /\ Takes(q, "dbg_read_memory")
  /\ \/ ~Checks(q) /\ Only(XError)
     \/ Checks(q) /\ Arg(q, 2) >= Huge /\ Throws
     \/ /\ Checks(q) /\ Arg(q, 2) < Huge
        /\ IF Readable(Arg(q, 1)) THEN Replies(Found(TRUE, mem[Arg(q, 1)]))
           ELSE Replies(XError)
        /\ UNCHANGED target

(* A write that fails may have changed a part of what was to be written.   *)
(* What cannot be read cannot be written either.                           *)
dbg_write_memory(q) ==
  /\ Takes(q, "dbg_write_memory")
  /\ \/ Only(XError)
     \/ /\ Checks(q) /\ Readable(Arg(q, 1))
        /\ \/ /\ mem' = [mem EXCEPT ![Arg(q, 1)] = Arg(q, 2)]
              /\ Replies(Bool(TRUE))
           \/ /\ \E v \in Value : mem' = [mem EXCEPT ![Arg(q, 1)] = v]
              /\ Replies(XError)
        /\ UNCHANGED <<debugger, result, settings>>

(* Here arguments that are missing and a call that fails look the same. *)
dbg_is_valid_read_ptr(q) ==
  /\ Takes(q, "dbg_is_valid_read_ptr")
  /\ Only(Bool(Checks(q) /\ Readable(Arg(q, 1))))

assemble_at(q) ==
  /\ Takes(q, "assemble_at")
  /\ \/ Only(Bool(FALSE))
     \/ /\ Checks(q) /\ Readable(Arg(q, 1))
        /\ \E v \in Value : mem' = [mem EXCEPT ![Arg(q, 1)] = v]
        /\ Replies(Bool(TRUE))
        /\ UNCHANGED <<debugger, result, settings>>

(* No debuggee, no handle of it and a call that fails look the same; so do *)
(* a range of addresses that can be read no more, or again.                *)
dbg_virtual_protect_ex(q) ==
  /\ Takes(q, "dbg_virtual_protect_ex")
  /\ \/ ~Checks(q) /\ Only(XError)
     \/ Checks(q) /\ Arg(q, 3) >= Huge /\ Throws
     \/ Checks(q) /\ Arg(q, 3) < Huge /\ Only(Bool(FALSE))
     \/ /\ Checks(q) /\ Arg(q, 3) < Huge /\ debugger # "none"
        /\ Arg(q, 1) \in Addr
        /\ \E v \in Value \union {Unreadable} : mem' = [mem EXCEPT ![Arg(q, 1)] = v]
        /\ Replies(Bool(TRUE))
        /\ UNCHANGED <<debugger, result, settings>>

-----------------------------------------------------------------------------
(* Settings.                                                               *)

Key(q) == <<Arg(q, 1), Arg(q, 2)>>

ASSUME KeysAssumption ==
  \A q \in Requests :
    Complete(q) /\ Len(Needs(q.cmd)) >= 2 /\ Needs(q.cmd)[1] = "STR" => Key(q) \in Keys

(* Any setting is a text; a missing one reads as the empty one. *)
dbg_read_setting_sz(q) ==
  /\ Takes(q, "dbg_read_setting_sz")
  /\ IF ~Checks(q) THEN Replies(XError)
     ELSE IF settings[Key(q)] = Missing THEN Replies(Found(FALSE, 0))
     ELSE Replies(Found(TRUE, settings[Key(q)].v))
  /\ UNCHANGED target

(* Of a setting that is no number, setting_val is not initialised. *)
dbg_read_setting_uint(q) ==
  /\ Takes(q, "dbg_read_setting_uint")
  /\ IF ~Checks(q) THEN Replies(XError)
     ELSE IF settings[Key(q)] # Missing /\ settings[Key(q)].type = "uint"
     THEN Replies(Found(TRUE, settings[Key(q)].v))
     ELSE \E v \in Value : Replies(Found(FALSE, v))
  /\ UNCHANGED target

(* The third argument: the size check is for two, so without a third one   *)
(* the type looked at is of whatever lies behind the array.                *)
Third(q) == IF Len(q.args) >= 3 THEN {q.args[3]} ELSE Beyond

WriteSetting(q, argType, setType) ==
  \E third \in Third(q) :
    IF Has(q, <<"STR", "STR">>) /\ third.type = argType
    THEN \/ /\ settings' = [settings EXCEPT ![Key(q)] = [type |-> setType, v |-> third.v]]
            /\ Replies(Bool(TRUE))
            /\ UNCHANGED <<debugger, mem, result>>
         \/ Only(Bool(FALSE))
    ELSE Only(XError)

dbg_write_setting_sz(q) ==
  Takes(q, "dbg_write_setting_sz") /\ WriteSetting(q, "STR", "sz")

dbg_write_setting_uint(q) ==
  Takes(q, "dbg_write_setting_uint") /\ WriteSetting(q, "INT", "uint")

-----------------------------------------------------------------------------
(* Lookups: what they find is up to x64dbg; a command either has a reply   *)
(* of its own for "nothing found" or replies an empty value.               *)

Anything == [head : {"value"}, ok : BOOLEAN, v : Value]
Always   == [head : {"value"}, ok : {TRUE}, v : Value]

Lookup(q, cmd, rejected, found) ==
  /\ Takes(q, cmd)
  /\ \E r \in IF Checks(q) THEN found ELSE {rejected} : Only(r)

disassemble_at(q)  == Lookup(q, "disassemble_at", Bool(FALSE), Always)
get_label_at(q)    == Lookup(q, "get_label_at", Bool(FALSE), Anything)
get_comment_at(q)  == Lookup(q, "get_comment_at", Bool(FALSE), Anything)
get_symbol_at(q)   == Lookup(q, "get_symbol_at", Bool(FALSE), Anything)
dbg_get_xrefs(q)   == Lookup(q, "dbg_get_xrefs", XError, Always \union {XError})
dbg_get_function(q) == Lookup(q, "dbg_get_function", XError, Always \union {XError})
dbg_analyze_function(q) ==
  Lookup(q, "dbg_analyze_function", XError, Always \union {XError})
dbg_get_string(q)  == Lookup(q, "dbg_get_string", XError, Always)

(* The list is freed whatever DbgGetBpList has left in it, which was not   *)
(* initialised: if it lists nothing that may be any address.               *)
get_breakpoints(q) ==
  \/ Lookup(q, "get_breakpoints", Bool(FALSE), Always)
  \/ Takes(q, "get_breakpoints") /\ Checks(q) /\ Throws

-----------------------------------------------------------------------------
(* What others do meanwhile.                                               *)

(* A debuggee that runs writes its memory, and may stop or end. *)
DebuggeeRuns ==
  /\ at # "gone" /\ debugger = "running"
  /\ \/ /\ debugger' \in {"running", "paused"}
        /\ \E a \in Addr, v \in Value : mem' = [mem EXCEPT ![a] = v]
     \/ debugger' = "none" /\ mem' = NoMemory
  /\ UNCHANGED <<result, settings, at, reply, local, last>>

(* The user runs commands, and edits the settings. *)
User ==
  /\ UserActs /\ at # "gone"
  /\ \/ Command
     \/ /\ settings' \in [Keys -> [type : {"sz", "uint"}, v : Value] \union {Missing}]
        /\ UNCHANGED <<debugger, mem, result>>
  /\ own' = [own EXCEPT !.user = at = "eval"]
  /\ UNCHANGED <<at, reply, success, last>>

-----------------------------------------------------------------------------
Init ==
  /\ debugger = "none"
  /\ mem = NoMemory
  /\ result = 0
  /\ settings = [k \in Keys |-> Missing]
  /\ at = "idle" /\ reply = NoReply
  /\ success = FALSE /\ own = NoResult
  /\ last = [complete |-> TRUE, changed |-> FALSE]

Carries(q) ==
  /\ \/ dbg_is_running(q) \/ dbg_is_debugging(q)
     \/ dbg_eval(q) \/ dbg_cmd_exec_direct(q) \/ dbg_cmd_exec_direct_ex(q)
     \/ dbg_read_memory(q) \/ dbg_write_memory(q) \/ dbg_is_valid_read_ptr(q)
     \/ assemble_at(q) \/ dbg_virtual_protect_ex(q)
     \/ dbg_read_setting_sz(q) \/ dbg_read_setting_uint(q)
     \/ dbg_write_setting_sz(q) \/ dbg_write_setting_uint(q)
     \/ disassemble_at(q) \/ get_breakpoints(q) \/ get_label_at(q)
     \/ get_comment_at(q) \/ get_symbol_at(q) \/ dbg_get_xrefs(q)
     \/ dbg_get_function(q) \/ dbg_analyze_function(q) \/ dbg_get_string(q)
  /\ last' = [complete |-> Complete(q), changed |-> target' # target]

Next == (\E q \in Requests : Carries(q)) \/ EvalResult \/ DebuggeeRuns \/ User

Spec == Init /\ [][Next]_vars

-----------------------------------------------------------------------------
(* Properties.                                                             *)

(* Every variable keeps to its range; in particular every reply is one     *)
(* object of a form the client knows.                                      *)
TypeOK ==
  /\ debugger \in Debuggers
  /\ mem \in [Addr -> Value \union {Unreadable}]
  /\ result \in Value
  /\ settings \in [Keys -> Setting \union {Missing}]
  /\ at \in {"idle", "eval", "gone"}
  /\ reply \in Reply \union {NoReply}
  /\ success \in BOOLEAN
  /\ own \in [v : Value, user : BOOLEAN]
  /\ last \in [complete : BOOLEAN, changed : BOOLEAN]

(* A request that lacks an argument the command needs, or has one of the   *)
(* wrong type, is not carried out and gets a reply that says so: "Invalid  *)
(* or missing ...", or false.                                              *)
IncompleteIsRejected ==
  ~last.complete => reply \in {XError, Bool(FALSE)} /\ ~last.changed

(* The comment in dbg_cmd_exec_direct_ex: capturing $result in one         *)
(* round-trip keeps other requests from changing it first. Unless the user *)
(* did so in between, the value returned is the one the command left.      *)
ResultIsOwn == [][EvalResult /\ ~own.user => reply'.v = own.v]_vars
=============================================================================
