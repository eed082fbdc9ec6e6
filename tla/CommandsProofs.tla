--------------------------- MODULE CommandsProofs ---------------------------
(***************************************************************************)
(* Proofs about Commands for any requests, memory, values and settings:    *)
(* types, that a request without its arguments is rejected, and that the   *)
(* value returned with a command is the one the command left.              *)
(***************************************************************************)
EXTENDS Commands, SequenceTheorems, TLAPS

-----------------------------------------------------------------------------
(* The check at the head of a command.                                     *)

Types == {"STR", "BIN", "INT"}

LEMMA NeedsType ==
  ASSUME NEW c \in Cmds
  PROVE  Needs(c) \in Seq(Types)
  <1>1. Needs(c) \in {<<>>, <<"STR">>, <<"INT">>, <<"INT", "INT">>, <<"INT", "BIN">>,
                      <<"INT", "STR">>, <<"INT", "INT", "INT">>, <<"STR", "STR">>,
                      <<"STR", "STR", "STR">>, <<"STR", "STR", "INT">>}
    BY DEF Needs, Cmds, WithAddress
  <1>2. <<>> \in Seq(Types) /\ \A x \in Types : <<x>> \in Seq(Types)
    OBVIOUS
  <1>3. \A x, y \in Types : <<x, y>> \in Seq(Types)
    OBVIOUS
  <1>4. \A x, y, z \in Types : <<x, y, z>> \in Seq(Types)
    OBVIOUS
  <1> QED
    BY <1>1, <1>2, <1>3, <1>4 DEF Types

LEMMA RequestType ==
  ASSUME NEW q \in Requests
  PROVE  /\ q.cmd \in Cmds /\ q.args \in Seq(Argument) /\ Len(q.args) \in Nat
         /\ \A i \in 1 .. Len(q.args) : q.args[i] \in Argument
         /\ Needs(q.cmd) \in Seq(Types) /\ Len(Needs(q.cmd)) \in Nat
  <1>1. q \in Request
    BY CommandsAssumption
  <1>2. q.cmd \in Cmds /\ q.args \in Seq(Argument)
    BY <1>1 DEF Request
  <1> QED
    BY <1>2, NeedsType, ElementOfSeq, LenProperties

(* The check is what it is for: size and types. *)
LEMMA ChecksComplete ==
  ASSUME NEW q \in Requests
  PROVE  Checks(q) <=> Complete(q)
  <1> DEFINE need == Needs(q.cmd)
             n == Len(need)
             types == [i \in 1 .. n |-> q.args[i].type]
  <1>1. need \in Seq(Types) /\ n \in Nat
    BY RequestType
  <1>2. need = [i \in 1 .. n |-> need[i]]
    BY <1>1, LenProperties, SeqDef
  <1> HIDE DEF need, n
  <1>3. (\A i \in 1 .. n : q.args[i].type = need[i]) <=> types = need
    <2>1. ASSUME types = need, NEW i \in 1 .. n PROVE q.args[i].type = need[i]
      <3>1. types[i] = q.args[i].type
        OBVIOUS
      <3> QED
        BY <2>1, <3>1
    <2>2. ASSUME \A i \in 1 .. n : q.args[i].type = need[i] PROVE types = need
      BY <1>2, <2>2
    <2> QED
      BY <2>1, <2>2
  <1> QED
    BY <1>3 DEF Checks, Has, Complete, need, n

(* What a command that went on may take its arguments for. *)
LEMMA ArgumentTypes ==
  ASSUME NEW q \in Requests, Checks(q), NEW i \in 1 .. Len(Needs(q.cmd))
  PROVE  Arg(q, i) \in Nat /\ (Needs(q.cmd)[i] # "INT" => Arg(q, i) \in Value)
  <1>1. q.args[i] \in Argument /\ q.args[i].type = Needs(q.cmd)[i]
    BY RequestType DEF Checks, Has
  <1> QED
    BY <1>1, CommandsAssumption DEF Argument, Arg

-----------------------------------------------------------------------------
(* What every command leaves behind it.                                    *)

TargetOK ==
  /\ debugger \in Debuggers
  /\ mem \in [Addr -> Value \union {Unreadable}]
  /\ result \in Value
  /\ settings \in [Keys -> Setting \union {Missing}]

LocalOK ==
  /\ at \in {"idle", "eval", "gone"}
  /\ success \in BOOLEAN
  /\ own \in [v : Value, user : BOOLEAN]

ReplyOK == reply \in Reply \union {NoReply}

Rejected == reply' \in {XError, Bool(FALSE)} /\ target' = target

(* The request is not one whose third argument is looked for behind the    *)
(* end of its array.                                                       *)
WithinArray(q) ==
  q.cmd \in {"dbg_write_setting_sz", "dbg_write_setting_uint"} => Len(q.args) >= 3

(* A step that carries out q keeps the types, and rejects q when it must.  *)
Handled(q) ==
  TargetOK' /\ LocalOK' /\ ReplyOK' /\ (~Complete(q) /\ WithinArray(q) => Rejected)

LEMMA ReplyForms ==
  /\ XError \in Reply
  /\ \A b \in BOOLEAN : Bool(b) \in Reply
  /\ \A b \in BOOLEAN, v \in Nat : Found(b, v) \in Reply
  BY DEF XError, Bool, Found, Reply

LEMMA LookupForms == Anything \subseteq Reply /\ Always \subseteq Reply
  BY CommandsAssumption DEF Anything, Always, Reply

(* A reply, and nothing changed. *)
LEMMA HandledOnly ==
  ASSUME TypeOK, NEW q \in Requests, NEW r \in Reply, Only(r),
         Complete(q) \/ r \in {XError, Bool(FALSE)}
  PROVE  Handled(q)
  BY DEF Handled, TypeOK, TargetOK, LocalOK, ReplyOK, Rejected, Only, Replies, target, local

(* A reply to a request that has its arguments. *)
LEMMA HandledReplies ==
  ASSUME TypeOK, NEW q \in Requests, Complete(q), NEW r \in Reply, Replies(r), TargetOK'
  PROVE  Handled(q)
  BY DEF Handled, TypeOK, LocalOK, ReplyOK, Replies, local

LEMMA HandledThrows ==
  ASSUME TypeOK, NEW q \in Requests, Complete(q), Throws
  PROVE  Handled(q)
  BY DEF Handled, TypeOK, TargetOK, LocalOK, ReplyOK, Throws, target, local

LEMMA CommandType == TypeOK /\ Command => TargetOK'
  <1> SUFFICES ASSUME TypeOK, Command PROVE TargetOK'
    OBVIOUS
  <1>1. mem' \in [Addr -> Value \union {Unreadable}]
    BY DEF Command, NoMemory
  <1> QED
    BY <1>1 DEF Command, TypeOK, TargetOK

(* One cell is written. *)
LEMMA CellType ==
  ASSUME TypeOK, NEW a, NEW v \in Value \union {Unreadable},
         mem' = [mem EXCEPT ![a] = v], UNCHANGED <<debugger, result, settings>>
  PROVE  TargetOK'
  BY DEF TypeOK, TargetOK

-----------------------------------------------------------------------------
(* The commands.                                                           *)

LEMMA HandledLookup ==
  ASSUME TypeOK, NEW q \in Requests, NEW cmd, NEW rejected \in {XError, Bool(FALSE)},
         NEW found \in SUBSET Reply, Lookup(q, cmd, rejected, found)
  PROVE  Handled(q)
  <1>1. PICK r \in IF Checks(q) THEN found ELSE {rejected} : Only(r)
    BY DEF Lookup
  <1>2. r \in Reply /\ (Complete(q) \/ r \in {XError, Bool(FALSE)})
    BY <1>1, ChecksComplete, ReplyForms
  <1> QED
    BY <1>1, <1>2, HandledOnly

LEMMA HandledLookups ==
  ASSUME TypeOK, NEW q \in Requests,
         \/ disassemble_at(q) \/ get_breakpoints(q) \/ get_label_at(q)
         \/ get_comment_at(q) \/ get_symbol_at(q) \/ dbg_get_xrefs(q)
         \/ dbg_get_function(q) \/ dbg_analyze_function(q) \/ dbg_get_string(q)
  PROVE  Handled(q)
  <1>1. /\ Anything \in SUBSET Reply /\ Always \in SUBSET Reply
        /\ Always \union {XError} \in SUBSET Reply
    BY LookupForms, ReplyForms
  <1>2. \/ \E cmd : \E rejected \in {XError, Bool(FALSE)}, found \in SUBSET Reply :
             Lookup(q, cmd, rejected, found)
        \/ Checks(q) /\ Throws
    BY <1>1, Zenon DEF disassemble_at, get_breakpoints, get_label_at, get_comment_at,
       get_symbol_at, dbg_get_xrefs, dbg_get_function, dbg_analyze_function, dbg_get_string
  <1> QED
    BY <1>2, HandledLookup, HandledThrows, ChecksComplete

LEMMA HandledExec ==
  ASSUME TypeOK, NEW q \in Requests,
         \/ dbg_is_running(q) \/ dbg_is_debugging(q)
         \/ dbg_eval(q) \/ dbg_cmd_exec_direct(q) \/ dbg_cmd_exec_direct_ex(q)
  PROVE  Handled(q)
  <1> USE ReplyForms, CommandsAssumption, ChecksComplete
  <1>1. CASE dbg_is_running(q) \/ dbg_is_debugging(q)
    <2>1. q.cmd \in {"dbg_is_running", "dbg_is_debugging"}
          /\ \E b \in BOOLEAN : Only(Bool(b))
      BY <1>1 DEF dbg_is_running, dbg_is_debugging, Takes
    <2>2. Complete(q)
      <3>1. Needs(q.cmd) = <<>>
        BY <2>1 DEF Needs, WithAddress
      <3>2. Checks(q)
        BY <3>1, RequestType DEF Checks, Has
      <3> QED
        BY <3>2
    <2> QED
      BY <2>1, <2>2, HandledOnly
  <1>2. CASE dbg_eval(q)
    <2>1. CASE Checks(q)
      BY <1>2, <2>1, HandledReplies DEF dbg_eval, TypeOK, TargetOK, target
    <2>2. CASE ~Checks(q)
      BY <1>2, <2>2, HandledOnly DEF dbg_eval
    <2> QED
      BY <2>1, <2>2
  <1>3. CASE dbg_cmd_exec_direct(q)
    <2>1. CASE Checks(q)
      BY <1>3, <2>1, HandledReplies, CommandType DEF dbg_cmd_exec_direct
    <2>2. CASE ~Checks(q)
      BY <1>3, <2>2, HandledOnly DEF dbg_cmd_exec_direct
    <2> QED
      BY <2>1, <2>2
  <1>4. CASE dbg_cmd_exec_direct_ex(q)
    <2>1. CASE Checks(q)
      <3>1. /\ Command /\ success' \in BOOLEAN /\ own' = [v |-> result', user |-> FALSE]
            /\ at' = "eval" /\ UNCHANGED reply
        BY <1>4, <2>1 DEF dbg_cmd_exec_direct_ex
      <3>2. TargetOK' /\ result' \in Value
        BY <3>1, CommandType DEF TargetOK
      <3> QED
        BY <2>1, <3>1, <3>2 DEF Handled, LocalOK, ReplyOK, TypeOK
    <2>2. CASE ~Checks(q)
      BY <1>4, <2>2, HandledOnly DEF dbg_cmd_exec_direct_ex
    <2> QED
      BY <2>1, <2>2
  <1> QED
    BY <1>1, <1>2, <1>3, <1>4

(* The arguments of the commands for memory that have theirs. *)
LEMMA MemoryArguments ==
  ASSUME NEW q \in Requests, Checks(q)
  PROVE  q.cmd = "dbg_write_memory" => Arg(q, 2) \in Value
  <1> SUFFICES ASSUME q.cmd = "dbg_write_memory" PROVE Arg(q, 2) \in Value
    OBVIOUS
  <1>1. Needs(q.cmd) = <<"INT", "BIN">>
    BY DEF Needs, WithAddress
  <1>2. 2 \in 1 .. Len(Needs(q.cmd)) /\ Needs(q.cmd)[2] # "INT"
    BY <1>1
  <1> QED
    BY <1>2, ArgumentTypes

LEMMA HandledMemory ==
  ASSUME TypeOK, NEW q \in Requests,
         \/ dbg_read_memory(q) \/ dbg_write_memory(q) \/ dbg_is_valid_read_ptr(q)
         \/ assemble_at(q) \/ dbg_virtual_protect_ex(q)
  PROVE  Handled(q)
  <1>1. \A a : Readable(a) => mem[a] \in Nat
    BY CommandsAssumption DEF Readable, TypeOK
  <1>2. CASE dbg_read_memory(q)
    <2>1. CASE ~Checks(q) /\ Only(XError)
      BY <2>1, HandledOnly, ReplyForms
    <2>2. CASE Checks(q) /\ Throws
      BY <2>2, HandledThrows, ChecksComplete
    <2>3. CASE Checks(q) /\ Only(XError)
      BY <2>3, HandledOnly, ReplyForms
    <2>4. CASE Checks(q) /\ Readable(Arg(q, 1)) /\ Only(Found(TRUE, mem[Arg(q, 1)]))
      BY <1>1, <2>4, HandledOnly, ReplyForms, ChecksComplete
    <2> QED
      BY <1>2, <2>1, <2>2, <2>3, <2>4 DEF dbg_read_memory, Only
  <1>3. CASE dbg_write_memory(q)
    <2>1. CASE Only(XError)
      BY <2>1, HandledOnly, ReplyForms
    <2>2. CASE /\ Checks(q) /\ Replies(Bool(TRUE)) /\ q.cmd = "dbg_write_memory"
               /\ mem' = [mem EXCEPT ![Arg(q, 1)] = Arg(q, 2)]
               /\ UNCHANGED <<debugger, result, settings>>
      <3>1. TargetOK'
        BY <2>2, CellType, MemoryArguments
      <3> QED
        BY <2>2, <3>1, HandledReplies, ReplyForms, ChecksComplete
    <2>3. ASSUME NEW v \in Value, Checks(q), Replies(XError),
                 mem' = [mem EXCEPT ![Arg(q, 1)] = v],
                 UNCHANGED <<debugger, result, settings>>
          PROVE  Handled(q)
      <3>1. TargetOK'
        BY <2>3, CellType
      <3> QED
        BY <2>3, <3>1, HandledReplies, ReplyForms, ChecksComplete
    <2> QED
      BY <1>3, <2>1, <2>2, <2>3 DEF dbg_write_memory, Takes
  <1>4. CASE dbg_is_valid_read_ptr(q)
    <2>1. CASE Checks(q)
      BY <1>4, <2>1, HandledOnly, ReplyForms, ChecksComplete DEF dbg_is_valid_read_ptr, Readable
    <2>2. CASE ~Checks(q)
      <3>1. Only(Bool(FALSE))
        BY <1>4, <2>2 DEF dbg_is_valid_read_ptr
      <3> QED
        BY <3>1, HandledOnly, ReplyForms
    <2> QED
      BY <2>1, <2>2
  <1>5. CASE assemble_at(q)
    <2>1. CASE Only(Bool(FALSE))
      BY <2>1, HandledOnly, ReplyForms
    <2>2. CASE /\ Checks(q) /\ Replies(Bool(TRUE))
               /\ \E v \in Value : mem' = [mem EXCEPT ![Arg(q, 1)] = v]
               /\ UNCHANGED <<debugger, result, settings>>
      <3>1. TargetOK'
        BY <2>2, CellType
      <3> QED
        BY <2>2, <3>1, HandledReplies, ReplyForms, ChecksComplete
    <2> QED
      BY <1>5, <2>1, <2>2 DEF assemble_at
  <1>6. CASE dbg_virtual_protect_ex(q)
    <2>1. CASE (~Checks(q) /\ Only(XError)) \/ Only(Bool(FALSE))
      BY <2>1, HandledOnly, ReplyForms
    <2>2. CASE Checks(q) /\ Throws
      BY <2>2, HandledThrows, ChecksComplete
    <2>3. CASE /\ Checks(q) /\ Replies(Bool(TRUE))
               /\ \E v \in Value \union {Unreadable} : mem' = [mem EXCEPT ![Arg(q, 1)] = v]
               /\ UNCHANGED <<debugger, result, settings>>
      <3>1. TargetOK'
        BY <2>3, CellType
      <3> QED
        BY <2>3, <3>1, HandledReplies, ReplyForms, ChecksComplete
    <2> QED
      BY <1>6, <2>1, <2>2, <2>3 DEF dbg_virtual_protect_ex
  <1> QED
    BY <1>2, <1>3, <1>4, <1>5, <1>6

(* A setting that is looked up with its arguments is missing or a setting. *)
LEMMA SettingRead ==
  ASSUME TypeOK, NEW q \in Requests, Checks(q),
         q.cmd \in {"dbg_read_setting_sz", "dbg_read_setting_uint"},
         settings[Key(q)] # Missing
  PROVE  settings[Key(q)].v \in Nat
  <1>1. Needs(q.cmd) = <<"STR", "STR">>
    BY DEF Needs, WithAddress
  <1>2. Len(Needs(q.cmd)) >= 2 /\ Needs(q.cmd)[1] = "STR"
    BY <1>1
  <1>3. Key(q) \in Keys
    BY <1>2, ChecksComplete, KeysAssumption
  <1> QED
    BY <1>3 DEF TypeOK, Setting

(* Where the third argument is looked for behind the array, its type may   *)
(* seem right.                                                             *)
LEMMA HandledWriteSetting ==
  ASSUME TypeOK, NEW q \in Requests, NEW argType, NEW setType \in {"sz", "uint"},
         q.cmd \in {"dbg_write_setting_sz", "dbg_write_setting_uint"},
         Needs(q.cmd) = <<"STR", "STR", argType>>,
         WriteSetting(q, argType, setType)
  PROVE  Handled(q)
  <1>1. PICK third \in Third(q) :
          IF Has(q, <<"STR", "STR">>) /\ third.type = argType
          THEN \/ /\ settings' = [settings EXCEPT ![Key(q)] = [type |-> setType, v |-> third.v]]
                  /\ Replies(Bool(TRUE))
                  /\ UNCHANGED <<debugger, mem, result>>
               \/ Only(Bool(FALSE))
          ELSE Only(XError)
    BY DEF WriteSetting
  <1>2. third \in Argument
    BY RequestType, CommandsAssumption DEF Third
  <1>3. third.v \in Nat
    BY <1>2, CommandsAssumption DEF Argument
  <1>4. CASE Only(Bool(FALSE)) \/ Only(XError)
    BY <1>4, HandledOnly, ReplyForms
  <1>5. CASE /\ Has(q, <<"STR", "STR">>) /\ third.type = argType
             /\ settings' = [settings EXCEPT ![Key(q)] = [type |-> setType, v |-> third.v]]
             /\ Replies(Bool(TRUE)) /\ UNCHANGED <<debugger, mem, result>>
    <2>1. [type |-> setType, v |-> third.v] \in Setting
      BY <1>3 DEF Setting
    <2>2. TargetOK'
      BY <1>5, <2>1 DEF TypeOK, TargetOK
    <2>3. LocalOK' /\ ReplyOK'
      BY <1>5, ReplyForms DEF TypeOK, LocalOK, ReplyOK, Replies, local
    <2>4. WithinArray(q) => Complete(q)
      <3> SUFFICES ASSUME WithinArray(q) PROVE Complete(q)
        OBVIOUS
      <3>1. Len(q.args) >= 3 /\ third = q.args[3]
        BY <1>1 DEF WithinArray, Third
      <3>2. /\ q.args[1].type = "STR" /\ q.args[2].type = "STR"
            /\ q.args[3].type = argType
        BY <1>5, <3>1 DEF Has
      <3>3. Checks(q)
        BY <3>1, <3>2 DEF Checks, Has
      <3> QED
        BY <3>3, ChecksComplete
    <2> QED
      BY <2>2, <2>3, <2>4 DEF Handled
  <1> QED
    BY <1>1, <1>4, <1>5

LEMMA HandledSettings ==
  ASSUME TypeOK, NEW q \in Requests,
         \/ dbg_read_setting_sz(q) \/ dbg_read_setting_uint(q)
         \/ dbg_write_setting_sz(q) \/ dbg_write_setting_uint(q)
  PROVE  Handled(q)
  <1>1. CASE dbg_read_setting_sz(q)
    <2>1. ~Checks(q) => Only(XError)
      BY <1>1 DEF dbg_read_setting_sz, Only
    <2>2. Checks(q) => \E r \in Reply : Only(r)
      <3>1. q.cmd = "dbg_read_setting_sz"
        BY <1>1 DEF dbg_read_setting_sz, Takes
      <3> QED
        BY <1>1, <3>1, SettingRead, ReplyForms DEF dbg_read_setting_sz, Only
    <2> QED
      BY <2>1, <2>2, HandledOnly, ReplyForms, ChecksComplete
  <1>2. CASE dbg_read_setting_uint(q)
    <2>1. ~Checks(q) => Only(XError)
      BY <1>2 DEF dbg_read_setting_uint, Only
    <2>2. Checks(q) => \E r \in Reply : Only(r)
      <3>1. q.cmd = "dbg_read_setting_uint"
        BY <1>2 DEF dbg_read_setting_uint, Takes
      <3> QED
        BY <1>2, <3>1, SettingRead, ReplyForms, CommandsAssumption
           DEF dbg_read_setting_uint, Only
    <2> QED
      BY <2>1, <2>2, HandledOnly, ReplyForms, ChecksComplete
  <1>3. CASE dbg_write_setting_sz(q)
    <2>1. q.cmd = "dbg_write_setting_sz" /\ WriteSetting(q, "STR", "sz")
      BY <1>3 DEF dbg_write_setting_sz, Takes
    <2>2. Needs(q.cmd) = <<"STR", "STR", "STR">>
      BY <2>1 DEF Needs, WithAddress
    <2> QED
      BY <2>1, <2>2, HandledWriteSetting
  <1>4. CASE dbg_write_setting_uint(q)
    <2>1. q.cmd = "dbg_write_setting_uint" /\ WriteSetting(q, "INT", "uint")
      BY <1>4 DEF dbg_write_setting_uint, Takes
    <2>2. Needs(q.cmd) = <<"STR", "STR", "INT">>
      BY <2>1 DEF Needs, WithAddress
    <2> QED
      BY <2>1, <2>2, HandledWriteSetting
  <1> QED
    BY <1>1, <1>2, <1>3, <1>4

LEMMA HandledCommand ==
  ASSUME TypeOK, NEW q \in Requests, Carries(q)
  PROVE  Handled(q)
  BY HandledExec, HandledMemory, HandledSettings, HandledLookups DEF Carries

-----------------------------------------------------------------------------
(* Types.                                                                  *)

LEMMA TypeInit == Init => TypeOK
  <1> SUFFICES ASSUME Init PROVE TypeOK
    OBVIOUS
  <1>1. mem \in [Addr -> Value \union {Unreadable}]
    BY DEF Init, NoMemory
  <1>2. settings \in [Keys -> Setting \union {Missing}]
    BY DEF Init
  <1>3. own \in [v : Value, user : BOOLEAN]
    BY CommandsAssumption DEF Init, NoResult
  <1> QED
    BY <1>1, <1>2, <1>3, CommandsAssumption DEF Init, TypeOK, Debuggers

LEMMA TypeStep == TypeOK /\ [Next]_vars => TypeOK'
  <1> SUFFICES ASSUME TypeOK, [Next]_vars PROVE TypeOK'
    OBVIOUS
  <1>1. ASSUME NEW q \in Requests, Carries(q) PROVE TypeOK'
    <2>1. last' \in [complete : BOOLEAN, changed : BOOLEAN]
      BY <1>1 DEF Carries, Complete
    <2>2. Handled(q)
      BY <1>1, HandledCommand
    <2> QED
      BY <2>1, <2>2 DEF Handled, TargetOK, LocalOK, ReplyOK, TypeOK
  <1>2. CASE EvalResult
    <2>1. result \in Nat /\ success \in BOOLEAN
      BY CommandsAssumption DEF TypeOK
    <2>2. reply' \in Reply
      BY <1>2, <2>1, ReplyForms DEF EvalResult
    <2> QED
      BY <1>2, <2>2, CommandsAssumption DEF EvalResult, TypeOK, target, NoResult
  <1>3. CASE DebuggeeRuns
    <2>1. mem' \in [Addr -> Value \union {Unreadable}] /\ debugger' \in Debuggers
      BY <1>3 DEF DebuggeeRuns, TypeOK, NoMemory, Debuggers
    <2> QED
      BY <1>3, <2>1 DEF DebuggeeRuns, TypeOK, local
  <1>4. CASE User
    <2>1. TargetOK'
      <3>1. CASE Command
        BY <3>1, CommandType
      <3>2. CASE /\ settings' \in [Keys -> [type : {"sz", "uint"}, v : Value] \union {Missing}]
                 /\ UNCHANGED <<debugger, mem, result>>
        BY <3>2, CommandsAssumption DEF TargetOK, TypeOK, Setting
      <3> QED
        BY <1>4, <3>1, <3>2 DEF User
    <2>2. own' \in [v : Value, user : BOOLEAN]
      BY <1>4 DEF User, TypeOK
    <2> QED
      BY <1>4, <2>1, <2>2 DEF User, TargetOK, TypeOK
  <1>5. CASE UNCHANGED vars
    BY <1>5 DEF vars, target, local, TypeOK
  <1> QED
    BY <1>1, <1>2, <1>3, <1>4, <1>5 DEF Next

(* Every variable keeps its range; in particular every reply is one object *)
(* of a form the client knows.                                             *)
THEOREM TypeCorrect == Spec => []TypeOK
  BY TypeInit, TypeStep, PTL DEF Spec

-----------------------------------------------------------------------------
(* Between the two calls of dbg_cmd_exec_direct_ex.                        *)

(* The request had its arguments, and $result is as the command left it    *)
(* unless the user has done something.                                     *)
Evaluating ==
  at = "eval" => last.complete /\ (~own.user => own.v = result)

LEMMA OthersDoNotEval ==
  ASSUME NEW q \in Requests, Carries(q), q.cmd # "dbg_cmd_exec_direct_ex"
  PROVE  at' # "eval"
  <1> USE DEF Takes, Idle, Only, Replies, Throws
  <1>1. ASSUME NEW cmd, NEW rejected, NEW found, Lookup(q, cmd, rejected, found)
        PROVE  at' # "eval"
    BY <1>1 DEF Lookup
  <1>2. CASE \/ disassemble_at(q) \/ get_breakpoints(q) \/ get_label_at(q)
             \/ get_comment_at(q) \/ get_symbol_at(q) \/ dbg_get_xrefs(q)
             \/ dbg_get_function(q) \/ dbg_analyze_function(q) \/ dbg_get_string(q)
    BY <1>1, <1>2, Zenon DEF disassemble_at, get_breakpoints, get_label_at, get_comment_at,
       get_symbol_at, dbg_get_xrefs, dbg_get_function, dbg_analyze_function, dbg_get_string
  <1>3. CASE \/ dbg_is_running(q) \/ dbg_is_debugging(q)
             \/ dbg_eval(q) \/ dbg_cmd_exec_direct(q)
    BY <1>3 DEF dbg_is_running, dbg_is_debugging, dbg_eval, dbg_cmd_exec_direct
  <1>4. CASE \/ dbg_read_memory(q) \/ dbg_write_memory(q) \/ dbg_is_valid_read_ptr(q)
             \/ assemble_at(q) \/ dbg_virtual_protect_ex(q)
    BY <1>4 DEF dbg_read_memory, dbg_write_memory, dbg_is_valid_read_ptr, assemble_at,
       dbg_virtual_protect_ex
  <1>5. CASE dbg_read_setting_sz(q) \/ dbg_read_setting_uint(q)
    BY <1>5 DEF dbg_read_setting_sz, dbg_read_setting_uint
  <1>6. CASE dbg_write_setting_sz(q) \/ dbg_write_setting_uint(q)
    BY <1>6 DEF dbg_write_setting_sz, dbg_write_setting_uint, WriteSetting
  <1>7. ~dbg_cmd_exec_direct_ex(q)
    BY DEF dbg_cmd_exec_direct_ex
  <1> QED
    BY <1>2, <1>3, <1>4, <1>5, <1>6, <1>7 DEF Carries

LEMMA EvaluatingStep == TypeOK /\ Evaluating /\ [Next]_vars => Evaluating'
  <1> SUFFICES ASSUME TypeOK, Evaluating, [Next]_vars PROVE Evaluating'
    OBVIOUS
  <1>1. ASSUME NEW q \in Requests, Carries(q) PROVE Evaluating'
    <2>1. CASE q.cmd = "dbg_cmd_exec_direct_ex"
      <3>1. dbg_cmd_exec_direct_ex(q)
        BY <1>1, <2>1 DEF Carries, Takes, Lookup, dbg_is_running, dbg_is_debugging, dbg_eval,
           dbg_cmd_exec_direct, dbg_read_memory, dbg_write_memory, dbg_is_valid_read_ptr,
           assemble_at, dbg_virtual_protect_ex, dbg_read_setting_sz, dbg_read_setting_uint,
           dbg_write_setting_sz, dbg_write_setting_uint, disassemble_at, get_breakpoints,
           get_label_at, get_comment_at, get_symbol_at, dbg_get_xrefs, dbg_get_function,
           dbg_analyze_function, dbg_get_string
      <3>2. /\ last' = [complete |-> Complete(q), changed |-> target' # target]
            /\ at' = "eval" => Checks(q) /\ own' = [v |-> result', user |-> FALSE]
        BY <1>1, <3>1 DEF Carries, dbg_cmd_exec_direct_ex, Takes, Idle, Only, Replies
      <3> QED
        BY <3>2, ChecksComplete DEF Evaluating
    <2>2. CASE q.cmd # "dbg_cmd_exec_direct_ex"
      BY <1>1, <2>2, OthersDoNotEval DEF Evaluating
    <2> QED
      BY <2>1, <2>2
  <1>2. CASE EvalResult
    BY <1>2 DEF EvalResult, Evaluating
  <1>3. CASE DebuggeeRuns
    BY <1>3 DEF DebuggeeRuns, Evaluating, local
  <1>4. CASE User
    <2>1. own'.user = (at = "eval") /\ at' = at /\ last' = last
      BY <1>4 DEF User, TypeOK
    <2> QED
      BY <2>1 DEF Evaluating
  <1>5. CASE UNCHANGED vars
    BY <1>5 DEF vars, target, local, Evaluating
  <1> QED
    BY <1>1, <1>2, <1>3, <1>4, <1>5 DEF Next

LEMMA EvaluatingInvariant == Spec => [](TypeOK /\ Evaluating)
  <1>1. Init => Evaluating
    BY DEF Init, Evaluating
  <1> QED
    BY <1>1, TypeInit, TypeStep, EvaluatingStep, PTL DEF Spec

(* Unless the user does something in between, the value in the reply of    *)
(* dbg_cmd_exec_direct_ex is the $result its own command left: no other    *)
(* request comes between the two calls.                                    *)
THEOREM OwnResult == Spec => ResultIsOwn
  <1>1. TypeOK /\ Evaluating /\ EvalResult /\ ~own.user => reply'.v = own.v
    BY DEF EvalResult, Evaluating, Found
  <1> QED
    BY <1>1, EvaluatingInvariant, PTL DEF ResultIsOwn

-----------------------------------------------------------------------------
(* Requests without their arguments.                                       *)

LEMMA RejectedStep ==
  ASSUME \A q \in Requests : WithinArray(q),
         TypeOK, Evaluating, IncompleteIsRejected, [Next]_vars
  PROVE  IncompleteIsRejected'
  <1>1. ASSUME NEW q \in Requests, Carries(q) PROVE IncompleteIsRejected'
    <2>1. Handled(q) /\ last' = [complete |-> Complete(q), changed |-> target' # target]
      BY <1>1, HandledCommand DEF Carries
    <2> QED
      BY <2>1 DEF Handled, Rejected, IncompleteIsRejected, Bool, XError
  <1>2. CASE EvalResult
    BY <1>2 DEF EvalResult, Evaluating, IncompleteIsRejected
  <1>3. CASE DebuggeeRuns \/ User \/ UNCHANGED vars
    <2>1. reply' = reply /\ last' = last
      BY <1>3 DEF DebuggeeRuns, User, vars
    <2> QED
      BY <2>1 DEF IncompleteIsRejected
  <1> QED
    BY <1>1, <1>2, <1>3 DEF Next

(* A request that lacks an argument is rejected and changes nothing, but   *)
(* for the commands that look behind the request's array.                  *)
THEOREM Rejects ==
  ASSUME \A q \in Requests : WithinArray(q)
  PROVE  Spec => []IncompleteIsRejected
  <1>1. Init => IncompleteIsRejected
    BY DEF Init, IncompleteIsRejected
  <1>2. TypeOK /\ Evaluating /\ IncompleteIsRejected /\ [Next]_vars => IncompleteIsRejected'
    BY RejectedStep
  <1> QED
    BY <1>1, <1>2, EvaluatingInvariant, PTL DEF Spec
=============================================================================
