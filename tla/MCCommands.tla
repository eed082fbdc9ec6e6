----------------------------- MODULE MCCommands -----------------------------
(***************************************************************************)
(* Model values for Commands: one address, one setting, two values. Each   *)
(* command is requested with every list of arguments that is as long as    *)
(* it needs, or one shorter, of the types it needs but for at most one.    *)
(***************************************************************************)
EXTENDS Commands

A(type, v) == [type |-> type, v |-> v]

MCAddr == {1}
MCKeys == {<<1, 1>>}
MCValue == {0, 1}

(* 1 is the address, the section, the name, a size and a flag. *)
Right(type) == IF type = "BIN" THEN {A("BIN", 0), A("BIN", 1)} ELSE {A(type, 1)}
Wrong == A("OTHER", 1)

Lists(types) ==
  LET n == Len(types)
      full == {a \in [1 .. n -> UNION {Right(types[i]) : i \in 1 .. n}] :
                 \A i \in 1 .. n : a[i] \in Right(types[i])}
  IN  full \union {SubSeq(a, 1, n - 1) : a \in full}
           \union {[a EXCEPT ![i] = Wrong] : a \in full, i \in 1 .. n}

(* Numbers from Huge on. *)
Oversized == {[cmd |-> "dbg_read_memory", args |-> <<A("INT", 1), A("INT", Huge)>>],
              [cmd |-> "dbg_virtual_protect_ex",
               args |-> <<A("INT", 1), A("INT", 1), A("INT", Huge)>>]}

AllRequests ==
  Oversized \union UNION {{[cmd |-> c, args |-> a] : a \in Lists(Needs(c))} : c \in Cmds}

Writers == {"dbg_write_setting_sz", "dbg_write_setting_uint"}

(* All but the two commands that look behind the array: see Unchecked.     *)
Checked == {q \in AllRequests : q.cmd \in Writers => Len(q.args) = 3}

(* A setting to be written, without its value. *)
Unchecked == {q \in AllRequests : q.cmd \in Writers}

(* Behind the array may be anything, also what looks like an argument.     *)
Leftovers == {A("OTHER", 0), A("STR", 1), A("INT", 1)}
=============================================================================
