------------------------------ MODULE MCInspect ------------------------------
(***************************************************************************)
(* Model values for Inspect: program files and register dumps.             *)
(***************************************************************************)
EXTENDS Inspect

(* Program files of seven to eleven DWORDs, with addresses below 32, of    *)
(* which SetFilePointer takes those below 16:                              *)
(*   - two callbacks, ended by a zero;                                     *)
(*   - linked to an address above that of the callbacks: the difference    *)
(*     wraps around; they run to the end of the file;                      *)
(*   - the same, where the difference is one SetFilePointer refuses;       *)
(*   - the directory's own address is one it refuses;                      *)
(*   - the directory is behind the end of the file, or cut by it.          *)
MCImages ==
  { [head |-> 1, tls |-> 1,  base |-> 16, file |-> <<0, 0, 0, 0, 24, 0, 0, 0, 21, 22, 0>>],
    [head |-> 1, tls |-> 1,  base |-> 26, file |-> <<0, 0, 0, 0, 2, 0, 0, 0, 21, 22>>],
    [head |-> 1, tls |-> 1,  base |-> 10, file |-> <<0, 0, 0, 0, 2, 0, 0, 23, 21, 22>>],
    [head |-> 2, tls |-> 20, base |-> 16, file |-> <<0, 0, 0, 0, 0, 24, 0, 0, 21, 0>>],
    [head |-> 1, tls |-> 12, base |-> 0,  file |-> <<0, 0, 0, 0, 24, 21, 22>>],
    [head |-> 1, tls |-> 5,  base |-> 0,  file |-> <<0, 0, 0, 0, 24, 21, 22>>] }

(* Register dumps: nothing set, everything set, each bit of each word by   *)
(* itself, and each position of the top of the x87 stack.                  *)
Dump(e, m, c, s, t) == [eflags |-> e, mxcsr |-> m, control |-> c, status |-> s, tag |-> t]
MCDumps ==
  {Dump(0, 0, 0, 0, 0), Dump(65535, 65535, 65535, 65535, 65535)}
    \union {Dump(2 ^ b, 2 ^ b, 2 ^ b, 2 ^ b, 2 ^ b) : b \in 0 .. 15}
    \union {Dump(0, 0, 0, top * 2048, 58596) : top \in 0 .. 7}
=============================================================================
