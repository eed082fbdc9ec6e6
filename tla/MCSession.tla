----------------------------- MODULE MCSession ------------------------------
(***************************************************************************)
(* Model values for Session. Ports are scaled down to PortSpan = 8: 1 and  *)
(* 2 are the configured ports, 5 to 7 the local range, one of which is     *)
(* another program's.                                                      *)
(***************************************************************************)
EXTENDS Session

Remote(a, r, s) == [mode |-> "remote", addr |-> a, rep |-> r, pub |-> s]
LocalMode == [mode |-> "local", addr |-> "", rep |-> 0, pub |-> 0]

(* Local mode; the defaults; two instances that cross on a wildcard        *)
(* address, one of whose ports does not fit 16 bits; and equal ports. The  *)
(* dialog refuses both, an edited file may hold them.                      *)
EditedSettings == {LocalMode, Remote("", 0, 0), Remote("127.0.0.1", 2, 1),
                   Remote("0.0.0.0", PortSpan + 2, 5), Remote("127.0.0.1", 1, 1)}
MissingAddress == {Remote("", 1, 2)}
(* 65536 becomes 0, which lets the system choose; 65537 becomes 1. *)
WidePorts == {Remote("127.0.0.1", PortSpan, 2), Remote("127.0.0.1", PortSpan + 1, 2)}
=============================================================================
