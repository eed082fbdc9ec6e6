---------------------------- MODULE CoverageLog -----------------------------
(***************************************************************************)
(* What the coverage commands promise: a set of executed addresses, grown  *)
(* by the tracers while recording is on (an address noticed in time may be *)
(* entered a little late), and commands that are each answered from the    *)
(* set as it stands at one moment. No mutex and no loops. Coverage is      *)
(* shown to implement this module.                                         *)
(***************************************************************************)
CONSTANTS Addr,           (* code addresses                                *)
          Tracers,        (* threads that run the traced code's callback   *)
          NoAddr,         (* "no address"                                  *)
          Size(_),        (* the size of a set of addresses                *)
          Filter(_, _, _) (* Filter(S, from, to): what a get asks of S     *)

VARIABLES on,       (* is recording switched on?                           *)
          log,      (* the addresses recorded                              *)
          noticed,  (* noticed[t]: address t is about to enter, or NoAddr  *)
          answer    (* the last answer given                               *)

vars == <<on, log, noticed, answer>>

Init == /\ on = FALSE
        /\ log = {}
        /\ noticed = [t \in Tracers |-> NoAddr]
        /\ answer = [op |-> "none"]

Switch(b) == /\ on' = b
             /\ UNCHANGED <<log, noticed, answer>>

Notice(t, x) == /\ on
                /\ noticed[t] = NoAddr
                /\ noticed' = [noticed EXCEPT ![t] = x]
                /\ UNCHANGED <<on, log, answer>>

Enter(t) == /\ noticed[t] # NoAddr
            /\ log' = log \union {noticed[t]}
            /\ noticed' = [noticed EXCEPT ![t] = NoAddr]
            /\ UNCHANGED <<on, answer>>

(* start and stop answer the new state and the size of the set. *)
AnswerSwitch == /\ answer' = [op |-> "switch", active |-> on, size |-> Size(log)]
                /\ UNCHANGED <<on, log, noticed>>

AnswerGet(from, to) ==
  /\ answer' = [op |-> "get", addrs |-> Filter(log, from, to)]
  /\ UNCHANGED <<on, log, noticed>>

Clear == /\ log' = {}
         /\ answer' = [op |-> "clear"]
         /\ UNCHANGED <<on, noticed>>

Next == \/ \E b \in BOOLEAN : Switch(b)
        \/ \E t \in Tracers : Enter(t) \/ \E x \in Addr : Notice(t, x)
        \/ AnswerSwitch
        \/ \E from, to \in Addr \union {0} : AnswerGet(from, to)
        \/ Clear

Spec == Init /\ [][Next]_vars
=============================================================================
