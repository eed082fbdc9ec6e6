----------------------------- MODULE EventFeed ------------------------------
(***************************************************************************)
(* What the pub/sub side of the plugin promises its subscribers, with no   *)
(* sockets, pipes or callbacks in it: the debugger raises events, some of  *)
(* which go out, in the order they were raised and at most once each; a    *)
(* subscriber sees events that went out, in that order and at most once    *)
(* each, whatever it misses. EventPub is shown to implement this module.   *)
(***************************************************************************)
EXTENDS Naturals, Sequences

CONSTANTS Subscribers,  (* who may listen                                  *)
          Event         (* events, numbered in the order they are raised   *)

VARIABLES raised,  (* events raised so far                                 *)
          out,     (* events that went out                                 *)
          seen     (* seen[s]: events s has received                       *)

vars == <<raised, out, seen>>

(* e comes after all of q. *)
After(q, e) == q = <<>> \/ q[Len(q)].n < e.n

Init == /\ raised = <<>>
        /\ out = <<>>
        /\ seen = [s \in Subscribers |-> <<>>]

Raise(e) == /\ e.n = Len(raised) + 1
            /\ raised' = Append(raised, e)
            /\ UNCHANGED <<out, seen>>

GoOut(e) == /\ \E i \in DOMAIN raised : raised[i] = e
            /\ After(out, e)
            /\ out' = Append(out, e)
            /\ UNCHANGED <<raised, seen>>

See(s, e) == /\ \E i \in DOMAIN out : out[i] = e
             /\ After(seen[s], e)
             /\ seen' = [seen EXCEPT ![s] = Append(@, e)]
             /\ UNCHANGED <<raised, out>>

Next == \E e \in Event : Raise(e) \/ GoOut(e) \/ \E s \in Subscribers : See(s, e)

Spec == Init /\ [][Next]_vars

(* What a subscriber can rely on: whatever it has seen was raised, just as *)
(* it saw it, and it saw nothing twice and nothing before what is older.   *)
Promise ==
  \A s \in Subscribers :
    /\ \A i \in DOMAIN seen[s] : /\ seen[s][i].n \in DOMAIN raised
                                 /\ raised[seen[s][i].n] = seen[s][i]
    /\ \A i, j \in DOMAIN seen[s] : i < j => seen[s][i].n < seen[s][j].n
=============================================================================
