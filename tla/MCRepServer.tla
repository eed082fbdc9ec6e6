---------------------------- MODULE MCRepServer ----------------------------
(***************************************************************************)
(* Model values for RepServer. Two clients and two messages each are       *)
(* enough for a retry after GiveUp, a request queued behind another        *)
(* client's QUIT, and a reply that finds its client waiting on a later     *)
(* message.                                                                *)
(***************************************************************************)
EXTENDS RepServer, TLC

(* Nothing distinguishes one client from another. *)
ClientSymmetry == Permutations(Clients)
=============================================================================
