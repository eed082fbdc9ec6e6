---------------------------- MODULE SessionBoard ----------------------------
(***************************************************************************)
(* What sessions promise to clients and to each other, without files,      *)
(* ports drawn or settings: a process takes endpoints that nobody listens  *)
(* at, and posts a notice that names two of them for clients to read. The  *)
(* notice stands while the process keeps what it holds. It is stale as     *)
(* soon as the process gives something up, by stopping or by dying, and    *)
(* only a stale notice is taken down. Session is shown to implement this   *)
(* module.                                                                 *)
(***************************************************************************)
CONSTANTS Procs,        (* process ids                                     *)
          Endpoints,    (* where a process can listen                      *)
          Clash(_, _)   (* two endpoints cannot both be listened at        *)

VARIABLES held,    (* held[p]: the endpoints process p listens at          *)
          notice,  (* notice[p]: {<<rep, pub>>} as p has posted it, or {}  *)
          stale    (* whose notice is not kept                             *)

vars == <<held, notice, stale>>

Init == /\ held = [p \in Procs |-> {}]
        /\ notice = [p \in Procs |-> {}]
        /\ stale = {}

Live(p) == notice[p] # {} /\ p \notin stale

(* Once it has posted a notice a process takes nothing more. *)
Take(p) == /\ ~Live(p)
           /\ \E e \in held'[p] :
                /\ e \in Endpoints
                /\ \A q \in Procs : \A f \in held[q] : ~Clash(e, f)
                /\ held' = [held EXCEPT ![p] = @ \union {e}]
           /\ UNCHANGED <<notice, stale>>

Post(p) == /\ notice[p] = {}
           /\ \E rep, pub \in held[p] : /\ rep # pub
                                        /\ notice' = [notice EXCEPT ![p] = {<<rep, pub>>}]
           /\ UNCHANGED <<held, stale>>

Leave(p) == /\ \E rest \in SUBSET held[p] : /\ rest # held[p]
                                            /\ held' = [held EXCEPT ![p] = rest]
            /\ stale' = stale \union {q \in {p} : notice[p] # {}}
            /\ UNCHANGED notice

TakeDown(p) == /\ p \in stale
               /\ notice' = [notice EXCEPT ![p] = {}]
               /\ stale' = stale \ {p}
               /\ UNCHANGED held

Next == \E p \in Procs : Take(p) \/ Post(p) \/ Leave(p) \/ TakeDown(p)

Spec == Init /\ [][Next]_vars

(* What a reader of a notice that is not stale can rely on: its process    *)
(* listens at both endpoints, and no other process does.                   *)
Promise == /\ \A p \in Procs : Live(p) => \A n \in notice[p] : {n[1], n[2]} \subseteq held[p]
           /\ \A p, q \in Procs : p # q => \A e \in held[p], f \in held[q] : ~Clash(e, f)
=============================================================================
