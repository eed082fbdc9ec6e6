----------------------------- MODULE RpcService -----------------------------
(***************************************************************************)
(* What the req/rep side of the plugin promises its clients, with no       *)
(* sockets, buffers or threads in it: requests are carried out one at a    *)
(* time, a request is carried out at most once for each time it was sent,  *)
(* an answer is only ever given to a request that was carried out, it is   *)
(* that request's own answer, and nothing is carried out after QUIT.       *)
(* RepServer is shown to implement this module.                            *)
(***************************************************************************)

CONSTANTS Request,      (* the requests that can be sent                   *)
          IsQuit(_),    (* is this request XAUTO_REQ_QUIT?                 *)
          AnswerTo(_),  (* the one answer a request calls for              *)
          NoRequest     (* "nothing is being carried out"                  *)

VARIABLES asked,      (* requests sent so far                              *)
          serving,    (* the request being carried out, or NoRequest       *)
          done,       (* requests carried out so far                       *)
          answers,    (* answers that reached the client that asked        *)
          accepting   (* FALSE once QUIT was carried out or the host died  *)

vars == <<asked, serving, done, answers, accepting>>

Init == /\ asked = {}
        /\ serving = NoRequest
        /\ done = {}
        /\ answers = {}
        /\ accepting = TRUE

Ask(m) == /\ asked' = asked \union {m}
          /\ UNCHANGED <<serving, done, answers, accepting>>

Serve(m) == /\ accepting
            /\ serving = NoRequest
            /\ m \in asked \ done
            /\ serving' = m
            /\ done' = done \union {m}
            /\ accepting' = ~IsQuit(m)
            /\ UNCHANGED <<asked, answers>>

(* The answer has been handed over, or given up because the way is closed. *)
Finish == /\ serving # NoRequest
          /\ serving' = NoRequest
          /\ UNCHANGED <<asked, done, answers, accepting>>

Answer(m) == /\ m \in done
             /\ m # serving
             /\ \A a \in answers : a.to # m
             /\ answers' = answers \union {[to |-> m, body |-> AnswerTo(m)]}
             /\ UNCHANGED <<asked, serving, done, accepting>>

(* The host process ends, whatever it was doing. *)
Stop == /\ accepting' = FALSE
        /\ serving' = NoRequest
        /\ UNCHANGED <<asked, done, answers>>

Next == \/ \E m \in Request : Ask(m) \/ Serve(m) \/ Answer(m)
        \/ Finish
        \/ Stop

Spec == Init /\ [][Next]_vars

(* What a client can rely on: an answer is its own request's, which was    *)
(* sent and has been carried out to its end; one request gets no two       *)
(* answers; and once a QUIT was carried out nothing more will be.          *)
Promise ==
  /\ \A a \in answers : /\ a.to \in asked \intersect done
                        /\ a.body = AnswerTo(a.to)
                        /\ serving # NoRequest => serving # a.to
  /\ \A a, b \in answers : a.to = b.to => a = b
  /\ (\E m \in done : IsQuit(m)) => ~accepting
=============================================================================
