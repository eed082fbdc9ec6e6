----------------------------- MODULE RepStream ------------------------------
(***************************************************************************)
(* RepServer with clients that never run out of requests, so that one may  *)
(* keep the server busy for ever while another waits. The REP socket takes *)
(* its connections in turn: this is ZeroMQ's fair queueing, and all that   *)
(* is assumed of it. That every client is served is then up to the loop of *)
(* xauto_srv_req_rep_thread, which has to come round to recv again.        *)
(***************************************************************************)
EXTENDS RepServer, SequencesExt

VARIABLE order  (* the clients, as the REP socket will look at them next   *)

streamVars == <<vars, order>>

Waiting(c) == \E m \in incoming : m.client = c

(* A message received is that of the first client that has one; this       *)
(* client then goes behind all others.                                     *)
InTurn ==
  IF thread = "receiving" /\ thread' = "dispatching"
  THEN \E i \in DOMAIN order :
         /\ order[i] = request'.client
         /\ \A j \in 1 .. i - 1 : ~Waiting(order[j])
         /\ order' = Append(RemoveAt(order, i), order[i])
  ELSE UNCHANGED order

(* The messages that are waited on, on the way or in hand, and QUITs. *)
InUse(m) == \/ IsQuit(m) \/ m \in incoming \/ m = pending[m.client]
            \/ \E r \in replies : r.to = m
            \/ m = request /\ thread \in {"dispatching", "sending"}
Used == {m \in sent : InUse(m)}

(* A client with no message left in use has ended, and another comes in    *)
(* its place.                                                              *)
Ended(c) == count[c] = MaxRequests /\ \A m \in Used : m.client # c

(* Messages that are not in use leave the history, which nothing but the   *)
(* safety properties reads, and the numbers of an ended client are given   *)
(* away again: so requests never run out.                                  *)
Forget ==
  /\ sent' = Used
  /\ dispatched' = dispatched \intersect Used
  /\ delivered' = {r \in delivered : r.to \in Used}
  /\ count' = [c \in Clients |-> IF Ended(c) THEN 0 ELSE count[c]]
  /\ UNCHANGED <<pending, incoming, replies, thread, request, outbuf, host, order>>

StreamInit == Init /\ order \in SetToSeqs(Clients)

StreamNext == \/ sent # Used /\ Forget
              \/ sent = Used /\ Next /\ InTurn

(* The server thread keeps running (so every handler returns), ZeroMQ's    *)
(* I/O thread delivers on each connection, and x64dbg, once asked to       *)
(* close, closes; the histories are kept short. Nothing is assumed of      *)
(* clients, of the user, or of a call on a socket that was closed. No      *)
(* client in particular is promised that recv takes its message.           *)
Fairness ==
  /\ WF_streamVars(sent # Used /\ Forget)
  /\ WF_streamVars(\E m \in incoming : Recv(m) /\ InTurn)
  /\ \A c \in Clients : WF_streamVars(\E r \in replies : r.to.client = c /\ Deliver(r) /\ InTurn)
  /\ WF_streamVars((Dispatch \/ DispatchThrows) /\ InTurn)
  /\ WF_streamVars(SendReply /\ InTurn)
  /\ WF_streamVars(CloseApplication /\ InTurn)
  /\ WF_streamVars(CloseOnRequest /\ InTurn)
  /\ WF_streamVars(Release /\ InTurn)
  /\ WF_streamVars(Exit /\ InTurn)

StreamSpec == StreamInit /\ [][StreamNext]_streamVars /\ Fairness

-----------------------------------------------------------------------------
(* Properties.                                                             *)

(* A client that waits is answered or gives up, or x64dbg is closing,      *)
(* although others may send request after request for ever.                *)
EveryClientServed ==
  \A c \in Clients, k \in 1 .. MaxRequests :
    (pending[c] # NoRequest /\ count[c] = k)
      ~> \/ pending[c] = NoRequest \/ count[c] # k
         \/ gui # "running" \/ process # "up"

(* Once QUIT was carried out the x64dbg process ends, whether or not the   *)
(* reply could be sent and whoever closes the socket first.                *)
QuitEndsProcess == Quitting ~> process # "up"
=============================================================================
