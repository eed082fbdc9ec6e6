----------------------------- MODULE RepServer ------------------------------
(***************************************************************************)
(* The req/rep thread of one plugin instance (xauto_srv_req_rep_thread and *)
(* _dispatch_cmd, src/src/xauto_server.cpp), the clients that talk to its  *)
(* ZeroMQ REP socket, and the x64dbg GUI thread, which may close that      *)
(* socket under the server thread's feet (release_session).                *)
(*                                                                         *)
(* A request is one message of one client: client c's n-th message, with   *)
(* the class of payload the dispatcher tells apart:                        *)
(*    ping     the string "PING"                                           *)
(*    command  an array whose head names one of the commands               *)
(*    unknown  anything else that unpacks                                  *)
(*    quit     XAUTO_REQ_QUIT                                              *)
(*    throws   bytes unpack() rejects, or an argument convert() rejects:   *)
(*             an exception that is not a zmq::error_t                     *)
(***************************************************************************)
EXTENDS Naturals, Sequences

CONSTANTS Clients,      (* the clients, a set of model values              *)
          MaxRequests,  (* bound: messages one client sends                *)
          Kinds,        (* the kinds of request the clients send           *)
          NoRequest     (* the value of a variable that holds no request   *)

Request == [client : Clients, n : 1 .. MaxRequests, kind : Kinds]

ASSUME RequestAssumption ==
  /\ MaxRequests \in Nat \ {0}
  /\ Kinds \subseteq {"ping", "command", "unknown", "quit", "throws"}
  /\ NoRequest \notin Request

VARIABLES
  pending,    (* pending[c]: the request client c waits on, or NoRequest   *)
  count,      (* count[c]: messages client c has sent                      *)
  incoming,   (* messages sent to the REP socket and not yet received      *)
  replies,    (* replies given to the REP socket and still to be delivered *)
  thread,     (* where the server thread is                                *)
  request,    (* the message the server thread holds                       *)
  outbuf,     (* the objects packed into the response buffer               *)
  repSocket,  (* is the REP socket open?                                   *)
  closeAsked, (* has GuiCloseApplication been called?                      *)
  gui,        (* where the GUI thread is                                   *)
  process,    (* is the x64dbg process alive?                              *)
  sent,       (* history: every message sent                               *)
  dispatched, (* history: every message _dispatch_cmd has answered         *)
  delivered   (* history: every reply that reached the client waiting      *)

client == <<pending, count, sent>>
server == <<thread, request, outbuf, dispatched>>
host   == <<repSocket, closeAsked, gui, process>>
vars   == <<client, incoming, replies, delivered, server, host>>

Threads   == {"receiving", "dispatching", "sending", "quitting", "gone"}
GuiStates == {"running", "stopping", "released"}
Objects   == {"PONG", "RESULT", "XERROR_UNK", "OK_QUITTING"}
Reply     == [to : Request, body : {<<o>> : o \in Objects}]

-----------------------------------------------------------------------------
(* The pure part of _dispatch_cmd.                                         *)

(* What the branches of _dispatch_cmd pack into the response buffer: a     *)
(* payload no branch recognises packs nothing.                             *)
Packed(kind) == CASE kind = "ping"    -> <<"PONG">>
                  [] kind = "command" -> <<"RESULT">>
                  [] kind = "quit"    -> <<"OK_QUITTING">>
                  [] OTHER            -> <<>>

DispatchExit(kind) == kind = "quit"
IsQuit(m) == DispatchExit(m.kind)

(* Mutant of WithFallback: an empty buffer goes out as it is.              *)
PackedNoFallback(buf) == buf

(* An empty response buffer becomes the XERROR_UNK response. *)
WithFallback(buf) == IF buf = <<>> THEN <<"XERROR_UNK">> ELSE buf

(* The one object a request calls for. *)
AnswerTo(m) == WithFallback(Packed(m.kind))

-----------------------------------------------------------------------------
(* Clients and the network.                                                *)

(* A REQ client sends its next message: it waits on at most one. *)
Send(c) ==
  /\ pending[c] = NoRequest
  /\ count[c] < MaxRequests
  /\ \E k \in Kinds :
       LET m == [client |-> c, n |-> count[c] + 1, kind |-> k]
       IN  /\ pending' = [pending EXCEPT ![c] = m]
           /\ incoming' = incoming \union {m}
           /\ sent' = sent \union {m}
  /\ count' = [count EXCEPT ![c] = @ + 1]
  /\ UNCHANGED <<replies, delivered, server, host>>

(* A client stops waiting and drops its connection. A message of it that   *)
(* the server has not received may still be received later, or may go with *)
(* the connection. The client's next message is its retry.                 *)
GiveUp(c) ==
  /\ pending[c] # NoRequest
  /\ pending' = [pending EXCEPT ![c] = NoRequest]
  /\ incoming' \in {incoming, incoming \ {pending[c]}}
  /\ UNCHANGED <<count, sent, replies, delivered, server, host>>

(* The I/O thread delivers a reply. The REP envelope addresses it to the   *)
(* connection its request came on; if that is gone the reply is dropped.   *)
Deliver(r) ==
  /\ process = "up"
  /\ r \in replies
  /\ replies' = replies \ {r}
  /\ IF pending[r.to.client] = r.to
     THEN /\ pending' = [pending EXCEPT ![r.to.client] = NoRequest]
          /\ delivered' = delivered \union {r}
     ELSE UNCHANGED <<pending, delivered>>
  /\ UNCHANGED <<count, sent, incoming, server, host>>

-----------------------------------------------------------------------------
(* The server thread, xauto_srv_req_rep_thread.                            *)

(* Mutant of Recv: the buffer declared outside the loop.                   *)
RecvKeepsBuffer(m) ==
  /\ process = "up" /\ thread = "receiving" /\ repSocket = "open"
  /\ m \in incoming
  /\ incoming' = incoming \ {m}
  /\ request' = m
  /\ thread' = "dispatching"
  /\ UNCHANGED <<outbuf, dispatched, client, replies, delivered, host>>

(* The blocking recv returns a message; request and outbuf are locals of   *)
(* the loop body, so each turn starts from an empty buffer.                *)
Recv(m) ==
  /\ process = "up" /\ thread = "receiving" /\ repSocket = "open"
  /\ m \in incoming
  /\ incoming' = incoming \ {m}
  /\ request' = m
  /\ outbuf' = <<>>
  /\ thread' = "dispatching"
  /\ UNCHANGED <<dispatched, client, replies, delivered, host>>

(* unpack, _dispatch_cmd and the empty-buffer fallback. The handler runs   *)
(* here, whether or not the socket is still open.                          *)
Dispatch ==
  /\ process = "up" /\ thread = "dispatching"
  /\ request.kind # "throws"
  /\ outbuf' = WithFallback(outbuf \o Packed(request.kind))
  /\ dispatched' = dispatched \union {request}
  /\ thread' = "sending"
  /\ UNCHANGED <<request, client, incoming, replies, delivered, host>>

(* Only zmq::error_t is caught: any other exception leaves the detached    *)
(* thread and std::terminate ends the whole x64dbg process.                *)
DispatchThrows ==
  /\ process = "up" /\ thread = "dispatching"
  /\ request.kind = "throws"
  /\ process' = "aborted"
  /\ thread' = "gone"
  /\ replies' = {}
  /\ UNCHANGED <<request, outbuf, dispatched, client, incoming, delivered,
                 repSocket, closeAsked, gui>>

(* Mutants of SendReply. Never leaving the loop:                           *)
SendReplyNeverBreaks ==
  /\ process = "up" /\ thread = "sending" /\ repSocket = "open"
  /\ replies' = replies \union {[to |-> request, body |-> outbuf]}
  /\ thread' = "receiving"
  /\ UNCHANGED <<request, outbuf, dispatched, client, incoming, delivered, host>>

(* Leaving it before the reply is sent:                                    *)
SendReplyBreaksFirst ==
  /\ process = "up" /\ thread = "sending" /\ repSocket = "open"
  /\ IF DispatchExit(request.kind)
     THEN thread' = "quitting" /\ replies' = replies
     ELSE /\ thread' = "receiving"
          /\ replies' = replies \union {[to |-> request, body |-> outbuf]}
  /\ UNCHANGED <<request, outbuf, dispatched, client, incoming, delivered, host>>

(* Dispatching the same message again:                                     *)
SendReplyReceivesAgain ==
  /\ process = "up" /\ thread = "sending" /\ repSocket = "open"
  /\ replies' = replies \union {[to |-> request, body |-> outbuf]}
  /\ thread' = IF DispatchExit(request.kind) THEN "quitting" ELSE "dispatching"
  /\ UNCHANGED <<request, outbuf, dispatched, client, incoming, delivered, host>>

(* Leaving the loop after every reply:                                     *)
SendReplyReturns ==
  /\ process = "up" /\ thread = "sending" /\ repSocket = "open"
  /\ replies' = replies \union {[to |-> request, body |-> outbuf]}
  /\ thread' = IF DispatchExit(request.kind) THEN "quitting" ELSE "gone"
  /\ UNCHANGED <<request, outbuf, dispatched, client, incoming, delivered, host>>

(* The response buffer goes to the socket; QUIT then leaves the loop. *)
SendReply ==
  /\ process = "up" /\ thread = "sending" /\ repSocket = "open"
  /\ replies' = replies \union {[to |-> request, body |-> outbuf]}
  /\ thread' = IF DispatchExit(request.kind) THEN "quitting" ELSE "receiving"
  /\ UNCHANGED <<request, outbuf, dispatched, client, incoming, delivered, host>>

(* The socket was closed by the GUI thread: recv or send throws a          *)
(* zmq::error_t, which is logged, and the thread returns.                  *)
SocketError ==
  /\ process = "up" /\ thread \in {"receiving", "sending"}
  /\ repSocket = "closed"
  /\ thread' = "gone"
  /\ UNCHANGED <<request, outbuf, dispatched, client, incoming, replies,
                 delivered, host>>

(* ZeroMQ sockets are not thread safe: closing one while another thread is *)
(* in a call on it is undefined. Besides the error above, the call may     *)
(* stay blocked (the thread takes no step) or trip an assertion in the     *)
(* library, which aborts the process.                                      *)
SocketRace ==
  /\ process = "up" /\ thread \in {"receiving", "sending"}
  /\ repSocket = "closed"
  /\ process' = "aborted"
  /\ thread' = "gone"
  /\ replies' = {}
  /\ UNCHANGED <<request, outbuf, dispatched, client, incoming, delivered,
                 repSocket, closeAsked, gui>>

(* After the loop: GuiCloseApplication(), and the thread returns. *)
CloseApplication ==
  /\ process = "up" /\ thread = "quitting"
  /\ closeAsked' = TRUE
  /\ thread' = "gone"
  /\ UNCHANGED <<request, outbuf, dispatched, client, incoming, replies,
                 delivered, repSocket, gui, process>>

-----------------------------------------------------------------------------
(* The GUI thread of x64dbg.                                               *)

(* x64dbg begins to close because GuiCloseApplication was called ...       *)
CloseOnRequest ==
  /\ process = "up" /\ gui = "running" /\ closeAsked
  /\ gui' = "stopping"
  /\ UNCHANGED <<client, incoming, replies, delivered, server, repSocket,
                 closeAsked, process>>

(* ... or because its user closes it, at any moment.                       *)
CloseByUser ==
  /\ process = "up" /\ gui = "running"
  /\ gui' = "stopping"
  /\ UNCHANGED <<client, incoming, replies, delivered, server, repSocket,
                 closeAsked, process>>

(* plugstop -> pluginStop -> release_session: rep_socket.close(), whatever *)
(* the server thread is doing. Messages not yet received are lost.         *)
Release ==
  /\ process = "up" /\ gui = "stopping"
  /\ repSocket' = "closed"
  /\ incoming' = {}
  /\ gui' = "released"
  /\ UNCHANGED <<client, replies, delivered, server, closeAsked, process>>

(* The process ends: the detached thread goes with it, and so do replies   *)
(* that are still in ZeroMQ's queues.                                      *)
Exit ==
  /\ process = "up" /\ gui = "released"
  /\ process' = "exited"
  /\ thread' = "gone"
  /\ replies' = {}
  /\ UNCHANGED <<client, incoming, delivered, request, outbuf, dispatched,
                 repSocket, closeAsked, gui>>

-----------------------------------------------------------------------------
Init ==
  /\ pending = [c \in Clients |-> NoRequest]
  /\ count = [c \in Clients |-> 0]
  /\ sent = {} /\ incoming = {} /\ replies = {} /\ delivered = {}
  /\ thread = "receiving" /\ request = NoRequest /\ outbuf = <<>>
  /\ dispatched = {}
  /\ repSocket = "open" /\ closeAsked = FALSE
  /\ gui = "running" /\ process = "up"

ServerNext ==
  \/ \E m \in incoming : Recv(m)
  \/ Dispatch
  \/ DispatchThrows
  \/ SendReply
  \/ SocketError
  \/ SocketRace
  \/ CloseApplication

GuiNext == CloseOnRequest \/ CloseByUser \/ Release \/ Exit

Next ==
  \/ \E c \in Clients : Send(c) \/ GiveUp(c)
  \/ \E r \in replies : Deliver(r)
  \/ ServerNext
  \/ GuiNext

Spec == Init /\ [][Next]_vars

-----------------------------------------------------------------------------
(* Properties.                                                             *)

(* Every variable keeps to its range; in particular the response buffer    *)
(* never holds more than one packed object, and no reply is empty.         *)
TypeOK ==
  /\ pending \in [Clients -> Request \union {NoRequest}]
  /\ count \in [Clients -> 0 .. MaxRequests]
  /\ sent \subseteq Request
  /\ incoming \subseteq Request
  /\ replies \subseteq Reply
  /\ delivered \subseteq Reply
  /\ thread \in Threads
  /\ request \in Request \union {NoRequest}
  /\ outbuf \in {<<>>} \union {<<o>> : o \in Objects}
  /\ dispatched \subseteq Request
  /\ repSocket \in {"open", "closed"}
  /\ closeAsked \in BOOLEAN
  /\ gui \in GuiStates
  /\ process \in {"up", "exited", "aborted"}

(* A reply, on its way or arrived, answers a request that was carried out, *)
(* and is that request's own answer: never what another turn of the loop   *)
(* left in the buffer, never the answer to another client's request.       *)
RepliesFit ==
  \A r \in replies \union delivered :
    r.to \in dispatched /\ r.body = AnswerTo(r.to)

(* A message is carried out at most once, however its client behaves: what *)
(* the server thread is about to dispatch has not been dispatched before.  *)
(* ImplementsRpc contains it.                                              *)
AtMostOnce == thread = "dispatching" => request \notin dispatched

Quitting == \E m \in dispatched : IsQuit(m)

(* After QUIT the thread takes no further request, also when the client    *)
(* that sent it is gone or other clients' requests are already queued.     *)
NothingAfterQuit ==
  Quitting => thread \notin {"receiving", "dispatching"}

(* No request falls between the steps of the loop: until the socket is     *)
(* closed, the request a client waits on is queued, is held by the server  *)
(* thread, or has its reply in the socket. This is what makes OK_QUITTING  *)
(* be in the socket before GuiCloseApplication is called.                  *)
NoRequestLost ==
  process = "up" /\ repSocket = "open" =>
    \A c \in Clients : pending[c] # NoRequest =>
      \/ pending[c] \in incoming
      \/ request = pending[c] /\ thread \in {"dispatching", "sending"}
      \/ \E r \in replies : r.to = pending[c]

(* The loop implements the abstract service: requests carried out one at a *)
(* time, at most once each, each answered with its own answer, and nothing *)
(* carried out after QUIT or after the process has ended.                  *)
RPC == INSTANCE RpcService WITH
         asked     <- sent,
         serving   <- IF thread = "sending" THEN request ELSE NoRequest,
         done      <- dispatched,
         answers   <- delivered,
         accepting <- process = "up" /\ ~Quitting

ImplementsRpc == RPC!Spec
=============================================================================
