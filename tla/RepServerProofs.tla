-------------------------- MODULE RepServerProofs ---------------------------
(***************************************************************************)
(* Proofs about RepServer for any set of clients and any number of         *)
(* messages: its types, its safety invariants, that it implements          *)
(* RpcService, and what clients can rely on because it does.               *)
(***************************************************************************)
EXTENDS RepServer, TLAPS

AllKinds == {"ping", "command", "unknown", "quit", "throws"}

(* The request every kind calls for exactly one answer object, and starting *)
(* from an empty buffer it is what ends up in the buffer.                   *)
LEMMA OneObject ==
  ASSUME NEW k \in AllKinds
  PROVE  /\ WithFallback(<<>> \o Packed(k)) = WithFallback(Packed(k))
         /\ WithFallback(Packed(k)) \in {<<o>> : o \in Objects}
         /\ WithFallback(Packed(k)) # <<>>
  BY DEF AllKinds, WithFallback, Packed, Objects

LEMMA AnswerType ==
  ASSUME NEW m \in Request
  PROVE  /\ AnswerTo(m) \in {<<o>> : o \in Objects}
         /\ AnswerTo(m) # <<>>
         /\ [to |-> m, body |-> AnswerTo(m)] \in Reply
         /\ WithFallback(<<>> \o Packed(m.kind)) = AnswerTo(m)
  <1>1. m.kind \in AllKinds
    BY RequestAssumption DEF Request, AllKinds
  <1> QED
    BY <1>1, OneObject DEF AnswerTo, Reply

-----------------------------------------------------------------------------
(* Types.                                                                  *)

(* A turn of the loop starts from an empty response buffer and dispatches  *)
(* a request it holds.                                                     *)
FreshBuffer == /\ thread = "dispatching" => outbuf = <<>>
               /\ thread \in {"dispatching", "sending", "quitting"} => request \in Request
               /\ thread = "sending" => outbuf # <<>>

TypeInv == TypeOK /\ FreshBuffer

LEMMA TypeInit == Init => TypeInv
  <1> SUFFICES ASSUME Init PROVE TypeInv
    OBVIOUS
  <1>1. 0 \in 0 .. MaxRequests
    BY RequestAssumption
  <1>2. TypeOK
    BY <1>1 DEF Init, TypeOK, Threads, GuiStates
  <1>3. FreshBuffer
    BY DEF Init, FreshBuffer
  <1> QED
    BY <1>2, <1>3 DEF TypeInv

LEMMA TypeStep == TypeInv /\ [Next]_vars => TypeInv'
  <1> SUFFICES ASSUME TypeInv, [Next]_vars PROVE TypeInv'
    OBVIOUS
  <1> USE DEF TypeInv, TypeOK, FreshBuffer, Threads, GuiStates, client, server, host
  <1>1. ASSUME NEW c \in Clients, Send(c) PROVE TypeInv'
    <2>1. PICK k \in Kinds :
            /\ pending' = [pending EXCEPT ![c] = [client |-> c, n |-> count[c] + 1, kind |-> k]]
            /\ incoming' = incoming \union {[client |-> c, n |-> count[c] + 1, kind |-> k]}
            /\ sent' = sent \union {[client |-> c, n |-> count[c] + 1, kind |-> k]}
      BY <1>1 DEF Send
    <2>2. count[c] + 1 \in 1 .. MaxRequests /\ count[c] + 1 \in 0 .. MaxRequests
      BY <1>1, RequestAssumption DEF Send
    <2>3. [client |-> c, n |-> count[c] + 1, kind |-> k] \in Request
      BY <2>2 DEF Request
    <2> QED
      BY <1>1, <2>1, <2>2, <2>3 DEF Send
  <1>2. ASSUME NEW c \in Clients, GiveUp(c) PROVE TypeInv'
    BY <1>2 DEF GiveUp
  <1>3. ASSUME NEW r \in replies, Deliver(r) PROVE TypeInv'
    BY <1>3 DEF Deliver
  <1>4. ASSUME NEW m \in incoming, Recv(m) PROVE TypeInv'
    BY <1>4 DEF Recv
  <1>5. CASE Dispatch
    <2>1. /\ outbuf' = AnswerTo(request)
          /\ AnswerTo(request) \in {<<o>> : o \in Objects}
          /\ AnswerTo(request) # <<>>
      BY <1>5, AnswerType DEF Dispatch
    <2>2. outbuf' \in {<<>>} \union {<<o>> : o \in Objects} /\ outbuf' # <<>>
      BY <2>1
    <2>3. thread' = "sending" /\ request' = request /\ request \in Request
      BY <1>5 DEF Dispatch
    <2>4. FreshBuffer'
      BY <2>2, <2>3
    <2>5. TypeOK'
      BY <1>5, <2>2, <2>3 DEF Dispatch
    <2> QED
      BY <2>4, <2>5
  <1>6. CASE DispatchThrows
    BY <1>6 DEF DispatchThrows
  <1>7. CASE SendReply
    <2>1. [to |-> request, body |-> outbuf] \in Reply
      BY <1>7 DEF SendReply, Reply
    <2> QED
      BY <1>7, <2>1 DEF SendReply
  <1>8. CASE SocketError
    BY <1>8 DEF SocketError
  <1>9. CASE SocketRace
    BY <1>9 DEF SocketRace
  <1>10. CASE CloseApplication
    BY <1>10 DEF CloseApplication
  <1>11. CASE GuiNext
    BY <1>11 DEF GuiNext, CloseOnRequest, CloseByUser, Release, Exit
  <1>12. CASE UNCHANGED vars
    BY <1>12 DEF vars
  <1> QED
    BY <1>1, <1>2, <1>3, <1>4, <1>5, <1>6, <1>7, <1>8, <1>9, <1>10, <1>11,
       <1>12 DEF Next, ServerNext

(* Types hold, and the response buffer never holds more than one object:   *)
(* outbuf is a local of the loop body and every branch packs at most once. *)
THEOREM TypeCorrect == Spec => []TypeOK
  <1>1. TypeInv => TypeOK
    BY DEF TypeInv
  <1> QED
    BY TypeInit, TypeStep, <1>1, PTL DEF Spec

-----------------------------------------------------------------------------
(* The inductive invariant.                                                *)

(* A client waits on its latest message, and numbers never repeat.         *)
Numbered ==
  /\ \A c \in Clients : pending[c] # NoRequest =>
       pending[c] \in sent /\ pending[c].client = c /\ pending[c].n = count[c]
  /\ \A m \in sent : m.n <= count[m.client]

(* A message is in one place: queued, then held, then dispatched.          *)
OnePlace ==
  /\ incoming \subseteq sent
  /\ dispatched \subseteq sent \ incoming
  /\ thread = "dispatching" => request \in sent \ (incoming \union dispatched)

(* What is in the buffer while the thread sends, and nowhere else yet.     *)
Sending ==
  thread = "sending" =>
    /\ request \in dispatched
    /\ outbuf = AnswerTo(request)
    /\ \A r \in replies \union delivered : r.to # request
    /\ Quitting => IsQuit(request)

(* Who got a reply no longer waits for that request.                       *)
AnsweredOnce == \A a \in delivered : pending[a.to.client] # a.to

LoopInv == /\ Numbered /\ OnePlace /\ Sending /\ AnsweredOnce
           /\ RepliesFit /\ AtMostOnce /\ NothingAfterQuit /\ NoRequestLost

LEMMA LoopInit == Init => LoopInv
  BY DEF Init, LoopInv, Numbered, OnePlace, Sending, AnsweredOnce, RepliesFit,
         AtMostOnce, NothingAfterQuit, NoRequestLost, Quitting

(* A client's next message is new: it is neither queued nor dispatched.    *)
LEMMA SendStep ==
  ASSUME TypeInv, LoopInv, NEW c \in Clients, Send(c)
  PROVE  LoopInv'
  <1> USE DEF TypeInv, TypeOK, LoopInv, server, host
  <1>1. PICK m \in Request :
          /\ m.client = c /\ m.n = count[c] + 1
          /\ pending' = [pending EXCEPT ![c] = m]
          /\ incoming' = incoming \union {m}
          /\ sent' = sent \union {m}
    <2>1. PICK k \in Kinds :
            /\ pending' = [pending EXCEPT ![c] = [client |-> c, n |-> count[c] + 1, kind |-> k]]
            /\ incoming' = incoming \union {[client |-> c, n |-> count[c] + 1, kind |-> k]}
            /\ sent' = sent \union {[client |-> c, n |-> count[c] + 1, kind |-> k]}
      BY DEF Send
    <2>2. count[c] + 1 \in 1 .. MaxRequests
      BY RequestAssumption DEF Send
    <2>3. [client |-> c, n |-> count[c] + 1, kind |-> k] \in Request
      BY <2>2 DEF Request
    <2> QED
      BY <2>1, <2>3
  <1>2. /\ count' = [count EXCEPT ![c] = @ + 1]
        /\ UNCHANGED <<replies, delivered, thread, request, outbuf, dispatched,
                       repSocket, process>>
    BY DEF Send
  <1>3. m \notin sent
    <2>1. m \in sent => m.n <= count[c]
      BY <1>1 DEF Numbered
    <2> QED
      BY <1>1, <2>1
  <1>4. Numbered'
    <2>1. \A d \in Clients : count'[d] = IF d = c THEN count[d] + 1 ELSE count[d]
      BY <1>2
    <2>2. \A d \in Clients : pending'[d] = IF d = c THEN m ELSE pending[d]
      BY <1>1
    <2>3. \A x \in sent' : x.n <= count'[x.client]
      BY <1>1, <2>1 DEF Numbered, Request
    <2> QED
      BY <1>1, <2>1, <2>2, <2>3 DEF Numbered
  <1>5. OnePlace'
    BY <1>1, <1>2, <1>3 DEF OnePlace
  <1>6. Sending' /\ RepliesFit' /\ AtMostOnce' /\ NothingAfterQuit'
    BY <1>2 DEF Sending, RepliesFit, AtMostOnce, NothingAfterQuit, Quitting
  <1>7. AnsweredOnce'
    BY <1>1, <1>2, <1>3 DEF AnsweredOnce, RepliesFit, OnePlace, Reply
  <1>8. NoRequestLost'
    BY <1>1, <1>2 DEF NoRequestLost
  <1> QED
    BY <1>4, <1>5, <1>6, <1>7, <1>8

LEMMA GiveUpStep ==
  ASSUME TypeInv, LoopInv, NEW c \in Clients, GiveUp(c)
  PROVE  LoopInv'
  <1> USE DEF TypeInv, TypeOK, LoopInv, server, host
  <1>1. /\ pending' = [pending EXCEPT ![c] = NoRequest]
        /\ incoming' \in {incoming, incoming \ {pending[c]}}
        /\ UNCHANGED <<count, sent, replies, delivered, thread, request, outbuf,
                       dispatched, repSocket, process>>
    BY DEF GiveUp
  <1>2. Numbered'
    BY <1>1 DEF Numbered
  <1>3. OnePlace'
    BY <1>1 DEF OnePlace
  <1>4. Sending' /\ RepliesFit' /\ AtMostOnce' /\ NothingAfterQuit'
    BY <1>1 DEF Sending, RepliesFit, AtMostOnce, NothingAfterQuit, Quitting
  <1>5. AnsweredOnce'
    BY <1>1, RequestAssumption DEF AnsweredOnce, Reply
  <1>6. NoRequestLost'
    BY <1>1 DEF NoRequestLost, Numbered
  <1> QED
    BY <1>2, <1>3, <1>4, <1>5, <1>6

LEMMA DeliverStep ==
  ASSUME TypeInv, LoopInv, NEW r \in replies, Deliver(r)
  PROVE  LoopInv'
  <1> USE DEF TypeInv, TypeOK, LoopInv, server, host
  <1>1. /\ replies' = replies \ {r}
        /\ UNCHANGED <<count, sent, incoming, thread, request, outbuf,
                       dispatched, repSocket, process>>
    BY DEF Deliver
  <1>2. r.to \in Request /\ r.to.client \in Clients /\ r.to # NoRequest
    BY RequestAssumption DEF Reply, Request
  <1>3. CASE pending[r.to.client] = r.to
    <2>1. /\ pending' = [pending EXCEPT ![r.to.client] = NoRequest]
          /\ delivered' = delivered \union {r}
      BY <1>3 DEF Deliver
    <2>2. Numbered'
      BY <1>1, <2>1 DEF Numbered
    <2>3. OnePlace' /\ AtMostOnce' /\ NothingAfterQuit'
      BY <1>1 DEF OnePlace, AtMostOnce, NothingAfterQuit, Quitting
    <2>4. Sending' /\ RepliesFit'
      BY <1>1, <2>1 DEF Sending, RepliesFit, Quitting
    <2>5. AnsweredOnce'
      BY <1>2, <2>1, RequestAssumption DEF AnsweredOnce, Reply, Request
    <2>6. NoRequestLost'
      BY <1>1, <1>2, <1>3, <2>1 DEF NoRequestLost, Numbered
    <2> QED
      BY <2>2, <2>3, <2>4, <2>5, <2>6
  <1>4. CASE pending[r.to.client] # r.to
    <2>1. UNCHANGED <<pending, delivered>>
      BY <1>4 DEF Deliver
    <2>2. NoRequestLost'
      BY <1>1, <1>4, <2>1 DEF NoRequestLost, Numbered
    <2> QED
      BY <1>1, <2>1, <2>2 DEF Numbered, OnePlace, Sending, AnsweredOnce, RepliesFit,
                              AtMostOnce, NothingAfterQuit, Quitting
  <1> QED
    BY <1>3, <1>4

(* A turn of the loop: the held request leaves the queue, is dispatched for *)
(* the first time, and its answer becomes a reply.                          *)
LEMMA ServerStep ==
  ASSUME TypeInv, LoopInv, ServerNext
  PROVE  LoopInv'
  <1> USE DEF TypeInv, TypeOK, LoopInv, client, host
  <1>1. ASSUME NEW m \in incoming, Recv(m) PROVE LoopInv'
    <2>1. /\ process = "up" /\ thread = "receiving"
          /\ incoming' = incoming \ {m} /\ request' = m
          /\ thread' = "dispatching"
          /\ UNCHANGED <<dispatched, client, replies, delivered, host>>
      BY <1>1 DEF Recv
    <2>2. Numbered' /\ Sending' /\ AnsweredOnce' /\ RepliesFit' /\ NothingAfterQuit'
      BY <2>1 DEF Numbered, Sending, AnsweredOnce, RepliesFit, NothingAfterQuit, Quitting
    <2>3. OnePlace' /\ AtMostOnce'
      BY <2>1 DEF OnePlace, AtMostOnce
    <2>4. NoRequestLost'
      BY <2>1 DEF NoRequestLost
    <2> QED
      BY <2>2, <2>3, <2>4
  <1>2. CASE Dispatch
    <2>1. /\ thread = "dispatching" /\ outbuf' = AnswerTo(request)
          /\ dispatched' = dispatched \union {request}
          /\ thread' = "sending" /\ request \in Request
          /\ UNCHANGED <<request, client, incoming, replies, delivered, host>>
      BY <1>2, AnswerType DEF Dispatch, FreshBuffer
    <2>2. request \in sent /\ request \notin incoming /\ request \notin dispatched
      BY <2>1 DEF OnePlace
    <2>3. ~Quitting
      BY <2>1 DEF NothingAfterQuit
    <2>4. OnePlace'
      BY <2>1, <2>2 DEF OnePlace
    <2>5. Sending'
      BY <2>1, <2>2, <2>3 DEF Sending, RepliesFit, Quitting, AnswerTo
    <2>6. RepliesFit'
      BY <2>1 DEF RepliesFit, AnswerTo
    <2>7. Numbered' /\ AnsweredOnce' /\ AtMostOnce' /\ NothingAfterQuit'
      BY <2>1 DEF Numbered, AnsweredOnce, AtMostOnce, NothingAfterQuit, Quitting
    <2>8. NoRequestLost'
      BY <2>1 DEF NoRequestLost
    <2> QED
      BY <2>4, <2>5, <2>6, <2>7, <2>8
  <1>3. CASE SendReply
    <2> DEFINE answer == [to |-> request, body |-> outbuf]
    <2>1. /\ thread = "sending" /\ replies' = replies \union {answer}
          /\ UNCHANGED <<request, outbuf, dispatched, client, incoming, delivered, host>>
      BY <1>3 DEF SendReply
    <2>2. thread' = IF IsQuit(request) THEN "quitting" ELSE "receiving"
      BY <1>3 DEF SendReply, IsQuit
    <2>3. answer.to = request /\ answer.body = AnswerTo(request) /\ request \in dispatched
      BY <2>1 DEF Sending
    <2>4. RepliesFit'
      BY <2>1, <2>3 DEF RepliesFit, AnswerTo
    <2>5. NothingAfterQuit'
      BY <2>1, <2>2 DEF Sending, NothingAfterQuit, Quitting
    <2>6. Numbered' /\ OnePlace' /\ Sending' /\ AnsweredOnce' /\ AtMostOnce'
      BY <2>1, <2>2 DEF Numbered, OnePlace, Sending, AnsweredOnce, AtMostOnce
    <2>7. NoRequestLost'
      BY <2>1, <2>3 DEF NoRequestLost
    <2> QED
      BY <2>4, <2>5, <2>6, <2>7
  <1>4. CASE SocketError
    <2>1. thread' = "gone" /\ repSocket = "closed" /\ thread \in {"receiving", "sending"}
      BY <1>4 DEF SocketError
    <2>2. UNCHANGED <<request, outbuf, dispatched, client, incoming, replies,
                      delivered, host>>
      BY <1>4 DEF SocketError
    <2> QED
      BY <2>1, <2>2 DEF Numbered, OnePlace, Sending, AnsweredOnce, RepliesFit,
           AtMostOnce, NothingAfterQuit, NoRequestLost, Quitting
  <1>5. CASE DispatchThrows \/ SocketRace
    <2>1. process' = "aborted" /\ thread' = "gone" /\ replies' = {}
      BY <1>5 DEF DispatchThrows, SocketRace
    <2>2. UNCHANGED <<dispatched, pending, count, sent, incoming, delivered>>
      BY <1>5 DEF DispatchThrows, SocketRace
    <2> QED
      BY <2>1, <2>2 DEF Numbered, OnePlace, Sending, AnsweredOnce, RepliesFit,
           AtMostOnce, NothingAfterQuit, NoRequestLost, Quitting
  <1>6. CASE CloseApplication
    <2>1. thread = "quitting" /\ thread' = "gone"
      BY <1>6 DEF CloseApplication
    <2>2. UNCHANGED <<request, outbuf, dispatched, client, incoming, replies,
                      delivered, repSocket, gui, process>>
      BY <1>6 DEF CloseApplication
    <2> QED
      BY <2>1, <2>2 DEF Numbered, OnePlace, Sending, AnsweredOnce, RepliesFit,
           AtMostOnce, NothingAfterQuit, NoRequestLost, Quitting
  <1> QED
    BY <1>1, <1>2, <1>3, <1>4, <1>5, <1>6 DEF ServerNext

(* What the GUI thread and the end of the process take away is no request  *)
(* the loop still answers for: the socket is closed by then.               *)
LEMMA GuiStep ==
  ASSUME TypeInv, LoopInv, GuiNext
  PROVE  LoopInv'
  <1> USE DEF TypeInv, TypeOK, LoopInv, client, server
  <1>1. CASE CloseOnRequest \/ CloseByUser
    <2>1. UNCHANGED <<client, incoming, replies, delivered, server, repSocket, process>>
      BY <1>1 DEF CloseOnRequest, CloseByUser
    <2> QED
      BY <2>1 DEF Numbered, OnePlace, Sending, AnsweredOnce, RepliesFit,
           AtMostOnce, NothingAfterQuit, NoRequestLost, Quitting
  <1>2. CASE Release
    <2>1. repSocket' = "closed" /\ incoming' = {}
      BY <1>2 DEF Release
    <2>2. UNCHANGED <<client, replies, delivered, server, process>>
      BY <1>2 DEF Release
    <2> QED
      BY <2>1, <2>2 DEF Numbered, OnePlace, Sending, AnsweredOnce, RepliesFit,
           AtMostOnce, NothingAfterQuit, NoRequestLost, Quitting
  <1>3. CASE Exit
    <2>1. process' = "exited" /\ thread' = "gone" /\ replies' = {}
      BY <1>3 DEF Exit
    <2>2. UNCHANGED <<client, incoming, delivered, request, outbuf, dispatched>>
      BY <1>3 DEF Exit
    <2> QED
      BY <2>1, <2>2 DEF Numbered, OnePlace, Sending, AnsweredOnce, RepliesFit,
           AtMostOnce, NothingAfterQuit, NoRequestLost, Quitting
  <1> QED
    BY <1>1, <1>2, <1>3 DEF GuiNext

LEMMA LoopStep == TypeInv /\ LoopInv /\ [Next]_vars => LoopInv'
  <1> SUFFICES ASSUME TypeInv, LoopInv, [Next]_vars PROVE LoopInv'
    OBVIOUS
  <1>1. CASE UNCHANGED vars
    BY <1>1 DEF vars, client, server, host, TypeInv, TypeOK, LoopInv, Numbered,
         OnePlace, Sending, AnsweredOnce, RepliesFit, AtMostOnce, NothingAfterQuit,
         NoRequestLost, Quitting
  <1>2. CASE \E c \in Clients : Send(c) \/ GiveUp(c)
    BY <1>2, SendStep, GiveUpStep
  <1>3. CASE \E r \in replies : Deliver(r)
    BY <1>3, DeliverStep
  <1>4. CASE ServerNext \/ GuiNext
    BY <1>4, ServerStep, GuiStep
  <1> QED
    BY <1>1, <1>2, <1>3, <1>4 DEF Next

LEMMA LoopInvariant == Spec => [](TypeInv /\ LoopInv)
  BY TypeInit, TypeStep, LoopInit, LoopStep, PTL DEF Spec

(* Every reply, queued or delivered, is the answer to a request that was   *)
(* carried out, and to no other.                                           *)
THEOREM RepliesFitTheir == Spec => []RepliesFit
  BY LoopInvariant, PTL DEF LoopInv

(* However clients retry, no message is carried out twice.                 *)
THEOREM CarriedOutOnce == Spec => []AtMostOnce
  BY LoopInvariant, PTL DEF LoopInv

(* Nothing is received or carried out after QUIT was.                      *)
THEOREM QuitIsLast == Spec => []NothingAfterQuit
  BY LoopInvariant, PTL DEF LoopInv

(* Until the socket is closed a waiting client's request is queued, held   *)
(* or answered.                                                            *)
THEOREM NoneLost == Spec => []NoRequestLost
  BY LoopInvariant, PTL DEF LoopInv

-----------------------------------------------------------------------------
(* Refinement.                                                             *)

serving == IF thread = "sending" THEN request ELSE NoRequest

LEMMA RpcInit == Init => RPC!Init
  BY DEF Init, RPC!Init, Quitting

(* Sending a message asks for it; every other client step changes nothing  *)
(* the service knows of, but a delivery to a waiting client answers it.    *)
LEMMA RpcClient ==
  ASSUME TypeInv, LoopInv,
         \/ \E c \in Clients : Send(c) \/ GiveUp(c)
         \/ \E r \in replies : Deliver(r)
  PROVE  RPC!Next \/ UNCHANGED RPC!vars
  <1> USE DEF TypeInv, TypeOK, server, host
  <1>1. ASSUME NEW c \in Clients, Send(c) PROVE RPC!Next
    <2>1. PICK k \in Kinds :
             sent' = sent \union {[client |-> c, n |-> count[c] + 1, kind |-> k]}
      BY <1>1 DEF Send
    <2>2. count[c] + 1 \in 1 .. MaxRequests
      BY <1>1, RequestAssumption DEF Send
    <2> DEFINE m == [client |-> c, n |-> count[c] + 1, kind |-> k]
    <2>3. m \in Request
      BY <2>2 DEF Request
    <2>4. RPC!Ask(m)
      BY <1>1, <2>1 DEF Send, RPC!Ask, Quitting
    <2> QED
      BY <2>3, <2>4 DEF RPC!Next
  <1>2. ASSUME NEW c \in Clients, GiveUp(c) PROVE UNCHANGED RPC!vars
    BY <1>2 DEF GiveUp, RPC!vars, Quitting
  <1>3. ASSUME NEW r \in replies, Deliver(r) PROVE RPC!Next \/ UNCHANGED RPC!vars
    <2>1. UNCHANGED <<sent, thread, request, dispatched, process>>
      BY <1>3 DEF Deliver
    <2>2. CASE pending[r.to.client] = r.to
      <3>1. delivered' = delivered \union {r}
        BY <1>3, <2>2 DEF Deliver
      <3>2. r.to \in Request /\ r.to \in dispatched /\ r.body = AnswerTo(r.to)
        BY DEF LoopInv, RepliesFit
      <3>3. r = [to |-> r.to, body |-> AnswerTo(r.to)]
        BY <3>2 DEF Reply
      <3>4. r.to # serving
        BY <3>2, RequestAssumption DEF LoopInv, Sending, serving
      <3>5. \A a \in delivered : a.to # r.to
        BY <2>2 DEF LoopInv, AnsweredOnce
      <3>6. RPC!Answer(r.to)
        BY <2>1, <3>1, <3>2, <3>3, <3>4, <3>5 DEF RPC!Answer, Quitting, serving
      <3> QED
        BY <3>2, <3>6 DEF RPC!Next
    <2>3. CASE pending[r.to.client] # r.to
      BY <1>3, <2>1, <2>3 DEF Deliver, RPC!vars, Quitting
    <2> QED
      BY <2>2, <2>3
  <1> QED
    BY <1>1, <1>2, <1>3

(* Dispatch serves a request, leaving the sending state finishes it, and   *)
(* whatever ends the process stops the service.                            *)
LEMMA RpcServer ==
  ASSUME TypeInv, LoopInv, ServerNext \/ GuiNext
  PROVE  RPC!Next \/ UNCHANGED RPC!vars
  <1> USE DEF TypeInv, TypeOK, client, host
  <1>1. CASE \E m \in incoming : Recv(m)
    BY <1>1 DEF Recv, RPC!vars, Quitting
  <1>2. CASE Dispatch
    <2>1. /\ process = "up" /\ thread = "dispatching" /\ thread' = "sending"
          /\ dispatched' = dispatched \union {request}
          /\ UNCHANGED <<request, client, delivered, host>>
      BY <1>2 DEF Dispatch
    <2>2. request \in Request /\ request \in sent \ dispatched /\ ~Quitting
      BY <2>1 DEF FreshBuffer, LoopInv, OnePlace, NothingAfterQuit
    <2>3. (process' = "up" /\ ~Quitting') = ~IsQuit(request)
      BY <2>1, <2>2 DEF Quitting
    <2>4. RPC!Serve(request)
      BY <2>1, <2>2, <2>3 DEF RPC!Serve
    <2> QED
      BY <2>2, <2>4 DEF RPC!Next
  <1>3. CASE SendReply
    <2>1. /\ thread = "sending" /\ thread' \in {"quitting", "receiving"}
          /\ UNCHANGED <<request, dispatched, client, delivered, host>>
      BY <1>3 DEF SendReply
    <2>2. request # NoRequest
      BY <2>1, RequestAssumption DEF FreshBuffer
    <2>3. RPC!Finish
      BY <2>1, <2>2 DEF RPC!Finish, Quitting
    <2> QED
      BY <2>3 DEF RPC!Next
  <1>4. CASE SocketError
    <2>1. /\ thread \in {"sending", "receiving"} /\ thread' = "gone"
          /\ UNCHANGED <<request, dispatched, client, delivered, host>>
      BY <1>4 DEF SocketError
    <2>2. CASE thread = "sending"
      <3>1. request # NoRequest
        BY <2>2, RequestAssumption DEF FreshBuffer
      <3>2. RPC!Finish
        BY <2>1, <2>2, <3>1 DEF RPC!Finish, Quitting
      <3> QED
        BY <3>2 DEF RPC!Next
    <2>3. CASE thread = "receiving"
      BY <2>1, <2>3 DEF RPC!vars, Quitting
    <2> QED
      BY <2>1, <2>2, <2>3
  <1>5. CASE DispatchThrows \/ SocketRace \/ Exit
    <2>1. /\ thread' = "gone" /\ process' \in {"aborted", "exited"}
          /\ UNCHANGED <<sent, dispatched, delivered>>
      BY <1>5 DEF DispatchThrows, SocketRace, Exit
    <2>2. RPC!Stop
      BY <2>1 DEF RPC!Stop, Quitting
    <2> QED
      BY <2>2 DEF RPC!Next
  <1>6. CASE CloseApplication
    BY <1>6 DEF CloseApplication, RPC!vars, Quitting
  <1>7. CASE CloseOnRequest \/ CloseByUser \/ Release
    BY <1>7 DEF CloseOnRequest, CloseByUser, Release, server, RPC!vars, Quitting
  <1> QED
    BY <1>1, <1>2, <1>3, <1>4, <1>5, <1>6, <1>7 DEF ServerNext, GuiNext

(* The threaded, socketed server implements the abstract request service,  *)
(* for any number of clients and messages.                                 *)
THEOREM Refinement == Spec => ImplementsRpc
  <1>1. TypeInv /\ LoopInv /\ [Next]_vars => [RPC!Next]_RPC!vars
    <2> SUFFICES ASSUME TypeInv, LoopInv, [Next]_vars
                 PROVE  RPC!Next \/ UNCHANGED RPC!vars
      OBVIOUS
    <2>1. CASE UNCHANGED vars
      BY <2>1 DEF vars, client, server, host, RPC!vars, Quitting
    <2> QED
      BY <2>1, RpcClient, RpcServer DEF Next
  <1> QED
    BY <1>1, RpcInit, LoopInvariant, PTL DEF Spec, ImplementsRpc, RPC!Spec

-----------------------------------------------------------------------------
(* The promise of the service follows from its specification alone. What   *)
(* is carried out was asked for and is kept in mind, so that no answer     *)
(* can be for a request that is still to be served.                        *)

Kept == /\ RPC!Promise
        /\ dispatched \subseteq sent

LEMMA KeptStep == Kept /\ [RPC!Next]_RPC!vars => Kept'
  <1> SUFFICES ASSUME Kept, [RPC!Next]_RPC!vars PROVE Kept'
    OBVIOUS
  <1>1. ASSUME NEW m \in Request, RPC!Ask(m) PROVE Kept'
    BY <1>1 DEF RPC!Ask, Kept, RPC!Promise
  <1>2. ASSUME NEW m \in Request, RPC!Serve(m) PROVE Kept'
    BY <1>2 DEF RPC!Serve, Kept, RPC!Promise
  <1>3. ASSUME NEW m \in Request, RPC!Answer(m) PROVE Kept'
    BY <1>3 DEF RPC!Answer, Kept, RPC!Promise
  <1>4. CASE RPC!Finish
    BY <1>4 DEF RPC!Finish, Kept, RPC!Promise
  <1>5. CASE RPC!Stop
    BY <1>5 DEF RPC!Stop, Kept, RPC!Promise
  <1>6. CASE UNCHANGED RPC!vars
    BY <1>6 DEF RPC!vars, Kept, RPC!Promise
  <1> QED
    BY <1>1, <1>2, <1>3, <1>4, <1>5, <1>6 DEF RPC!Next

THEOREM ServiceKeepsPromise == RPC!Spec => []RPC!Promise
  <1>1. RPC!Init => Kept
    BY DEF RPC!Init, Kept, RPC!Promise
  <1>2. Kept => RPC!Promise
    BY DEF Kept
  <1> QED
    BY <1>1, <1>2, KeptStep, PTL DEF RPC!Spec

(* A client of the plugin gets at most one answer to a request, its own,   *)
(* and only after the request was carried out, however clients time out,   *)
(* retry or come back with a new socket.                                   *)
THEOREM AnswersAreOwn == Spec => []RPC!Promise
  BY Refinement, ServiceKeepsPromise, PTL DEF ImplementsRpc
=============================================================================
