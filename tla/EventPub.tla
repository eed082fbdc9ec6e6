------------------------------ MODULE EventPub ------------------------------
(***************************************************************************)
(* The pub/sub side of one plugin instance: the debug-event callbacks      *)
(* (cb_*, src/src/plugin.cpp), safe_pub_send, and the subscribers of the   *)
(* PUB socket. x64dbg calls the callbacks on its debug thread, one at a    *)
(* time, and the debuggee stands still until the callback returns. The GUI *)
(* thread may close the socket at any moment (release_session). The        *)
(* callbacks are registered one by one while the plugin loads, when the    *)
(* sockets are bound and the server thread runs: a client may have started *)
(* a debugging session by then.                                            *)
(***************************************************************************)
EXTENDS Naturals, Sequences

CONSTANTS Subscribers,  (* SUB sockets that may connect                    *)
          Callbacks,    (* the callbacks x64dbg calls                      *)
          HighWater,    (* messages a subscriber's pipe holds              *)
          MaxEvents,    (* bound: events raised                            *)
          NoEvent       (* no callback is being run                        *)

(* The callbacks pluginInit registers, and the name of the event that each *)
(* publishes.                                                              *)
EventName ==
  [CB_BREAKPOINT        |-> "EVENT_BREAKPOINT",
   CB_SYSTEMBREAKPOINT  |-> "EVENT_SYSTEMBREAKPOINT",
   CB_CREATETHREAD      |-> "EVENT_CREATE_THREAD",
   CB_EXITTHREAD        |-> "EVENT_EXIT_THREAD",
   CB_LOADDLL           |-> "EVENT_LOAD_DLL",
   CB_UNLOADDLL         |-> "EVENT_UNLOAD_DLL",
   CB_OUTPUTDEBUGSTRING |-> "EVENT_OUTPUT_DEBUG_STRING",
   CB_EXCEPTION         |-> "EVENT_EXCEPTION",
   CB_STEPPED           |-> "EVENT_STEPPED",
   CB_RESUMEDEBUG       |-> "EVENT_RESUME_DEBUG",
   CB_PAUSEDEBUG        |-> "EVENT_PAUSE_DEBUG",
   CB_ATTACH            |-> "EVENT_ATTACH",
   CB_DETACH            |-> "EVENT_DETACH",
   CB_INITDEBUG         |-> "EVENT_INIT_DEBUG",
   CB_STOPDEBUG         |-> "EVENT_STOP_DEBUG",
   CB_CREATEPROCESS     |-> "EVENT_CREATE_PROCESS",
   CB_EXITPROCESS       |-> "EVENT_EXIT_PROCESS"]

(* The order in which they are registered.                                 *)
Registrations ==
  <<"CB_BREAKPOINT", "CB_SYSTEMBREAKPOINT", "CB_CREATETHREAD", "CB_EXITTHREAD",
    "CB_LOADDLL", "CB_UNLOADDLL", "CB_OUTPUTDEBUGSTRING", "CB_EXCEPTION",
    "CB_STEPPED", "CB_RESUMEDEBUG", "CB_PAUSEDEBUG", "CB_INITDEBUG",
    "CB_STOPDEBUG", "CB_ATTACH", "CB_DETACH", "CB_CREATEPROCESS", "CB_EXITPROCESS">>

States == {"idle", "running", "paused"}

(* The n-th event raised. Its data are those of callbackInfo, or have to   *)
(* be read first.                                                          *)
Event == [n : 1 .. MaxEvents, cb : Callbacks, data : {"present", "unread"}]
Message == [n : 1 .. MaxEvents, name : {EventName[cb] : cb \in Callbacks},
            data : {"present", "unread"}]

(* Mutant of Packed: two callbacks that publish each other's event.        *)
Swapped(cb) == CASE cb = "CB_PAUSEDEBUG"  -> "CB_RESUMEDEBUG"
                 [] cb = "CB_RESUMEDEBUG" -> "CB_PAUSEDEBUG"
                 [] OTHER                 -> cb
PackedSwapped(e) == [n |-> e.n, name |-> EventName[Swapped(e.cb)], data |-> e.data]

Packed(e) == [n |-> e.n, name |-> EventName[e.cb], data |-> e.data]

ASSUME EventAssumption ==
  /\ Callbacks \subseteq DOMAIN EventName
  /\ HighWater \in Nat \ {0}
  /\ MaxEvents \in Nat
  /\ NoEvent \notin Event

VARIABLES
  registrations,  (* how far pluginInit is in its list of callbacks        *)
  early,     (* history: how many events were raised before it was done    *)
  debugger,  (* what the debugger does: a member of States                 *)
  raised,    (* history: the events raised                                 *)
  event,     (* the event whose callback runs, or NoEvent                  *)
  callback,  (* where the callback is                                      *)
  pubSocket, (* is the PUB socket open?                                    *)
  process,   (* is the x64dbg process alive?                               *)
  published, (* history: the messages given to the PUB socket              *)
  joined,    (* joined[s]: is subscriber s connected?                      *)
  pipe,      (* pipe[s]: messages on their way to s                        *)
  full,      (* full[s]: s is sent nothing until its pipe has drained      *)
  seen,      (* history: seen[s]: messages s has received                  *)
  since      (* history: since[s]: how many messages had been published    *)
             (* and how many s had seen when s joined, and whether one was *)
             (* dropped for s since                                        *)

debug == <<debugger, raised, event, callback>>
subs  == <<joined, pipe, full, seen, since>>
loading == <<registrations, early>>
vars  == <<loading, debug, pubSocket, process, published, subs>>

-----------------------------------------------------------------------------
(* The plugin is loaded, and x64dbg raises events.                         *)

(* The calls still to come, but for callbacks that x64dbg does not call.   *)
ToCome == {i \in registrations + 1 .. Len(Registrations) : Registrations[i] \in Callbacks}
Loaded == ToCome = {}

(* pluginInit: the next call of _plugin_registercallback. *)
Register ==
  /\ process = "up"
  /\ \E i \in ToCome : (\A j \in ToCome : i <= j) /\ registrations' = i
  /\ UNCHANGED <<early, debug, pubSocket, process, published, subs>>

(* Mutant of Registered: a line that was copied and not changed.           *)
RegisteredTwice == {Registrations[IF i = 11 THEN 10 ELSE i] : i \in 1 .. registrations}

Registered == {Registrations[i] : i \in 1 .. registrations}

(* Which events the debugger can raise in a state, and the state after.    *)
Raises(cb, from, to) ==
  CASE cb \in {"CB_INITDEBUG", "CB_ATTACH"}  -> from = "idle" /\ to = "running"
    [] cb = "CB_RESUMEDEBUG"                 -> from = "paused" /\ to = "running"
    [] cb = "CB_PAUSEDEBUG"                  -> from = "running" /\ to = "paused"
    [] cb \in {"CB_STOPDEBUG", "CB_DETACH"}  -> from # "idle" /\ to = "idle"
    [] OTHER                                 -> from = "running" /\ to = from

(* An event, for which the callback is entered if it is registered. Only   *)
(* cb_debugstr has something to do before it packs: the fields of the      *)
(* others are in callbackInfo.                                             *)
Raise(cb) ==
  /\ process = "up" /\ event = NoEvent
  /\ Len(raised) < MaxEvents
  /\ \E to \in States : Raises(cb, debugger, to) /\ debugger' = to
  /\ LET e == [n |-> Len(raised) + 1, cb |-> cb,
               data |-> IF cb = "CB_OUTPUTDEBUGSTRING" THEN "unread" ELSE "present"]
     IN  /\ raised' = Append(raised, e)
         /\ \/ /\ cb \in Registered
               /\ event' = e
               /\ callback' = IF e.data = "unread" THEN "reading" ELSE "sending"
            \/ /\ cb \notin Registered
               /\ UNCHANGED <<event, callback>>
  /\ early' = IF Loaded THEN early ELSE Len(raised')
  /\ UNCHANGED <<registrations, pubSocket, process, published, subs>>

(* The callback returns, and x64dbg and the debuggee continue. *)
Return == event' = NoEvent /\ callback' = "none"

-----------------------------------------------------------------------------
(* The callbacks.                                                          *)

(* Mutant of ReadDebugString: packs the buffer whether or not it was read. *)
ReadDebugStringGoesOn ==
  /\ process = "up" /\ callback = "reading"
  /\ callback' = "sending"
  /\ event' \in {event, [event EXCEPT !.data = "present"]}
  /\ UNCHANGED <<loading, debugger, raised, pubSocket, process, published, subs>>

(* cb_debugstr reads the string from the debuggee's memory; if that fails  *)
(* it returns without an event.                                            *)
ReadDebugString ==
  /\ process = "up" /\ callback = "reading"
  /\ \/ callback' = "sending" /\ event' = [event EXCEPT !.data = "present"]
     \/ Return
  /\ UNCHANGED <<loading, debugger, raised, pubSocket, process, published, subs>>

(* A PUB socket queues a message for each subscriber whose pipe has room,  *)
(* and drops it for the others; a pipe that was full first has to drain.   *)
(* (FitsAlways is a mutant of Fits: no high-water mark set.)               *)
FitsAlways(s) == ~full[s]
Fits(s) == ~full[s] /\ Len(pipe[s]) < HighWater

Distribute(m) ==
  /\ published' = Append(published, m)
  /\ pipe' = [s \in Subscribers |-> IF joined[s] /\ Fits(s) THEN Append(pipe[s], m)
                                    ELSE pipe[s]]
  /\ full' = [s \in Subscribers |-> joined[s] /\ ~Fits(s)]
  /\ since' = [s \in Subscribers |->
                 IF joined[s] /\ ~Fits(s) THEN [since[s] EXCEPT !.dropped = TRUE]
                 ELSE since[s]]
  /\ UNCHANGED <<joined, seen>>

(* Mutants of safe_pub_send. Without dontwait, on a socket that reports    *)
(* full pipes: the callback waits for the slowest subscriber.              *)
SendWaits ==
  /\ process = "up" /\ callback = "sending"
  /\ IF pubSocket = "open"
     THEN (\A s \in Subscribers : joined[s] => Fits(s)) /\ Distribute(Packed(event))
     ELSE UNCHANGED <<published, subs>>
  /\ Return
  /\ UNCHANGED <<loading, debugger, raised, pubSocket, process>>

(* On a socket that reports full pipes: EAGAIN, nobody gets the event.     *)
SendAllOrNone ==
  /\ process = "up" /\ callback = "sending"
  /\ IF pubSocket = "open" /\ \A s \in Subscribers : joined[s] => Fits(s)
     THEN Distribute(Packed(event))
     ELSE /\ published' = IF pubSocket = "open" THEN Append(published, Packed(event)) ELSE published
          /\ UNCHANGED subs
  /\ Return
  /\ UNCHANGED <<loading, debugger, raised, pubSocket, process>>

(* Sent again while there is a subscriber that is behind. *)
SendRetries ==
  /\ process = "up" /\ callback = "sending"
  /\ IF pubSocket = "open" THEN Distribute(Packed(event)) ELSE UNCHANGED <<published, subs>>
  /\ IF \E s \in Subscribers : joined[s] /\ ~Fits(s) /\ ~full[s]
     THEN UNCHANGED <<event, callback>> ELSE Return
  /\ UNCHANGED <<loading, debugger, raised, pubSocket, process>>

(* The event goes to the PUB socket, which does not block. On a closed     *)
(* socket the send throws, which is logged; the callback returns too.      *)
safe_pub_send ==
  /\ process = "up" /\ callback = "sending"
  /\ IF pubSocket = "open" THEN Distribute(Packed(event)) ELSE UNCHANGED <<published, subs>>
  /\ Return
  /\ UNCHANGED <<loading, debugger, raised, pubSocket, process>>

-----------------------------------------------------------------------------
(* The GUI thread, and the subscribers.                                    *)

(* pub_socket.close(). ZeroMQ sockets are not thread safe: closing one     *)
(* while the debug thread is sending on it is undefined. Besides the error *)
(* that safe_pub_send catches, the send may trip an assertion in the       *)
(* library, which aborts the process, or never return.                     *)
ClosePub ==
  /\ process = "up" /\ pubSocket = "open" /\ Loaded
  /\ pubSocket' = "closed"
  /\ \/ UNCHANGED <<callback, process>>
     \/ callback = "sending" /\ process' = "aborted" /\ UNCHANGED callback
     \/ callback = "sending" /\ callback' = "blocked" /\ UNCHANGED process
  /\ UNCHANGED <<loading, debugger, raised, event, published, subs>>

Exit ==
  /\ process = "up" /\ pubSocket = "closed"
  /\ process' = "exited"
  /\ UNCHANGED <<loading, debug, pubSocket, published, subs>>

(* A subscription reaches the PUB socket. *)
Join(s) ==
  /\ process = "up" /\ pubSocket = "open" /\ ~joined[s]
  /\ joined' = [joined EXCEPT ![s] = TRUE]
  /\ since' = [since EXCEPT ![s] = [published |-> Len(published),
                                    seen |-> Len(seen[s]), dropped |-> FALSE]]
  /\ UNCHANGED <<loading, debug, pubSocket, process, published, pipe, full, seen>>

(* A subscriber's connection is gone, and its pipe with it.                *)
Leave(s) ==
  /\ joined[s]
  /\ joined' = [joined EXCEPT ![s] = FALSE]
  /\ pipe' = [pipe EXCEPT ![s] = <<>>]
  /\ full' = [full EXCEPT ![s] = FALSE]
  /\ UNCHANGED <<loading, debug, pubSocket, process, published, seen, since>>

(* A subscriber receives. A full pipe that has drained by half is open     *)
(* again. What is queued when the socket closes is still delivered.        *)
Receive(s) ==
  /\ process = "up" /\ pipe[s] # <<>>
  /\ seen' = [seen EXCEPT ![s] = Append(@, Head(pipe[s]))]
  /\ pipe' = [pipe EXCEPT ![s] = Tail(@)]
  /\ full' = [full EXCEPT ![s] = @ /\ Len(pipe[s]) - 1 > HighWater \div 2]
  /\ UNCHANGED <<loading, debug, pubSocket, process, published, joined, since>>

-----------------------------------------------------------------------------
(* The socket is not open when the session could not be acquired.          *)
Init ==
  /\ registrations = 0 /\ early = 0
  /\ debugger = "idle" /\ raised = <<>> /\ event = NoEvent /\ callback = "none"
  /\ pubSocket \in {"open", "closed"} /\ process = "up"
  /\ published = <<>>
  /\ joined = [s \in Subscribers |-> FALSE]
  /\ pipe = [s \in Subscribers |-> <<>>]
  /\ full = [s \in Subscribers |-> FALSE]
  /\ seen = [s \in Subscribers |-> <<>>]
  /\ since = [s \in Subscribers |-> [published |-> 0, seen |-> 0, dropped |-> FALSE]]

DebugThread == (\E cb \in Callbacks : Raise(cb)) \/ ReadDebugString \/ safe_pub_send

Next ==
  \/ Register
  \/ DebugThread
  \/ ClosePub \/ Exit
  \/ \E s \in Subscribers : Join(s) \/ Leave(s) \/ Receive(s)

Spec == Init /\ [][Next]_vars

(* A callback keeps running. Nothing is assumed of x64dbg, of the user and *)
(* of the subscribers, which may never receive.                            *)
FairSpec == Spec /\ WF_vars(ReadDebugString \/ safe_pub_send)

-----------------------------------------------------------------------------
(* Properties.                                                             *)

(* Every variable keeps to its range; in particular a callback runs for    *)
(* one event at a time, and no pipe holds more than HighWater messages.    *)
TypeOK ==
  /\ registrations \in 0 .. Len(Registrations)
  /\ early \in 0 .. Len(raised)
  /\ debugger \in States
  /\ raised \in Seq(Event)
  /\ event \in Event \union {NoEvent}
  /\ callback \in {"none", "reading", "sending", "blocked"}
  /\ callback = "none" <=> event = NoEvent
  /\ pubSocket \in {"open", "closed"}
  /\ process \in {"up", "exited", "aborted"}
  /\ published \in Seq(Message)
  /\ joined \in [Subscribers -> BOOLEAN]
  /\ pipe \in [Subscribers -> Seq(Message)]
  /\ \A s \in Subscribers : Len(pipe[s]) <= HighWater
  /\ full \in [Subscribers -> BOOLEAN]
  /\ seen \in [Subscribers -> Seq(Message)]
  /\ since \in [Subscribers -> [published : Nat, seen : Nat, dropped : BOOLEAN]]

(* A subscriber that keeps up misses nothing, however slow the others are: *)
(* as long as its own pipe never overflowed, what it has received since it *)
(* joined and what is in its pipe are all that was published since then.   *)
NoGaps ==
  \A s \in Subscribers : joined[s] /\ ~since[s].dropped =>
    SubSeq(seen[s], since[s].seen + 1, Len(seen[s])) \o pipe[s]
      = SubSeq(published, since[s].published + 1, Len(published))

(* The debugger state a client concludes from an event. *)
Tells(name) ==
  CASE name \in {"EVENT_INIT_DEBUG", "EVENT_ATTACH", "EVENT_RESUME_DEBUG"} -> "running"
    [] name = "EVENT_PAUSE_DEBUG"                      -> "paused"
    [] name \in {"EVENT_STOP_DEBUG", "EVENT_DETACH"}   -> "idle"
    [] OTHER                                           -> "nothing"

Telling(s) ==
  {i \in since[s].seen + 1 .. Len(seen[s]) : Tells(seen[s][i].name) # "nothing"}

(* A client that follows the events knows the debugger: between callbacks, *)
(* with its pipe empty and nothing dropped, the last event it saw that     *)
(* tells the debugger's state tells the state the debugger is in, unless   *)
(* later ones were raised before the plugin was loaded.                    *)
KnowsState ==
  \A s \in Subscribers :
    (/\ joined[s] /\ ~since[s].dropped /\ pipe[s] = <<>>
     /\ pubSocket = "open" /\ event = NoEvent /\ Telling(s) # {})
      => \E i \in Telling(s) :
           /\ \A j \in Telling(s) : j <= i
           /\ seen[s][i].n >= early => Tells(seen[s][i].name) = debugger

(* No event is passed over once pluginit has returned, although clients    *)
(* are served before: each has gone out when its callback is over, but for *)
(* debug strings that could not be read.                                   *)
EveryEventOut ==
  Loaded /\ pubSocket = "open" /\ event = NoEvent =>
    \A i \in early + 1 .. Len(raised) :
      \/ raised[i].cb = "CB_OUTPUTDEBUGSTRING"
      \/ \E j \in 1 .. Len(published) : published[j] = Packed(raised[i])

(* Every subscriber sees events that were raised, in the order they were   *)
(* raised, each at most once, across drops and reconnections.              *)
FEED == INSTANCE EventFeed WITH
          Event  <- {m \in Message : m.data = "present"},
          raised <- [i \in DOMAIN raised |-> [Packed(raised[i]) EXCEPT !.data = "present"]],
          out    <- published

ImplementsFeed == FEED!Spec

(* The comment at safe_pub_send: a callback is not stalled by subscribers  *)
(* that are slow or gone. Every callback returns, or the process has died  *)
(* or ended, unless the socket was closed in the middle of its send.       *)
CallbackReturns ==
  event # NoEvent ~> event = NoEvent \/ process # "up" \/ callback = "blocked"
=============================================================================
