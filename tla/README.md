# x64dbg-automate: a verification project

The plugin lets programs drive the x64dbg debugger. It runs inside the x64dbg
process, answers MessagePack requests on a ZeroMQ REP socket, publishes debug
events on a PUB socket, and advertises both sockets in a session file that
clients find by process id. This directory models it in TLA+, checks the
models with TLC and proves part of what they promise with TLAPS. Paths below
are relative to the repository (`src/xauto_server.cpp` and so on); in the modules
and in `PROJECT.json`, whose hazards list what is hard to test at its line, the
root of the repository is called `src/`.

## The system

Threads of one x64dbg process that run code of the plugin:

| thread | code | shares |
|---|---|---|
| server thread | `xauto_srv_req_rep_thread`, every command | `rep_socket`, coverage globals, all of x64dbg |
| debug thread(s) | `cb_*`, `cb_trace_execute` | `pub_socket`, coverage globals |
| GUI thread | `pluginit`, the settings dialog, `plugstop` | both sockets, the session file, `x64dbg.ini` |

Around it: the clients, ZeroMQ's I/O thread, the debuggee, other processes whose
threads and ids come and go, the user of x64dbg, and other x64dbg processes on
the same machine.

| component | state | operations | what is hard | what makes it correct |
|---|---|---|---|---|
| request loop | request, response buffer, `rep_socket` | recv, dispatch, send, quit | the GUI thread closes the socket at any step; clients retry; exceptions end the process | a reply is its request's own; nothing twice; nothing after QUIT; no request forgotten; no client shuts out another; QUIT ends the process |
| sessions | bind address, two ports, two sockets, session file | acquire, release, settings dialog | processes race for ports; half of an acquisition fails; crashes, reused pids | complete files are true; sessions are disjoint; all or nothing; nothing left behind |
| event publishing | `pub_socket` | seventeen callbacks, `safe_pub_send` | slow, lost and returning subscribers; close during send | no subscriber keeps a callback from returning; order, no duplicates; who keeps up misses nothing |
| coverage | flag, set, mutex | start, stop, get, clear, trace callback | tracers run against every step of a command | exclusive access; stop freezes; answers are snapshots |
| commands | none of their own | about forty | arguments from outside, calls that fail, others who change x64dbg meanwhile | incomplete requests change nothing; `$result` is the command's own |
| settings dialog | `x64dbg.ini` | open, edit, OK | its defaults and those of `acquire_session` are written twice | shows what the next start uses; what OK accepts is used as it is |
| loading | how many callbacks are registered | `pluginit` | the server thread runs before the callbacks are registered | no event is passed over once loading is done |
| thread suspension | snapshot, two counters | one | threads start and end during the walk, ids are used again | no stranger suspended; nobody twice; no failure means all stopped; it ends |
| process information | process handle | PEB, TLS callbacks, process info | each of several calls may fail or see another process; files that end too early, positions that a seek refuses | one process per reply; handles closed; callbacks come from the file, from where its directory says |
| patches, lists | none | eight | two calls for one list; structures that are not initialised | the code ensures nothing against undefined behaviour here: it is modelled as an outcome, and nothing is claimed about it |
| register dump | none | one | fifty bit fields, a register area that rotates | every bit is found again in its field |

## Modules

| module | role | models |
|---|---|---|
| `RpcService` | abstract specification | what the request/reply side promises |
| `RepServer` | the loop, its clients, the GUI thread | `src/xauto_server.cpp` 13-162, 266-288 |
| `RepStream` | `RepServer` with clients that never run out of requests | the same, and ZeroMQ's fair queueing |
| `SessionBoard` | abstract specification | what clients may rely on in session files |
| `Session` | several processes, sockets, session files, the settings dialog | `src/xauto_server.cpp` 165-277, `src/plugin.cpp` 262-341 |
| `EventFeed` | abstract specification | what subscribers may rely on |
| `EventPub` | callbacks and their registration, PUB socket, subscribers | `src/plugin.cpp` 13-246, 372-396, `src/pluginmain.cpp` 26-34 |
| `CoverageLog` | abstract specification | an atomic set with four commands |
| `Coverage` | commands and trace callback, step by step | `src/xauto_cmd.cpp` 1242-1283, `src/plugin.cpp` 357-363 |
| `Commands` | one action per command with arguments | `src/xauto_cmd.cpp` 23-82, 123-166, 463-719, 797-831, 1048-1163 |
| `Debuggee` | processes, threads and ids the commands look at | external |
| `SuspendThreads` | the walk that suspends the debuggee's threads | `src/xauto_cmd.cpp` 834-874 |
| `RegDump` | pure: bit fields and x87 registers | `src/xauto_cmd.cpp` 169-301, 325-461 |
| `Inspect` | the commands without arguments that look at the debuggee; extends the three above | `src/xauto_cmd.cpp` 11-21, 84-121, 732-794, 877-1046, 1165-1238 |
| `MCRepServer`, `MCSession`, `MCCommands`, `MCInspect` | model values for TLC; the other runs give theirs in the `.cfg` | |
| `RepServerProofs`, `SessionProofs`, `EventPubProofs`, `CoverageProofs`, `CommandsProofs`, `SuspendProofs`, `RegDumpProofs`, `InspectProofs` | theorems and their proofs | |

Definitions keep the source's names where they are one function; operators
called "Mutant of ..." in a comment are not part of any specification: each is
a plausible bug, used to see that a property notices it.

### RepServer

`thread` is the program counter of the server thread. `Recv`, `Dispatch` (or
`DispatchThrows`) and `SendReply` are one turn of the loop; a command is one
step here, because nothing else reads or writes the response buffer while it
runs. `SocketError` is the catch of `zmq::error_t`; any other exception leaves
the detached thread and aborts the process. The GUI thread closes the socket in
`Release`, after `GuiCloseApplication` or because the user closes x64dbg.
Closing a ZeroMQ socket under another thread's call is undefined: the call may
throw (`SocketError`), abort the process (`SocketRace`), or stay blocked (the
thread takes no step, and nothing is assumed to be fair there). A client is a
REQ socket that may give up and send again.

`RepStream` takes the bound on the messages off, for the question whether one
client can shut out another. The socket receives from its connections in turn:
`order` is the order in which it will look at them, and `InTurn` is ZeroMQ's
fair queueing, a message taken is of the first client that has one, which then
goes behind the others. `Forget` drops from the histories what is not on its
way any more and lets a client that has ended be followed by another, which
uses its numbers again, so that both clients may send for ever in a finite
model. QUITs are kept.

### Session

A member of `Procs` is a process id, so a start after a crash is a start with a
reused id. Remote mode is `BindRepRemote` and `BindPubRemote`, local mode the
two loops `BindRepLocal` and `BindPubLocal`, one action per turn: the port is
stored before it is tried. `OpenFile` and one `WriteLine` per line write the
session file; `CloseRep`, `ClosePub`, `RemoveFile` are `release_session`.
`Crash` may happen at any step.

The settings are read in two places: `ConfiguredRep`, `ConfiguredPub` and
`ConfiguredAddress` are what `acquire_session` makes of them, `Shown` is what
the dialog fills into its controls. `SaveSettings` is the dialog from opening to
OK: the controls hold something edited, or what was shown, possibly with the
other mode selected; `DialogAccepts` is the check, `Stored` what is written.

`ImplementsBoard` maps all this to `SessionBoard`: `Held` is what a process has
bound, `Notice` the two endpoints its session file names once it has three
lines, `Stale` whose file names endpoints that were given up, because the
process is stopping or has died. What the board promises its readers
(`Promise`) is proved from its specification alone.

### EventPub

`Raise` enters a callback and computes what the debugger's state becomes;
`ReadDebugString` is the one read a callback makes; `safe_pub_send` hands the
event to the PUB socket, which puts it into the pipe of every subscriber that
has room (`Distribute`). A pipe that overflowed takes nothing until it has
drained by half. Subscribers join, leave and receive as they like.
`ClosePub` may come in the middle of a send on the other thread, which is
undefined for a ZeroMQ socket: the send throws, the process aborts, or the send
never returns and leaves the callback `"blocked"`.
`Register` is one line of `pluginInit`; an event whose callback is not
registered yet passes without one. `early` counts the events raised while the
plugin was loading, which may have been lost; nothing later may.

### Coverage

The flag is stored before the mutex is taken, so every command is two steps at
least, and `coverage_get` one more for every element. `cb_trace_execute` is
check, lock, insert. `allowed` records, at each stop, what the set may still
come to hold. `ImplementsLog` maps the set, the flag and the addresses in
flight to `CoverageLog`.

### Commands

A request is a command with arguments that have a MessagePack type. One cell of
memory, one setting and `$result` stand for what commands share with the
debuggee and the user. The lookup commands have an open result: what they share
is the check of their arguments and the form of their reply. An oversized
number throws, which ends the process as in RepServer; so may the list that
`get_breakpoints` frees without knowing that it was filled. A write that fails
may have changed a part of the memory.

### Debuggee, SuspendThreads, RegDump, Inspect

`Debuggee` is the machine around the plugin: threads start in processes and
end, a process ends with its last thread, ids of both are used again unless a
handle is open, somebody resumes threads, x64dbg attaches and stops debugging.
None of it is code of the repository; it is what the calls of
`src/xauto_cmd.cpp` may meet. `asked` remembers the debuggee at the moment the
command asked for its id, `since` the threads that were started or resumed after
the snapshot.

`SuspendThreads` is `dbg_suspend_all_threads`, one action per call that matters:
`Snapshot`, then `OpenThread` and `SuspendThread` for an entry with the right
process id, `EndOfWalk`. Entries come in any order.

`Inspect` runs that command and the others one at a time on the server thread.
What is read is modelled by where it comes from: each part of a reply is the
process that it was read from, which is what `OneProcess` compares. A step that
may fail has an alternative that answers with what there is. A program file is a
sequence of DWORDs. The difference of two addresses in it wraps around
(`% Dword`), and `Seek` is `SetFilePointer` as it is called: the distance is a
signed LONG, so that the upper half of the DWORDs is refused, nobody looks, and
what is read next is what follows. A read at the end of the file succeeds and
leaves the variable as it was, which may be anything. Positions count DWORDs
where the program's count bytes. `at = "undefined"` may be reached wherever the
code goes through a structure that the call may not have filled, because it does
not look at the result (`Unchecked`), and where the second `PatchEnum` writes
behind the buffer; nothing is modelled after it. When x64dbg leaves a structure
unfilled is not in this repository, so that may happen at every such call. The
register dump is not initialised either: what is packed is the debuggee's or
what was on the stack (`of`).

`RegDump` computes the reply of `dbg_read_regs` from the words of the dump.
`Faithful` compares it, bit by bit, with the layouts of MXCSR and of the
x87 status and control words, and the place of every x87 register with TOP.

`Stage` and `TurnsLeft` measure how far a command is from its end: the kinds of
step still to come, and the turns of the loop it is in.

## Runs

| run | question | distinct states |
|---|---|---|
| `RepServerSafety` | replies, repetition, QUIT, refinement of RpcService | about 1 030 000 |
| `RepServerLive` | service of every client among clients without end, end after QUIT | 224 404 |
| `SessionSafety` | truth of files, refinement of SessionBoard, partial failures, local starts, the dialog | 353 483 |
| `EventPub` | gaps, knowledge of the debugger's state, events while loading, refinement of EventFeed, return of callbacks | 988 511 |
| `Coverage` | data race, freeze, refinement of CoverageLog, return of stop; deadlock | about 918 000 |
| `Commands` | incomplete requests, form of replies, whose `$result` is returned | 8470 |
| `Inspect` | strangers, repetitions and omissions of the walk, mixed replies, handles, positions in the file, register fields, descent to the end and return of commands | 803 632 |
| `SessionFixedPorts`, `SessionDefaultAddress`, `CoverageRange`, `CommandsMissing`, `RegFlags` | expected violations, see Findings | |

Deadlock is checked where the system never stops (Coverage). The others really
stop: the process exits, the bound on messages, starts or events is reached, a
command has run into undefined behaviour.

### Bounds

- `RepServerSafety`: two clients with two messages each are enough for a retry
  after giving up, a request queued behind another client's QUIT, and a reply
  that finds its client waiting on a later message. `ping` is left out there,
  since it differs from `command` only in its reply.
- `RepServerLive`: two clients, each with up to two messages in use at a time
  and no last one: one can have a message in the server and another behind it
  at every moment while the other client waits. `command` is left out there.
- `SessionSafety`: two process ids and three starts, so that an id is used
  again while the other is alive; `PortSpan = 8` scales 16-bit ports down to 3
  bits, with three local ports of which another program keeps one. The
  settings contain the defaults, two instances crossing on the wildcard
  address, one of them with a port that wraps around, and equal ports; the
  dialog starts from any of them and its own defaults. A local start takes
  both ports of the range that are left. `LocalStarts` excuses it only while it
  still needs a port: when each of two starts has taken one, or another process
  holds what it needs. A start that has the range to itself has to come to serve.
- `EventPub`: four events and a pipe of two, so that the third event a
  subscriber does not take overflows, and one is raised after the pipe has
  drained; two subscribers, one that lags and one that does not. Four of the
  seventeen callbacks: the debugger starts, pauses and resumes, and one callback
  reads memory. The others behave like one of these. The registrations are those
  of the same four, in the order of the source, between any two of which
  anything may happen.
- `Coverage`: two tracers and three addresses (below, in and above a range).
- Commands: the argument lists of the needed length or one shorter, with at
  most one mistyped element.
- `Inspect`: two processes, two process ids and two thread ids: enough for an id
  of either kind to pass from the debuggee to a stranger and for a debuggee with
  two threads, and the suspend count can reach its limit (2 for 127). Six
  program files with a DWORD of 32 values, of which the seek takes 16: callbacks
  that end with a zero; a difference that wraps around to callbacks that run to
  the end of the file; one that wraps around to a position the seek refuses; a
  directory at an address it refuses; a directory behind the end of the file,
  and one that is cut by it, where any value may stand for what was not read.
  Register dumps with each bit of every word by itself, all bits, none,
  and each position of the stack's top: a wrong mask shows on one of them,
  since every field is a mask and a shift.

Symmetry is used for clients, in `RepServerSafety`, which checks no liveness
property.

### Fairness

- `RepStream`: the server thread runs and its handlers return; ZeroMQ's I/O
  thread delivers on each connection; x64dbg, once asked to close, closes. All
  of it is weak fairness, and none of it is for the receiving of one client's
  message: that nobody starves follows from the turns and from the loop, which
  comes round to recv. Nothing is assumed of clients or the user, nor of a call
  on a closed socket.
- `Session`: a started process runs on. Ports are drawn uniformly, so a free
  port is drawn some time: fairness on draws that succeed, not on all.
- `Inspect`: a command that has begun runs on. The calls it makes return;
  nothing is assumed of the debuggee, which may start and end threads for ever.
- `EventPub`: a callback runs on, unless the socket was closed in the middle of
  its send. Subscribers need never receive.
- `Coverage`: threads that are not waiting for the mutex run on. `std::mutex`
  is not fair, so waiting for it has only weak fairness; `StopReturns` holds
  because a cleared flag lets no new tracer through. The other commands may
  starve while the debuggee is traced, and no property claims otherwise.

## Proofs

All theorems hold for every value of the constants that satisfies the
assumptions in the modules (`RequestAssumption`, `SessionAssumption`,
`EventAssumption`, `CoverageAssumption`, `CommandsAssumption`, `KeysAssumption`,
`DebuggeeAssumption`, `SuspendAssumption`, `InspectAssumption`). Where a theorem
needs more, its statement says so, and so does its entry below.

- `RepServerProofs`: types, `RepliesFit`, `AtMostOnce`, `NothingAfterQuit`,
  `NoRequestLost`, and the refinement of RpcService (on the instance
  `ImplementsRpc` stands for `AtMostOnce`, which it contains). The safety properties are
  not inductive: `LoopInv` adds that a client's messages are numbered by what
  it has sent (`Numbered`), that a message is in one place at a time, queued,
  held or dispatched (`OnePlace`), what the buffer holds while the thread is
  sending (`Sending`), and that a message has one reply, on its way or
  delivered (`AnsweredOnce`). `ServiceKeepsPromise` is about RpcService only;
  with the refinement it gives `AnswersAreOwn`: a client gets at most one
  answer to a request, its own, after the request was carried out.
- `SessionProofs`: types, `AllOrNothing` and `NothingLeft` without a condition;
  `FileIsTrue`, `ServeApart` and the refinement of SessionBoard under `NoWrap`,
  that no stored port is 0 modulo 65536. The code does not ensure that (see
  `SessionFixedPorts`), and without it the session file does say 0. The
  invariant `SessionInv` tells what each step has bound and written so far and
  that no two bound sockets clash; it needs no condition, because it speaks of
  the port of a socket only where the system has not chosen it. `PortsKnown`,
  under `NoWrap`, adds that it never has. For the refinement each step is shown
  to be the one process's own (`OthersKeep`): a bind that succeeds takes, the third line
  posts, a close, a failed second bind and a crash leave, truncation and
  removal take down, and the rest stutters. That a complete file belongs to a
  serving process or is stale (`StaleUnlessServing`) is what makes a new process
  of the same id start without a live notice. `BoardKeepsPromise` is about
  SessionBoard only; with the refinement it gives `ClientsFindTheirSession`: who
  reads a complete session file finds its process, and no other, at both
  endpoints until that process stops or dies. `DialogShowsNext` and
  `AcceptedIsUsed` need no condition: what the dialog accepts is between 1
  and 65535, so that the casts change nothing (`SmallRemainder`).
- `EventPubProofs`: types, `NoGaps`, the refinement of EventFeed,
  `EveryEventOut` and `KnowsState`, without a condition. `Gapless` adds to `NoGaps`
  that only connected subscribers have anything in their pipes and what was
  noted when they joined. `FeedInv` says that events are numbered as they are
  raised, that the callback running is that of the last one, that what went out
  was raised before it, and that what a subscriber has seen, followed by its
  pipe, is in order. `FeedKeepsPromise` is about EventFeed only; with the
  refinement it gives `SubscribersSeeInOrder`: whatever a subscriber misses,
  what it sees was raised just so, in that order and once. `StateInv` adds that everything raised after loading is out
  or its callback runs (`OutSince`), that messages go out in order under their
  events' names, and that the debugger's state is the one the last telling event
  tells (`LastTells`). `RegistersAll` goes through the list of `pluginInit`:
  at its end each of the seventeen callbacks is registered.
- `CoverageProofs`: types, mutual exclusion, `StopFreezes`, and the refinement
  of CoverageLog. A thread is inside the set exactly when it holds the mutex,
  and while `coverage_get` loops, what it kept and what it has still to visit
  make up the answer for the set as it is.
- `SuspendProofs`: `StrangersLeftAlone`, `OncePerCommand` and `NoFailureStops`
  for any processes, threads and ids, first as theorems of `SuspendSpec`, the
  command by itself among processes that do what they like. The invariant `SuspendInv`
  says that living processes differ in their ids (`PidsApart`), that the
  debuggee lives or has ended (`DebuggeeKnown`), that what a snapshot entry says
  of its thread stays true until the id is given away (`EntriesTrue`), that a
  thread is listed once and not after it was dealt with (`EntriesOnce`), and
  that each thread of the debuggee's is still to come, in hand, suspended or
  counted as a failure (`Covered`). `PidsApart` and `DebuggeeKnown` are needed
  because the command holds no handle of the process: only while the debuggee
  lives does its id mean it.

- `CommandsProofs`: types and `ResultIsOwn` without a condition; the invariant
  `Evaluating` says what lies between a command and the evaluation of its
  `$result`. `IncompleteIsRejected` holds if every request has the elements its
  check looks at (`WithinArray`), since what lies behind the array may be
  anything: that is the run `CommandsMissing`.
- `InspectProofs`: types, `HandlesClosed`, `OneProcess` and
  `CallbacksFromFile`, with all commands together. `PidsApart` and
  `DebuggeeKnown` come from `SuspendProofs`; `AskedFor` says that a command works
  with the id of the process that was debugged when it asked, and that this one
  still is debugged or was left; `HandleIs` that a process held has this id, and
  is that process unless it has ended; `PartsAre` that what was read so far is
  from the process held. `JustRead` says that the callbacks found are what lies
  just before the position in the file, and `StartsAt` where they began: at the
  address the directory names, modulo 2^32, or behind the directory if the seek
  refused that. It speaks of directories that are all in the file; of others
  the address is not known. Every step of `Spec`
  is one of `SuspendSpec` or lies outside any walk (`StepOf`), so `SuspendInv`
  holds here too, and with it the three properties of the walk that the run
  `Inspect` checks. `RegistersDecoded` follows from `RegDumpProofs`, since a
  dump is packed from what was read in one call. `NearsEnd` needs that the
  snapshot is finite (`TodoFinite`), for which `InspectAssumption` has finitely
  many thread ids: each of a command's own steps lowers `Stage`, or keeps it and
  lowers `TurnsLeft`, and no step of the machine around it touches either, so
  there is no infinite run of a command's steps. That it takes these steps is
  fairness, and `CommandReturns` stays with TLC.
- `RegDumpProofs`: `DumpFaithful`, for any words: every bit that the processor
  defines is found in the field of its name, those of wider fields in their
  order, and every x87 register at its place above TOP.

Only model-checked: the liveness properties `EveryClientServed`,
`QuitEndsProcess`, `LocalStarts`, `CallbackReturns`, `StopReturns` and
`CommandReturns` (fairness and ENABLED are outside the prover's reach).

## Findings

- `SessionDefaultAddress`: remote mode without `BindAddress` listens on
  0.0.0.0; the repository's README documents 127.0.0.1.
- `SessionFixedPorts`: a port above 65535 in `x64dbg.ini` is truncated to 16
  bits; 65536 becomes 0 and the port is random. The dialog refuses such ports,
  `acquire_session` does not.
- `CoverageRange`: `coverage_get` with start 0 and an end ignores the end.
- `CommandsMissing`: the two commands that write a setting look at a fourth
  element after checking for three.
- `RegFlags`: the nine flags of a register dump are always 0. The structure under
  the comment "Calculated" is cleared and packed; nothing is ever assigned to
  it. EFLAGS itself is in the reply, so a client can compute them.

Two more divergences have no run. The capture of `$result` is called atomic
(`src/xauto_cmd.h:24`) and is two calls; the server's own requests cannot come
between them (`ResultIsOwn`), commands of the user can. And the repository's README
(line 96) describes replies as `[status, result_data]`, while a successful reply
is the bare value and only an error is a pair.

## Not modelled

- What the list commands copy: their entries are abstract, as are the results of
  lookups in x64dbg's databases. The two names that `dbg_read_regs` formats
  (last error, last status) and what it copies unchanged are left out.
- The encoding: MessagePack is a library, and what is modelled is which types
  an argument may have and which form a reply takes.
- What happens after the plugin is unloaded while x64dbg goes on: the detached
  thread's code is gone, and no outcome can be stated.
- Errors of ZeroMQ other than those that follow from a closed socket: the code
  ends its thread on any of them, and nothing says which may occur.
- When a call of x64dbg leaves the structure that it is given as it was: that is
  not in the repository, and the models let it happen at every call.
- Memory use, log messages, menus, window handles and the layout of the dialog.
- The build and packaging scripts.

## Plan

Done: every component of the running program but the declarations of the wire
format, with proofs for all of them. Every safety and action property that a
passing run checks is also proved. Next: for the other loops that have to
end what `NearsEnd` is for commands, a descent that fairness turns into
liveness. RpcService, EventFeed and SessionBoard have their `Promise` proved from
them alone; what CoverageLog promises is its steps themselves. What would come
after that needs more than the repository has: what lookups find in x64dbg's
databases (for the commands with arguments) and the errors ZeroMQ may report
(for the request loop).
