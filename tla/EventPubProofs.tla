--------------------------- MODULE EventPubProofs ---------------------------
(***************************************************************************)
(* Proofs about EventPub for any subscribers and callbacks, any high-water *)
(* mark and any number of events: types, NoGaps, that it implements        *)
(* EventFeed and keeps its promise, and what clients know of the debugger. *)
(***************************************************************************)
EXTENDS EventPub, SequenceTheorems, TLAPS

-----------------------------------------------------------------------------
(* Types.                                                                  *)

LEMMA PackedType ==
  ASSUME NEW e \in Event
  PROVE  Packed(e) \in Message
  BY DEF Packed, Event, Message

LEMMA RegistrationsCount == Len(Registrations) = 17
  BY DEF Registrations

LEMMA TypeInit == Init => TypeOK
  BY EventAssumption, RegistrationsCount DEF Init, TypeOK, States

(* What Distribute leaves behind it, for a message. *)
LEMMA DistributeType ==
  ASSUME TypeOK, NEW m \in Message, Distribute(m)
  PROVE  /\ published' \in Seq(Message)
         /\ joined' \in [Subscribers -> BOOLEAN]
         /\ pipe' \in [Subscribers -> Seq(Message)]
         /\ \A s \in Subscribers : Len(pipe'[s]) <= HighWater
         /\ full' \in [Subscribers -> BOOLEAN]
         /\ seen' \in [Subscribers -> Seq(Message)]
         /\ since' \in [Subscribers -> [published : Nat, seen : Nat, dropped : BOOLEAN]]
  <1>1. published' \in Seq(Message)
    BY DEF TypeOK, Distribute
  <1>2. pipe' \in [Subscribers -> Seq(Message)]
    BY DEF TypeOK, Distribute
  <1>3. \A s \in Subscribers : Len(pipe'[s]) <= HighWater
    <2> TAKE s \in Subscribers
    <2>1. pipe[s] \in Seq(Message) /\ Len(pipe[s]) <= HighWater /\ Len(pipe[s]) \in Nat
      BY DEF TypeOK
    <2>2. CASE joined[s] /\ Fits(s)
      <3>1. pipe'[s] = Append(pipe[s], m) /\ Len(pipe[s]) < HighWater
        BY <2>2 DEF Distribute, Fits
      <3>2. Len(pipe'[s]) = Len(pipe[s]) + 1
        BY <2>1, <3>1
      <3> QED
        BY <2>1, <3>1, <3>2, EventAssumption
    <2>3. CASE ~(joined[s] /\ Fits(s))
      BY <2>1, <2>3 DEF Distribute
    <2> QED
      BY <2>2, <2>3
  <1>4. full' \in [Subscribers -> BOOLEAN]
    BY DEF TypeOK, Distribute, Fits
  <1>5. since' \in [Subscribers -> [published : Nat, seen : Nat, dropped : BOOLEAN]]
    <2>1. \A s \in Subscribers :
            [since[s] EXCEPT !.dropped = TRUE] \in [published : Nat, seen : Nat, dropped : BOOLEAN]
      BY DEF TypeOK
    <2> QED
      BY <2>1 DEF TypeOK, Distribute
  <1> QED
    BY <1>1, <1>2, <1>3, <1>4, <1>5 DEF TypeOK, Distribute

LEMMA TypeStep == TypeOK /\ [Next]_vars => TypeOK'
  <1> SUFFICES ASSUME TypeOK, [Next]_vars PROVE TypeOK'
    OBVIOUS
  <1> USE DEF loading, debug, subs
  <1>1. CASE Register
    BY <1>1, RegistrationsCount DEF Register, ToCome, TypeOK
  <1>2. ASSUME NEW cb \in Callbacks, Raise(cb) PROVE TypeOK'
    <2> DEFINE e == [n |-> Len(raised) + 1, cb |-> cb,
                     data |-> IF cb = "CB_OUTPUTDEBUGSTRING" THEN "unread" ELSE "present"]
    <2>1. /\ Len(raised) < MaxEvents /\ debugger' \in States
          /\ raised' = Append(raised, e)
          /\ \/ /\ event' = e
                /\ callback' = IF e.data = "unread" THEN "reading" ELSE "sending"
             \/ UNCHANGED <<event, callback>>
          /\ early' = IF Loaded THEN early ELSE Len(raised')
          /\ UNCHANGED <<registrations, pubSocket, process, published, subs>>
      BY <1>2 DEF Raise
    <2>2. e \in Event
      BY <2>1, EventAssumption DEF TypeOK, Event
    <2>3. raised' \in Seq(Event) /\ Len(raised') = Len(raised) + 1
      BY <2>1, <2>2 DEF TypeOK
    <2>4. early' \in 0 .. Len(raised')
      BY <2>1, <2>3 DEF TypeOK
    <2>5. /\ event' \in Event \union {NoEvent}
          /\ callback' \in {"none", "reading", "sending", "blocked"}
          /\ callback' = "none" <=> event' = NoEvent
      BY <2>1, <2>2, EventAssumption DEF TypeOK
    <2> QED
      BY <2>1, <2>3, <2>4, <2>5 DEF TypeOK
  <1>3. CASE ReadDebugString
    <2>1. event # NoEvent => event \in Event /\ [event EXCEPT !.data = "present"] \in Event
      BY DEF TypeOK, Event
    <2> QED
      BY <1>3, <2>1, EventAssumption DEF ReadDebugString, Return, TypeOK
  <1>4. CASE safe_pub_send
    <2>1. event \in Event
      BY <1>4 DEF safe_pub_send, TypeOK
    <2>2. Packed(event) \in Message
      BY <2>1, PackedType
    <2>3. /\ event' = NoEvent /\ callback' = "none"
          /\ UNCHANGED <<loading, debugger, raised, pubSocket, process>>
          /\ Distribute(Packed(event)) \/ UNCHANGED <<published, subs>>
      BY <1>4 DEF safe_pub_send, Return
    <2> QED
      BY <2>2, <2>3, DistributeType DEF TypeOK
  <1>5. CASE ClosePub
    BY <1>5 DEF ClosePub, TypeOK
  <1>6. CASE Exit
    BY <1>6 DEF Exit, TypeOK
  <1>7. ASSUME NEW s \in Subscribers, Join(s) PROVE TypeOK'
    <2>1. [published |-> Len(published), seen |-> Len(seen[s]), dropped |-> FALSE]
            \in [published : Nat, seen : Nat, dropped : BOOLEAN]
      BY DEF TypeOK
    <2> QED
      BY <1>7, <2>1 DEF Join, TypeOK
  <1>8. ASSUME NEW s \in Subscribers, Leave(s) PROVE TypeOK'
    BY <1>8, EventAssumption DEF Leave, TypeOK
  <1>9. ASSUME NEW s \in Subscribers, Receive(s) PROVE TypeOK'
    <2>1. pipe[s] \in Seq(Message) /\ pipe[s] # <<>> /\ Len(pipe[s]) <= HighWater
      BY <1>9 DEF Receive, TypeOK
    <2>2. Head(pipe[s]) \in Message /\ Tail(pipe[s]) \in Seq(Message)
          /\ Len(Tail(pipe[s])) = Len(pipe[s]) - 1 /\ Len(pipe[s]) \in Nat
      BY <2>1, HeadTailProperties
    <2>3. Len(Tail(pipe[s])) <= HighWater
      BY <2>1, <2>2, EventAssumption
    <2>4. full' \in [Subscribers -> BOOLEAN]
      BY <1>9 DEF Receive, TypeOK
    <2>5. seen' \in [Subscribers -> Seq(Message)]
      BY <1>9, <2>2 DEF Receive, TypeOK
    <2>6. pipe' \in [Subscribers -> Seq(Message)]
          /\ \A u \in Subscribers : Len(pipe'[u]) <= HighWater
      BY <1>9, <2>2, <2>3 DEF Receive, TypeOK
    <2> QED
      BY <1>9, <2>4, <2>5, <2>6 DEF Receive, TypeOK
  <1>10. CASE UNCHANGED vars
    BY <1>10 DEF vars, TypeOK
  <1> QED
    BY <1>1, <1>2, <1>3, <1>4, <1>5, <1>6, <1>7, <1>8, <1>9, <1>10 DEF Next, DebugThread

(* Every variable keeps its range: a callback runs for one event at a      *)
(* time, and no pipe of the PUB socket exceeds the high-water mark.        *)
THEOREM TypeCorrect == Spec => []TypeOK
  BY TypeInit, TypeStep, PTL DEF Spec

-----------------------------------------------------------------------------
(* Sequences.                                                              *)

LEMMA SubSeqOfAppend ==
  ASSUME NEW S, NEW q \in Seq(S), NEW e \in S, NEW n \in 0 .. Len(q)
  PROVE  SubSeq(Append(q, e), n + 1, Len(q) + 1) = Append(SubSeq(q, n + 1, Len(q)), e)
  <1> DEFINE l == SubSeq(Append(q, e), n + 1, Len(q) + 1)
             r == SubSeq(q, n + 1, Len(q))
  <1>1. /\ Append(q, e) \in Seq(S) /\ Len(Append(q, e)) = Len(q) + 1
        /\ \A i \in 1 .. Len(q) : Append(q, e)[i] = q[i]
        /\ Append(q, e)[Len(q) + 1] = e
    BY AppendProperties
  <1>2. Len(q) \in Nat /\ \A i \in 1 .. Len(q) : q[i] \in S
    BY LenProperties, ElementOfSeq
  <1>3. \A i \in n + 1 .. Len(q) + 1 : Append(q, e)[i] \in S
    BY <1>1, <1>2
  <1>4. /\ l \in Seq(S) /\ Len(l) = Len(q) + 1 - n
        /\ \A i \in 1 .. Len(q) + 1 - n : l[i] = Append(q, e)[n + i]
    <2> DEFINE a == Append(q, e)
               lo == n + 1
               hi == Len(q) + 1
    <2>1. /\ lo \in Int /\ hi \in Int /\ \A i \in lo .. hi : a[i] \in S
          /\ lo = n + 1 /\ hi = Len(q) + 1 /\ n \in Nat /\ n <= Len(q) /\ Len(q) \in Nat
          /\ l = SubSeq(a, lo, hi)
      BY <1>2, <1>3
    <2> HIDE DEF a, lo, hi, l
    <2>2. /\ SubSeq(a, lo, hi) \in Seq(S)
          /\ Len(SubSeq(a, lo, hi)) = IF lo <= hi THEN hi - lo + 1 ELSE 0
          /\ \A i \in 1 .. hi - lo + 1 : SubSeq(a, lo, hi)[i] = a[lo + i - 1]
      BY <2>1, SubSeqProperties
    <2>3. l \in Seq(S) /\ Len(l) = hi - lo + 1 /\ \A i \in 1 .. hi - lo + 1 : l[i] = a[lo + i - 1]
      BY <2>1, <2>2
    <2>4. \A i \in 1 .. Len(q) + 1 - n : lo + i - 1 = n + i /\ i \in 1 .. hi - lo + 1
      BY <2>1
    <2>5. hi - lo + 1 = Len(q) + 1 - n
      BY <2>1
    <2>6. ASSUME NEW i \in 1 .. Len(q) + 1 - n PROVE l[i] = a[n + i]
      <3>1. i \in 1 .. hi - lo + 1 /\ lo + i - 1 = n + i
        BY <2>4
      <3>2. l[i] = a[lo + i - 1]
        BY <2>3, <3>1
      <3> QED
        BY <3>1, <3>2
    <2>7. l \in Seq(S) /\ Len(l) = Len(q) + 1 - n
      BY <2>3, <2>5
    <2> USE DEF a
    <2> QED
      BY <2>6, <2>7
  <1>5. /\ r \in Seq(S) /\ Len(r) = Len(q) - n
        /\ \A i \in 1 .. Len(q) - n : r[i] = q[n + i]
    BY <1>2, SubSeqProperties
  <1>6. /\ Append(r, e) \in Seq(S) /\ Len(Append(r, e)) = Len(q) - n + 1
        /\ \A i \in 1 .. Len(q) - n : Append(r, e)[i] = r[i]
        /\ Append(r, e)[Len(q) - n + 1] = e
    BY <1>5, AppendProperties
  <1> HIDE DEF l, r
  <1>7. ASSUME NEW i \in 1 .. Len(l) PROVE l[i] = Append(r, e)[i]
    <2>1. CASE i \in 1 .. Len(q) - n
      <3>1. n + i \in 1 .. Len(q) /\ i \in 1 .. Len(q) + 1 - n
        BY <1>2, <2>1
      <3>2. l[i] = q[n + i]
        BY <1>1, <1>4, <3>1
      <3> QED
        BY <1>5, <1>6, <2>1, <3>2
    <2>2. CASE i = Len(q) - n + 1
      <3>1. n + i = Len(q) + 1 /\ i \in 1 .. Len(q) + 1 - n
        BY <1>2, <2>2
      <3>2. l[i] = Append(q, e)[n + i]
        BY <1>4, <3>1
      <3> QED
        BY <1>1, <1>6, <2>2, <3>1, <3>2
    <2>3. i \in 1 .. Len(q) - n \/ i = Len(q) - n + 1
      <3>1. Len(l) = Len(q) + 1 - n /\ Len(q) \in Nat /\ n \in 0 .. Len(q)
        BY <1>2, <1>4
      <3> QED
        BY <3>1
    <2> QED
      BY <2>1, <2>2, <2>3
  <1>8. Len(l) = Len(Append(r, e))
    BY <1>2, <1>4, <1>6
  <1>9. l = Append(r, e)
    BY <1>4, <1>6, <1>7, <1>8, SeqEqual
  <1> QED
    BY <1>9 DEF l, r

LEMMA ConcatOfAppend ==
  ASSUME NEW S, NEW a \in Seq(S), NEW b \in Seq(S), NEW e \in S
  PROVE  a \o Append(b, e) = Append(a \o b, e)
  <1>1. Append(b, e) = b \o <<e>> /\ <<e>> \in Seq(S) /\ a \o b \in Seq(S)
    BY AppendIsConcat, ConcatProperties
  <1>2. Append(a \o b, e) = (a \o b) \o <<e>>
    BY <1>1, AppendIsConcat
  <1> QED
    BY <1>1, <1>2, ConcatAssociative

LEMMA HeadMoves ==
  ASSUME NEW S, NEW a \in Seq(S), NEW b \in Seq(S), b # <<>>
  PROVE  Append(a, Head(b)) \o Tail(b) = a \o b
  <1>1. Head(b) \in S /\ Tail(b) \in Seq(S) /\ <<Head(b)>> \in Seq(S)
    BY HeadTailProperties
  <1>2. Append(a, Head(b)) = a \o <<Head(b)>>
    BY <1>1, AppendIsConcat
  <1>3. b = <<Head(b)>> \o Tail(b)
    <2>1. SubSeq(b, 1, Len(b)) = b /\ Len(b) \in Nat \ {0}
      BY SubSeqFull, EmptySeq
    <2>2. SubSeq(b, 1, Len(b)) = <<b[1]>> \o SubSeq(b, 2, Len(b))
      BY <2>1, SubSeqRecursiveFirst
    <2> QED
      BY <2>1, <2>2, TailIsSubSeq, HeadTailOfSubSeq
  <1> QED
    BY <1>1, <1>2, <1>3, ConcatAssociative

-----------------------------------------------------------------------------
(* No gaps.                                                                *)

(* Only a subscriber that is connected has anything in its pipe.           *)
PipesJoined == \A s \in Subscribers : ~joined[s] => pipe[s] = <<>>

(* What was noted when a subscriber joined is no more than there is now.   *)
SinceBefore ==
  \A s \in Subscribers :
    since[s].seen <= Len(seen[s]) /\ since[s].published <= Len(published)

Since(s) == SubSeq(seen[s], since[s].seen + 1, Len(seen[s]))
Owed(s)  == SubSeq(published, since[s].published + 1, Len(published))

Gapless == PipesJoined /\ SinceBefore /\ NoGaps

LEMMA SinceType ==
  ASSUME TypeOK, SinceBefore, NEW s \in Subscribers
  PROVE  /\ since[s].seen \in 0 .. Len(seen[s]) /\ since[s].published \in 0 .. Len(published)
         /\ Since(s) \in Seq(Message) /\ Owed(s) \in Seq(Message)
         /\ pipe[s] \in Seq(Message) /\ seen[s] \in Seq(Message)
  <1>1. /\ seen[s] \in Seq(Message) /\ Len(seen[s]) \in Nat
        /\ published \in Seq(Message) /\ Len(published) \in Nat
        /\ since[s].seen \in Nat /\ since[s].published \in Nat
        /\ pipe[s] \in Seq(Message)
    BY DEF TypeOK
  <1>2. since[s].seen \in 0 .. Len(seen[s]) /\ since[s].published \in 0 .. Len(published)
    BY <1>1 DEF SinceBefore
  <1>3. /\ \A i \in since[s].seen + 1 .. Len(seen[s]) : seen[s][i] \in Message
        /\ \A i \in since[s].published + 1 .. Len(published) : published[i] \in Message
    BY <1>1, <1>2, ElementOfSeq
  <1>4. Since(s) \in Seq(Message)
    BY <1>1, <1>2, <1>3, SubSeqProperties DEF Since
  <1>5. Owed(s) \in Seq(Message)
    BY <1>1, <1>2, <1>3, SubSeqProperties DEF Owed
  <1> QED
    BY <1>1, <1>2, <1>4, <1>5

LEMMA GaplessInit == Init => Gapless
  BY EventAssumption DEF Init, Gapless, PipesJoined, SinceBefore, NoGaps

LEMMA GaplessDistribute ==
  ASSUME TypeOK, Gapless, NEW m \in Message, Distribute(m)
  PROVE  Gapless'
  <1>1. /\ published' = Append(published, m) /\ joined' = joined /\ seen' = seen
        /\ published \in Seq(Message) /\ Len(published) \in Nat
        /\ Len(published') = Len(published) + 1
    BY AppendProperties DEF Distribute, TypeOK
  <1>2. ASSUME NEW s \in Subscribers, joined[s], Fits(s)
        PROVE  pipe'[s] = Append(pipe[s], m) /\ since'[s] = since[s]
    BY <1>2 DEF Distribute
  <1>3. ASSUME NEW s \in Subscribers, ~(joined[s] /\ Fits(s))
        PROVE  pipe'[s] = pipe[s]
    BY <1>3 DEF Distribute
  <1>4. ASSUME NEW s \in Subscribers
        PROVE  /\ since'[s].seen = since[s].seen /\ since'[s].published = since[s].published
               /\ joined[s] /\ ~Fits(s) => since'[s].dropped
    BY DEF Distribute, TypeOK
  <1>5. PipesJoined'
    BY <1>1, <1>3 DEF Gapless, PipesJoined
  <1>6. SinceBefore'
    <2> SUFFICES ASSUME NEW s \in Subscribers
                 PROVE  since'[s].seen <= Len(seen'[s]) /\ since'[s].published <= Len(published')
      BY DEF SinceBefore
    <2>1. since[s].published \in Nat /\ since[s].published <= Len(published)
      BY SinceType DEF Gapless
    <2> QED
      BY <1>1, <1>4, <2>1 DEF Gapless, SinceBefore
  <1>7. NoGaps'
    <2> SUFFICES ASSUME NEW s \in Subscribers, joined'[s], ~since'[s].dropped
                 PROVE  Since(s)' \o pipe'[s] = Owed(s)'
      BY DEF NoGaps, Since, Owed
    <2>1. joined[s] /\ Fits(s)
      BY <1>1, <1>4
    <2>2. pipe'[s] = Append(pipe[s], m) /\ since'[s] = since[s]
      BY <1>2, <2>1
    <2>3. Since(s)' = Since(s)
      BY <1>1, <2>2 DEF Since
    <2>4. Owed(s)' = Append(Owed(s), m)
      BY <1>1, <2>2, SinceType, SubSeqOfAppend DEF Owed, Gapless
    <2>5. Since(s) \o pipe[s] = Owed(s)
      BY <2>1, <2>2 DEF Gapless, NoGaps, Since, Owed
    <2>6. Since(s) \in Seq(Message) /\ pipe[s] \in Seq(Message)
      BY SinceType DEF Gapless
    <2>7. Since(s) \o Append(pipe[s], m) = Append(Since(s) \o pipe[s], m)
      BY <2>6, ConcatOfAppend
    <2> QED
      BY <2>2, <2>3, <2>4, <2>5, <2>7
  <1> QED
    BY <1>5, <1>6, <1>7 DEF Gapless

LEMMA GaplessSubscribers ==
  ASSUME TypeOK, Gapless, NEW s \in Subscribers, Join(s) \/ Leave(s) \/ Receive(s)
  PROVE  Gapless'
  <1> USE DEF Gapless
  <1>1. ASSUME NEW u \in Subscribers, u # s
        PROVE  /\ joined'[u] = joined[u] /\ pipe'[u] = pipe[u]
               /\ seen'[u] = seen[u] /\ since'[u] = since[u]
    BY <1>1 DEF Join, Leave, Receive, TypeOK
  <1>2. published' = published
    BY DEF Join, Leave, Receive
  <1>3. /\ seen[s] \in Seq(Message) /\ Len(seen[s]) \in Nat /\ Len(published) \in Nat
        /\ pipe[s] \in Seq(Message)
        /\ since[s].seen \in 0 .. Len(seen[s]) /\ since[s].published \in 0 .. Len(published)
    BY SinceType DEF TypeOK
  <1>4. /\ ~joined'[s] => pipe'[s] = <<>>
        /\ since'[s].seen <= Len(seen'[s]) /\ since'[s].published <= Len(published)
        /\ joined'[s] /\ ~since'[s].dropped => Since(s)' \o pipe'[s] = Owed(s)'
    <2>1. CASE Join(s)
      <3>1. /\ joined'[s] /\ pipe'[s] = <<>> /\ seen'[s] = seen[s]
            /\ since'[s].seen = Len(seen[s]) /\ since'[s].published = Len(published)
        BY <2>1 DEF Join, PipesJoined, TypeOK
      <3>2. Since(s)' = <<>> /\ Owed(s)' = <<>>
        BY <1>2, <1>3, <3>1, SubSeqEmpty DEF Since, Owed
      <3> QED
        BY <1>3, <3>1, <3>2
    <2>2. CASE Leave(s)
      <3>1. ~joined'[s] /\ pipe'[s] = <<>> /\ seen' = seen /\ since' = since
        BY <2>2 DEF Leave, TypeOK
      <3> QED
        BY <1>3, <3>1
    <2>3. CASE Receive(s)
      <3>1. /\ pipe[s] # <<>> /\ joined'[s] = joined[s] /\ since'[s] = since[s]
            /\ seen'[s] = Append(seen[s], Head(pipe[s])) /\ pipe'[s] = Tail(pipe[s])
        BY <2>3 DEF Receive, TypeOK
      <3>2. joined[s]
        BY <3>1 DEF PipesJoined
      <3>3. Head(pipe[s]) \in Message
        BY <1>3, <3>1, HeadTailProperties
      <3>4. Len(seen'[s]) = Len(seen[s]) + 1
        BY <1>3, <3>1, <3>3, AppendProperties
      <3>5. Since(s)' = Append(Since(s), Head(pipe[s]))
        BY <1>3, <3>1, <3>3, <3>4, SubSeqOfAppend DEF Since
      <3>6. Since(s)' \o pipe'[s] = Since(s) \o pipe[s]
        BY <1>3, <3>1, <3>5, SinceType, HeadMoves
      <3>7. Owed(s)' = Owed(s)
        BY <1>2, <3>1 DEF Owed
      <3>8. ~since[s].dropped => Since(s) \o pipe[s] = Owed(s)
        BY <3>2 DEF NoGaps, Since, Owed
      <3>9. ~since'[s].dropped => Since(s)' \o pipe'[s] = Owed(s)'
        BY <3>1, <3>6, <3>7, <3>8
      <3>10. since'[s].seen <= Len(seen'[s]) /\ since'[s].published <= Len(published)
        BY <1>3, <3>1, <3>4
      <3> QED
        BY <3>1, <3>2, <3>9, <3>10
    <2> QED
      BY <2>1, <2>2, <2>3
  <1>5. PipesJoined'
    BY <1>1, <1>4 DEF PipesJoined
  <1>6. SinceBefore'
    BY <1>1, <1>2, <1>4 DEF SinceBefore
  <1>7. NoGaps'
    <2> SUFFICES ASSUME NEW u \in Subscribers, joined'[u], ~since'[u].dropped
                 PROVE  Since(u)' \o pipe'[u] = Owed(u)'
      BY DEF NoGaps, Since, Owed
    <2>1. CASE u = s
      BY <1>4, <2>1
    <2>2. CASE u # s
      <3>1. Since(u)' = Since(u) /\ Owed(u)' = Owed(u)
        BY <1>1, <1>2, <2>2 DEF Since, Owed
      <3>2. Since(u) \o pipe[u] = Owed(u)
        BY <1>1, <2>2 DEF NoGaps, Since, Owed
      <3> QED
        BY <1>1, <2>2, <3>1, <3>2
    <2> QED
      BY <2>1, <2>2
  <1> QED
    BY <1>5, <1>6, <1>7

LEMMA GaplessStep == TypeOK /\ Gapless /\ [Next]_vars => Gapless'
  <1> SUFFICES ASSUME TypeOK, Gapless, [Next]_vars PROVE Gapless'
    OBVIOUS
  <1>1. ASSUME UNCHANGED <<published, subs>> PROVE Gapless'
    BY <1>1 DEF subs, Gapless, PipesJoined, SinceBefore, NoGaps
  <1>2. CASE safe_pub_send
    <2>1. event \in Event
      BY <1>2 DEF safe_pub_send, TypeOK
    <2>2. Distribute(Packed(event)) \/ UNCHANGED <<published, subs>>
      BY <1>2 DEF safe_pub_send
    <2> QED
      BY <1>1, <2>1, <2>2, PackedType, GaplessDistribute
  <1>3. ASSUME NEW s \in Subscribers, Join(s) \/ Leave(s) \/ Receive(s) PROVE Gapless'
    BY <1>3, GaplessSubscribers
  <1>4. CASE Register \/ ReadDebugString \/ ClosePub \/ Exit \/ UNCHANGED vars
    <2>1. UNCHANGED <<published, subs>>
      BY <1>4 DEF Register, ReadDebugString, ClosePub, Exit, vars, subs
    <2> QED
      BY <1>1, <2>1
  <1>5. ASSUME NEW cb \in Callbacks, Raise(cb) PROVE Gapless'
    BY <1>1, <1>5 DEF Raise
  <1> QED
    BY <1>2, <1>3, <1>4, <1>5 DEF Next, DebugThread

(* A subscriber whose own pipe never overflowed misses nothing, however    *)
(* many others there are and however slow they are.                        *)
THEOREM NothingMissed == Spec => []NoGaps
  <1>1. Gapless => NoGaps
    BY DEF Gapless
  <1> QED
    BY <1>1, TypeInit, TypeStep, GaplessInit, GaplessStep, PTL DEF Spec

-----------------------------------------------------------------------------
(* The invariant of the refinement.                                        *)

(* Events are numbered as they are raised. *)
Numbered == \A i \in 1 .. Len(raised) : raised[i].n = i

(* The callback that runs is that of the last event; once it is sending it *)
(* has its data.                                                           *)
Current ==
  event # NoEvent => /\ Len(raised) # 0
                     /\ event.n = Len(raised) /\ event.cb = raised[Len(raised)].cb
                     /\ callback = "sending" => event.data = "present"

(* How EventFeed sees an event. *)
Bar(e) == [Packed(e) EXCEPT !.data = "present"]

(* What went out was raised, and before the event whose callback runs. *)
OutRaised ==
  \A i \in 1 .. Len(published) :
    /\ published[i].n \in 1 .. Len(raised)
    /\ published[i].data = "present"
    /\ event # NoEvent => published[i].n < event.n

Among(m, q) == \E i \in 1 .. Len(q) : q[i] = m

(* What is in a went out, what is in b too, in order and after a.          *)
InOrder(a, b, out) ==
  /\ \A i \in 1 .. Len(a) : Among(a[i], out)
  /\ \A i \in 1 .. Len(b) : Among(b[i], out)
  /\ \A i \in 1 .. Len(a), j \in 1 .. Len(b) : a[i].n < b[j].n
  /\ \A i, j \in 1 .. Len(b) : i < j => b[i].n < b[j].n

FeedInv ==
  /\ Numbered /\ Current /\ OutRaised
  /\ \A s \in Subscribers : InOrder(seen[s], pipe[s], published)

(* A message that goes out after all others may follow what is queued. *)
LEMMA OrderOut ==
  ASSUME NEW a \in Seq(Message), NEW b \in Seq(Message), NEW out \in Seq(Message),
         NEW m \in Message, InOrder(a, b, out),
         \A i \in 1 .. Len(out) : out[i].n < m.n
  PROVE  InOrder(a, b, Append(out, m)) /\ InOrder(a, Append(b, m), Append(out, m))
  <1> DEFINE o == Append(out, m)
             c == Append(b, m)
  <1>1. /\ Len(o) = Len(out) + 1 /\ Len(out) \in Nat /\ o[Len(out) + 1] = m
        /\ \A i \in 1 .. Len(out) : o[i] = out[i]
    BY AppendProperties, LenProperties
  <1>2. /\ Len(c) = Len(b) + 1 /\ Len(b) \in Nat /\ c[Len(b) + 1] = m
        /\ \A i \in 1 .. Len(b) : c[i] = b[i]
    BY AppendProperties, LenProperties
  <1> HIDE DEF o, c
  <1>3. ASSUME NEW x, Among(x, out) PROVE Among(x, o) /\ x.n < m.n
    <2>1. PICK i \in 1 .. Len(out) : out[i] = x
      BY <1>3 DEF Among
    <2>2. i \in 1 .. Len(o) /\ o[i] = x
      BY <1>1, <2>1
    <2>3. x.n < m.n
      BY <2>1
    <2> QED
      BY <2>2, <2>3 DEF Among
  <1>4. Among(m, o)
    <2>1. Len(out) + 1 \in 1 .. Len(o)
      BY <1>1
    <2> QED
      BY <1>1, <2>1 DEF Among
  <1>5. InOrder(a, b, o)
    BY <1>3 DEF InOrder
  <1>6. InOrder(a, c, o)
    <2>1. \A i \in 1 .. Len(c) : i = Len(b) + 1 \/ i \in 1 .. Len(b)
      BY <1>2
    <2>2. \A i \in 1 .. Len(c) : Among(c[i], o)
      BY <1>2, <1>3, <1>4, <2>1 DEF InOrder
    <2>3. \A i \in 1 .. Len(a), j \in 1 .. Len(c) : a[i].n < c[j].n
      BY <1>2, <1>3, <2>1 DEF InOrder
    <2>4. ASSUME NEW i \in 1 .. Len(c), NEW j \in 1 .. Len(c), i < j PROVE c[i].n < c[j].n
      <3>1. i \in 1 .. Len(b)
        BY <1>2, <2>4
      <3>2. c[i] = b[i] /\ b[i].n < m.n
        BY <1>2, <1>3, <3>1 DEF InOrder
      <3> QED
        BY <1>2, <2>1, <2>4, <3>1, <3>2 DEF InOrder
    <2>5. \A i \in 1 .. Len(a) : Among(a[i], o)
      BY <1>3 DEF InOrder
    <2> QED
      BY <2>2, <2>3, <2>4, <2>5 DEF InOrder
  <1> QED
    BY <1>5, <1>6 DEF o, c

(* The first of what is queued may be seen. *)
LEMMA OrderSeen ==
  ASSUME NEW a \in Seq(Message), NEW b \in Seq(Message), b # <<>>,
         NEW out \in Seq(Message), InOrder(a, b, out)
  PROVE  InOrder(Append(a, Head(b)), Tail(b), out)
  <1> DEFINE c == Append(a, Head(b))
             d == Tail(b)
  <1>1. /\ Head(b) = b[1] /\ Head(b) \in Message
        /\ Len(d) = Len(b) - 1 /\ Len(b) \in Nat \ {0}
        /\ \A i \in 1 .. Len(d) : d[i] = b[i + 1]
    BY HeadTailProperties, EmptySeq, LenProperties
  <1>2. /\ Len(c) = Len(a) + 1 /\ Len(a) \in Nat /\ c[Len(a) + 1] = b[1]
        /\ \A i \in 1 .. Len(a) : c[i] = a[i]
    BY <1>1, AppendProperties, LenProperties
  <1> HIDE DEF c, d
  <1>3. /\ \A i \in 1 .. Len(c) : i = Len(a) + 1 \/ i \in 1 .. Len(a)
        /\ \A i \in 1 .. Len(d) : i + 1 \in 1 .. Len(b) /\ 1 < i + 1
        /\ 1 \in 1 .. Len(b)
    BY <1>1, <1>2
  <1>4. \A i \in 1 .. Len(c) : Among(c[i], out)
    BY <1>2, <1>3 DEF InOrder
  <1>5. \A i \in 1 .. Len(d) : Among(d[i], out)
    BY <1>1, <1>3 DEF InOrder
  <1>6. ASSUME NEW i \in 1 .. Len(c), NEW j \in 1 .. Len(d) PROVE c[i].n < d[j].n
    <2>1. d[j] = b[j + 1] /\ j + 1 \in 1 .. Len(b) /\ 1 < j + 1
      BY <1>1, <1>3
    <2>2. b[1].n < b[j + 1].n
      BY <1>3, <2>1 DEF InOrder
    <2>3. i \in 1 .. Len(a) => a[i].n < b[j + 1].n
      BY <2>1 DEF InOrder
    <2> QED
      BY <1>2, <1>3, <2>1, <2>2, <2>3
  <1>7. ASSUME NEW i \in 1 .. Len(d), NEW j \in 1 .. Len(d), i < j PROVE d[i].n < d[j].n
    <2>1. i + 1 \in 1 .. Len(b) /\ j + 1 \in 1 .. Len(b) /\ i + 1 < j + 1
      BY <1>3, <1>7
    <2>2. b[i + 1].n < b[j + 1].n
      BY <2>1 DEF InOrder
    <2> QED
      BY <1>1, <2>2
  <1>8. InOrder(c, d, out)
    BY <1>4, <1>5, <1>6, <1>7 DEF InOrder
  <1> QED
    BY <1>8 DEF c, d

LEMMA FeedInit == Init => FeedInv
  BY EventAssumption DEF Init, FeedInv, Numbered, Current, OutRaised, InOrder, Among

(* Types that the proofs below use. *)
LEMMA Lengths ==
  ASSUME TypeOK
  PROVE  /\ raised \in Seq(Event) /\ Len(raised) \in Nat
         /\ published \in Seq(Message) /\ Len(published) \in Nat
         /\ \A s \in Subscribers : /\ seen[s] \in Seq(Message) /\ Len(seen[s]) \in Nat
                                   /\ pipe[s] \in Seq(Message) /\ Len(pipe[s]) \in Nat
         /\ \A i \in 1 .. Len(raised) : raised[i] \in Event
         /\ \A i \in 1 .. Len(published) : published[i] \in Message
         /\ \A s \in Subscribers : /\ \A i \in 1 .. Len(seen[s]) : seen[s][i] \in Message
                                   /\ \A i \in 1 .. Len(pipe[s]) : pipe[s][i] \in Message
  BY ElementOfSeq DEF TypeOK

LEMMA FeedRaise ==
  ASSUME TypeOK, FeedInv, NEW cb \in Callbacks, Raise(cb)
  PROVE  /\ FeedInv'
         /\ \E e \in Event : raised' = Append(raised, e) /\ e.n = Len(raised) + 1
         /\ UNCHANGED <<published, seen>>
  <1> DEFINE e == [n |-> Len(raised) + 1, cb |-> cb,
                   data |-> IF cb = "CB_OUTPUTDEBUGSTRING" THEN "unread" ELSE "present"]
  <1>1. /\ Len(raised) < MaxEvents
        /\ event = NoEvent /\ raised' = Append(raised, e)
        /\ \/ /\ event' = e
              /\ callback' = IF e.data = "unread" THEN "reading" ELSE "sending"
           \/ UNCHANGED <<event, callback>>
        /\ UNCHANGED <<published, subs>>
    BY DEF Raise
  <1>2. e \in Event
    BY <1>1, Lengths, EventAssumption DEF Event
  <1>3. /\ Len(raised') = Len(raised) + 1 /\ Len(raised) \in Nat
        /\ \A i \in 1 .. Len(raised) : raised'[i] = raised[i]
        /\ raised'[Len(raised) + 1] = e
    BY <1>1, <1>2, Lengths, AppendProperties
  <1>4. Numbered'
    BY <1>3 DEF FeedInv, Numbered
  <1>5. Current'
    <2>1. CASE event' = e /\ callback' = IF e.data = "unread" THEN "reading" ELSE "sending"
      BY <1>3, <2>1 DEF Current
    <2>2. CASE UNCHANGED <<event, callback>>
      BY <1>1, <2>2 DEF Current
    <2> QED
      BY <1>1, <2>1, <2>2
  <1>6. OutRaised'
    <2>1. event' # NoEvent => event'.n = Len(raised) + 1
      BY <1>1
    <2>2. \A i \in 1 .. Len(published) :
            published[i].n \in 1 .. Len(raised) /\ published[i].data = "present"
      BY DEF FeedInv, OutRaised
    <2> HIDE DEF e
    <2> QED
      BY <1>1, <1>3, <2>1, <2>2 DEF OutRaised
  <1>7. \A s \in Subscribers : InOrder(seen[s], pipe[s], published)'
    BY <1>1 DEF FeedInv, subs
  <1> QED
    BY <1>1, <1>2, <1>4, <1>5, <1>6, <1>7 DEF FeedInv, subs

LEMMA FeedSend ==
  ASSUME TypeOK, FeedInv, callback = "sending", event \in Event,
         event' = NoEvent, raised' = raised, Distribute(Packed(event))
  PROVE  FeedInv'
  <1> DEFINE m == Packed(event)
  <1>1. m \in Message /\ m.n = event.n /\ m.data = event.data
    BY PackedType DEF Packed
  <1>2. /\ published' = Append(published, m) /\ seen' = seen
        /\ \A s \in Subscribers : pipe'[s] = pipe[s] \/ pipe'[s] = Append(pipe[s], m)
    BY DEF Distribute
  <1>3. m.n = Len(raised) /\ m.data = "present" /\ Len(raised) \in 1 .. Len(raised)
    BY <1>1, Lengths, EventAssumption DEF FeedInv, Current
  <1>4. \A i \in 1 .. Len(published) : published[i].n < m.n
    BY <1>1, EventAssumption DEF FeedInv, OutRaised
  <1> HIDE DEF m
  <1>5. /\ Len(published') = Len(published) + 1 /\ Len(published) \in Nat
        /\ \A i \in 1 .. Len(published) : published'[i] = published[i]
        /\ published'[Len(published) + 1] = m
    BY <1>1, <1>2, Lengths, AppendProperties
  <1>6. Numbered' /\ Current'
    BY DEF FeedInv, Numbered, Current
  <1>7. OutRaised'
    BY <1>3, <1>5 DEF FeedInv, OutRaised
  <1>8. ASSUME NEW s \in Subscribers PROVE InOrder(seen[s], pipe[s], published)'
    <2>1. /\ InOrder(seen[s], pipe[s], published) /\ seen'[s] = seen[s]
          /\ seen[s] \in Seq(Message) /\ pipe[s] \in Seq(Message)
      BY <1>2, Lengths DEF FeedInv
    <2>2. /\ InOrder(seen[s], pipe[s], Append(published, m))
          /\ InOrder(seen[s], Append(pipe[s], m), Append(published, m))
      BY <1>1, <1>4, <2>1, Lengths, OrderOut
    <2> QED
      BY <1>2, <2>1, <2>2
  <1> QED
    BY <1>6, <1>7, <1>8 DEF FeedInv

LEMMA FeedReceive ==
  ASSUME TypeOK, FeedInv, NEW s \in Subscribers, Receive(s)
  PROVE  FeedInv'
  <1>1. /\ pipe[s] # <<>> /\ UNCHANGED <<raised, event, callback, published>>
        /\ seen' = [seen EXCEPT ![s] = Append(@, Head(pipe[s]))]
        /\ pipe' = [pipe EXCEPT ![s] = Tail(@)]
    BY DEF Receive, debug
  <1>2. Numbered' /\ Current' /\ OutRaised'
    BY <1>1 DEF FeedInv, Numbered, Current, OutRaised
  <1>3. InOrder(seen[s], pipe[s], published)'
    <2>1. seen'[s] = Append(seen[s], Head(pipe[s])) /\ pipe'[s] = Tail(pipe[s])
      BY <1>1 DEF TypeOK
    <2> QED
      BY <1>1, <2>1, Lengths, OrderSeen DEF FeedInv
  <1>4. ASSUME NEW u \in Subscribers, u # s PROVE InOrder(seen[u], pipe[u], published)'
    <2>1. seen'[u] = seen[u] /\ pipe'[u] = pipe[u]
      BY <1>1, <1>4 DEF TypeOK
    <2> QED
      BY <1>1, <2>1 DEF FeedInv
  <1> QED
    BY <1>2, <1>3, <1>4 DEF FeedInv

LEMMA FeedStep == TypeOK /\ FeedInv /\ [Next]_vars => FeedInv'
  <1> SUFFICES ASSUME TypeOK, FeedInv, [Next]_vars PROVE FeedInv'
    OBVIOUS
  <1>1. ASSUME NEW cb \in Callbacks, Raise(cb) PROVE FeedInv'
    BY <1>1, FeedRaise
  <1>2. CASE ReadDebugString
    <2>1. /\ UNCHANGED <<raised, published, subs>> /\ event \in Event
          /\ \/ event' = NoEvent
             \/ event' = [event EXCEPT !.data = "present"]
      BY <1>2 DEF ReadDebugString, Return, TypeOK
    <2>2. event' # NoEvent => event'.n = event.n /\ event'.cb = event.cb
                              /\ event'.data = "present" /\ event # NoEvent
      BY <2>1, EventAssumption DEF Event
    <2>3. Numbered' /\ Current'
      BY <2>1, <2>2 DEF FeedInv, Numbered, Current
    <2>4. OutRaised'
      BY <2>1, <2>2 DEF FeedInv, OutRaised
    <2>5. \A s \in Subscribers : InOrder(seen[s], pipe[s], published)'
      BY <2>1 DEF FeedInv, subs
    <2> QED
      BY <2>3, <2>4, <2>5 DEF FeedInv
  <1>3. CASE safe_pub_send
    <2>1. /\ callback = "sending" /\ event \in Event /\ event' = NoEvent /\ raised' = raised
          /\ Distribute(Packed(event)) \/ UNCHANGED <<published, subs>>
      BY <1>3 DEF safe_pub_send, Return, TypeOK
    <2>2. CASE UNCHANGED <<published, subs>>
      BY <2>1, <2>2 DEF FeedInv, Numbered, Current, OutRaised, subs
    <2> QED
      BY <2>1, <2>2, FeedSend
  <1>4. ASSUME NEW s \in Subscribers, Receive(s) PROVE FeedInv'
    BY <1>4, FeedReceive
  <1>5. ASSUME NEW s \in Subscribers, Leave(s) PROVE FeedInv'
    <2>1. /\ UNCHANGED <<raised, event, callback, published, seen>>
          /\ \A u \in Subscribers : pipe'[u] = pipe[u] \/ pipe'[u] = <<>>
      BY <1>5 DEF Leave, debug, TypeOK
    <2>2. \A u \in Subscribers : InOrder(seen[u], <<>>, published)
      BY EmptySeq DEF FeedInv, InOrder
    <2> QED
      BY <2>1, <2>2 DEF FeedInv, Numbered, Current, OutRaised
  <1>6. ASSUME UNCHANGED <<raised, event, callback, published, seen, pipe>> PROVE FeedInv'
    BY <1>6 DEF FeedInv, Numbered, Current, OutRaised
  <1>7. CASE Register \/ Exit \/ UNCHANGED vars
    <2>1. UNCHANGED <<raised, event, callback, published, seen, pipe>>
      BY <1>7 DEF Register, Exit, vars, debug, subs
    <2> QED
      BY <1>6, <2>1
  <1>8. ASSUME NEW s \in Subscribers, Join(s) PROVE FeedInv'
    BY <1>6, <1>8 DEF Join, debug
  <1>9. CASE ClosePub
    <2>1. /\ UNCHANGED <<raised, event, published, seen, pipe>>
          /\ callback' \in {callback, "blocked"}
      BY <1>9 DEF ClosePub, subs
    <2> QED
      BY <2>1 DEF FeedInv, Numbered, Current, OutRaised
  <1> QED
    BY <1>1, <1>2, <1>3, <1>4, <1>5, <1>7, <1>8, <1>9 DEF Next, DebugThread

-----------------------------------------------------------------------------
(* The refinement.                                                         *)

(* A sequence of events as EventFeed sees it. *)
BarAll(q) == [i \in DOMAIN q |-> Bar(q[i])]

BarEvent == {m \in Message : m.data = "present"}

LEMMA BarType ==
  ASSUME NEW e \in Event
  PROVE  Bar(e) \in BarEvent /\ Bar(e).n = e.n
  <1>1. Packed(e) \in Message /\ Packed(e).n = e.n
    BY PackedType DEF Packed
  <1> QED
    BY <1>1 DEF Bar, BarEvent, Message

LEMMA BarAllType ==
  ASSUME NEW q \in Seq(Event)
  PROVE  /\ BarAll(q) \in Seq(BarEvent) /\ Len(BarAll(q)) = Len(q)
         /\ DOMAIN BarAll(q) = 1 .. Len(q)
         /\ \A i \in 1 .. Len(q) : BarAll(q)[i] = Bar(q[i])
  <1>1. DOMAIN q = 1 .. Len(q) /\ Len(q) \in Nat /\ \A i \in 1 .. Len(q) : q[i] \in Event
    BY LenProperties, ElementOfSeq
  <1>2. BarAll(q) \in [1 .. Len(q) -> BarEvent]
    BY <1>1, BarType DEF BarAll
  <1>3. BarAll(q) \in Seq(BarEvent)
    BY <1>1, <1>2, SeqDef
  <1>4. Len(BarAll(q)) = Len(q)
    BY <1>1, <1>2, <1>3, LenProperties
  <1> QED
    BY <1>1, <1>3, <1>4 DEF BarAll

LEMMA BarAllAppend ==
  ASSUME NEW q \in Seq(Event), NEW e \in Event
  PROVE  BarAll(Append(q, e)) = Append(BarAll(q), Bar(e))
  <1> DEFINE p == Append(q, e)
             l == BarAll(p)
             r == Append(BarAll(q), Bar(e))
  <1>1. /\ p \in Seq(Event) /\ Len(p) = Len(q) + 1 /\ Len(q) \in Nat
        /\ \A i \in 1 .. Len(q) : p[i] = q[i]
        /\ p[Len(q) + 1] = e
    BY AppendProperties, LenProperties
  <1>2. /\ l \in Seq(BarEvent) /\ Len(l) = Len(p)
        /\ \A i \in 1 .. Len(p) : l[i] = Bar(p[i])
    BY <1>1, BarAllType
  <1>3. /\ r \in Seq(BarEvent) /\ Len(r) = Len(q) + 1
        /\ \A i \in 1 .. Len(q) : r[i] = Bar(q[i])
        /\ r[Len(q) + 1] = Bar(e)
    BY BarType, BarAllType, AppendProperties
  <1> HIDE DEF p, l, r
  <1>4. ASSUME NEW i \in 1 .. Len(l) PROVE l[i] = r[i]
    <2>1. CASE i = Len(q) + 1
      BY <1>1, <1>2, <1>3, <2>1
    <2>2. CASE i \in 1 .. Len(q)
      BY <1>1, <1>2, <1>3, <2>2
    <2> QED
      BY <1>1, <1>2, <2>1, <2>2
  <1>5. l = r
    BY <1>1, <1>2, <1>3, <1>4, SeqEqual
  <1> QED
    BY <1>5 DEF p, l, r

LEMMA MapInit == Init => FEED!Init
  BY DEF Init, FEED!Init

(* An event raised maps to one raised. *)
LEMMA MapRaise ==
  ASSUME TypeOK, FeedInv, NEW cb \in Callbacks, Raise(cb)
  PROVE  \E e \in BarEvent : FEED!Raise(e)
  <1>1. PICK e \in Event : raised' = Append(raised, e) /\ e.n = Len(raised) + 1
    BY FeedRaise
  <1>2. UNCHANGED <<published, seen>>
    BY FeedRaise
  <1>3. Bar(e) \in BarEvent /\ Bar(e).n = Len(BarAll(raised)) + 1
    BY <1>1, Lengths, BarType, BarAllType
  <1>4. BarAll(raised') = Append(BarAll(raised), Bar(e))
    BY <1>1, Lengths, BarAllAppend
  <1>5. FEED!Raise(Bar(e))
    BY <1>2, <1>3, <1>4 DEF FEED!Raise, BarAll, Bar
  <1> QED
    BY <1>3, <1>5

(* A message sent maps to an event that goes out. *)
LEMMA MapSend ==
  ASSUME TypeOK, FeedInv, callback = "sending", event \in Event,
         raised' = raised, Distribute(Packed(event))
  PROVE  \E e \in BarEvent : FEED!GoOut(e)
  <1> DEFINE m == Packed(event)
             k == Len(raised)
  <1>1. /\ event.n = k /\ k \in 1 .. k /\ event.cb = raised[k].cb /\ event.data = "present"
        /\ raised[k] \in Event /\ raised[k].n = k
    BY Lengths, EventAssumption DEF FeedInv, Current, Numbered
  <1>2. m = Bar(raised[k])
    BY <1>1 DEF Bar, Packed
  <1>3. m \in BarEvent /\ m.n = event.n
    BY <1>1, PackedType DEF BarEvent, Packed
  <1>4. k \in DOMAIN BarAll(raised) /\ BarAll(raised)[k] = m
    BY <1>1, <1>2, Lengths, BarAllType
  <1>5. published' = Append(published, m) /\ seen' = seen
    BY DEF Distribute
  <1>6. published = <<>> \/ published[Len(published)].n < m.n
    <2>1. Len(published) \in 1 .. Len(published) \/ published = <<>>
      BY Lengths, EmptySeq
    <2> QED
      BY <1>3, <2>1, EventAssumption DEF FeedInv, OutRaised
  <1> HIDE DEF m, k
  <1>7. BarAll(raised') = BarAll(raised)
    OBVIOUS
  <1>8. FEED!GoOut(m)
    BY <1>4, <1>5, <1>6, <1>7 DEF FEED!GoOut, FEED!After, BarAll, Bar
  <1> QED
    BY <1>3, <1>8

(* A message received maps to an event seen. *)
LEMMA MapReceive ==
  ASSUME TypeOK, FeedInv, NEW s \in Subscribers, Receive(s)
  PROVE  \E e \in BarEvent : FEED!See(s, e)
  <1> DEFINE m == pipe[s][1]
  <1>1. /\ pipe[s] # <<>> /\ UNCHANGED <<raised, published>>
        /\ seen' = [seen EXCEPT ![s] = Append(@, Head(pipe[s]))]
    BY DEF Receive, debug
  <1>2. Head(pipe[s]) = m /\ 1 \in 1 .. Len(pipe[s])
    BY <1>1, Lengths, EmptySeq, HeadTailProperties
  <1>3. InOrder(seen[s], pipe[s], published)
    BY DEF FeedInv
  <1>4. PICK i \in 1 .. Len(published) : published[i] = m
    BY <1>2, <1>3 DEF InOrder, Among
  <1>5. m \in BarEvent /\ i \in DOMAIN published
    BY <1>4, Lengths, LenProperties DEF FeedInv, OutRaised, BarEvent
  <1>6. seen[s] = <<>> \/ seen[s][Len(seen[s])].n < m.n
    <2>1. Len(seen[s]) \in 1 .. Len(seen[s]) \/ seen[s] = <<>>
      BY Lengths, EmptySeq
    <2> QED
      BY <1>2, <1>3, <2>1 DEF InOrder
  <1> HIDE DEF m
  <1>7. FEED!See(s, m)
    BY <1>1, <1>2, <1>4, <1>5, <1>6 DEF FEED!See, FEED!After
  <1> QED
    BY <1>5, <1>7

LEMMA MapStep == TypeOK /\ FeedInv /\ [Next]_vars => [FEED!Next]_(FEED!vars)
  <1> SUFFICES ASSUME TypeOK, FeedInv, [Next]_vars PROVE FEED!Next \/ UNCHANGED FEED!vars
    OBVIOUS
  <1>1. ASSUME UNCHANGED <<raised, published, seen>> PROVE UNCHANGED FEED!vars
    BY <1>1 DEF FEED!vars
  <1>2. ASSUME NEW cb \in Callbacks, Raise(cb) PROVE FEED!Next
    BY <1>2, MapRaise DEF FEED!Next, BarEvent
  <1>3. CASE safe_pub_send
    <2>1. /\ callback = "sending" /\ event \in Event /\ raised' = raised
          /\ Distribute(Packed(event)) \/ UNCHANGED <<published, subs>>
      BY <1>3 DEF safe_pub_send, TypeOK
    <2>2. CASE UNCHANGED <<published, subs>>
      BY <1>1, <2>1, <2>2 DEF subs
    <2>3. CASE Distribute(Packed(event))
      BY <2>1, <2>3, MapSend DEF FEED!Next, BarEvent
    <2> QED
      BY <2>1, <2>2, <2>3
  <1>4. ASSUME NEW s \in Subscribers, Receive(s) PROVE FEED!Next
    BY <1>4, MapReceive DEF FEED!Next, BarEvent
  <1>5. ASSUME NEW s \in Subscribers, Join(s) \/ Leave(s) PROVE UNCHANGED FEED!vars
    <2>1. UNCHANGED <<raised, published, seen>>
      BY <1>5 DEF Join, Leave, debug
    <2> QED
      BY <1>1, <2>1
  <1>6. CASE Register \/ ReadDebugString \/ ClosePub \/ Exit \/ UNCHANGED vars
    <2>1. UNCHANGED <<raised, published, seen>>
      BY <1>6 DEF Register, ReadDebugString, ClosePub, Exit, vars, debug, subs
    <2> QED
      BY <1>1, <2>1
  <1> QED
    BY <1>2, <1>3, <1>4, <1>5, <1>6 DEF Next, DebugThread

(* Every subscriber sees events that were raised, in the order they were   *)
(* raised and each at most once, however often it is dropped or reconnects *)
(* and whatever becomes of the socket and of the process.                  *)
THEOREM FeedImplemented == Spec => ImplementsFeed
  <1>1. TypeOK /\ FeedInv /\ [Next]_vars => [FEED!Next]_(FEED!vars)
    BY MapStep
  <1> QED
    BY <1>1, MapInit, TypeInit, TypeStep, FeedInit, FeedStep, PTL
       DEF Spec, ImplementsFeed, FEED!Spec

(* The promise of the feed follows from its specification alone.           *)

(* Every event of q is one of r. *)
From(q, r) == \A i \in 1 .. Len(q) : \E k \in 1 .. Len(r) : r[k] = q[i]

Ascending(q) == \A i, j \in 1 .. Len(q) : i < j => q[i].n < q[j].n

FeedOK ==
  /\ BarAll(raised) \in Seq(BarEvent) /\ published \in Seq(BarEvent)
  /\ seen \in [Subscribers -> Seq(BarEvent)]
  /\ \A k \in 1 .. Len(BarAll(raised)) : BarAll(raised)[k].n = k
  /\ From(published, BarAll(raised))
  /\ \A s \in Subscribers : From(seen[s], BarAll(raised)) /\ Ascending(seen[s])

LEMMA Appended ==
  ASSUME NEW q \in Seq(BarEvent), NEW e \in BarEvent
  PROVE  /\ Append(q, e) \in Seq(BarEvent) /\ Len(Append(q, e)) = Len(q) + 1 /\ Len(q) \in Nat
         /\ \A i \in 1 .. Len(q) : Append(q, e)[i] = q[i] /\ q[i] \in BarEvent /\ q[i].n \in Nat
         /\ Append(q, e)[Len(q) + 1] = e
  <1>1. /\ Append(q, e) \in Seq(BarEvent) /\ Len(Append(q, e)) = Len(q) + 1 /\ Len(q) \in Nat
        /\ \A i \in 1 .. Len(q) : Append(q, e)[i] = q[i]
        /\ Append(q, e)[Len(q) + 1] = e
    BY AppendProperties, LenProperties
  <1>2. \A i \in 1 .. Len(q) : q[i] \in BarEvent
    BY ElementOfSeq
  <1> QED
    BY <1>1, <1>2 DEF BarEvent, Message

LEMMA FromGrows ==
  ASSUME NEW q, NEW r \in Seq(BarEvent), NEW e \in BarEvent, From(q, r)
  PROVE  From(q, Append(r, e))
  BY Appended DEF From

LEMMA FromTakes ==
  ASSUME NEW q \in Seq(BarEvent), NEW r, NEW e \in BarEvent, From(q, r),
         \E k \in 1 .. Len(r) : r[k] = e
  PROVE  From(Append(q, e), r)
  BY Appended DEF From

LEMMA FeedOKStep ==
  ASSUME FeedOK, [FEED!Next]_(FEED!vars)
  PROVE  FeedOK'
  <1> DEFINE R == BarAll(raised)
  <1>1. /\ R \in Seq(BarEvent) /\ Len(R) \in Nat /\ DOMAIN R = 1 .. Len(R)
        /\ published \in Seq(BarEvent) /\ DOMAIN published = 1 .. Len(published)
    BY LenProperties DEF FeedOK
  <1>2. ASSUME NEW e \in BarEvent, FEED!Raise(e) PROVE FeedOK'
    <2>1. R' = Append(R, e) /\ e.n = Len(R) + 1 /\ UNCHANGED <<published, seen>>
      BY <1>2 DEF FEED!Raise, BarAll, Bar
    <2>2. R' \in Seq(BarEvent) /\ \A k \in 1 .. Len(R') : R'[k].n = k
      BY <1>1, <2>1, Appended DEF FeedOK
    <2>3. From(published', R') /\ \A s \in Subscribers : From(seen'[s], R')
      BY <1>1, <2>1, FromGrows DEF FeedOK
    <2> QED
      BY <2>1, <2>2, <2>3 DEF FeedOK
  <1>3. ASSUME NEW e \in BarEvent, FEED!GoOut(e) PROVE FeedOK'
    <2>1. /\ R' = R /\ seen' = seen /\ published' = Append(published, e)
          /\ \E k \in DOMAIN R : R[k] = e
      BY <1>3 DEF FEED!GoOut, BarAll, Bar
    <2>2. published' \in Seq(BarEvent) /\ From(published', R)
      BY <1>1, <2>1, Appended, FromTakes DEF FeedOK
    <2> QED
      BY <2>1, <2>2 DEF FeedOK
  <1>4. ASSUME NEW s \in Subscribers, NEW e \in BarEvent, FEED!See(s, e) PROVE FeedOK'
    <2>1. /\ R' = R /\ published' = published /\ seen' = [seen EXCEPT ![s] = Append(@, e)]
          /\ \E i \in DOMAIN published : published[i] = e
          /\ seen[s] = <<>> \/ seen[s][Len(seen[s])].n < e.n
      BY <1>4 DEF FEED!See, FEED!After, BarAll, Bar
    <2> DEFINE q == seen[s]
    <2>2. q \in Seq(BarEvent) /\ From(q, R) /\ Ascending(q) /\ Len(q) \in Nat
      BY LenProperties DEF FeedOK
    <2>3. \E k \in 1 .. Len(R) : R[k] = e
      BY <1>1, <2>1 DEF FeedOK, From
    <2>4. Append(q, e) \in Seq(BarEvent) /\ From(Append(q, e), R)
      BY <2>2, <2>3, Appended, FromTakes
    <2>5. \A i \in 1 .. Len(q) : q[i].n < e.n
      <3> SUFFICES ASSUME NEW i \in 1 .. Len(q) PROVE q[i].n < e.n
        OBVIOUS
      <3>1. q[Len(q)].n < e.n
        BY <2>1, <2>2, EmptySeq
      <3>2. q[i].n \in Nat /\ q[Len(q)].n \in Nat /\ e.n \in Nat
        BY <2>2, Appended DEF BarEvent, Message
      <3>3. i < Len(q) => q[i].n < q[Len(q)].n
        BY <2>2 DEF Ascending
      <3> QED
        BY <2>2, <3>1, <3>2, <3>3
    <2>6. Ascending(Append(q, e))
      <3> DEFINE a == Append(q, e)
      <3>1. /\ Len(a) = Len(q) + 1 /\ \A i \in 1 .. Len(q) : a[i] = q[i] /\ a[Len(q) + 1] = e
        BY <2>2, Appended
      <3>2. \A i, j \in 1 .. Len(q) : i < j => q[i].n < q[j].n
        BY <2>2 DEF Ascending
      <3> HIDE DEF a, q
      <3>3. ASSUME NEW i \in 1 .. Len(a), NEW j \in 1 .. Len(a), i < j PROVE a[i].n < a[j].n
        <4>1. CASE j = Len(q) + 1
          BY <2>2, <2>5, <3>1, <3>3, <4>1
        <4>2. CASE j \in 1 .. Len(q)
          BY <2>2, <3>1, <3>2, <3>3, <4>2
        <4> QED
          BY <2>2, <3>1, <4>1, <4>2
      <3> QED
        BY <3>3 DEF Ascending, a
    <2> HIDE DEF q
    <2>7. \A u \in Subscribers : seen'[u] = IF u = s THEN Append(q, e) ELSE seen[u]
      BY <2>1 DEF FeedOK, q
    <2>8. seen' \in [Subscribers -> Seq(BarEvent)]
      BY <2>1, <2>4 DEF FeedOK, q
    <2> QED
      BY <2>1, <2>4, <2>6, <2>7, <2>8 DEF FeedOK
  <1>5. CASE UNCHANGED FEED!vars
    <2>1. R' = R /\ published' = published /\ seen' = seen
      BY <1>5 DEF FEED!vars, BarAll, Bar
    <2> QED
      BY <2>1 DEF FeedOK
  <1> QED
    BY <1>2, <1>3, <1>4, <1>5 DEF FEED!Next, BarEvent

THEOREM FeedKeepsPromise == FEED!Spec => []FEED!Promise
  <1>1. FEED!Init => FeedOK
    <2> SUFFICES ASSUME FEED!Init PROVE FeedOK
      OBVIOUS
    <2>1. BarAll(raised) = <<>> /\ published = <<>> /\ seen = [s \in Subscribers |-> <<>>]
      BY DEF FEED!Init, BarAll, Bar
    <2> QED
      BY <2>1, EmptySeq DEF FeedOK, From, Ascending
  <1>2. FeedOK => FEED!Promise
    <2> SUFFICES ASSUME FeedOK, NEW s \in Subscribers, NEW i \in DOMAIN seen[s]
                 PROVE  /\ seen[s][i].n \in DOMAIN BarAll(raised)
                        /\ BarAll(raised)[seen[s][i].n] = seen[s][i]
                        /\ \A j \in DOMAIN seen[s] : i < j => seen[s][i].n < seen[s][j].n
      BY DEF FEED!Promise, BarAll, Bar
    <2>1. DOMAIN seen[s] = 1 .. Len(seen[s])
          /\ DOMAIN BarAll(raised) = 1 .. Len(BarAll(raised))
      BY LenProperties DEF FeedOK
    <2>2. PICK k \in 1 .. Len(BarAll(raised)) : BarAll(raised)[k] = seen[s][i]
      BY <2>1 DEF FeedOK, From
    <2> QED
      BY <2>1, <2>2 DEF FeedOK, Ascending
  <1> QED
    BY <1>1, <1>2, FeedOKStep, PTL DEF FEED!Spec

(* Hence subscribers of the plugin: what one has seen was raised, in this  *)
(* order, and nothing came twice.                                          *)
THEOREM SubscribersSeeInOrder == Spec => []FEED!Promise
  BY FeedImplemented, FeedKeepsPromise, PTL DEF ImplementsFeed

-----------------------------------------------------------------------------
(* What events tell.                                                       *)

(* pluginInit registers every callback. *)
LEMMA RegistersAll ==
  ASSUME TypeOK, Loaded
  PROVE  Callbacks \subseteq Registered
  <1> SUFFICES ASSUME NEW cb \in Callbacks PROVE cb \in Registered
    OBVIOUS
  <1>1. \E i \in 1 .. 17 : Registrations[i] = cb
    BY EventAssumption DEF EventName, Registrations
  <1>2. PICK i \in 1 .. 17 : Registrations[i] = cb
    BY <1>1
  <1>3. i \notin registrations + 1 .. 17 /\ registrations \in 0 .. 17
    BY <1>2, RegistrationsCount DEF Loaded, ToCome, TypeOK
  <1>4. i \in 1 .. registrations
    BY <1>3
  <1> QED
    BY <1>2, <1>4 DEF Registered

TellsOf(e)    == Tells(EventName[e.cb])
IsSilent(e)   == TellsOf(e) = "nothing"
IsString(e)   == e.cb = "CB_OUTPUTDEBUGSTRING"

(* What is raised while the plugin loads counts as early. *)
EarlyTillLoaded == ~Loaded => early = Len(raised)

(* The debugger is in the state that the last event that tells one tells.  *)
LastTells ==
  \A n \in 1 .. Len(raised) :
    ~IsSilent(raised[n]) /\ (\A k \in n + 1 .. Len(raised) : IsSilent(raised[k]))
      => debugger = TellsOf(raised[n])

(* Messages are events by their names, and go out in order. *)
NamedAfter ==
  /\ \A i \in 1 .. Len(published) : published[i].name = EventName[raised[published[i].n].cb]
  /\ \A i, j \in 1 .. Len(published) : i < j => published[i].n < published[j].n

(* Only debug strings have to be read. *)
StringsRead ==
  /\ \A i \in 1 .. Len(raised) : IsString(raised[i]) \/ raised[i].data = "present"
  /\ callback = "reading" => IsString(event)

IsOut(e) == Among(Packed(e), published)

(* What was raised since is out, or its callback runs. *)
OutSince ==
  Loaded /\ pubSocket = "open" =>
    \A i \in early + 1 .. Len(raised) :
      IsString(raised[i]) \/ IsOut(raised[i]) \/ (event # NoEvent /\ i = Len(raised))

(* Of what a subscriber has seen that tells anything there is a last. *)
LastSeen ==
  \A s \in Subscribers : Telling(s) # {} => \E i \in Telling(s) : \A j \in Telling(s) : j <= i

StateInv ==
  EarlyTillLoaded /\ LastTells /\ NamedAfter /\ StringsRead /\ OutSince /\ LastSeen

LEMMA RaisesTells ==
  ASSUME NEW cb \in Callbacks, NEW from \in States, NEW to \in States, Raises(cb, from, to)
  PROVE  IF Tells(EventName[cb]) = "nothing" THEN to = from ELSE to = Tells(EventName[cb])
  BY EventAssumption DEF Raises, Tells, EventName

LEMMA StateInit == Init => StateInv
  <1> SUFFICES ASSUME Init PROVE StateInv
    OBVIOUS
  <1>1. /\ raised = <<>> /\ published = <<>> /\ early = 0 /\ callback = "none"
        /\ \A s \in Subscribers : seen[s] = <<>> /\ since[s].seen = 0
    BY DEF Init
  <1>2. ASSUME NEW s \in Subscribers PROVE Telling(s) = {}
    <2>1. Len(seen[s]) = 0 /\ since[s].seen = 0
      <3>1. seen[s] = <<>>
        BY DEF Init
      <3>2. Len(<<>>) = 0
        OBVIOUS
      <3> QED
        BY <1>1, <3>1, <3>2, Zenon
    <2> QED
      BY <2>1 DEF Telling
  <1> QED
    BY <1>1, <1>2 DEF StateInv, EarlyTillLoaded, LastTells, NamedAfter, StringsRead,
                      OutSince, LastSeen

LEMMA StateRaise ==
  ASSUME TypeOK, FeedInv, StateInv, NEW cb \in Callbacks, Raise(cb)
  PROVE  StateInv'
  <1> DEFINE e == [n |-> Len(raised) + 1, cb |-> cb,
                   data |-> IF cb = "CB_OUTPUTDEBUGSTRING" THEN "unread" ELSE "present"]
  <1>1. /\ event = NoEvent /\ Len(raised) < MaxEvents /\ raised' = Append(raised, e)
        /\ debugger' \in States /\ Raises(cb, debugger, debugger')
        /\ \/ /\ cb \in Registered /\ event' = e
              /\ callback' = IF e.data = "unread" THEN "reading" ELSE "sending"
           \/ /\ cb \notin Registered
              /\ UNCHANGED <<event, callback>>
        /\ early' = IF Loaded THEN early ELSE Len(raised')
        /\ UNCHANGED <<registrations, pubSocket, published, seen, since>>
    BY DEF Raise, subs
  <1>2. e \in Event /\ e.cb = cb /\ (IsString(e) \/ e.data = "present")
        /\ (e.data = "unread" => IsString(e))
    BY <1>1, Lengths, EventAssumption DEF Event, IsString
  <1>3. e # NoEvent
    BY <1>2, EventAssumption
  <1> HIDE DEF e
  <1>4. /\ Len(raised') = Len(raised) + 1 /\ Len(raised) \in Nat
        /\ \A i \in 1 .. Len(raised) : raised'[i] = raised[i]
        /\ raised'[Len(raised) + 1] = e
        /\ \A i \in 1 .. Len(raised') : i = Len(raised) + 1 \/ i \in 1 .. Len(raised)
    BY <1>1, <1>2, Lengths, AppendProperties
  <1>5. EarlyTillLoaded'
    BY <1>1 DEF EarlyTillLoaded, Loaded, ToCome
  <1>6. LastTells'
    <2>1. IF IsSilent(e) THEN debugger' = debugger ELSE debugger' = TellsOf(e)
      BY <1>1, <1>2, RaisesTells DEF IsSilent, TellsOf, TypeOK
    <2> SUFFICES ASSUME NEW n \in 1 .. Len(raised'), ~IsSilent(raised'[n]),
                        \A k \in n + 1 .. Len(raised') : IsSilent(raised'[k])
                 PROVE  debugger' = TellsOf(raised'[n])
      BY DEF LastTells
    <2>2. CASE n = Len(raised) + 1
      BY <1>4, <2>1, <2>2
    <2>3. CASE n \in 1 .. Len(raised)
      <3>1. IsSilent(e)
        <4>1. Len(raised) + 1 \in n + 1 .. Len(raised')
          BY <1>4, <2>3
        <4> QED
          BY <1>4, <4>1
      <3>2. \A k \in n + 1 .. Len(raised) : IsSilent(raised[k])
        <4>1. \A k \in n + 1 .. Len(raised) : k \in 1 .. Len(raised) /\ k \in n + 1 .. Len(raised')
          BY <1>4, <2>3
        <4> QED
          BY <1>4, <4>1
      <3>3. raised'[n] = raised[n]
        BY <1>4, <2>3
      <3>4. debugger = TellsOf(raised[n])
        BY <2>3, <3>2, <3>3 DEF StateInv, LastTells
      <3> QED
        BY <2>1, <3>1, <3>3, <3>4
    <2> QED
      BY <1>4, <2>2, <2>3
  <1>7. NamedAfter'
    <2>1. \A i \in 1 .. Len(published) : published[i].n \in 1 .. Len(raised)
      BY DEF FeedInv, OutRaised
    <2> QED
      BY <1>1, <1>4, <2>1 DEF StateInv, NamedAfter
  <1>8. StringsRead'
    BY <1>1, <1>2, <1>4 DEF StateInv, StringsRead
  <1>9. OutSince'
    <2> SUFFICES ASSUME Loaded', pubSocket' = "open", NEW i \in early' + 1 .. Len(raised')
                 PROVE  \/ IsString(raised'[i]) \/ Among(Packed(raised'[i]), published')
                        \/ event' # NoEvent /\ i = Len(raised')
      BY DEF OutSince, IsOut
    <2>1. Loaded /\ pubSocket = "open" /\ early' = early /\ early \in Nat
      BY <1>1 DEF Loaded, ToCome, TypeOK
    <2>2. event' = e
      BY <1>1, <2>1, RegistersAll
    <2>3. CASE i = Len(raised')
      BY <1>3, <2>2, <2>3
    <2>4. CASE i \in early + 1 .. Len(raised)
      <3>1. IsString(raised[i]) \/ IsOut(raised[i])
        BY <1>1, <2>1, <2>4 DEF StateInv, OutSince
      <3>2. raised'[i] = raised[i]
        BY <1>4, <2>1, <2>4
      <3> QED
        BY <1>1, <3>1, <3>2 DEF IsOut
    <2> QED
      BY <1>4, <2>1, <2>3, <2>4
  <1>10. LastSeen'
    BY <1>1 DEF StateInv, LastSeen, Telling
  <1> QED
    BY <1>5, <1>6, <1>7, <1>8, <1>9, <1>10 DEF StateInv

LEMMA StateSend ==
  ASSUME TypeOK, FeedInv, StateInv, callback = "sending", event \in Event,
         event' = NoEvent, callback' = "none", Distribute(Packed(event)),
         UNCHANGED <<loading, debugger, raised, pubSocket>>
  PROVE  StateInv'
  <1> DEFINE m == Packed(event)
             k == Len(raised)
  <1>1. /\ published' = Append(published, m) /\ seen' = seen
        /\ \A s \in Subscribers : since'[s].seen = since[s].seen
    BY DEF Distribute, TypeOK
  <1>2. /\ m \in Message /\ m.n = k /\ m.name = EventName[raised[k].cb]
        /\ k \in 1 .. Len(raised) /\ raised[k] \in Event
        /\ IsString(raised[k]) \/ m = Packed(raised[k])
    <2>1. /\ event.n = k /\ k \in 1 .. k /\ event.cb = raised[k].cb /\ event.data = "present"
          /\ raised[k] \in Event /\ raised[k].n = k
      BY Lengths, EventAssumption DEF FeedInv, Current, Numbered
    <2>2. IsString(raised[k]) \/ raised[k].data = "present"
      BY <2>1 DEF StateInv, StringsRead
    <2> QED
      BY <2>1, <2>2, PackedType DEF Packed
  <1> HIDE DEF m, k
  <1>3. /\ Len(published') = Len(published) + 1 /\ Len(published) \in Nat
        /\ \A i \in 1 .. Len(published) : published'[i] = published[i]
        /\ published'[Len(published) + 1] = m
        /\ \A i \in 1 .. Len(published') : i = Len(published) + 1 \/ i \in 1 .. Len(published)
    BY <1>1, <1>2, Lengths, AppendProperties
  <1>4. \A i \in 1 .. Len(published) : published[i].n < m.n
    BY <1>2, EventAssumption DEF FeedInv, OutRaised, Current, k
  <1>5. EarlyTillLoaded' /\ LastTells' /\ StringsRead'
    BY DEF StateInv, EarlyTillLoaded, LastTells, StringsRead, loading, Loaded, ToCome
  <1>6. NamedAfter'
    <2>1. \A i \in 1 .. Len(published') : published'[i].name = EventName[raised[published'[i].n].cb]
      BY <1>2, <1>3 DEF StateInv, NamedAfter
    <2>2. ASSUME NEW i \in 1 .. Len(published'), NEW j \in 1 .. Len(published'), i < j
          PROVE  published'[i].n < published'[j].n
      <3>1. i \in 1 .. Len(published)
        BY <1>3, <2>2
      <3> QED
        BY <1>3, <1>4, <2>2, <3>1 DEF StateInv, NamedAfter
    <2> QED
      BY <2>1, <2>2 DEF NamedAfter
  <1>7. OutSince'
    <2>1. \A x : Among(x, published) => Among(x, published')
      BY <1>3 DEF Among
    <2>2. Among(m, published')
      <3>1. Len(published) + 1 \in 1 .. Len(published')
        BY <1>3
      <3> QED
        BY <1>3, <3>1 DEF Among
    <2> SUFFICES ASSUME Loaded, pubSocket = "open", NEW i \in early + 1 .. Len(raised)
                 PROVE  IsString(raised[i]) \/ Among(Packed(raised[i]), published')
      BY DEF OutSince, IsOut, loading, Loaded, ToCome
    <2> QED
      BY <1>2, <2>1, <2>2 DEF StateInv, OutSince, IsOut, k
  <1>8. LastSeen'
    <2>1. \A s \in Subscribers : Telling(s)' = Telling(s)
      BY <1>1 DEF Telling
    <2> QED
      BY <2>1 DEF StateInv, LastSeen
  <1> QED
    BY <1>5, <1>6, <1>7, <1>8 DEF StateInv

(* What does not depend on the callback, the socket and the loading. *)
LEMMA StateRests ==
  ASSUME StateInv, UNCHANGED <<debugger, raised, published, seen, since>>
  PROVE  LastTells' /\ NamedAfter' /\ LastSeen'
  <1>1. LastTells'
    BY DEF StateInv, LastTells
  <1>2. NamedAfter'
    BY DEF StateInv, NamedAfter
  <1>3. LastSeen'
    <2>1. \A s \in Subscribers : Telling(s)' = Telling(s)
      BY DEF Telling
    <2> QED
      BY <2>1 DEF StateInv, LastSeen
  <1> QED
    BY <1>1, <1>2, <1>3

(* Nothing but a subscriber has moved. *)
LEMMA StateSubscribers ==
  ASSUME TypeOK, StateInv, NEW s \in Subscribers, Join(s) \/ Leave(s) \/ Receive(s)
  PROVE  StateInv'
  <1>1. UNCHANGED <<loading, debug, pubSocket, published>>
    BY DEF Join, Leave, Receive
  <1>2. EarlyTillLoaded' /\ LastTells' /\ NamedAfter' /\ StringsRead' /\ OutSince'
    BY <1>1 DEF StateInv, EarlyTillLoaded, LastTells, NamedAfter, StringsRead, OutSince,
                IsOut, loading, debug, Loaded, ToCome
  <1>3. \A u \in Subscribers \ {s} : Telling(u)' = Telling(u)
    BY DEF Join, Leave, Receive, TypeOK, Telling
  <1>4. seen[s] \in Seq(Message) /\ Len(seen[s]) \in Nat /\ since[s].seen \in Nat
    BY Lengths DEF TypeOK
  <1>5. CASE Join(s)
    <2>1. Telling(s)' = {}
      <3>1. since'[s].seen = Len(seen[s]) /\ seen'[s] = seen[s]
        BY <1>5 DEF Join, TypeOK
      <3> QED
        BY <1>4, <3>1 DEF Telling
    <2> QED
      BY <1>2, <1>3, <2>1 DEF StateInv, LastSeen
  <1>6. CASE Leave(s)
    <2>1. Telling(s)' = Telling(s)
      BY <1>6 DEF Leave, Telling
    <2> QED
      BY <1>2, <1>3, <2>1 DEF StateInv, LastSeen
  <1>7. CASE Receive(s)
    <2> DEFINE l == Len(seen[s]) + 1
    <2>1. Head(pipe[s]) \in Message /\ since'[s] = since[s]
          /\ seen'[s] = Append(seen[s], Head(pipe[s]))
      BY <1>7, Lengths, HeadTailProperties DEF Receive, TypeOK
    <2>2. /\ Len(seen'[s]) = l
          /\ \A i \in 1 .. Len(seen[s]) : seen'[s][i] = seen[s][i]
      BY <1>4, <2>1, AppendProperties
    <2>3. \A i \in Telling(s)' : i = l \/ i \in Telling(s)
      BY <1>4, <2>1, <2>2 DEF Telling
    <2>4. Telling(s) \subseteq Telling(s)' /\ \A i \in Telling(s) : i \in Nat /\ i < l
      BY <1>4, <2>1, <2>2 DEF Telling
    <2> HIDE DEF l
    <2>5. l \in Nat
      BY <1>4 DEF l
    <2>6. ASSUME Telling(s)' # {}
          PROVE  \E i \in Telling(s)' : \A j \in Telling(s)' : j <= i
      <3>1. CASE l \in Telling(s)'
        BY <2>3, <2>4, <2>5, <3>1
      <3>2. CASE l \notin Telling(s)'
        <4>1. Telling(s)' = Telling(s)
          BY <2>3, <2>4, <3>2
        <4> QED
          BY <2>6, <4>1 DEF StateInv, LastSeen
      <3> QED
        BY <3>1, <3>2
    <2> QED
      BY <1>2, <1>3, <2>6 DEF StateInv, LastSeen
  <1> QED
    BY <1>5, <1>6, <1>7

LEMMA StateStep ==
  TypeOK /\ FeedInv /\ StateInv /\ [Next]_vars => StateInv'
  <1> SUFFICES ASSUME TypeOK, FeedInv, StateInv, [Next]_vars PROVE StateInv'
    OBVIOUS
  <1> USE DEF loading, debug, subs
  <1>1. ASSUME NEW cb \in Callbacks, Raise(cb) PROVE StateInv'
    BY <1>1, StateRaise
  <1>2. CASE Register
    <2>1. /\ UNCHANGED <<early, debugger, raised, event, callback, pubSocket, published, seen, since>>
          /\ ~Loaded
      BY <1>2 DEF Register, Loaded
    <2>2. early = Len(raised) /\ early \in Nat
      BY <2>1 DEF StateInv, EarlyTillLoaded, TypeOK
    <2>3. OutSince'
      BY <2>1, <2>2 DEF OutSince
    <2> QED
      BY <2>1, <2>2, <2>3, StateRests DEF StateInv, EarlyTillLoaded, StringsRead
  <1>3. CASE ReadDebugString
    <2>1. /\ UNCHANGED <<registrations, early, debugger, raised, pubSocket, published, seen, since>>
          /\ callback = "reading" /\ event \in Event /\ callback' # "reading"
      BY <1>3 DEF ReadDebugString, Return, TypeOK
    <2>2. Len(raised) # 0 /\ IsString(raised[Len(raised)])
      BY <2>1, EventAssumption DEF StateInv, StringsRead, FeedInv, Current, IsString
    <2>3. OutSince'
      BY <2>1, <2>2 DEF StateInv, OutSince, IsOut, Loaded, ToCome
    <2> QED
      BY <2>1, <2>3, StateRests DEF StateInv, EarlyTillLoaded, StringsRead, Loaded, ToCome
  <1>4. CASE safe_pub_send
    <2>1. /\ callback = "sending" /\ event \in Event /\ event' = NoEvent /\ callback' = "none"
          /\ UNCHANGED <<loading, debugger, raised, pubSocket>>
          /\ \/ Distribute(Packed(event))
             \/ pubSocket # "open" /\ UNCHANGED <<published, subs>>
      BY <1>4 DEF safe_pub_send, Return, TypeOK
    <2>2. CASE pubSocket # "open" /\ UNCHANGED <<published, subs>>
      BY <2>1, <2>2, StateRests DEF StateInv, EarlyTillLoaded, StringsRead, OutSince, Loaded, ToCome
    <2> QED
      BY <2>1, <2>2, StateSend
  <1>5. CASE ClosePub \/ Exit
    <2>1. /\ UNCHANGED <<registrations, early, debugger, raised, event, published, subs>>
          /\ callback' \in {callback, "blocked"}
          /\ pubSocket' = "closed"
      BY <1>5 DEF ClosePub, Exit, loading, debug
    <2> QED
      BY <2>1, StateRests DEF StateInv, EarlyTillLoaded, StringsRead, OutSince, Loaded, ToCome
  <1>6. ASSUME NEW s \in Subscribers, Join(s) \/ Leave(s) \/ Receive(s) PROVE StateInv'
    BY <1>6, StateSubscribers
  <1>7. CASE UNCHANGED vars
    BY <1>7, StateRests
       DEF vars, StateInv, EarlyTillLoaded, StringsRead, OutSince, IsOut, Loaded, ToCome
  <1> QED
    BY <1>1, <1>2, <1>3, <1>4, <1>5, <1>6, <1>7 DEF Next, DebugThread

LEMMA StateInvariant ==
  Spec => [](TypeOK /\ FeedInv /\ Gapless /\ StateInv)
  <1>1. TypeOK /\ FeedInv /\ StateInv /\ [Next]_vars => StateInv'
    BY StateStep
  <1> QED
    BY <1>1, TypeInit, TypeStep, FeedInit, FeedStep, GaplessInit, GaplessStep, StateInit, PTL
       DEF Spec

(* Once all callbacks are registered no event is passed over but debug     *)
(* strings that cannot be read, whatever clients did before.               *)
THEOREM EachGoesOut == Spec => []EveryEventOut
  <1>1. TypeOK /\ FeedInv /\ Gapless /\ StateInv => EveryEventOut
    BY DEF StateInv, OutSince, IsOut, Among, IsString, EveryEventOut
  <1> QED
    BY <1>1, StateInvariant, PTL

LEMMA SubSeqRest ==
  ASSUME NEW S, NEW q \in Seq(S), NEW n \in 0 .. Len(q)
  PROVE  /\ Len(SubSeq(q, n + 1, Len(q))) = Len(q) - n
         /\ \A k \in 1 .. Len(q) - n : SubSeq(q, n + 1, Len(q))[k] = q[n + k]
  <1>1. Len(q) \in Nat /\ \A i \in 1 .. Len(q) : q[i] \in S
    BY LenProperties, ElementOfSeq
  <1> QED
    BY <1>1, SubSeqProperties

(* An index of one sequence as one of another that ends with it. *)
LEMMA Shifted ==
  ASSUME NEW a \in Nat, NEW b \in Nat, NEW l \in Nat, NEW m \in Nat, l - a = m - b,
         NEW j \in b + 1 .. m
  PROVE  a + (j - b) \in a + 1 .. l /\ j - b \in 1 .. m - b /\ b + (j - b) = j
  OBVIOUS

(* Nothing queued and nothing dropped: what was seen is what was published. *)
LEMMA SeenIsPublished ==
  ASSUME TypeOK, Gapless, NEW s \in Subscribers, joined[s], ~since[s].dropped, pipe[s] = <<>>
  PROVE  LET a == since[s].seen
             b == since[s].published
         IN  /\ a \in 0 .. Len(seen[s]) /\ b \in 0 .. Len(published)
             /\ Len(seen[s]) - a = Len(published) - b
             /\ \A k \in 1 .. Len(published) - b : seen[s][a + k] = published[b + k]
  <1> DEFINE a == since[s].seen
             b == since[s].published
  <1>1. /\ a \in 0 .. Len(seen[s]) /\ b \in 0 .. Len(published)
        /\ Since(s) \in Seq(Message) /\ Owed(s) \in Seq(Message)
    BY SinceType DEF Gapless
  <1>2. Since(s) = Owed(s)
    <2>1. Since(s) \o <<>> = Since(s)
      BY <1>1, ConcatEmptySeq
    <2> QED
      BY <2>1 DEF Gapless, NoGaps, Since, Owed
  <1>3. /\ Len(seen[s]) \in Nat /\ Len(published) \in Nat
        /\ \A i \in 1 .. Len(seen[s]) : seen[s][i] \in Message
        /\ \A i \in 1 .. Len(published) : published[i] \in Message
    BY Lengths
  <1>4. /\ Len(Since(s)) = Len(seen[s]) - a
        /\ \A k \in 1 .. Len(seen[s]) - a : Since(s)[k] = seen[s][a + k]
    BY <1>1, SubSeqRest, Lengths DEF Since
  <1>5. /\ Len(Owed(s)) = Len(published) - b
        /\ \A k \in 1 .. Len(published) - b : Owed(s)[k] = published[b + k]
    BY <1>1, SubSeqRest, Lengths DEF Owed
  <1> HIDE DEF a, b
  <1> QED
    BY <1>1, <1>2, <1>3, <1>4, <1>5 DEF a, b

(* A client that follows the events knows the debugger. *)
LEMMA Knows ==
  ASSUME TypeOK, FeedInv, Gapless, StateInv
  PROVE  KnowsState
  <1> SUFFICES ASSUME NEW s \in Subscribers, joined[s], ~since[s].dropped, pipe[s] = <<>>,
                      pubSocket = "open", event = NoEvent, Telling(s) # {}
               PROVE  \E i \in Telling(s) :
                        /\ \A j \in Telling(s) : j <= i
                        /\ seen[s][i].n >= early => Tells(seen[s][i].name) = debugger
    BY DEF KnowsState
  <1> DEFINE a == since[s].seen
             b == since[s].published
  <1>1. PICK i \in Telling(s) : \A j \in Telling(s) : j <= i
    BY DEF StateInv, LastSeen
  <1>2. /\ a \in Nat /\ b \in Nat /\ Len(seen[s]) \in Nat /\ Len(published) \in Nat
        /\ a <= Len(seen[s]) /\ b <= Len(published)
        /\ Len(seen[s]) - a = Len(published) - b
        /\ \A k \in 1 .. Len(published) - b : seen[s][a + k] = published[b + k]
    <2>1. Len(seen[s]) \in Nat /\ Len(published) \in Nat
      BY Lengths
    <2>2. /\ a \in 0 .. Len(seen[s]) /\ b \in 0 .. Len(published)
          /\ Len(seen[s]) - a = Len(published) - b
          /\ \A k \in 1 .. Len(published) - b : seen[s][a + k] = published[b + k]
      BY SeenIsPublished, Zenon
    <2> HIDE DEF a, b
    <2> QED
      BY <2>1, <2>2
  <1>3. i \in a + 1 .. Len(seen[s]) /\ Tells(seen[s][i].name) # "nothing"
    BY DEF Telling, a
  <1> HIDE DEF a, b
  <1> DEFINE p == b + (i - a)
             n == published[p].n
  <1>4. p \in 1 .. Len(published) /\ p > b /\ seen[s][i] = published[p]
    <2>1. p \in b + 1 .. Len(published) /\ i - a \in 1 .. Len(seen[s]) - a /\ a + (i - a) = i
      BY <1>2, <1>3, Shifted
    <2>2. seen[s][a + (i - a)] = published[b + (i - a)]
      BY <1>2, <2>1
    <2>3. p \in 1 .. Len(published) /\ p > b
      BY <1>2, <2>1
    <2> QED
      BY <2>1, <2>2, <2>3
  <1>5. /\ n \in 1 .. Len(raised) /\ Tells(published[p].name) = TellsOf(raised[n])
        /\ ~IsSilent(raised[n])
    BY <1>3, <1>4 DEF FeedInv, OutRaised, StateInv, NamedAfter, TellsOf, IsSilent
  <1> HIDE DEF n
  <1> SUFFICES ASSUME n >= early PROVE debugger = TellsOf(raised[n])
    BY <1>1, <1>4, <1>5 DEF n
  <1>6. ASSUME NEW k \in n + 1 .. Len(raised), ~IsSilent(raised[k]) PROVE FALSE
    <2>1. /\ Len(raised) \in Nat /\ early \in Nat /\ early <= Len(raised)
          /\ k \in 1 .. Len(raised) /\ k > n /\ k \in early + 1 .. Len(raised)
      <3>1. Len(raised) \in Nat /\ early \in 0 .. Len(raised)
        BY Lengths DEF TypeOK
      <3> QED
        BY <1>5, <1>6, <3>1
    <2>2. Loaded
      BY <2>1 DEF StateInv, EarlyTillLoaded
    <2>3. ~IsString(raised[k])
      BY <1>6 DEF IsString, IsSilent, TellsOf, Tells, EventName
    <2>4. PICK j \in 1 .. Len(published) : published[j] = Packed(raised[k])
      BY <2>1, <2>2, <2>3 DEF StateInv, OutSince, IsOut, Among
    <2>5. /\ published[j].n = k /\ published[j].name = EventName[raised[k].cb]
      BY <2>1, <2>4 DEF FeedInv, Numbered, Packed
    <2>6. j > p
      BY <1>4, <1>5, <2>1, <2>5 DEF StateInv, NamedAfter, n
    <2> HIDE DEF p
    <2>7. a + (j - b) \in a + 1 .. Len(seen[s]) /\ j - b \in 1 .. Len(published) - b
          /\ b + (j - b) = j
      <3>1. /\ a \in Nat /\ b \in Nat /\ Len(seen[s]) \in Nat /\ Len(published) \in Nat
            /\ Len(seen[s]) - a = Len(published) - b
        BY <1>2
      <3>2. j \in b + 1 .. Len(published)
        BY <1>4, <2>6, <3>1
      <3> QED
        BY <3>1, <3>2, Shifted
    <2>8. seen[s][a + (j - b)] = published[j]
      BY <1>2, <2>7
    <2>9. a + (j - b) \in Telling(s)
      BY <1>6, <2>5, <2>7, <2>8 DEF Telling, IsSilent, TellsOf, a
    <2>10. a + (j - b) <= i
      BY <1>1, <2>9
    <2> QED
      BY <1>2, <1>3, <2>6, <2>10 DEF p
  <1> QED
    BY <1>5, <1>6 DEF StateInv, LastTells

(* A client to which nothing was dropped and that has taken all that was   *)
(* queued knows the state of the debugger from the last event that tells   *)
(* it, for any callbacks and subscribers.                                  *)
THEOREM ClientKnowsState == Spec => []KnowsState
  <1>1. TypeOK /\ FeedInv /\ Gapless /\ StateInv => KnowsState
    BY Knows
  <1> QED
    BY <1>1, StateInvariant, PTL
=============================================================================
