---------------------------- MODULE PubsubProofs ----------------------------
(***************************************************************************)
(* The publish/subscribe server delivers in order and Wait waits for what  *)
(* it should, for any threads, subscribers, topics and capacity.           *)
(*                                                                         *)
(* The argument: the events due to a subscriber are, in this order, the    *)
(* ones handled, the one its goroutine holds, the ones in its channel and  *)
(* the one the server is pushing (InTransit).  Its wait group counts those *)
(* that have left the server (SubCounts), the server's wait group the      *)
(* publications that have not (ServerCounts).  So a thread that is past    *)
(* the first wait has every event it awaits handled, held or in the        *)
(* channel, and one that is past the second has them handled (WaitInv).    *)
(***************************************************************************)
EXTENDS Pubsub, FiniteSetTheorems, TLAPS

(* The larger obligations need more than the prover's default time.        *)
USE SMTT(60)

-----------------------------------------------------------------------------
(* The inductive invariant.  What it says of one thread, one subscriber or *)
(* the server is stated of the value of that thread, subscriber or server. *)
Events == Nat \X Topics

WaitPcs == {"counted", "parkedServer", "wokenServer", "parkedSub", "wokenSub"}

\* What a thread that is in the middle of a call looks like.
Calling ==
    [pc : {"sending"}, call : {"pub"}, subscriber : {"none"}, topic : Topics, event : Nat]
    \cup [pc : {"sending", "marking"}, call : {"sub"}, subscriber : Subscribers, topic : Topics, event : {0}]
    \cup [pc : {"sending", "unmarking"}, call : {"unsub"}, subscriber : Subscribers, topic : Topics, event : {0}]
    \cup [pc : {"sending", "stopped"}, call : {"stop"}, subscriber : {"none"}, topic : {"none"}, event : {0}]

Waiting == [pc : WaitPcs, subscriber : Subscribers]

ThreadStates == {Idle} \cup Calling \cup Waiting

SubStates ==
    [handlers : SUBSET Topics, out : Seq(Events), wg : Int, closed : BOOLEAN,
     at : {"select", "handle", "gone"}, current : Events \cup {<<>>}]

\* A subscriber has a handler for whatever it is sent.
SubOK(u) ==
    /\ u \in SubStates
    /\ \A i \in 1..Len(u.out) : u.out[i][2] \in u.handlers
    /\ u.at = "handle" => u.current \in Events /\ u.current[2] \in u.handlers

ServerStates ==
    [pc : {"loop", "push", "send", "gone"}, event : Events \cup {<<>>},
     to : Subscribers \cup {"none"}, todo : SUBSET Subscribers]

Pushes(sv) == sv.pc \in {"push", "send"}

ServerOK(sv) ==
    /\ sv \in ServerStates
    /\ Pushes(sv) => sv.event \in Events
    /\ sv.pc = "send" => sv.to \in sv.todo
    /\ ~Pushes(sv) => sv.todo = {}

SubsOK == sub = [s \in Subscribers |-> sub[s]] /\ \A s \in Subscribers : SubOK(sub[s])

FlagsOK == running \in BOOLEAN /\ quit \in BOOLEAN /\ panicked \in BOOLEAN

MapsOK ==
    /\ subscriptions \in [Topics -> SUBSET Subscribers]
    /\ topicsKnown \in [Subscribers -> SUBSET Topics]

GhostsOK ==
    /\ due \in [Subscribers -> Seq(Nat)]
    /\ handled \in [Subscribers -> Seq(Nat)]
    /\ awaited \in [Threads -> SUBSET Nat]

TypeOK ==
    /\ ServerOK(server) /\ SubsOK /\ MapsOK /\ GhostsOK
    /\ FlagsOK
    /\ serverWg \in Int /\ nextEvent \in Nat
    /\ thread \in [Threads -> ThreadStates]

\* It has one for whatever it is subscribed to, is subscribing to or is
\* about to be sent.
Subscribed == \A p \in Topics : \A s \in subscriptions[p] : p \in sub[s].handlers

HandlersInv ==
    /\ Subscribed
    /\ \A t \in Threads :
         thread[t].pc = "sending" /\ thread[t].call = "sub"
            => thread[t].topic \in sub[thread[t].subscriber].handlers
    /\ \A s \in server.todo : server.event[2] \in sub[s].handlers

\* Of the events d due to a subscriber those in h are handled; then come
\* the event c that it holds if k is 1 and not 0, those in its channel q and,
\* if p is 1 and not 0, the event e that the server is pushing.
Transit(d, h, k, c, q, p, e) ==
    /\ Len(d) = Len(h) + k + Len(q) + p
    /\ \A i \in 1..Len(h) : d[i] = h[i]
    /\ k = 1 => d[Len(h) + 1] = c[1]
    /\ \A i \in 1..Len(q) : d[Len(h) + k + i] = q[i][1]
    /\ p = 1 => d[Len(d)] = e[1]

Holds(s) == IF sub[s].at = "handle" THEN 1 ELSE 0

ToPush(s) == IF s \in server.todo THEN 1 ELSE 0

InTransit(s) ==
    Transit(due[s], handled[s], Holds(s), sub[s].current, sub[s].out, ToPush(s), server.event)

Publishes(th) == th.pc = "sending" /\ th.call = "pub"

Publishing == {t \in Threads : Publishes(thread[t])}

ServerCounts == serverWg = Cardinality(Publishing) + (IF Pushes(server) THEN 1 ELSE 0)

SubCounts(s) ==
    sub[s].wg = Len(sub[s].out) + Holds(s) + (IF server.pc = "send" /\ server.to = s THEN 1 ELSE 0)

\* All that a thread awaits is due; the server has pushed it once the thread
\* has waited for the server, and it is handled once it has waited for the
\* subscriber.
AmongFirst(a, n, d) == \A e \in a : \E i \in 1..n : d[i] = e

Awaits(pc, a, d, h, n) ==
    /\ AmongFirst(a, Len(d), d)
    /\ pc # "parkedServer" => AmongFirst(a, n, d)
    /\ pc = "wokenSub" => AmongFirst(a, Len(h), h)

Pushed(s) == Len(handled[s]) + Holds(s) + Len(sub[s].out)

AwaitsFrom(t, s) == Awaits(thread[t].pc, awaited[t], due[s], handled[s], Pushed(s))

WaitInv == \A t \in Threads : thread[t].pc \in WaitPcs => AwaitsFrom(t, thread[t].subscriber)

IInv ==
    /\ TypeOK /\ HandlersInv /\ ServerCounts /\ WaitInv
    /\ \A s \in Subscribers : InTransit(s) /\ SubCounts(s)

-----------------------------------------------------------------------------
LEMMA InitOK == Init => IInv
<1> SUFFICES ASSUME Init PROVE IInv
  OBVIOUS
<1> DEFINE fresh == [handlers |-> {}, out |-> <<>>, wg |-> 0, closed |-> FALSE,
                     at |-> "select", current |-> <<>>]
<1>1. \A s \in Subscribers : sub[s] = fresh
  BY DEF Init
<1>2. SubOK(fresh)
  BY DEF SubOK, SubStates
<1>3. ServerOK(AtLoop)
  BY DEF ServerOK, ServerStates, AtLoop, Pushes
<1>4. TypeOK
  <2>1. SubsOK
    BY <1>1, <1>2 DEF Init, SubsOK
  <2>2. GhostsOK
    BY DEF Init, GhostsOK
  <2>3. MapsOK /\ thread \in [Threads -> ThreadStates]
    BY DEF Init, MapsOK, ThreadStates
  <2>4. serverWg \in Int /\ nextEvent \in Nat
    BY DEF Init
  <2>5. ServerOK(server) /\ FlagsOK
    BY Zenon, <1>3 DEF Init, FlagsOK
  <2> QED
    BY <2>1, <2>2, <2>3, <2>4, <2>5 DEF TypeOK
<1>5. HandlersInv
  BY DEF HandlersInv, Subscribed, Init, Idle, AtLoop
<1>6. Publishing = {}
  BY DEF Publishing, Publishes, Init, Idle
<1>7. ServerCounts
  <2>1. Cardinality(Publishing) = 0
    BY <1>6, FS_EmptySet
  <2>2. serverWg = 0 /\ ~Pushes(server)
    BY DEF Init, AtLoop, Pushes
  <2> QED
    BY <2>1, <2>2 DEF ServerCounts
<1>8. WaitInv
  BY DEF WaitInv, WaitPcs, Init, Idle
<1>9. Transit(<<>>, <<>>, 0, <<>>, <<>>, 0, <<>>)
  BY DEF Transit
<1>10. ASSUME NEW s \in Subscribers PROVE InTransit(s) /\ SubCounts(s)
  <2>1. /\ due[s] = <<>> /\ handled[s] = <<>> /\ Holds(s) = 0 /\ ToPush(s) = 0
        /\ sub[s].out = <<>> /\ sub[s].current = <<>> /\ server.event = <<>>
    BY <1>1 DEF Init, AtLoop, ToPush, Holds
  <2>2. InTransit(s)
    BY <1>9, <2>1 DEF InTransit
  <2>3. SubCounts(s)
    BY <1>1, <2>1 DEF SubCounts, Init, AtLoop
  <2> QED
    BY <2>2, <2>3
<1> QED
  BY <1>4, <1>5, <1>7, <1>8, <1>10 DEF IInv

-----------------------------------------------------------------------------
(* What the steps do to the events in transit.                             *)

LEMMA TransitTake ==
  ASSUME NEW d \in Seq(Nat), NEW h \in Seq(Nat), NEW q \in Seq(Events), q # <<>>, NEW c,
         NEW p \in Nat, NEW e, Transit(d, h, 0, c, q, p, e)
  PROVE  Transit(d, h, 1, Head(q), Tail(q), p, e)
BY DEF Transit

LEMMA TransitHandle ==
  ASSUME NEW d \in Seq(Nat), NEW h \in Seq(Nat), NEW q \in Seq(Events), NEW c \in Events, NEW f,
         NEW p \in Nat, NEW e, Transit(d, h, 1, c, q, p, e), NEW g, g = h \o <<c[1]>>
  PROVE  Transit(d, g, 0, f, q, p, e)
BY DEF Transit, Events

LEMMA TransitPush ==
  ASSUME NEW d \in Seq(Nat), NEW h \in Seq(Nat), NEW q \in Seq(Events), NEW k \in Nat, NEW c,
         NEW e \in Nat, NEW f, NEW g, Transit(d, h, k, c, q, 0, f), g[1] = e
  PROVE  Transit(Append(d, e), h, k, c, q, 1, g)
<1>1. Append(d, e) \in Seq(Nat)
  OBVIOUS
<1>2. PICK D \in Seq(Nat) : D = Append(d, e)
  BY Zenon, <1>1
<1>3. /\ Len(D) = Len(d) + 1 /\ D[Len(d) + 1] = e
      /\ \A i \in 1..Len(d) : D[i] = d[i]
  BY <1>2
<1>4. Len(d) = Len(h) + k + Len(q)
  BY DEF Transit
<1>5. ASSUME NEW i \in 1..Len(h) PROVE D[i] = h[i]
  BY <1>3, <1>4 DEF Transit
<1>6. ASSUME k = 1 PROVE D[Len(h) + 1] = c[1]
  <2>1. Len(h) + 1 \in 1..Len(d)
    BY <1>4, <1>6
  <2>2. d[Len(h) + 1] = c[1]
    BY <1>6 DEF Transit
  <2> QED
    BY <1>3, <2>1, <2>2
<1>7. ASSUME NEW i \in 1..Len(q) PROVE D[Len(h) + k + i] = q[i][1]
  <2>1. Len(h) + k + i \in 1..Len(d)
    BY <1>4
  <2>2. d[Len(h) + k + i] = q[i][1]
    BY DEF Transit
  <2> QED
    BY <1>3, <2>1, <2>2
<1>8. Transit(D, h, k, c, q, 1, g)
  BY <1>3, <1>4, <1>5, <1>6, <1>7 DEF Transit
<1> QED
  BY <1>2, <1>8

LEMMA TransitSend ==
  ASSUME NEW d \in Seq(Nat), NEW h \in Seq(Nat), NEW q \in Seq(Events), NEW k \in Nat, NEW c,
         NEW e \in Events, NEW f, Transit(d, h, k, c, q, 1, e)
  PROVE  Transit(d, h, k, c, Append(q, e), 0, f)
<1>1. Append(q, e) \in Seq(Events)
  OBVIOUS
<1>2. PICK Q \in Seq(Events) : Q = Append(q, e)
  BY Zenon, <1>1
<1>3. /\ Len(Q) = Len(q) + 1 /\ Q[Len(q) + 1] = e
      /\ \A i \in 1..Len(q) : Q[i] = q[i]
  BY <1>2
<1>4. Len(d) = Len(h) + k + Len(q) + 1 /\ d[Len(d)] = e[1]
  BY DEF Transit
<1>5. ASSUME NEW i \in 1..Len(Q) PROVE d[Len(h) + k + i] = Q[i][1]
  <2>1. CASE i \in 1..Len(q)
    <3>1. d[Len(h) + k + i] = q[i][1]
      BY <2>1 DEF Transit
    <3> QED
      BY <1>3, <2>1, <3>1
  <2>2. CASE i = Len(q) + 1
    <3>1. Len(h) + k + i = Len(d)
      BY <1>4, <2>2
    <3> QED
      BY <1>3, <1>4, <2>2, <3>1
  <2> QED
    BY <1>3, <2>1, <2>2
<1>6. Transit(d, h, k, c, Q, 0, f)
  BY <1>3, <1>4, <1>5 DEF Transit
<1> QED
  BY <1>2, <1>6

LEMMA AppendHandled ==
  ASSUME NEW q \in Seq(Events), NEW e \in Events, NEW H,
         \A i \in 1..Len(q) : q[i][2] \in H, e[2] \in H
  PROVE  \A i \in 1..Len(Append(q, e)) : Append(q, e)[i][2] \in H
<1>1. Len(Append(q, e)) = Len(q) + 1
  OBVIOUS
<1>2. ASSUME NEW i \in 1..Len(q) + 1 PROVE Append(q, e)[i][2] \in H
  <2>1. CASE i \in 1..Len(q)
    <3>1. Append(q, e)[i] = q[i]
      BY <2>1
    <3> QED
      BY <2>1, <3>1
  <2>2. CASE i = Len(q) + 1
    BY <2>2
  <2> QED
    BY <1>2, <2>1, <2>2
<1> QED
  BY <1>1, <1>2

-----------------------------------------------------------------------------
(* The calls up to the send on server.cmds.                                *)

LEMMA CountsFinite ==
  ASSUME NEW S, S \subseteq Threads
  PROVE  IsFiniteSet(S) /\ Cardinality(S) \in Nat
BY PubsubAssumption, FS_Subset, FS_CardinalityType

\* The subscribers may get handlers, and nothing else.
HandlersGrow ==
    /\ SubsOK'
    /\ \A s \in Subscribers :
         /\ sub[s].handlers \subseteq sub'[s].handlers
         /\ sub'[s].out = sub[s].out /\ sub'[s].wg = sub[s].wg
         /\ sub'[s].at = sub[s].at /\ sub'[s].current = sub[s].current

\* The server stays as it is or changes while it has nothing to push.
ServerStill ==
    \/ server' = server
    \/ server.todo = {} /\ server'.todo = {} /\ server.pc # "send" /\ server'.pc # "send"

\* Then the events in transit stay where they are.
LEMMA GrowFrame ==
  ASSUME IInv, HandlersGrow, ServerStill, UNCHANGED <<due, handled>>
  PROVE  \A s \in Subscribers : InTransit(s)' /\ SubCounts(s)' /\ Pushed(s)' = Pushed(s)
<1> SUFFICES ASSUME NEW s \in Subscribers
             PROVE  InTransit(s)' /\ SubCounts(s)' /\ Pushed(s)' = Pushed(s)
  OBVIOUS
<1>1. Holds(s)' = Holds(s)
  BY DEF Holds, HandlersGrow
<1>2. ToPush(s)' = ToPush(s)
  BY DEF ToPush, ServerStill
<1>3. InTransit(s) /\ SubCounts(s)
  BY DEF IInv
<1>4. InTransit(s)'
  <2>1. CASE server' = server
    BY <1>1, <1>2, <1>3, <2>1 DEF InTransit, HandlersGrow
  <2>2. CASE server' # server
    <3>1. ToPush(s) = 0
      BY <2>2 DEF ServerStill, ToPush
    <3>2. Transit(due[s], handled[s], Holds(s), sub[s].current, sub[s].out, 0, server.event)
      BY <1>3, <3>1 DEF InTransit
    <3>3. Transit(due[s], handled[s], Holds(s), sub[s].current, sub[s].out, 0, server'.event)
      BY <3>2 DEF Transit
    <3> QED
      BY <1>1, <1>2, <3>1, <3>3 DEF InTransit, HandlersGrow
  <2> QED
    BY <2>1, <2>2
<1>5. SubCounts(s)'
  BY <1>1, <1>3 DEF SubCounts, HandlersGrow, ServerStill
<1> QED
  BY <1>1, <1>4, <1>5 DEF HandlersGrow, Pushed

LEMMA SubscribedFrame ==
  ASSUME IInv, HandlersGrow, subscriptions' = subscriptions
  PROVE  Subscribed'
<1>1. subscriptions \in [Topics -> SUBSET Subscribers] /\ Subscribed
  BY DEF IInv, TypeOK, MapsOK, HandlersInv
<1>2. \A s \in Subscribers : sub[s].handlers \subseteq sub'[s].handlers
  BY DEF HandlersGrow
<1> HIDE DEF IInv, HandlersGrow
<1> QED
  BY <1>1, <1>2 DEF Subscribed

\* Threads that only move: the moved ones satisfy what the invariant says of
\* a thread, the others are as they were.
Moved(r) ==
    /\ thread'[r].pc = "sending" /\ thread'[r].call = "sub"
         => thread'[r].topic \in sub'[thread'[r].subscriber].handlers
    /\ thread'[r].pc \in WaitPcs => AwaitsFrom(r, thread[r].subscriber)'

Stayed(r) == thread'[r] = thread[r] /\ awaited'[r] = awaited[r]

\* What such a step keeps, the counter of the server's wait group apart.
Kept ==
    /\ SubsOK' /\ thread' \in [Threads -> ThreadStates] /\ HandlersInv' /\ WaitInv'
    /\ \A s \in Subscribers : InTransit(s)' /\ SubCounts(s)'

LEMMA ThreadSubscriber ==
  ASSUME NEW th \in ThreadStates, th.pc \in WaitPcs \/ (th.pc = "sending" /\ th.call = "sub")
  PROVE  th.subscriber \in Subscribers
BY DEF ThreadStates, Idle, Calling, Waiting, WaitPcs

LEMMA ThreadWaiting ==
  ASSUME NEW th \in ThreadStates, th.pc \in WaitPcs
  PROVE  th \in Waiting
BY DEF ThreadStates, Idle, Calling, WaitPcs

LEMMA ThreadMarking ==
  ASSUME NEW th \in ThreadStates, th.pc = "marking"
  PROVE  th.call = "sub" /\ th.subscriber \in Subscribers
BY DEF ThreadStates, Idle, Waiting, WaitPcs, Calling

LEMMA ThreadsMove ==
  ASSUME IInv, HandlersGrow, thread' \in [Threads -> ThreadStates],
         \A r \in Threads : Stayed(r) \/ Moved(r), Subscribed', ServerStill,
         UNCHANGED <<due, handled>>
  PROVE  Kept
<1>1. thread \in [Threads -> ThreadStates]
  BY DEF IInv, TypeOK
<1>2. HandlersInv'
  <2>1. \A s \in Subscribers : sub[s].handlers \subseteq sub'[s].handlers
    BY DEF HandlersGrow
  <2>2. server.todo \subseteq Subscribers
    BY DEF IInv, TypeOK, ServerOK, ServerStates
  <2>3. HandlersInv
    BY DEF IInv
  <2> HIDE DEF IInv, HandlersGrow
  <2>4. ASSUME NEW s \in server'.todo PROVE server'.event[2] \in sub'[s].handlers
    <3>1. server' = server
      BY <2>4 DEF ServerStill
    <3> QED
      BY <2>4, <2>1, <2>2, <2>3, <3>1 DEF HandlersInv
  <2>5. ASSUME NEW r \in Threads, thread'[r].pc = "sending", thread'[r].call = "sub"
        PROVE  thread'[r].topic \in sub'[thread'[r].subscriber].handlers
    <3>1. CASE Moved(r)
      BY <2>5, <3>1 DEF Moved
    <3>2. CASE Stayed(r)
      <4>1. thread'[r] = thread[r] /\ thread[r] \in ThreadStates
        BY <1>1, <3>2 DEF Stayed
      <4>2. thread[r].subscriber \in Subscribers
        BY <2>5, <4>1, ThreadSubscriber
      <4> QED
        BY <2>5, <2>1, <2>3, <4>1, <4>2 DEF HandlersInv
    <3> QED
      BY <3>1, <3>2
  <2> QED
    BY <2>4, <2>5 DEF HandlersInv
<1>3. WaitInv'
  <2> SUFFICES ASSUME NEW r \in Threads, thread'[r].pc \in WaitPcs
               PROVE  AwaitsFrom(r, thread[r].subscriber)'
    BY DEF WaitInv
  <2>1. CASE Moved(r)
    BY <2>1 DEF Moved
  <2>2. CASE Stayed(r)
    <3>1. thread'[r] = thread[r] /\ thread[r] \in ThreadStates /\ awaited'[r] = awaited[r]
      BY <1>1, <2>2 DEF Stayed
    <3>2. thread[r].subscriber \in Subscribers
      BY <3>1, ThreadSubscriber
    <3>3. AwaitsFrom(r, thread[r].subscriber)
      BY <3>1 DEF IInv, WaitInv
    <3> QED
      BY <3>1, <3>2, <3>3, GrowFrame DEF AwaitsFrom
  <2> QED
    BY <2>1, <2>2
<1>4. SubsOK'
  BY DEF HandlersGrow
<1>5. \A s \in Subscribers : InTransit(s)' /\ SubCounts(s)'
  BY GrowFrame
<1> QED
  BY <1>2, <1>3, <1>4, <1>5 DEF Kept

\* One thread moves.
LEMMA OneMoves ==
  ASSUME IInv, HandlersGrow, NEW t \in Threads, NEW th \in ThreadStates,
         thread' = [thread EXCEPT ![t] = th], th.pc \notin WaitPcs,
         th.pc = "sending" /\ th.call = "sub" => th.topic \in sub'[th.subscriber].handlers,
         Subscribed', ServerStill, UNCHANGED <<due, handled, awaited>>
  PROVE  Kept
<1>1. thread \in [Threads -> ThreadStates]
  BY DEF IInv, TypeOK
<1>2. thread' \in [Threads -> ThreadStates]
  BY <1>1
<1>3. ASSUME NEW r \in Threads PROVE Stayed(r) \/ Moved(r)
  <2>1. CASE r = t
    <3>1. thread'[r] = th
      BY <1>1, <2>1
    <3> QED
      BY <3>1 DEF Moved
  <2>2. CASE r # t
    BY <1>1, <2>2 DEF Stayed
  <2> QED
    BY <2>1, <2>2
<1> QED
  BY ZenonT(60), <1>2, <1>3, ThreadsMove

\* The counter of the server's wait group when a publication starts, when
\* none starts or ends and when one is given up.
LEMMA CountSame ==
  ASSUME IInv, NEW t \in Threads, NEW th, thread' = [thread EXCEPT ![t] = th],
         ~Publishes(thread[t]), ~Publishes(th), UNCHANGED <<serverWg, server>>
  PROVE  ServerCounts'
<1>1. Publishing' = Publishing
  BY DEF IInv, TypeOK, Publishing, Publishes
<1> QED
  BY <1>1 DEF IInv, ServerCounts

LEMMA CountStart ==
  ASSUME IInv, NEW t \in Threads, NEW th, thread' = [thread EXCEPT ![t] = th],
         ~Publishes(thread[t]), Publishes(th), serverWg' = serverWg + 1, server' = server
  PROVE  ServerCounts'
<1>1. t \notin Publishing /\ Publishing \subseteq Threads
  BY DEF Publishing
<1>2. Publishing' = Publishing \cup {t}
  BY <1>1 DEF IInv, TypeOK, Publishing, Publishes
<1>3. serverWg = Cardinality(Publishing) + (IF Pushes(server) THEN 1 ELSE 0)
  BY DEF IInv, ServerCounts
<1>4. Cardinality(Publishing') = Cardinality(Publishing) + 1
  BY <1>1, <1>2, CountsFinite, FS_AddElement
<1>5. serverWg' = Cardinality(Publishing') + (IF Pushes(server) THEN 1 ELSE 0)
  BY <1>1, <1>3, <1>4, CountsFinite
<1> QED
  BY <1>5 DEF ServerCounts

LEMMA Frames ==
  ASSUME IInv, UNCHANGED <<sub, subscriptions, server>>
  PROVE  HandlersGrow /\ Subscribed' /\ ServerStill
<1>1. HandlersGrow /\ ServerStill
  BY DEF IInv, TypeOK, SubsOK, HandlersGrow, ServerStill
<1> QED
  BY <1>1, SubscribedFrame

LEMMA PublishStep ==
  ASSUME IInv, NEW t \in Threads, NEW topic \in Topics, Publish(t, topic)
  PROVE  IInv'
<1> DEFINE th == [pc |-> "sending", call |-> "pub", subscriber |-> "none", topic |-> topic,
                  event |-> nextEvent]
<1>1. TypeOK
  BY DEF IInv
<1>2. th \in ThreadStates /\ th.pc \notin WaitPcs /\ th.call # "sub" /\ Publishes(th)
  BY <1>1 DEF TypeOK, Calling, ThreadStates, WaitPcs, Publishes
<1>3. /\ ~Publishes(thread[t]) /\ thread' = [thread EXCEPT ![t] = th]
      /\ serverWg' = serverWg + 1 /\ nextEvent' = nextEvent + 1
      /\ UNCHANGED <<server, subscriptions, topicsKnown, running, quit, sub, panicked, due, handled, awaited>>
  BY DEF Publish, MayCall, Sending, Ghosts, Publishes
<1> HIDE DEF th
<1>4. Kept
  BY ZenonT(60), <1>2, <1>3, Frames, OneMoves
<1>5. ServerCounts'
  BY ZenonT(60), <1>2, <1>3, CountStart
<1>6. FlagsOK'
  BY Zenon, <1>1, <1>3 DEF TypeOK, FlagsOK
<1>7. TypeOK'
  BY <1>1, <1>3, <1>4, <1>6 DEF TypeOK, MapsOK, GhostsOK, Kept
<1> QED
  BY <1>4, <1>5, <1>7 DEF IInv, Kept

LEMMA SubscribeStep ==
  ASSUME IInv, NEW t \in Threads, NEW s \in Subscribers, NEW topic \in TopicsOf[s],
         Subscribe(t, s, topic)
  PROVE  IInv'
<1> DEFINE th == [pc |-> "sending", call |-> "sub", subscriber |-> s, topic |-> topic, event |-> 0]
<1>1. TypeOK
  BY DEF IInv
<1>2. topic \in Topics
  BY PubsubAssumption
<1>3. /\ th \in ThreadStates /\ th.pc \notin WaitPcs /\ ~Publishes(th)
      /\ th.topic = topic /\ th.subscriber = s
  BY <1>2 DEF Calling, ThreadStates, WaitPcs, Publishes
<1>4. /\ ~Publishes(thread[t]) /\ thread' = [thread EXCEPT ![t] = th]
      /\ sub' = [sub EXCEPT ![s].handlers = @ \cup {topic}]
      /\ UNCHANGED <<server, subscriptions, topicsKnown, running, quit, serverWg, panicked, nextEvent,
                     due, handled, awaited>>
  BY DEF Subscribe, MayCall, Sending, Ghosts, Publishes
<1>5. HandlersGrow /\ topic \in sub'[s].handlers
  <2>1. SubsOK
    BY <1>1 DEF TypeOK
  <2>2. ASSUME NEW r \in Subscribers, r # s PROVE sub'[r] = sub[r]
    BY <1>4, <2>1, <2>2 DEF SubsOK
  <2>3. sub'[s] = [sub[s] EXCEPT !.handlers = @ \cup {topic}]
    BY <1>4, <2>1 DEF SubsOK
  <2>4. SubOK(sub[s])
    BY <2>1 DEF SubsOK
  <2>5. /\ sub'[s].handlers = sub[s].handlers \cup {topic}
        /\ sub'[s].out = sub[s].out /\ sub'[s].wg = sub[s].wg
        /\ sub'[s].at = sub[s].at /\ sub'[s].current = sub[s].current
        /\ sub'[s] \in SubStates
    BY <1>2, <2>3, <2>4 DEF SubOK, SubStates
  <2>6. SubOK(sub'[s])
    BY <2>4, <2>5 DEF SubOK
  <2>7. sub' = [r \in Subscribers |-> sub'[r]]
    BY ONLY <1>4, <2>1, Zenon DEF SubsOK
  <2>8. SubsOK'
    BY Zenon, <2>1, <2>2, <2>6, <2>7 DEF SubsOK
  <2> QED
    BY <2>2, <2>5, <2>8 DEF HandlersGrow
<1> HIDE DEF th
<1>6. Subscribed' /\ ServerStill
  BY <1>4, <1>5, SubscribedFrame DEF ServerStill
<1>7. Kept
  BY ZenonT(60), <1>3, <1>4, <1>5, <1>6, OneMoves
<1>8. ServerCounts'
  BY ZenonT(60), <1>3, <1>4, CountSame
<1>9. FlagsOK'
  BY Zenon, <1>1, <1>4 DEF TypeOK, FlagsOK
<1>10. TypeOK'
  BY <1>1, <1>4, <1>7, <1>9 DEF TypeOK, MapsOK, GhostsOK, Kept
<1> QED
  BY Zenon, <1>7, <1>8, <1>10 DEF IInv, Kept

LEMMA UnsubscribeStep ==
  ASSUME IInv, NEW t \in Threads, NEW s \in Subscribers, NEW topic \in TopicsOf[s],
         Unsubscribe(t, s, topic)
  PROVE  IInv'
<1> DEFINE th == [pc |-> "sending", call |-> "unsub", subscriber |-> s, topic |-> topic, event |-> 0]
<1>1. TypeOK
  BY DEF IInv
<1>2. th \in ThreadStates /\ th.pc \notin WaitPcs /\ th.call # "sub" /\ ~Publishes(th)
  BY PubsubAssumption DEF Calling, ThreadStates, WaitPcs, Publishes
<1>3. /\ ~Publishes(thread[t]) /\ thread' = [thread EXCEPT ![t] = th]
      /\ UNCHANGED <<server, subscriptions, topicsKnown, running, quit, serverWg, sub, panicked, nextEvent,
                     due, handled, awaited>>
  BY Zenon DEF Unsubscribe, MayCall, Sending, Ghosts, Publishes
<1> HIDE DEF th
<1>4. Kept
  BY ZenonT(60), <1>2, <1>3, Frames, OneMoves
<1>5. ServerCounts'
  BY ZenonT(60), <1>2, <1>3, CountSame
<1>6. FlagsOK'
  BY Zenon, <1>1, <1>3 DEF TypeOK, FlagsOK
<1>7. TypeOK'
  BY Zenon, <1>1, <1>3, <1>4, <1>6 DEF TypeOK, MapsOK, GhostsOK, Kept
<1> QED
  BY <1>4, <1>5, <1>7 DEF IInv, Kept

LEMMA StopStep ==
  ASSUME IInv, NEW t \in Threads, Stop(t)
  PROVE  IInv'
<1> DEFINE th == [pc |-> "sending", call |-> "stop", subscriber |-> "none", topic |-> "none", event |-> 0]
<1>1. TypeOK
  BY DEF IInv
<1>2. th \in ThreadStates /\ th.pc \notin WaitPcs /\ th.call # "sub" /\ ~Publishes(th)
  BY DEF Calling, ThreadStates, WaitPcs, Publishes
<1>3. /\ ~Publishes(thread[t]) /\ thread' = [thread EXCEPT ![t] = th] /\ running' = FALSE
      /\ UNCHANGED <<server, subscriptions, topicsKnown, quit, serverWg, sub, panicked, nextEvent,
                     due, handled, awaited>>
  BY DEF Stop, MayCall, Sending, Ghosts, Publishes
<1> HIDE DEF th
<1>4. Kept
  BY ZenonT(60), <1>2, <1>3, Frames, OneMoves
<1>5. ServerCounts'
  BY ZenonT(60), <1>2, <1>3, CountSame
<1>6. FlagsOK'
  BY Zenon, <1>1, <1>3 DEF TypeOK, FlagsOK
<1>7. TypeOK'
  BY <1>1, <1>3, <1>4, <1>6 DEF TypeOK, MapsOK, GhostsOK, Kept
<1> QED
  BY <1>4, <1>5, <1>7 DEF IInv, Kept

-----------------------------------------------------------------------------
(* The calls after the send on server.cmds, and the end of a Wait.         *)

LEMMA GetsIdle ==
  ASSUME IInv, NEW t \in Threads, ~Publishes(thread[t]), thread' = [thread EXCEPT ![t] = Idle],
         HandlersGrow, Subscribed', ServerStill,
         UNCHANGED <<server, serverWg, due, handled, awaited>>
  PROVE  Kept /\ ServerCounts'
<1>1. Idle \in ThreadStates /\ Idle.pc \notin WaitPcs /\ Idle.pc # "sending" /\ ~Publishes(Idle)
  BY DEF ThreadStates, Idle, WaitPcs, Publishes
<1>2. Kept
  BY ZenonT(60), <1>1, OneMoves
<1>3. ServerCounts'
  BY ZenonT(60), <1>1, CountSame
<1> QED
  BY <1>2, <1>3

LEMMA CloseQuitStep ==
  ASSUME IInv, NEW t \in Threads, CloseQuit(t)
  PROVE  IInv'
<1>1. TypeOK
  BY DEF IInv
<1>2. /\ ~Publishes(thread[t]) /\ thread' = [thread EXCEPT ![t] = Idle] /\ quit' = TRUE
      /\ UNCHANGED <<server, subscriptions, topicsKnown, running, serverWg, sub, panicked, nextEvent,
                     due, handled, awaited>>
  BY DEF CloseQuit, Ghosts, Publishes
<1>3. Kept /\ ServerCounts'
  BY ZenonT(60), <1>2, Frames, GetsIdle
<1>4. FlagsOK'
  BY Zenon, <1>1, <1>2 DEF TypeOK, FlagsOK
<1>5. TypeOK'
  BY <1>1, <1>2, <1>3, <1>4 DEF TypeOK, MapsOK, GhostsOK, Kept
<1> QED
  BY <1>3, <1>5 DEF IInv, Kept

LEMMA MarkStep ==
  ASSUME IInv, NEW t \in Threads, Mark(t)
  PROVE  IInv'
<1>1. TypeOK
  BY DEF IInv
<1>2. /\ ~Publishes(thread[t]) /\ thread' = [thread EXCEPT ![t] = Idle] /\ thread[t].pc = "marking"
      /\ topicsKnown' = [topicsKnown EXCEPT ![thread[t].subscriber] = @ \cup {thread[t].topic}]
      /\ UNCHANGED <<server, subscriptions, running, quit, serverWg, sub, panicked, nextEvent,
                     due, handled, awaited>>
  BY DEF Mark, Ghosts, Publishes
<1>3. Kept /\ ServerCounts'
  BY ZenonT(60), <1>2, Frames, GetsIdle
<1>4. FlagsOK'
  BY Zenon, <1>1, <1>2 DEF TypeOK, FlagsOK
<1>5. thread[t].subscriber \in Subscribers /\ thread[t].topic \in Topics
  BY <1>1, <1>2 DEF TypeOK, ThreadStates, Idle, Calling, Waiting, WaitPcs
<1>6. MapsOK'
  <2>1. MapsOK
    BY <1>1 DEF TypeOK
  <2>2. topicsKnown[thread[t].subscriber] \cup {thread[t].topic} \in SUBSET Topics
    BY <1>5, <2>1 DEF MapsOK
  <2> QED
    BY <1>2, <1>5, <2>1, <2>2 DEF MapsOK
<1>7. TypeOK'
  BY <1>1, <1>2, <1>3, <1>4, <1>6 DEF TypeOK, GhostsOK, Kept
<1> QED
  BY <1>3, <1>7 DEF IInv, Kept

LEMMA UnmarkStep ==
  ASSUME IInv, NEW t \in Threads, Unmark(t)
  PROVE  IInv'
<1> DEFINE s == thread[t].subscriber
<1>1. TypeOK
  BY DEF IInv
<1>2. /\ ~Publishes(thread[t]) /\ thread' = [thread EXCEPT ![t] = Idle] /\ thread[t].pc = "unmarking"
      /\ topicsKnown' = [topicsKnown EXCEPT ![s] = @ \ {thread[t].topic}]
      /\ sub' = [sub EXCEPT ![s].closed = TRUE]
      /\ panicked' = (panicked \/ sub[s].closed)
      /\ UNCHANGED <<server, subscriptions, running, quit, serverWg, nextEvent, due, handled, awaited>>
  BY DEF Unmark, Ghosts, Publishes
<1>3. s \in Subscribers
  BY <1>1, <1>2 DEF TypeOK, ThreadStates, Idle, Calling, Waiting, WaitPcs
<1> HIDE DEF s
<1>4. HandlersGrow
  <2>1. SubsOK
    BY <1>1 DEF TypeOK
  <2>2. ASSUME NEW r \in Subscribers, r # s PROVE sub'[r] = sub[r]
    BY <1>2, <2>1, <2>2 DEF SubsOK
  <2>3. sub'[s] = [sub[s] EXCEPT !.closed = TRUE]
    BY <1>2, <1>3, <2>1 DEF SubsOK
  <2>4. SubOK(sub[s])
    BY <1>3, <2>1 DEF SubsOK
  <2>5. /\ sub'[s].handlers = sub[s].handlers
        /\ sub'[s].out = sub[s].out /\ sub'[s].wg = sub[s].wg
        /\ sub'[s].at = sub[s].at /\ sub'[s].current = sub[s].current
    BY <2>3, <2>4 DEF SubOK, SubStates
  <2>6. sub'[s] \in SubStates
    BY Zenon, <2>3, <2>4 DEF SubOK, SubStates
  <2>7. sub' = [r \in Subscribers |-> sub'[r]]
    BY Zenon, <1>2, <2>1 DEF SubsOK
  <2>8. SubOK(sub'[s])
    BY <2>4, <2>5, <2>6 DEF SubOK
  <2>9. SubsOK'
    BY <2>1, <2>2, <2>8, <2>7 DEF SubsOK
  <2> QED
    BY Zenon, <2>2, <2>5, <2>9 DEF HandlersGrow
<1>5. Subscribed' /\ ServerStill
  BY <1>2, <1>4, SubscribedFrame DEF ServerStill
<1>6. Kept /\ ServerCounts'
  BY ZenonT(60), <1>2, <1>4, <1>5, GetsIdle
<1>7. sub[s].closed \in BOOLEAN
  BY <1>1, <1>3 DEF TypeOK, SubsOK, SubOK, SubStates
<1>8. FlagsOK'
  BY Zenon, <1>1, <1>2, <1>7 DEF TypeOK, FlagsOK
<1>9. MapsOK'
  <2>1. MapsOK
    BY <1>1 DEF TypeOK
  <2>2. topicsKnown[s] \ {thread[t].topic} \in SUBSET Topics
    BY <1>3, <2>1 DEF MapsOK
  <2> QED
    BY <1>2, <1>3, <2>1, <2>2 DEF MapsOK
<1>10. TypeOK'
  BY <1>1, <1>2, <1>6, <1>8, <1>9 DEF TypeOK, GhostsOK, Kept
<1> QED
  BY <1>6, <1>10 DEF IInv, Kept

\* What the server has not still to push has been pushed.
LEMMA AllPushed ==
  ASSUME IInv, NEW s \in Subscribers, s \notin server.todo
  PROVE  Pushed(s) = Len(due[s])
<1>1. Len(due[s]) = Len(handled[s]) + Holds(s) + Len(sub[s].out) + 0
  BY DEF IInv, InTransit, Transit, ToPush
<1>2. due[s] \in Seq(Nat) /\ handled[s] \in Seq(Nat) /\ sub[s].out \in Seq(Events)
  BY DEF IInv, TypeOK, GhostsOK, SubsOK, SubOK, SubStates
<1>3. Holds(s) \in Nat
  BY DEF Holds
<1> QED
  BY <1>1, <1>2, <1>3 DEF Pushed

LEMMA NothingToPush ==
  ASSUME IInv, serverWg = 0
  PROVE  ~Pushes(server) /\ Publishing = {} /\ \A s \in Subscribers : s \notin server.todo
<1>1. Publishing \subseteq Threads
  BY DEF Publishing
<1>2. IsFiniteSet(Publishing) /\ Cardinality(Publishing) \in Nat
  BY <1>1, CountsFinite
<1>3. 0 = Cardinality(Publishing) + (IF Pushes(server) THEN 1 ELSE 0)
  BY DEF IInv, ServerCounts
<1>4. ~Pushes(server) /\ Cardinality(Publishing) = 0
  BY <1>2, <1>3
<1> QED
  BY <1>2, <1>4, FS_EmptySet DEF IInv, TypeOK, ServerOK

LEMMA WaitStep ==
  ASSUME IInv, NEW t \in Threads, NEW s \in Subscribers, Wait(t, s)
  PROVE  IInv'
<1> DEFINE th == [pc |-> IF serverWg = 0 THEN "counted" ELSE "parkedServer", subscriber |-> s]
<1>1. TypeOK
  BY DEF IInv
<1>2. /\ ~Publishes(thread[t]) /\ thread' = [thread EXCEPT ![t] = th]
      /\ awaited' = [awaited EXCEPT ![t] = Range(due[s])]
      /\ UNCHANGED <<server, subscriptions, topicsKnown, running, quit, serverWg, sub, panicked,
                     nextEvent, due, handled>>
  BY Zenon DEF Wait, MayCall, Publishes
<1>3. /\ th \in ThreadStates /\ ~Publishes(th) /\ th.pc # "sending" /\ th.subscriber = s
      /\ th.pc # "wokenSub" /\ (th.pc # "parkedServer" => serverWg = 0)
  BY Zenon DEF ThreadStates, Waiting, WaitPcs, Publishes
<1> HIDE DEF th
<1>4. thread \in [Threads -> ThreadStates] /\ awaited \in [Threads -> SUBSET Nat]
  BY <1>1 DEF TypeOK, GhostsOK
<1>5. /\ thread' \in [Threads -> ThreadStates] /\ thread'[t] = th
      /\ awaited'[t] = Range(due[s])
  BY Zenon, <1>2, <1>3, <1>4
<1>6. due[s] \in Seq(Nat)
  BY <1>1 DEF TypeOK, GhostsOK
<1>7. AwaitsFrom(t, s)'
  <2>1. AmongFirst(Range(due[s]), Len(due[s]), due[s])
    BY <1>6 DEF AmongFirst, Range
  <2>2. ASSUME serverWg = 0 PROVE Pushed(s) = Len(due[s])
    BY <2>2, NothingToPush, AllPushed
  <2>3. Pushed(s)' = Pushed(s)
    BY <1>2, Frames, GrowFrame
  <2>4. Awaits(th.pc, Range(due[s]), due[s], handled[s], Pushed(s))
    BY Zenon, <1>3, <2>1, <2>2 DEF Awaits
  <2> QED
    BY Zenon, <1>2, <1>5, <2>3, <2>4 DEF AwaitsFrom
<1>8. Kept
  <2>1. ASSUME NEW r \in Threads PROVE Stayed(r) \/ Moved(r)
    <3>1. CASE r = t
      BY <1>3, <1>5, <1>7, <3>1 DEF Moved
    <3>2. CASE r # t
      BY <1>2, <1>4, <3>2 DEF Stayed
    <3> QED
      BY <3>1, <3>2
  <2> QED
    BY ZenonT(60), <1>2, <1>5, <2>1, Frames, ThreadsMove
<1>9. ServerCounts'
  BY ZenonT(60), <1>2, <1>3, CountSame
<1>10. FlagsOK'
  BY Zenon, <1>1, <1>2 DEF TypeOK, FlagsOK
<1>11. GhostsOK'
  BY <1>1, <1>2, <1>6 DEF TypeOK, GhostsOK, Range
<1>12. TypeOK'
  BY <1>1, <1>2, <1>8, <1>10, <1>11 DEF TypeOK, MapsOK, Kept
<1> QED
  BY <1>8, <1>9, <1>12 DEF IInv, Kept

\* A waiting thread keeps its subscriber when its pc changes to q, and may do
\* so when what it awaits is where the invariant wants it.
LEMMA WaiterMoves ==
  ASSUME IInv, NEW r \in Threads, NEW q \in WaitPcs, thread[r].pc \in WaitPcs,
         thread'[r] = [thread[r] EXCEPT !.pc = q],
         UNCHANGED <<due, handled, awaited>>,
         \A s \in Subscribers : Pushed(s)' = Pushed(s),
         Awaits(q, awaited[r], due[thread[r].subscriber], handled[thread[r].subscriber],
                Pushed(thread[r].subscriber))
  PROVE  thread'[r] \in ThreadStates /\ Moved(r) /\ ~Publishes(thread'[r])
<1> DEFINE s == thread[r].subscriber
<1>1. thread[r] \in ThreadStates
  BY DEF IInv, TypeOK
<1>2. thread[r] \in Waiting
  BY <1>1 DEF ThreadStates, Idle, Calling, WaitPcs
<1>3. thread'[r].pc = q /\ thread'[r].subscriber = s /\ thread'[r] \in Waiting /\ s \in Subscribers
  BY <1>2 DEF Waiting
<1>4. q # "sending"
  BY DEF WaitPcs
<1>5. AwaitsFrom(r, s)'
  BY <1>3 DEF AwaitsFrom
<1> QED
  BY <1>3, <1>4, <1>5 DEF Moved, Publishes, ThreadStates

LEMMA WakeServerStep ==
  ASSUME IInv, NEW t \in Threads, WakeServer(t)
  PROVE  IInv'
<1> DEFINE th == [thread[t] EXCEPT !.pc = "counted"]
           s == thread[t].subscriber
<1>1. TypeOK
  BY DEF IInv
<1>2. thread \in [Threads -> ThreadStates]
  BY <1>1 DEF TypeOK
<1>3. /\ thread[t].pc = "wokenServer" /\ ~Publishes(thread[t])
      /\ panicked' = (panicked \/ serverWg # 0)
      /\ UNCHANGED <<server, subscriptions, topicsKnown, running, quit, serverWg, sub, nextEvent,
                     due, handled, awaited>>
  BY DEF WakeServer, Ghosts, Publishes
<1>4. thread' = [thread EXCEPT ![t] = th]
  BY <1>2 DEF WakeServer
<1>5. HandlersGrow /\ \A r \in Subscribers : Pushed(r)' = Pushed(r)
  BY Zenon, <1>3, Frames, GrowFrame
<1>6. Awaits("wokenServer", awaited[t], due[s], handled[s], Pushed(s))
  BY Zenon, <1>3 DEF IInv, WaitInv, AwaitsFrom, WaitPcs
<1>7. Awaits("counted", awaited[t], due[s], handled[s], Pushed(s))
  BY Zenon, <1>6 DEF Awaits
<1>8. thread'[t] = [thread[t] EXCEPT !.pc = "counted"]
  BY <1>2, <1>4
<1> HIDE DEF th
<1>9. thread'[t] \in ThreadStates /\ Moved(t) /\ ~Publishes(thread'[t])
  <2>1. "counted" \in WaitPcs /\ thread[t].pc \in WaitPcs /\ UNCHANGED <<due, handled, awaited>>
    BY Zenon, <1>3 DEF WaitPcs
  <2> QED
    BY ZenonT(60), <1>5, <1>7, <1>8, <2>1, WaiterMoves
<1>10. /\ thread' \in [Threads -> ThreadStates] /\ thread'[t] = th
       /\ \A r \in Threads : Stayed(r) \/ Moved(r)
  BY <1>2, <1>3, <1>4, <1>9 DEF Stayed
<1>11. Kept
  BY ZenonT(60), <1>3, <1>5, <1>10, Frames, ThreadsMove
<1>12. ServerCounts'
  BY ZenonT(60), <1>3, <1>4, <1>9, <1>10, CountSame
<1>13. FlagsOK'
  BY Zenon, <1>1, <1>3 DEF TypeOK, FlagsOK
<1>14. TypeOK'
  BY <1>1, <1>3, <1>11, <1>13 DEF TypeOK, MapsOK, GhostsOK, Kept
<1> QED
  BY <1>11, <1>12, <1>14 DEF IInv, Kept

LEMMA WaitSubStep ==
  ASSUME IInv, NEW t \in Threads, WaitSub(t)
  PROVE  IInv'
<1> DEFINE th == [thread[t] EXCEPT !.pc = "parkedSub"]
           s == thread[t].subscriber
<1>1. TypeOK
  BY DEF IInv
<1>2. thread \in [Threads -> ThreadStates]
  BY <1>1 DEF TypeOK
<1>3. /\ thread[t].pc = "counted" /\ ~Publishes(thread[t])
      /\ UNCHANGED <<server, subscriptions, topicsKnown, running, quit, serverWg, sub, panicked, nextEvent,
                     due, handled, awaited>>
  BY DEF WaitSub, Ghosts, Publishes
<1>4. HandlersGrow /\ \A r \in Subscribers : Pushed(r)' = Pushed(r)
  BY <1>3, Frames, GrowFrame
<1>5. Kept /\ ServerCounts'
  <2>1. CASE thread' = [thread EXCEPT ![t] = Idle]
    BY ZenonT(60), <1>3, <1>4, <2>1, Frames, GetsIdle
  <2>2. CASE thread' = [thread EXCEPT ![t] = th]
    <3>1. Awaits("counted", awaited[t], due[s], handled[s], Pushed(s))
      BY Zenon, <1>3 DEF IInv, WaitInv, AwaitsFrom, WaitPcs
    <3>2. Awaits("parkedSub", awaited[t], due[s], handled[s], Pushed(s))
      BY Zenon, <3>1 DEF Awaits
    <3>3. thread'[t] = [thread[t] EXCEPT !.pc = "parkedSub"]
      BY <1>2, <2>2
    <3> HIDE DEF th
    <3>4. thread'[t] \in ThreadStates /\ Moved(t) /\ ~Publishes(thread'[t])
      <4>1. "parkedSub" \in WaitPcs /\ thread[t].pc \in WaitPcs /\ UNCHANGED <<due, handled, awaited>>
        BY <1>3 DEF WaitPcs
      <4> QED
        BY ZenonT(60), <1>4, <3>2, <3>3, <4>1, WaiterMoves
    <3>5. /\ thread' \in [Threads -> ThreadStates] /\ thread'[t] = th
          /\ \A r \in Threads : Stayed(r) \/ Moved(r)
      BY <1>2, <1>3, <2>2, <3>4 DEF Stayed
    <3>6. Kept
      BY ZenonT(60), <1>3, <1>4, <3>5, Frames, ThreadsMove
    <3>7. ServerCounts'
      BY ZenonT(60), <1>3, <2>2, <3>4, <3>5, CountSame
    <3> QED
      BY <3>6, <3>7
  <2>3. thread' = [thread EXCEPT ![t] = Idle] \/ thread' = [thread EXCEPT ![t] = th]
    <3>1. thread' = [thread EXCEPT ![t] = IF sub[s].wg = 0 THEN Idle ELSE th]
      BY Zenon, <1>2 DEF WaitSub
    <3> HIDE DEF th, s
    <3>2. CASE sub[s].wg = 0
      BY <3>1, <3>2
    <3>3. CASE sub[s].wg # 0
      BY <3>1, <3>3
    <3> QED
      BY <3>2, <3>3
  <2> QED
    BY <2>1, <2>2, <2>3
<1>6. FlagsOK'
  BY Zenon, <1>1, <1>3 DEF TypeOK, FlagsOK
<1>7. TypeOK'
  BY <1>1, <1>3, <1>5, <1>6 DEF TypeOK, MapsOK, GhostsOK, Kept
<1> QED
  BY <1>5, <1>7 DEF IInv, Kept

LEMMA WakeSubStep ==
  ASSUME IInv, NEW t \in Threads, WakeSub(t)
  PROVE  IInv'
<1>1. TypeOK
  BY DEF IInv
<1>2. /\ ~Publishes(thread[t]) /\ thread' = [thread EXCEPT ![t] = Idle]
      /\ panicked' = (panicked \/ sub[thread[t].subscriber].wg # 0)
      /\ UNCHANGED <<server, subscriptions, topicsKnown, running, quit, serverWg, sub, nextEvent,
                     due, handled, awaited>>
  BY Zenon DEF WakeSub, Ghosts, Publishes
<1>3. Kept /\ ServerCounts'
  BY ZenonT(60), <1>2, Frames, GetsIdle
<1>4. FlagsOK'
  BY Zenon, <1>1, <1>2 DEF TypeOK, FlagsOK
<1>5. TypeOK'
  BY Zenon, <1>1, <1>2, <1>3, <1>4 DEF TypeOK, MapsOK, GhostsOK, Kept
<1> QED
  BY <1>3, <1>5 DEF IInv, Kept

-----------------------------------------------------------------------------
(* The end of a publication, which wakes the threads parked on the         *)
(* server's wait group when it is the last one.                            *)

LEMMA ServerDone ==
  ASSUME IInv, HandlersGrow, Subscribed', ServerStill, UNCHANGED <<due, handled, awaited>>,
         NEW T \in [Threads -> ThreadStates], \A r \in Threads : T[r] = thread[r] \/ T[r] = Idle,
         thread' = AfterServerDone(T),
         serverWg = 1 => \A s \in Subscribers : s \notin server.todo
  PROVE  Kept /\ Publishing' = {r \in Threads : Publishes(T[r])}
<1>1. \A s \in Subscribers : Pushed(s)' = Pushed(s)
  BY GrowFrame
<1>2. ASSUME NEW r \in Threads
      PROVE  thread'[r] \in ThreadStates /\ (Stayed(r) \/ Moved(r)) /\ (Publishes(thread'[r]) <=> Publishes(T[r]))
  <2> DEFINE s == thread[r].subscriber
  <2>1. thread[r] \in ThreadStates
    BY DEF IInv, TypeOK
  <2>2. CASE serverWg = 1 /\ T[r].pc = "parkedServer"
    <3>1. T[r] = thread[r] /\ thread[r].pc = "parkedServer"
      BY <2>2 DEF Idle
    <3>2. thread'[r] = [thread[r] EXCEPT !.pc = "wokenServer"]
      BY <2>2, <3>1 DEF AfterServerDone, Woken
    <3>3. s \in Subscribers
      BY <2>1, <3>1, ThreadSubscriber DEF WaitPcs
    <3>4. Pushed(s) = Len(due[s])
      BY <2>2, <3>3, AllPushed
    <3>5. Awaits("parkedServer", awaited[r], due[s], handled[s], Pushed(s))
      BY Zenon, <3>1 DEF IInv, WaitInv, AwaitsFrom, WaitPcs
    <3>6. Awaits("wokenServer", awaited[r], due[s], handled[s], Pushed(s))
      BY Zenon, <3>4, <3>5 DEF Awaits
    <3>7. "wokenServer" \in WaitPcs /\ thread[r].pc \in WaitPcs
      BY <3>1 DEF WaitPcs
    <3>8. thread'[r] \in ThreadStates /\ Moved(r) /\ ~Publishes(thread'[r])
      BY ZenonT(60), <1>1, <3>2, <3>6, <3>7, WaiterMoves
    <3>9. ~Publishes(T[r])
      BY <2>2 DEF Publishes
    <3> QED
      BY Zenon, <3>8, <3>9
  <2>3. CASE ~(serverWg = 1 /\ T[r].pc = "parkedServer")
    <3>1. thread'[r] = T[r]
      BY <2>3 DEF AfterServerDone, Woken
    <3>2. T[r] = thread[r] => Stayed(r)
      BY <3>1 DEF Stayed
    <3>3. T[r] = Idle => Moved(r)
      BY <3>1 DEF Moved, Idle, WaitPcs
    <3> QED
      BY <3>1, <3>2, <3>3
  <2> QED
    BY Zenon, <2>2, <2>3
<1>3. thread' \in [Threads -> ThreadStates]
  <2>1. CASE serverWg = 1
    <3>1. thread' = [r \in Threads |-> IF T[r].pc = "parkedServer" THEN [T[r] EXCEPT !.pc = "wokenServer"]
                                                                 ELSE T[r]]
      BY <2>1 DEF AfterServerDone, Woken
    <3>2. \A r \in Threads : thread'[r] \in ThreadStates
      BY <1>2
    <3> QED
      BY Zenon, <3>1, <3>2
  <2>2. CASE serverWg # 1
    BY <2>2 DEF AfterServerDone
  <2> QED
    BY <2>1, <2>2
<1>4. Kept
  BY ZenonT(60), <1>2, <1>3, ThreadsMove
<1>5. Publishing' = {r \in Threads : Publishes(T[r])}
  BY <1>2 DEF Publishing
<1> QED
  BY Zenon, <1>4, <1>5

LEMMA StillTyped ==
  ASSUME TypeOK, Kept, ServerCounts', serverWg' \in Int,
         UNCHANGED <<server, subscriptions, topicsKnown, running, quit, panicked, nextEvent,
                     due, handled, awaited>>
  PROVE  IInv'
<1>1. FlagsOK'
  BY Zenon DEF TypeOK, FlagsOK
<1>2. TypeOK'
  BY <1>1 DEF TypeOK, MapsOK, GhostsOK, Kept
<1> QED
  BY <1>2 DEF IInv, Kept

LEMMA GiveUpStep ==
  ASSUME IInv, NEW t \in Threads, GiveUp(t)
  PROVE  IInv'
<1> DEFINE T == [thread EXCEPT ![t] = Idle]
<1>1. TypeOK
  BY DEF IInv
<1>2. thread \in [Threads -> ThreadStates] /\ serverWg \in Int
  BY <1>1 DEF TypeOK
<1>3. /\ thread[t].pc = "sending" /\ serverWg' = WgAfterGivingUp(thread[t].call)
      /\ thread' = IF thread[t].call = "pub" THEN AfterServerDone(T) ELSE T
      /\ UNCHANGED <<server, subscriptions, topicsKnown, running, quit, sub, panicked, nextEvent,
                     due, handled, awaited>>
  BY DEF GiveUp, Ghosts
<1>4. Kept /\ ServerCounts' /\ serverWg' \in Int
  <2>1. CASE thread[t].call # "pub"
    <3>1. serverWg' = serverWg /\ ~Publishes(thread[t]) /\ thread' = T
      BY <1>3, <2>1 DEF Publishes, WgAfterGivingUp
    <3>2. Kept /\ ServerCounts'
      BY ZenonT(60), <1>3, <3>1, Frames, GetsIdle
    <3> QED
      BY <1>2, <3>1, <3>2
  <2>2. CASE thread[t].call = "pub"
    <3>1. serverWg' = serverWg - 1 /\ Publishes(thread[t]) /\ thread' = AfterServerDone(T)
      BY <1>3, <2>2 DEF Publishes, WgAfterGivingUp
    <3>2. T \in [Threads -> ThreadStates] /\ \A r \in Threads : T[r] = thread[r] \/ T[r] = Idle
      BY <1>2 DEF ThreadStates
    <3>3. t \in Publishing /\ Publishing \subseteq Threads
      BY <3>1 DEF Publishing
    <3>4. {r \in Threads : Publishes(T[r])} = Publishing \ {t}
      BY <1>2 DEF Publishing, Publishes, Idle
    <3>5. /\ IsFiniteSet(Publishing) /\ Cardinality(Publishing) \in Nat
          /\ Cardinality(Publishing \ {t}) = Cardinality(Publishing) - 1
          /\ Cardinality(Publishing \ {t}) \in Nat
      <4>1. Publishing \ {t} \subseteq Threads
        BY <3>3
      <4> QED
        BY <3>3, <4>1, CountsFinite, FS_RemoveElement
    <3>6. serverWg = Cardinality(Publishing) + (IF Pushes(server) THEN 1 ELSE 0)
      BY DEF IInv, ServerCounts
    <3>7. serverWg = 1 => ~Pushes(server)
      BY <3>5, <3>6
    <3>8. serverWg = 1 => \A s \in Subscribers : s \notin server.todo
      BY <3>7 DEF IInv, TypeOK, ServerOK
    <3> HIDE DEF T
    <3>9. Kept /\ Publishing' = Publishing \ {t}
      <4>1. Kept /\ Publishing' = {r \in Threads : Publishes(T[r])}
        BY ZenonT(60), <1>3, <3>1, <3>2, <3>8, Frames, ServerDone
      <4> QED
        BY <3>4, <4>1
    <3>10. serverWg' = Cardinality(Publishing') + (IF Pushes(server) THEN 1 ELSE 0)
      BY <3>1, <3>5, <3>6, <3>9
    <3> QED
      BY <1>2, <1>3, <3>1, <3>9, <3>10 DEF ServerCounts
  <2> QED
    BY <2>1, <2>2
<1> QED
  BY ZenonT(60), <1>1, <1>3, <1>4, StillTyped

-----------------------------------------------------------------------------
(* The server.                                                             *)

\* The events due to s and those handled only get more, and no fewer are
\* pushed.
Progress(s) ==
    /\ Len(due[s]) <= Len(due'[s]) /\ \A i \in 1..Len(due[s]) : due'[s][i] = due[s][i]
    /\ Len(handled[s]) <= Len(handled'[s])
    /\ \A i \in 1..Len(handled[s]) : handled'[s][i] = handled[s][i]
    /\ Pushed(s) <= Pushed(s)'

LEMMA PushedBounds ==
  ASSUME IInv, NEW s \in Subscribers
  PROVE  /\ due[s] \in Seq(Nat) /\ handled[s] \in Seq(Nat) /\ sub[s].out \in Seq(Events)
         /\ Holds(s) \in Nat /\ ToPush(s) \in Nat
         /\ Pushed(s) \in Nat /\ Pushed(s) + ToPush(s) = Len(due[s])
<1>1. Len(due[s]) = Len(handled[s]) + Holds(s) + Len(sub[s].out) + ToPush(s)
  BY DEF IInv, InTransit, Transit
<1>2. due[s] \in Seq(Nat) /\ handled[s] \in Seq(Nat) /\ sub[s].out \in Seq(Events)
  BY DEF IInv, TypeOK, GhostsOK, SubsOK, SubOK, SubStates
<1>3. Holds(s) \in Nat /\ ToPush(s) \in Nat
  BY Zenon DEF Holds, ToPush
<1> QED
  BY <1>1, <1>2, <1>3 DEF Pushed

LEMMA WaitsKept ==
  ASSUME IInv, NEW r \in Threads, thread[r].pc \in WaitPcs, Stayed(r),
         NEW s \in Subscribers, s = thread[r].subscriber, Progress(s), Pushed(s)' \in Nat,
         due'[s] \in Seq(Nat), handled'[s] \in Seq(Nat)
  PROVE  AwaitsFrom(r, s)'
<1>1. /\ due[s] \in Seq(Nat) /\ handled[s] \in Seq(Nat) /\ Pushed(s) \in Nat
      /\ Pushed(s) <= Len(due[s])
  BY PushedBounds
<1>2. Awaits(thread[r].pc, awaited[r], due[s], handled[s], Pushed(s))
  BY Zenon DEF IInv, WaitInv, AwaitsFrom
<1>3. \A i \in 1..Len(due[s]) : i \in 1..Len(due'[s]) /\ due'[s][i] = due[s][i]
  BY <1>1 DEF Progress
<1>4. \A i \in 1..Pushed(s) : i \in 1..Pushed(s)' /\ i \in 1..Len(due[s])
  BY <1>1 DEF Progress
<1>5. \A i \in 1..Len(handled[s]) : i \in 1..Len(handled'[s]) /\ handled'[s][i] = handled[s][i]
  BY <1>1 DEF Progress
<1>6. AmongFirst(awaited[r], Len(due'[s]), due'[s])
  BY <1>2, <1>3 DEF Awaits, AmongFirst
<1>7. ASSUME thread[r].pc # "parkedServer" PROVE AmongFirst(awaited[r], Pushed(s)', due'[s])
  <2>1. AmongFirst(awaited[r], Pushed(s), due[s])
    BY Zenon, <1>2, <1>7 DEF Awaits
  <2>2. ASSUME NEW e \in awaited[r] PROVE \E i \in 1..Pushed(s)' : due'[s][i] = e
    <3>1. PICK i \in 1..Pushed(s) : due[s][i] = e
      BY <2>1 DEF AmongFirst
    <3> QED
      BY Zenon, <1>3, <1>4, <3>1
  <2> QED
    BY Zenon, <2>2 DEF AmongFirst
<1>8. ASSUME thread[r].pc = "wokenSub" PROVE AmongFirst(awaited[r], Len(handled'[s]), handled'[s])
  <2>1. AmongFirst(awaited[r], Len(handled[s]), handled[s])
    BY Zenon, <1>2, <1>8 DEF Awaits
  <2> QED
    BY Zenon, <1>5, <2>1 DEF AmongFirst
<1>9. thread'[r] = thread[r] /\ awaited'[r] = awaited[r]
  BY DEF Stayed
<1> QED
  BY Zenon, <1>6, <1>7, <1>8, <1>9 DEF AwaitsFrom, Awaits

LEMMA Rebuilt ==
  ASSUME Kept, ServerCounts', ServerOK(server'), MapsOK', GhostsOK', FlagsOK', serverWg' \in Int,
         nextEvent' \in Nat
  PROVE  IInv'
BY DEF Kept, IInv, TypeOK

LEMMA PushDoneStep ==
  ASSUME IInv, PushDone
  PROVE  IInv'
<1>1. TypeOK
  BY DEF IInv
<1>2. /\ server.pc = "push" /\ server.todo = {} /\ serverWg' = serverWg - 1
      /\ thread' = AfterServerDone(thread) /\ server' = AtLoop
      /\ UNCHANGED <<subscriptions, topicsKnown, running, quit, sub, panicked, nextEvent,
                     due, handled, awaited>>
  BY DEF PushDone, Ghosts
<1>3. ServerOK(server') /\ Pushes(server) /\ ~Pushes(server') /\ ServerStill
  BY <1>2 DEF ServerOK, ServerStates, AtLoop, Pushes, ServerStill
<1>4. HandlersGrow
  BY <1>1, <1>2 DEF TypeOK, SubsOK, HandlersGrow
<1>5. Kept /\ Publishing' = Publishing
  <2>1. /\ thread \in [Threads -> ThreadStates]
        /\ \A r \in Threads : thread[r] = thread[r] \/ thread[r] = Idle
        /\ serverWg = 1 => \A s \in Subscribers : s \notin server.todo
    BY Zenon, <1>1, <1>2 DEF TypeOK
  <2>2. Kept /\ Publishing' = {r \in Threads : Publishes(thread[r])}
    BY ZenonT(60), <1>2, <1>3, <1>4, <2>1, SubscribedFrame, ServerDone
  <2> QED
    BY Zenon, <2>2 DEF Publishing
<1>6. Cardinality(Publishing) \in Nat
  BY Zenon, CountsFinite DEF Publishing
<1>7. serverWg = Cardinality(Publishing) + 1
  BY <1>3 DEF IInv, ServerCounts
<1>8. ServerCounts' /\ serverWg' \in Int
  BY <1>2, <1>3, <1>5, <1>6, <1>7 DEF ServerCounts
<1>9. FlagsOK'
  BY Zenon, <1>1, <1>2 DEF TypeOK, FlagsOK
<1>10. MapsOK' /\ GhostsOK' /\ nextEvent' \in Nat
  BY Zenon, <1>1, <1>2 DEF TypeOK, MapsOK, GhostsOK
<1> QED
  BY <1>3, <1>5, <1>8, <1>9, <1>10, Rebuilt

\* The server takes a command.
LEMMA ReceiveStop ==
  ASSUME IInv, NEW t \in Threads, Receive(t), thread[t].call = "stop"
  PROVE  IInv'
<1> DEFINE th == [thread[t] EXCEPT !.pc = "stopped"]
<1>1. TypeOK
  BY DEF IInv
<1>2. thread \in [Threads -> ThreadStates]
  BY <1>1 DEF TypeOK
<1>3. /\ thread[t].pc = "sending" /\ server.pc = "loop"
      /\ subscriptions' = [p \in Topics |-> {}] /\ server' = [server EXCEPT !.pc = "gone"]
      /\ UNCHANGED <<topicsKnown, running, quit, serverWg, sub, panicked, nextEvent, handled, awaited>>
  BY DEF Receive, Targets
<1>4. thread' = [thread EXCEPT ![t] = th]
  BY <1>2 DEF Receive, PcAfterSending
<1>5. due' = due
  BY <1>1 DEF Receive, TypeOK, GhostsOK
<1>6. th \in ThreadStates /\ th.pc = "stopped" /\ ~Publishes(th) /\ ~Publishes(thread[t])
  BY <1>2, <1>3 DEF ThreadStates, Idle, Calling, Waiting, WaitPcs, Publishes
<1>7. ServerOK(server') /\ server'.pc = "gone" /\ server'.todo = {} /\ server.todo = {}
  BY <1>1, <1>3 DEF TypeOK, ServerOK, ServerStates, Pushes
<1>8. ServerStill /\ Subscribed'
  BY <1>3, <1>7 DEF ServerStill, Subscribed
<1>9. HandlersGrow
  BY <1>1, <1>3 DEF TypeOK, SubsOK, HandlersGrow
<1> HIDE DEF th
<1>10. Kept
  <2>1. /\ th.pc \notin WaitPcs
        /\ th.pc = "sending" /\ th.call = "sub" => th.topic \in sub'[th.subscriber].handlers
    BY <1>6 DEF WaitPcs
  <2> QED
    BY ZenonT(60), <1>3, <1>4, <1>5, <1>6, <1>8, <1>9, <2>1, OneMoves
<1>11. Publishing' = Publishing
  BY <1>2, <1>4, <1>6 DEF Publishing, Publishes
<1>12. ServerCounts' /\ serverWg' \in Int /\ nextEvent' \in Nat
  BY <1>1, <1>3, <1>7, <1>11 DEF IInv, ServerCounts, Pushes, TypeOK
<1>13. FlagsOK'
  BY Zenon, <1>1, <1>3 DEF TypeOK, FlagsOK
<1>14. MapsOK' /\ GhostsOK'
  BY <1>1, <1>3, <1>5 DEF TypeOK, MapsOK, GhostsOK
<1> QED
  BY <1>7, <1>10, <1>12, <1>13, <1>14, Rebuilt

LEMMA ReceiveSub ==
  ASSUME IInv, NEW t \in Threads, Receive(t), thread[t].call = "sub"
  PROVE  IInv'
<1> DEFINE th == [thread[t] EXCEPT !.pc = "marking"]
           s == thread[t].subscriber
           topic == thread[t].topic
<1>1. TypeOK
  BY DEF IInv
<1>2. thread \in [Threads -> ThreadStates]
  BY <1>1 DEF TypeOK
<1>3. /\ thread[t].pc = "sending" /\ server' = server
      /\ subscriptions' = [subscriptions EXCEPT ![topic] = @ \cup {s}]
      /\ UNCHANGED <<topicsKnown, running, quit, serverWg, sub, panicked, nextEvent, handled, awaited>>
  BY DEF Receive, Targets
<1>4. thread' = [thread EXCEPT ![t] = th]
  BY <1>2 DEF Receive, PcAfterSending
<1>5. due' = due
  BY <1>1 DEF Receive, TypeOK, GhostsOK
<1>6. th \in ThreadStates /\ th.pc = "marking" /\ ~Publishes(th) /\ ~Publishes(thread[t])
  BY <1>2, <1>3 DEF ThreadStates, Idle, Calling, Waiting, WaitPcs, Publishes
<1>7. s \in Subscribers /\ topic \in Topics
  BY <1>2, <1>3 DEF ThreadStates, Idle, Calling, Waiting, WaitPcs
<1>8. HandlersGrow /\ ServerStill
  BY Zenon, <1>1, <1>3 DEF TypeOK, SubsOK, HandlersGrow, ServerStill
<1> HIDE DEF th, s, topic
<1>9. Subscribed' /\ MapsOK'
  <2>1. MapsOK /\ Subscribed
    BY Zenon, <1>1 DEF TypeOK, IInv, HandlersInv
  <2>2. subscriptions'[topic] = subscriptions[topic] \cup {s}
    BY <1>3, <1>7, <2>1 DEF MapsOK
  <2>3. \A p \in Topics : p # topic => subscriptions'[p] = subscriptions[p]
    BY <1>3, <2>1 DEF MapsOK
  <2>4. topic \in sub[s].handlers
    BY Zenon, <1>3 DEF IInv, HandlersInv, s, topic
  <2>5. Subscribed'
    BY <1>3, <2>1, <2>2, <2>3, <2>4 DEF Subscribed
  <2> QED
    BY Zenon, <1>3, <1>7, <2>1, <2>2, <2>5 DEF MapsOK
<1>10. Kept
  <2>1. /\ th.pc \notin WaitPcs
        /\ th.pc = "sending" /\ th.call = "sub" => th.topic \in sub'[th.subscriber].handlers
    BY <1>6 DEF WaitPcs
  <2> QED
    BY ZenonT(60), <1>3, <1>4, <1>5, <1>6, <1>8, <1>9, <2>1, OneMoves
<1>11. ServerCounts'
  BY ZenonT(60), <1>3, <1>4, <1>6, CountSame
<1>12. FlagsOK'
  BY Zenon, <1>1, <1>3 DEF TypeOK, FlagsOK
<1>13. ServerOK(server') /\ GhostsOK' /\ serverWg' \in Int /\ nextEvent' \in Nat
  BY <1>1, <1>3, <1>5 DEF TypeOK, GhostsOK
<1> QED
  BY <1>9, <1>10, <1>11, <1>12, <1>13, Rebuilt

LEMMA ReceiveUnsub ==
  ASSUME IInv, NEW t \in Threads, Receive(t), thread[t].call = "unsub"
  PROVE  IInv'
<1> DEFINE th == [thread[t] EXCEPT !.pc = "unmarking"]
           s == thread[t].subscriber
           topic == thread[t].topic
<1>1. TypeOK
  BY DEF IInv
<1>2. thread \in [Threads -> ThreadStates]
  BY <1>1 DEF TypeOK
<1>3. /\ thread[t].pc = "sending" /\ server' = server
      /\ subscriptions' = [subscriptions EXCEPT ![topic] = @ \ {s}]
      /\ UNCHANGED <<topicsKnown, running, quit, serverWg, sub, panicked, nextEvent, handled, awaited>>
  BY DEF Receive, Targets
<1>4. thread' = [thread EXCEPT ![t] = th]
  BY <1>2 DEF Receive, PcAfterSending
<1>5. due' = due
  BY <1>1 DEF Receive, TypeOK, GhostsOK
<1>6. th \in ThreadStates /\ th.pc = "unmarking" /\ ~Publishes(th) /\ ~Publishes(thread[t])
  BY <1>2, <1>3 DEF ThreadStates, Idle, Calling, Waiting, WaitPcs, Publishes
<1>7. s \in Subscribers /\ topic \in Topics
  BY <1>2, <1>3 DEF ThreadStates, Idle, Calling, Waiting, WaitPcs
<1>8. HandlersGrow /\ ServerStill
  BY <1>1, <1>3 DEF TypeOK, SubsOK, HandlersGrow, ServerStill
<1> HIDE DEF th, s, topic
<1>9. Subscribed' /\ MapsOK'
  <2>1. MapsOK /\ Subscribed
    BY Zenon, <1>1 DEF TypeOK, IInv, HandlersInv
  <2>2. subscriptions'[topic] = subscriptions[topic] \ {s}
    BY Zenon, <1>3, <1>7, <2>1 DEF MapsOK
  <2>3. \A p \in Topics : p # topic => subscriptions'[p] = subscriptions[p]
    BY <1>3, <2>1 DEF MapsOK
  <2>4. Subscribed'
    BY <1>3, <2>1, <2>2, <2>3 DEF Subscribed
  <2> QED
    BY Zenon, <1>3, <1>7, <2>1, <2>2, <2>4 DEF MapsOK
<1>10. Kept
  <2>1. /\ th.pc \notin WaitPcs
        /\ th.pc = "sending" /\ th.call = "sub" => th.topic \in sub'[th.subscriber].handlers
    BY <1>6 DEF WaitPcs
  <2> QED
    BY ZenonT(60), <1>3, <1>4, <1>5, <1>6, <1>8, <1>9, <2>1, OneMoves
<1>11. ServerCounts'
  BY ZenonT(60), <1>3, <1>4, <1>6, CountSame
<1>12. FlagsOK'
  BY Zenon, <1>1, <1>3 DEF TypeOK, FlagsOK
<1>13. ServerOK(server') /\ GhostsOK' /\ serverWg' \in Int /\ nextEvent' \in Nat
  BY <1>1, <1>3, <1>5 DEF TypeOK, GhostsOK
<1> QED
  BY <1>9, <1>10, <1>11, <1>12, <1>13, Rebuilt

LEMMA ReceivePub ==
  ASSUME IInv, NEW t \in Threads, Receive(t), thread[t].call = "pub"
  PROVE  IInv'
<1> DEFINE topic == thread[t].topic
           e == thread[t].event
           todo == subscriptions[topic]
<1>1. TypeOK /\ HandlersInv
  BY Zenon DEF IInv
<1>2. thread \in [Threads -> ThreadStates]
  BY <1>1 DEF TypeOK
<1>3. /\ thread[t].pc = "sending" /\ server.pc = "loop"
      /\ server' = [pc |-> "push", event |-> <<e, topic>>, to |-> "none", todo |-> todo]
      /\ thread' = [thread EXCEPT ![t] = Idle]
      /\ due' = [s \in Subscribers |-> IF s \in todo THEN Append(due[s], e) ELSE due[s]]
      /\ UNCHANGED <<subscriptions, topicsKnown, running, quit, serverWg, sub, panicked, nextEvent,
                     handled, awaited>>
  BY DEF Receive, Targets, Pushing
<1>4. topic \in Topics /\ e \in Nat
  BY <1>2, <1>3 DEF ThreadStates, Idle, Calling, Waiting, WaitPcs
<1>5. todo \subseteq Subscribers
  BY <1>1, <1>4 DEF TypeOK, MapsOK
<1>6. server.todo = {} /\ ~Pushes(server)
  BY Zenon, <1>1, <1>3 DEF TypeOK, ServerOK, Pushes
<1> HIDE DEF topic, e, todo
<1>7. /\ ServerOK(server') /\ Pushes(server') /\ server'.todo = todo
      /\ server'.event[1] = e /\ server'.event[2] = topic /\ server'.pc = "push"
  BY Zenon, <1>3, <1>4, <1>5 DEF ServerOK, ServerStates, Pushes, Events
<1>8. thread' \in [Threads -> ThreadStates] /\ \A r \in Threads : r # t => Stayed(r)
  BY <1>2, <1>3 DEF ThreadStates, Stayed
<1>9. thread'[t] = Idle
  BY <1>2, <1>3
<1>10. HandlersInv'
  <2>1. Subscribed'
    BY Zenon, <1>1, <1>3 DEF HandlersInv, Subscribed
  <2>2. ASSUME NEW r \in Threads, thread'[r].pc = "sending", thread'[r].call = "sub"
        PROVE  thread'[r].topic \in sub'[thread'[r].subscriber].handlers
    <3>1. thread'[r] = thread[r]
      BY <1>8, <1>9, <2>2 DEF Stayed, Idle
    <3> QED
      BY Zenon, <1>1, <1>3, <2>2, <3>1 DEF HandlersInv
  <2>3. \A s \in server'.todo : server'.event[2] \in sub'[s].handlers
    BY Zenon, <1>1, <1>3, <1>4, <1>7 DEF HandlersInv, Subscribed, todo
  <2> QED
    BY Zenon, <2>1, <2>2, <2>3 DEF HandlersInv
<1>11. ServerCounts'
  <2>1. t \in Publishing /\ Publishing \subseteq Threads
    BY Zenon, <1>3 DEF Publishing, Publishes
  <2>2. Publishing' = Publishing \ {t}
    BY Zenon, <1>2, <1>3 DEF Publishing, Publishes, Idle
  <2>3. /\ Cardinality(Publishing) \in Nat
        /\ Cardinality(Publishing \ {t}) = Cardinality(Publishing) - 1
    BY <2>1, CountsFinite, FS_RemoveElement
  <2>4. serverWg = Cardinality(Publishing) + 0
    BY Zenon, <1>6 DEF IInv, ServerCounts
  <2>5. serverWg' = Cardinality(Publishing') + 1
    BY <1>3, <2>2, <2>3, <2>4
  <2> QED
    BY <1>7, <2>5 DEF ServerCounts
<1>12. ASSUME NEW s \in Subscribers
       PROVE  InTransit(s)' /\ SubCounts(s)' /\ Progress(s) /\ due'[s] \in Seq(Nat) /\ Pushed(s)' = Pushed(s)
  <2>1. Holds(s)' = Holds(s) /\ Pushed(s)' = Pushed(s)
    BY Zenon, <1>3 DEF Holds, Pushed
  <2>2. /\ due[s] \in Seq(Nat) /\ handled[s] \in Seq(Nat) /\ sub[s].out \in Seq(Events)
        /\ Holds(s) \in Nat /\ Pushed(s) \in Nat
    BY PushedBounds
  <2>3. Transit(due[s], handled[s], Holds(s), sub[s].current, sub[s].out, 0, server.event)
    BY Zenon, <1>6 DEF IInv, InTransit, ToPush
  <2>4. SubCounts(s)'
    BY Zenon, <1>3, <1>7, <2>1 DEF IInv, SubCounts
  <2>5. CASE s \in todo
    <3>1. ToPush(s)' = 1 /\ due'[s] = Append(due[s], e)
      BY Zenon, <1>3, <1>7, <2>5 DEF ToPush
    <3>2. Transit(Append(due[s], e), handled[s], Holds(s), sub[s].current, sub[s].out, 1, server'.event)
      BY Zenon, <1>4, <1>7, <2>2, <2>3, TransitPush
    <3>3. InTransit(s)'
      BY Zenon, <1>3, <2>1, <3>1, <3>2 DEF InTransit
    <3>4. /\ due'[s] \in Seq(Nat) /\ Len(due[s]) <= Len(due'[s])
          /\ \A i \in 1..Len(due[s]) : due'[s][i] = due[s][i]
      BY <1>4, <2>2, <3>1
    <3>5. Progress(s)
      BY <1>3, <2>1, <2>2, <3>4 DEF Progress
    <3> QED
      BY Zenon, <2>1, <2>4, <3>3, <3>4, <3>5
  <2>6. CASE s \notin todo
    <3>1. ToPush(s)' = 0 /\ due'[s] = due[s]
      BY Zenon, <1>3, <1>7, <2>6 DEF ToPush
    <3>2. Transit(due[s], handled[s], Holds(s), sub[s].current, sub[s].out, 0, server'.event)
      BY <2>3 DEF Transit
    <3>3. InTransit(s)'
      BY Zenon, <1>3, <2>1, <3>1, <3>2 DEF InTransit
    <3>4. handled'[s] = handled[s] /\ due'[s] \in Seq(Nat)
      BY Zenon, <1>3, <2>2, <3>1
    <3>5. Progress(s)
      BY <2>1, <2>2, <3>1, <3>4 DEF Progress
    <3> QED
      BY Zenon, <2>1, <2>4, <3>3, <3>4, <3>5
  <2> QED
    BY Zenon, <2>5, <2>6
<1>13. WaitInv'
  <2> SUFFICES ASSUME NEW r \in Threads, thread'[r].pc \in WaitPcs
               PROVE  AwaitsFrom(r, thread[r].subscriber)'
    BY DEF WaitInv
  <2>1. Stayed(r) /\ thread'[r] = thread[r] /\ thread[r] \in ThreadStates
    BY <1>2, <1>8, <1>9 DEF Stayed, Idle, WaitPcs
  <2>2. PICK s \in Subscribers : s = thread[r].subscriber
    BY <2>1, ThreadSubscriber
  <2>3. Pushed(s)' \in Nat /\ handled'[s] \in Seq(Nat)
    BY Zenon, <1>3, <1>12, PushedBounds
  <2>4. AwaitsFrom(r, s)'
    BY Zenon, <1>12, <2>1, <2>2, <2>3, WaitsKept
  <2> QED
    BY Zenon, <2>1, <2>2, <2>4
<1>14. Kept
  BY Zenon, <1>1, <1>3, <1>8, <1>10, <1>12, <1>13 DEF Kept, TypeOK, SubsOK
<1>15. FlagsOK'
  BY Zenon, <1>1, <1>3 DEF TypeOK, FlagsOK
<1>16. MapsOK' /\ GhostsOK' /\ serverWg' \in Int /\ nextEvent' \in Nat
  BY Zenon, <1>1, <1>3, <1>12 DEF TypeOK, MapsOK, GhostsOK
<1> QED
  BY Zenon, <1>7, <1>11, <1>14, <1>15, <1>16, Rebuilt

LEMMA ReceiveStep ==
  ASSUME IInv, NEW t \in Threads, Receive(t)
  PROVE  IInv'
<1>1. thread[t].call \in {"pub", "sub", "unsub", "stop"}
  BY DEF Receive, IInv, TypeOK, ThreadStates, Idle, Calling, Waiting, WaitPcs
<1> QED
  BY Zenon, <1>1, ReceivePub, ReceiveSub, ReceiveUnsub, ReceiveStop

\* A step of one subscriber, or of the server with one subscriber, that
\* moves an event on.
SameFor(r) ==
    /\ sub'[r] = sub[r] /\ handled'[r] = handled[r]
    /\ r \in server'.todo <=> r \in server.todo
    /\ server'.pc = "send" /\ server'.to = r <=> server.pc = "send" /\ server.to = r

LEMMA SubMoves ==
  ASSUME IInv, NEW s \in Subscribers, SubsOK', GhostsOK', sub'[s].handlers = sub[s].handlers,
         \A r \in Subscribers \ {s} : SameFor(r),
         server'.event = server.event, server'.todo \subseteq server.todo,
         thread' \in [Threads -> ThreadStates], \A r \in Threads : Stayed(r) \/ Moved(r),
         UNCHANGED <<subscriptions, due>>, InTransit(s)', SubCounts(s)', Progress(s), Pushed(s)' \in Nat
  PROVE  Kept
<1>1. TypeOK /\ HandlersInv
  BY Zenon DEF IInv
<1>2. \A r \in Subscribers : sub'[r].handlers = sub[r].handlers
  BY Zenon DEF SameFor
<1>3. ASSUME NEW r \in Subscribers, r # s
      PROVE  InTransit(r)' /\ SubCounts(r)' /\ Progress(r) /\ Pushed(r)' \in Nat
  <2>1. SameFor(r)
    BY Zenon, <1>3
  <2>2. Holds(r)' = Holds(r) /\ ToPush(r)' = ToPush(r) /\ Pushed(r)' = Pushed(r)
    BY Zenon, <2>1 DEF SameFor, Holds, ToPush, Pushed
  <2>3. InTransit(r) /\ SubCounts(r)
    BY Zenon DEF IInv
  <2>4. InTransit(r)'
    BY Zenon, <2>1, <2>2, <2>3 DEF InTransit, SameFor
  <2>5. SubCounts(r)'
    BY Zenon, <2>1, <2>2, <2>3 DEF SubCounts, SameFor
  <2>6. Pushed(r) \in Nat /\ due[r] \in Seq(Nat) /\ handled[r] \in Seq(Nat)
    BY Zenon, PushedBounds
  <2>7. Progress(r)
    BY <2>1, <2>2, <2>6 DEF Progress, SameFor
  <2> QED
    BY Zenon, <2>2, <2>4, <2>5, <2>6, <2>7
<1>4. HandlersInv'
  <2>1. subscriptions \in [Topics -> SUBSET Subscribers] /\ server.todo \subseteq Subscribers
    BY Zenon, <1>1 DEF TypeOK, MapsOK, ServerOK, ServerStates
  <2>2. Subscribed'
    BY Zenon, <1>1, <1>2, <2>1 DEF HandlersInv, Subscribed
  <2>3. ASSUME NEW r \in Threads, thread'[r].pc = "sending", thread'[r].call = "sub"
        PROVE  thread'[r].topic \in sub'[thread'[r].subscriber].handlers
    <3>1. CASE Moved(r)
      BY Zenon, <2>3, <3>1 DEF Moved
    <3>2. CASE Stayed(r)
      <4>1. thread'[r] = thread[r] /\ thread'[r] \in ThreadStates
        BY Zenon, <3>2 DEF Stayed
      <4>2. thread[r].subscriber \in Subscribers
        BY Zenon, <2>3, <4>1, ThreadSubscriber
      <4> QED
        BY Zenon, <1>1, <1>2, <2>3, <4>1, <4>2 DEF HandlersInv
    <3> QED
      BY Zenon, <3>1, <3>2
  <2>4. \A r \in server'.todo : server'.event[2] \in sub'[r].handlers
    BY Zenon, <1>1, <1>2, <2>1 DEF HandlersInv
  <2> QED
    BY Zenon, <2>2, <2>3, <2>4 DEF HandlersInv
<1>5. WaitInv'
  <2> SUFFICES ASSUME NEW r \in Threads, thread'[r].pc \in WaitPcs
               PROVE  AwaitsFrom(r, thread[r].subscriber)'
    BY Zenon DEF WaitInv
  <2>1. CASE Moved(r)
    BY Zenon, <2>1 DEF Moved
  <2>2. CASE Stayed(r)
    <3>1. thread'[r] = thread[r] /\ thread'[r] \in ThreadStates
      BY Zenon, <2>2 DEF Stayed
    <3>2. PICK x \in Subscribers : x = thread[r].subscriber
      BY Zenon, <3>1, ThreadSubscriber
    <3>3. Progress(x) /\ Pushed(x)' \in Nat
      BY Zenon, <1>3
    <3>4. due'[x] \in Seq(Nat) /\ handled'[x] \in Seq(Nat)
      BY Zenon DEF GhostsOK
    <3>5. AwaitsFrom(r, x)'
      BY Zenon, <2>2, <3>1, <3>2, <3>3, <3>4, WaitsKept
    <3> QED
      BY Zenon, <3>1, <3>2, <3>5
  <2> QED
    BY Zenon, <2>1, <2>2
<1>6. \A r \in Subscribers : InTransit(r)' /\ SubCounts(r)'
  BY Zenon, <1>3
<1> QED
  BY Zenon, <1>4, <1>5, <1>6 DEF Kept

\* The server's record before and after a send.
SendsTo(sv, n, s) == n = [sv EXCEPT !.pc = "send", !.to = s]

HasSent(sv, n, s) == n = [sv EXCEPT !.pc = "push", !.to = "none", !.todo = @ \ {s}]

WillSend(sv, n, s) ==
  n \in ServerStates /\ n.pc = "send" /\ n.to = s /\ n.event = sv.event /\ n.todo = sv.todo

LEMMA ToSend ==
  ASSUME NEW sv \in ServerStates, NEW s \in Subscribers, NEW n, SendsTo(sv, n, s)
  PROVE  WillSend(sv, n, s)
<1>1. n \in ServerStates
  BY Zenon DEF ServerStates, SendsTo
<1>2. n.pc = "send" /\ n.to = s /\ n.event = sv.event /\ n.todo = sv.todo
  BY DEF ServerStates, SendsTo
<1> QED
  BY <1>1, <1>2 DEF WillSend

LEMMA Sent ==
  ASSUME NEW sv \in ServerStates, NEW s \in Subscribers, NEW n, HasSent(sv, n, s)
  PROVE  n \in ServerStates /\ n.pc = "push" /\ n.event = sv.event /\ n.todo = sv.todo \ {s}
<1>1. n \in ServerStates
  BY Zenon DEF ServerStates, HasSent
<1>2. n.pc = "push" /\ n.event = sv.event /\ n.todo = sv.todo \ {s}
  BY DEF ServerStates, HasSent
<1> QED
  BY <1>1, <1>2

LEMMA PushAddStep ==
  ASSUME IInv, NEW s \in Subscribers, PushAdd(s)
  PROVE  IInv'
<1>1. TypeOK
  BY DEF IInv
<1>2. SubsOK /\ SubOK(sub[s]) /\ ServerOK(server)
  BY <1>1 DEF TypeOK, SubsOK
<1>3. /\ server.pc = "push" /\ s \in server.todo
      /\ sub' = [sub EXCEPT ![s].wg = @ + 1]
      /\ server' = [server EXCEPT !.pc = "send", !.to = s]
      /\ UNCHANGED <<subscriptions, topicsKnown, running, quit, serverWg, thread, panicked, nextEvent,
                     due, handled, awaited>>
  BY DEF PushAdd, WgAdded, Ghosts
<1>4. /\ ServerOK(server') /\ server'.pc = "send" /\ server'.to = s /\ Pushes(server') /\ Pushes(server)
      /\ server'.event = server.event /\ server'.todo = server.todo
  <2>1. server \in ServerStates /\ server.event \in Events
    BY <1>2, <1>3 DEF ServerOK, Pushes
  <2>2. SendsTo(server, server', s)
    BY <1>3 DEF SendsTo
  <2>3. /\ server' \in ServerStates /\ server'.pc = "send" /\ server'.to = s
        /\ server'.event = server.event /\ server'.todo = server.todo
    <3>1. WillSend(server, server', s)
      BY Zenon, <2>1, <2>2, ToSend
    <3> QED
      BY <3>1 DEF WillSend
  <2> QED
    BY <1>3, <2>1, <2>3 DEF ServerOK, Pushes
<1>5. sub'[s] = [sub[s] EXCEPT !.wg = @ + 1] /\ \A r \in Subscribers \ {s} : sub'[r] = sub[r]
  BY <1>2, <1>3 DEF SubsOK
<1>6. /\ sub'[s].handlers = sub[s].handlers /\ sub'[s].out = sub[s].out /\ sub'[s].wg = sub[s].wg + 1
      /\ sub'[s].at = sub[s].at /\ sub'[s].current = sub[s].current /\ sub'[s] \in SubStates
  BY <1>2, <1>5 DEF SubOK, SubStates
<1>7. SubsOK'
  <2>1. SubOK(sub'[s])
    BY Zenon, <1>2, <1>6 DEF SubOK
  <2>2. sub' = [r \in Subscribers |-> sub'[r]]
    BY ONLY <1>2, <1>3, Zenon DEF SubsOK
  <2> QED
    BY Zenon, <1>2, <1>5, <2>1, <2>2 DEF SubsOK
<1>8. Holds(s)' = Holds(s) /\ ToPush(s)' = ToPush(s) /\ Pushed(s)' = Pushed(s)
  BY <1>3, <1>4, <1>6 DEF Holds, ToPush, Pushed
<1>9. InTransit(s)'
  BY <1>3, <1>4, <1>6, <1>8 DEF IInv, InTransit
<1>10. /\ sub[s].out \in Seq(Events) /\ Holds(s) \in Nat /\ Pushed(s) \in Nat
       /\ due[s] \in Seq(Nat) /\ handled[s] \in Seq(Nat)
  BY Zenon, PushedBounds
<1>11. SubCounts(s)'
  <2>1. sub[s].wg = Len(sub[s].out) + Holds(s) + 0
    BY <1>3 DEF IInv, SubCounts
  <2>2. sub'[s].wg = Len(sub'[s].out) + Holds(s)' + 1
    BY <1>6, <1>8, <1>10, <2>1
  <2> QED
    BY Zenon, <1>4, <2>2 DEF SubCounts
<1>12. Progress(s) /\ Pushed(s)' \in Nat
  <2>1. due'[s] = due[s] /\ handled'[s] = handled[s]
    BY <1>3
  <2> QED
    BY <1>8, <1>10, <2>1 DEF Progress
<1>13. \A r \in Subscribers \ {s} : SameFor(r)
  BY <1>3, <1>4, <1>5 DEF SameFor
<1>14. GhostsOK' /\ MapsOK' /\ serverWg' \in Int /\ nextEvent' \in Nat
  BY <1>1, <1>3 DEF TypeOK, GhostsOK, MapsOK
<1>15. thread' \in [Threads -> ThreadStates] /\ \A r \in Threads : Stayed(r)
  BY <1>1, <1>3 DEF TypeOK, Stayed
<1>16. Kept
  BY <1>3, <1>4, <1>6, <1>7, <1>9, <1>11, <1>12, <1>13, <1>14, <1>15, SubMoves
<1>17. ServerCounts'
  BY <1>3, <1>4 DEF IInv, ServerCounts, Publishing
<1>18. FlagsOK'
  BY Zenon, <1>1, <1>3 DEF TypeOK, FlagsOK
<1> QED
  BY <1>4, <1>14, <1>16, <1>17, <1>18, Rebuilt

Queues(u, n, o) ==
  /\ n.handlers = u.handlers /\ n.out = o /\ n.wg = u.wg /\ n.at = u.at /\ n.current = u.current
  /\ n \in SubStates

LEMMA Queued ==
  ASSUME NEW u \in SubStates, NEW o \in Seq(Events), NEW n, n = [u EXCEPT !.out = o]
  PROVE  Queues(u, n, o)
<1>1. n \in SubStates
  BY Zenon DEF SubStates
<1>2. n.handlers = u.handlers /\ n.out = o /\ n.wg = u.wg /\ n.at = u.at /\ n.current = u.current
  BY DEF SubStates
<1> QED
  BY Zenon, <1>1, <1>2 DEF Queues

LEMMA PushSendStep ==
  ASSUME IInv, PushSend
  PROVE  IInv'
<1>1. TypeOK /\ HandlersInv
  BY DEF IInv
<1>2. PICK s \in Subscribers : s = server.to /\ s \in server.todo
  BY <1>1 DEF PushSend, TypeOK, ServerOK, ServerStates
<1>3. SubsOK /\ SubOK(sub[s]) /\ ServerOK(server)
  BY <1>1 DEF TypeOK, SubsOK
<1>4. /\ server.pc = "send"
      /\ sub' = [sub EXCEPT ![s].out = Append(@, server.event)]
      /\ server' = [server EXCEPT !.pc = "push", !.to = "none", !.todo = @ \ {s}]
      /\ UNCHANGED <<subscriptions, topicsKnown, running, quit, serverWg, thread, panicked, nextEvent,
                     due, handled, awaited>>
  BY <1>2 DEF PushSend, Remaining, Ghosts
<1>5. /\ ServerOK(server') /\ server'.pc = "push" /\ Pushes(server') /\ Pushes(server)
      /\ server'.event = server.event /\ server'.todo = server.todo \ {s}
  <2>1. server \in ServerStates /\ server.event \in Events
    BY <1>3, <1>4 DEF ServerOK, Pushes
  <2>2. HasSent(server, server', s)
    BY <1>4 DEF HasSent
  <2>3. /\ server' \in ServerStates /\ server'.pc = "push"
        /\ server'.event = server.event /\ server'.todo = server.todo \ {s}
    BY Zenon, <2>1, <2>2, Sent
  <2> QED
    BY <1>4, <2>1, <2>3 DEF ServerOK, Pushes
<1>6. server.event \in Events /\ server.event[2] \in sub[s].handlers
  BY Zenon, <1>1, <1>2, <1>3, <1>5 DEF ServerOK, HandlersInv
<1>7. sub'[s] = [sub[s] EXCEPT !.out = Append(@, server.event)] /\ \A r \in Subscribers \ {s} : sub'[r] = sub[r]
  BY <1>3, <1>4 DEF SubsOK
<1>8. /\ sub'[s].handlers = sub[s].handlers /\ sub'[s].out = Append(sub[s].out, server.event)
      /\ sub'[s].wg = sub[s].wg /\ sub'[s].at = sub[s].at /\ sub'[s].current = sub[s].current
      /\ sub'[s] \in SubStates
  <2>1. sub[s] \in SubStates /\ sub[s].out \in Seq(Events)
    BY <1>3 DEF SubOK, SubStates
  <2>2. Append(sub[s].out, server.event) \in Seq(Events)
    BY ONLY <1>6, <2>1
  <2>3. sub'[s] = [sub[s] EXCEPT !.out = Append(sub[s].out, server.event)]
    BY ONLY <1>7
  <2>4. Queues(sub[s], sub'[s], Append(sub[s].out, server.event))
    BY ONLY <2>1, <2>2, <2>3, Queued, Zenon
  <2> QED
    BY Zenon, <2>4 DEF Queues
<1>9. /\ sub[s].out \in Seq(Events) /\ Holds(s) \in Nat /\ Pushed(s) \in Nat
      /\ due[s] \in Seq(Nat) /\ handled[s] \in Seq(Nat)
  BY PushedBounds
<1>10. Len(sub'[s].out) = Len(sub[s].out) + 1
  BY <1>6, <1>8, <1>9
<1>11. SubsOK'
  <2>1. \A i \in 1..Len(sub[s].out) : sub[s].out[i][2] \in sub[s].handlers
    BY Zenon, <1>3 DEF SubOK
  <2>2. \A i \in 1..Len(sub'[s].out) : sub'[s].out[i][2] \in sub'[s].handlers
    BY Zenon, <1>6, <1>8, <1>9, <2>1, AppendHandled
  <2>3. SubOK(sub'[s])
    BY Zenon, <1>3, <1>8, <2>2 DEF SubOK
  <2>4. sub' = [r \in Subscribers |-> sub'[r]]
    BY ONLY <1>3, <1>4, Zenon DEF SubsOK
  <2> QED
    BY Zenon, <1>3, <1>7, <2>3, <2>4 DEF SubsOK
<1>12. Holds(s)' = Holds(s) /\ ToPush(s)' = 0 /\ ToPush(s) = 1
  BY Zenon, <1>2, <1>5, <1>8 DEF Holds, ToPush
<1>13. Pushed(s)' = Pushed(s) + 1
  BY <1>4, <1>9, <1>10, <1>12 DEF Pushed
<1>14. InTransit(s)'
  <2>1. Transit(due[s], handled[s], Holds(s), sub[s].current, sub[s].out, 1, server.event)
    BY Zenon, <1>12 DEF IInv, InTransit
  <2>2. Transit(due[s], handled[s], Holds(s), sub[s].current, sub'[s].out, 0, server.event)
    BY Zenon, <1>6, <1>8, <1>9, <2>1, TransitSend
  <2> QED
    BY <1>4, <1>5, <1>8, <1>12, <2>2 DEF InTransit
<1>15. SubCounts(s)'
  <2>1. sub[s].wg = Len(sub[s].out) + Holds(s) + 1
    BY <1>2, <1>4 DEF IInv, SubCounts
  <2>2. sub'[s].wg = Len(sub'[s].out) + Holds(s)' + 0
    BY <1>8, <1>9, <1>10, <1>12, <2>1
  <2> QED
    BY <1>5, <2>2 DEF SubCounts
<1>16. Progress(s) /\ Pushed(s)' \in Nat
  <2>1. due'[s] = due[s] /\ handled'[s] = handled[s]
    BY <1>4
  <2> QED
    BY <1>9, <1>13, <2>1 DEF Progress
<1>17. \A r \in Subscribers \ {s} : SameFor(r)
  BY <1>2, <1>4, <1>5, <1>7 DEF SameFor
<1>18. GhostsOK' /\ MapsOK' /\ serverWg' \in Int /\ nextEvent' \in Nat
  BY <1>1, <1>4 DEF TypeOK, GhostsOK, MapsOK
<1>19. thread' \in [Threads -> ThreadStates] /\ \A r \in Threads : Stayed(r)
  BY <1>1, <1>4 DEF TypeOK, Stayed
<1>20. Kept
  BY <1>4, <1>5, <1>8, <1>11, <1>14, <1>15, <1>16, <1>17, <1>18, <1>19, SubMoves
<1>21. ServerCounts'
  BY <1>4, <1>5 DEF IInv, ServerCounts, Publishing
<1>22. FlagsOK'
  BY Zenon, <1>1, <1>4 DEF TypeOK, FlagsOK
<1> QED
  BY Zenon, <1>5, <1>18, <1>20, <1>21, <1>22, Rebuilt

\* What the goroutine of a subscriber leaves alone.
ServerApart ==
    UNCHANGED <<server, subscriptions, topicsKnown, running, quit, serverWg, panicked, nextEvent, due, awaited>>

\* A step of the goroutine of s keeps the invariant if it keeps what the
\* invariant says of s and of the threads it wakes.
LEMMA GoroutineMoves ==
  ASSUME IInv, NEW s \in Subscribers, ServerApart, SubOK(sub'[s]),
         sub' = [r \in Subscribers |-> IF r = s THEN sub'[s] ELSE sub[r]],
         handled' = [r \in Subscribers |-> IF r = s THEN handled'[s] ELSE handled[r]],
         handled'[s] \in Seq(Nat), sub'[s].handlers = sub[s].handlers,
         InTransit(s)', SubCounts(s)', Progress(s), Pushed(s)' \in Nat,
         thread' \in [Threads -> ThreadStates],
         \A r \in Threads : Stayed(r) \/ Moved(r), Publishing' = Publishing
  PROVE  IInv'
<1>1. TypeOK
  BY DEF IInv
<1>2. SubsOK'
  BY <1>1 DEF TypeOK, SubsOK
<1>3. \A r \in Subscribers \ {s} : SameFor(r)
  BY DEF SameFor, ServerApart
<1>4. GhostsOK' /\ MapsOK' /\ serverWg' \in Int /\ nextEvent' \in Nat
  <2>1. MapsOK' /\ serverWg' \in Int /\ nextEvent' \in Nat /\ GhostsOK
    BY ONLY <1>1, ServerApart DEF TypeOK, MapsOK, ServerApart
  <2>2. handled' \in [Subscribers -> Seq(Nat)]
    BY ONLY <2>1, handled'[s] \in Seq(Nat), Zenon,
            handled' = [r \in Subscribers |-> IF r = s THEN handled'[s] ELSE handled[r]] DEF GhostsOK
  <2>3. GhostsOK'
    BY ONLY <2>1, <2>2, ServerApart DEF GhostsOK, ServerApart
  <2> QED
    BY <2>1, <2>3
<1>5. ServerOK(server') /\ FlagsOK'
  BY Zenon, <1>1 DEF TypeOK, FlagsOK, ServerApart
<1>6. /\ server'.event = server.event /\ server'.todo \subseteq server.todo
      /\ UNCHANGED <<subscriptions, due>>
  BY Zenon DEF ServerApart
<1>7. Kept
  BY Zenon, <1>2, <1>3, <1>4, <1>6, SubMoves
<1>8. ServerCounts'
  BY Zenon DEF IInv, ServerCounts, ServerApart
<1> QED
  BY <1>4, <1>5, <1>7, <1>8, Rebuilt

\* The subscriber's record when it takes an event and when it has handled it.
LEMMA Takes ==
  ASSUME NEW u \in SubStates, u.out # <<>>,
         NEW n, n = [u EXCEPT !.at = "handle", !.current = Head(u.out), !.out = Tail(@)]
  PROVE  /\ n \in SubStates /\ n.at = "handle" /\ n.current = Head(u.out) /\ n.out = Tail(u.out)
         /\ n.wg = u.wg /\ n.handlers = u.handlers
<1>1. Head(u.out) \in Events /\ Tail(u.out) \in Seq(Events)
  BY DEF SubStates
<1>2. n \in SubStates
  BY Zenon, <1>1 DEF SubStates
<1>3. /\ n.at = "handle" /\ n.current = Head(u.out) /\ n.out = Tail(u.out)
      /\ n.wg = u.wg /\ n.handlers = u.handlers
  BY DEF SubStates
<1> QED
  BY Zenon, <1>2, <1>3

LEMMA HasHandled ==
  ASSUME NEW u \in SubStates, NEW n, n = [u EXCEPT !.at = "select", !.current = <<>>, !.wg = @ - 1]
  PROVE  /\ n \in SubStates /\ n.at = "select" /\ n.out = u.out
         /\ n.wg = u.wg - 1 /\ n.handlers = u.handlers
<1>1. u.wg - 1 \in Int
  BY DEF SubStates
<1>2. PICK k \in Int : k = u.wg - 1
  BY Zenon, <1>1
<1>3. [u EXCEPT !.at = "select", !.current = <<>>, !.wg = k] \in SubStates
  BY Zenon DEF SubStates
<1>4. n \in SubStates
  BY Zenon, <1>2, <1>3
<1>5. n.at = "select" /\ n.out = u.out /\ n.wg = u.wg - 1 /\ n.handlers = u.handlers
  BY DEF SubStates
<1> QED
  BY Zenon, <1>4, <1>5

LEMMA TailHandled ==
  ASSUME NEW q \in Seq(Events), q # <<>>, NEW H, \A i \in 1..Len(q) : q[i][2] \in H
  PROVE  /\ Head(q) \in Events /\ Head(q)[2] \in H
         /\ \A i \in 1..Len(Tail(q)) : Tail(q)[i][2] \in H
         /\ Len(Tail(q)) = Len(q) - 1 /\ Len(q) \in Nat
<1>1. Head(q) = q[1] /\ 1 \in 1..Len(q) /\ Len(Tail(q)) = Len(q) - 1 /\ Len(q) \in Nat
  OBVIOUS
<1>2. ASSUME NEW i \in 1..Len(Tail(q)) PROVE Tail(q)[i] = q[i + 1] /\ i + 1 \in 1..Len(q)
  BY <1>1
<1>3. Head(q) \in Events
  BY <1>1
<1> QED
  BY <1>1, <1>2, <1>3

LEMMA TakeStep ==
  ASSUME IInv, NEW s \in Subscribers, Take(s)
  PROVE  IInv'
<1>1. TypeOK
  BY DEF IInv
<1>2. SubsOK /\ SubOK(sub[s]) /\ sub[s] \in SubStates
  BY Zenon, <1>1 DEF TypeOK, SubsOK, SubOK
<1>3. sub[s].at = "select" /\ sub[s].out # <<>> /\ ServerApart /\ UNCHANGED <<thread, handled>>
  BY DEF Take, ServerApart, Ghosts
<1>4. sub'[s] = [sub[s] EXCEPT !.at = "handle", !.current = Head(sub[s].out), !.out = Tail(@)]
  BY <1>2 DEF Take, SubsOK
<1>5. sub' = [r \in Subscribers |-> IF r = s THEN sub'[s] ELSE sub[r]]
  BY <1>2 DEF Take, SubsOK
<1>6. /\ sub'[s] \in SubStates /\ sub'[s].at = "handle" /\ sub'[s].current = Head(sub[s].out)
      /\ sub'[s].out = Tail(sub[s].out) /\ sub'[s].wg = sub[s].wg /\ sub'[s].handlers = sub[s].handlers
  BY ZenonT(60), <1>2, <1>3, <1>4, Takes
<1>7. /\ sub[s].out \in Seq(Events) /\ ToPush(s) \in Nat /\ Pushed(s) \in Nat
      /\ due[s] \in Seq(Nat) /\ handled[s] \in Seq(Nat)
  BY PushedBounds
<1>8. \A i \in 1..Len(sub[s].out) : sub[s].out[i][2] \in sub[s].handlers
  BY Zenon, <1>2 DEF SubOK
<1>9. /\ sub'[s].current \in Events /\ sub'[s].current[2] \in sub'[s].handlers
      /\ \A i \in 1..Len(sub'[s].out) : sub'[s].out[i][2] \in sub'[s].handlers
      /\ Len(sub'[s].out) = Len(sub[s].out) - 1 /\ Len(sub[s].out) \in Nat
  BY Zenon, <1>3, <1>6, <1>7, <1>8, TailHandled
<1>10. SubOK(sub'[s])
  BY Zenon, <1>6, <1>9 DEF SubOK
<1>11. Holds(s) = 0 /\ Holds(s)' = 1 /\ ToPush(s)' = ToPush(s) /\ handled'[s] = handled[s]
  BY Zenon, <1>3, <1>6 DEF Holds, ToPush, ServerApart
<1>12. Pushed(s)' = Pushed(s)
  <2>1. Pushed(s)' = Len(handled[s]) + 1 + (Len(sub[s].out) - 1) /\ Pushed(s) = Len(handled[s]) + 0 + Len(sub[s].out)
    BY Zenon, <1>9, <1>11 DEF Pushed
  <2>2. Len(handled[s]) \in Nat /\ Len(sub[s].out) \in Nat
    BY <1>7
  <2>3. \A h, n \in Nat : h + 1 + (n - 1) = h + 0 + n
    OBVIOUS
  <2> QED
    BY Zenon, <2>1, <2>2, <2>3
<1>13. InTransit(s)'
  <2>1. Transit(due[s], handled[s], 0, sub[s].current, sub[s].out, ToPush(s), server.event)
    BY Zenon, <1>11 DEF IInv, InTransit
  <2>2. Transit(due[s], handled[s], 1, sub'[s].current, sub'[s].out, ToPush(s), server.event)
    BY Zenon, <1>3, <1>6, <1>7, <2>1, TransitTake
  <2> QED
    BY Zenon, <1>3, <1>11, <2>2 DEF InTransit, ServerApart
<1>14. SubCounts(s)'
  <2> DEFINE sends == IF server.pc = "send" /\ server.to = s THEN 1 ELSE 0
  <2>1. sub[s].wg = Len(sub[s].out) + Holds(s) + sends /\ sends \in Nat
    BY Zenon DEF IInv, SubCounts
  <2>2. sub[s].wg = Len(sub[s].out) + 0 + sends
    BY Zenon, <1>11, <2>1
  <2>3. \A n, m \in Nat : n + 0 + m = (n - 1) + 1 + m
    OBVIOUS
  <2>4. sub[s].wg = (Len(sub[s].out) - 1) + 1 + sends
    BY Zenon, <1>9, <2>1, <2>2, <2>3
  <2>5. sub'[s].wg = Len(sub'[s].out) + Holds(s)' + sends
    BY Zenon, <1>6, <1>9, <1>11, <2>4
  <2> QED
    BY Zenon, <1>3, <2>5 DEF SubCounts, ServerApart
<1>15. Progress(s) /\ Pushed(s)' \in Nat
  <2>1. due'[s] = due[s]
    BY Zenon, <1>3 DEF ServerApart
  <2> QED
    BY <1>7, <1>11, <1>12, <2>1 DEF Progress
<1>16. /\ thread' \in [Threads -> ThreadStates] /\ \A r \in Threads : Stayed(r)
       /\ Publishing' = Publishing
  BY Zenon, <1>1, <1>3 DEF TypeOK, Stayed, Publishing, ServerApart
<1>17. handled' = [r \in Subscribers |-> IF r = s THEN handled'[s] ELSE handled[r]]
  BY Zenon, <1>1, <1>3 DEF TypeOK, GhostsOK
<1> QED
  BY <1>3, <1>5, <1>6, <1>7, <1>10, <1>11, <1>13, <1>14, <1>15, <1>16, <1>17, ZenonT(60), GoroutineMoves

LEMMA LeaveStep ==
  ASSUME IInv, NEW s \in Subscribers, Leave(s)
  PROVE  IInv'
<1>1. TypeOK
  BY DEF IInv
<1>2. SubsOK /\ SubOK(sub[s]) /\ sub[s] \in SubStates
  BY <1>1 DEF TypeOK, SubsOK, SubOK
<1>3. sub[s].at = "select" /\ ServerApart /\ UNCHANGED <<thread, handled>>
  BY DEF Leave, ServerApart, Ghosts
<1>4. sub'[s] = [sub[s] EXCEPT !.at = "gone"] /\ sub' = [r \in Subscribers |-> IF r = s THEN sub'[s] ELSE sub[r]]
  BY <1>2 DEF Leave, SubsOK
<1>5. /\ sub'[s] \in SubStates /\ sub'[s].at = "gone" /\ sub'[s].current = sub[s].current
      /\ sub'[s].out = sub[s].out /\ sub'[s].wg = sub[s].wg /\ sub'[s].handlers = sub[s].handlers
  BY <1>2, <1>4 DEF SubStates
<1>6. SubOK(sub'[s])
  BY Zenon, <1>2, <1>5 DEF SubOK
<1>7. /\ Pushed(s) \in Nat /\ due[s] \in Seq(Nat) /\ handled[s] \in Seq(Nat)
  BY PushedBounds
<1>8. /\ Holds(s)' = Holds(s) /\ ToPush(s)' = ToPush(s) /\ handled'[s] = handled[s]
      /\ Pushed(s)' = Pushed(s)
  BY Zenon, <1>3, <1>5 DEF Holds, ToPush, Pushed, ServerApart
<1>9. InTransit(s)' /\ SubCounts(s)'
  BY Zenon, <1>3, <1>5, <1>8 DEF IInv, InTransit, SubCounts, ServerApart
<1>10. Progress(s) /\ Pushed(s)' \in Nat
  <2>1. due'[s] = due[s]
    BY Zenon, <1>3 DEF ServerApart
  <2> QED
    BY <1>7, <1>8, <2>1 DEF Progress
<1>11. /\ thread' \in [Threads -> ThreadStates] /\ \A r \in Threads : Stayed(r)
       /\ Publishing' = Publishing
  BY Zenon, <1>1, <1>3 DEF TypeOK, Stayed, Publishing, ServerApart
<1>12. handled' = [r \in Subscribers |-> IF r = s THEN handled'[s] ELSE handled[r]]
  BY Zenon, <1>1, <1>3 DEF TypeOK, GhostsOK
<1> QED
  BY <1>3, <1>4, <1>5, <1>6, <1>7, <1>8, <1>9, <1>10, <1>11, <1>12, ZenonT(60), GoroutineMoves

Longer(g, h) == g \in Seq(Nat) /\ Len(g) = Len(h) + 1 /\ \A i \in 1..Len(h) : g[i] = h[i]

LEMMA OneMore ==
  ASSUME NEW h \in Seq(Nat), NEW e \in Nat, NEW g, g = h \o <<e>>
  PROVE  Longer(g, h)
BY DEF Longer

LEMMA Replaced ==
  ASSUME NEW F \in [Subscribers -> Seq(Nat)], NEW s \in Subscribers, NEW v, NEW G, G = [F EXCEPT ![s] = v]
  PROVE  G[s] = v /\ G = [r \in Subscribers |-> IF r = s THEN G[s] ELSE F[r]]
BY Zenon

LEMMA AwaitedHandled ==
  ASSUME NEW d, NEW h \in Seq(Nat), \A i \in 1..Len(h) : d[i] = h[i], NEW a, AmongFirst(a, Len(h), d)
  PROVE  AmongFirst(a, Len(h), h)
BY DEF AmongFirst

\* Handling the last event counted wakes the threads parked on s, and all
\* that they await is handled then.
LEMMA HandleWakes ==
  ASSUME IInv, NEW s \in Subscribers, thread' = AfterSubDone(s), InTransit(s)', UNCHANGED <<due, awaited>>,
         Pushed(s)' = Pushed(s), handled'[s] \in Seq(Nat), sub[s].wg = 1 => Pushed(s) = Len(handled'[s])
  PROVE  /\ thread' \in [Threads -> ThreadStates] /\ \A r \in Threads : Stayed(r) \/ Moved(r)
         /\ Publishing' = Publishing
<1>1. thread \in [Threads -> ThreadStates]
  BY Zenon DEF IInv, TypeOK
<1>2. thread' = [r \in Threads |->
                  IF sub[s].wg = 1 /\ thread[r].pc = "parkedSub" /\ thread[r].subscriber = s
                  THEN [thread[r] EXCEPT !.pc = "wokenSub"] ELSE thread[r]]
  BY DEF AfterSubDone
<1>3. ASSUME NEW r \in Threads
      PROVE  thread'[r] \in ThreadStates /\ (Stayed(r) \/ Moved(r)) /\ (Publishes(thread'[r]) <=> Publishes(thread[r]))
  <2>1. thread[r] \in ThreadStates
    BY <1>1
  <2>2. CASE sub[s].wg = 1 /\ thread[r].pc = "parkedSub" /\ thread[r].subscriber = s
    <3>1. thread'[r] = [thread[r] EXCEPT !.pc = "wokenSub"]
      BY <1>2, <2>2
    <3>2. thread[r] \in Waiting
      BY Zenon, <2>1, <2>2, ThreadWaiting DEF WaitPcs
    <3>3. thread'[r] \in Waiting /\ thread'[r].pc = "wokenSub" /\ thread'[r].subscriber = s
      BY <2>2, <3>1, <3>2 DEF Waiting, WaitPcs
    <3>4. Awaits("parkedSub", awaited[r], due[s], handled[s], Pushed(s))
      BY Zenon, <2>2 DEF IInv, WaitInv, AwaitsFrom, WaitPcs
    <3>5. AmongFirst(awaited[r], Len(due[s]), due[s]) /\ AmongFirst(awaited[r], Pushed(s), due[s])
      BY Zenon, <3>4 DEF Awaits
    <3>6. \A i \in 1..Len(handled'[s]) : due[s][i] = handled'[s][i]
      BY Zenon DEF InTransit, Transit
    <3>7. AmongFirst(awaited[r], Len(handled'[s]), handled'[s])
      <4>1. AmongFirst(awaited[r], Len(handled'[s]), due[s])
        BY Zenon, <2>2, <3>5
      <4> QED
        BY ZenonT(60), <3>6, <4>1, AwaitedHandled
    <3>8. AwaitsFrom(r, s)'
      BY Zenon, <3>3, <3>5, <3>7 DEF AwaitsFrom, Awaits
    <3>9. Moved(r)
      BY Zenon, <3>3, <3>8 DEF Moved
    <3> QED
      BY Zenon, <2>2, <3>3, <3>9 DEF ThreadStates, Publishes
  <2>3. CASE ~(sub[s].wg = 1 /\ thread[r].pc = "parkedSub" /\ thread[r].subscriber = s)
    <3>1. thread'[r] = thread[r]
      BY <1>2, <2>3
    <3> QED
      BY Zenon, <2>1, <3>1 DEF Stayed
  <2> QED
    BY Zenon, <2>2, <2>3
<1>4. thread' \in [Threads -> ThreadStates]
  BY Zenon, <1>2, <1>3
<1>5. Publishing' = Publishing
  BY Zenon, <1>3 DEF Publishing
<1> QED
  BY Zenon, <1>3, <1>4, <1>5

LEMMA HandleStep ==
  ASSUME IInv, NEW s \in Subscribers, Handle(s)
  PROVE  IInv'
<1> DEFINE e == sub[s].current[1]
<1>1. TypeOK
  BY DEF IInv
<1>2. SubsOK /\ SubOK(sub[s]) /\ sub[s] \in SubStates
  BY <1>1 DEF TypeOK, SubsOK, SubOK
<1>3. /\ sub[s].at = "handle" /\ ServerApart /\ thread' = AfterSubDone(s) /\ UNCHANGED <<due, awaited>>
  BY DEF Handle, ServerApart
<1>4. sub[s].current \in Events /\ sub[s].current[2] \in sub[s].handlers /\ e \in Nat
  BY Zenon, <1>2, <1>3 DEF SubOK, Events
<1>5. sub'[s] = [sub[s] EXCEPT !.at = "select", !.current = <<>>, !.wg = @ - 1]
  BY <1>2 DEF Handle, SubsOK
<1>6. sub' = [r \in Subscribers |-> IF r = s THEN sub'[s] ELSE sub[r]]
  BY <1>2 DEF Handle, SubsOK
<1>7. /\ sub'[s] \in SubStates /\ sub'[s].at = "select" /\ sub'[s].out = sub[s].out
      /\ sub'[s].wg = sub[s].wg - 1 /\ sub'[s].handlers = sub[s].handlers
  BY ZenonT(60), <1>2, <1>5, HasHandled
<1>8. SubOK(sub'[s])
  BY Zenon, <1>2, <1>7 DEF SubOK
<1>9. /\ sub[s].out \in Seq(Events) /\ ToPush(s) \in Nat /\ Pushed(s) \in Nat
      /\ due[s] \in Seq(Nat) /\ handled[s] \in Seq(Nat)
  BY PushedBounds
<1>10. handled \in [Subscribers -> Seq(Nat)] /\ HandlerCalls(s) = <<e>>
  BY Zenon, <1>1, <1>4 DEF TypeOK, GhostsOK, HandlerCalls
<1>11. handled' = [handled EXCEPT ![s] = @ \o <<e>>]
  BY Zenon, <1>10 DEF Handle
<1>12. /\ handled'[s] = handled[s] \o <<e>>
       /\ handled' = [r \in Subscribers |-> IF r = s THEN handled'[s] ELSE handled[r]]
  BY ZenonT(60), <1>10, <1>11, Replaced
<1>13. /\ handled'[s] \in Seq(Nat) /\ Len(handled'[s]) = Len(handled[s]) + 1
       /\ \A i \in 1..Len(handled[s]) : handled'[s][i] = handled[s][i]
  <2>1. e \in Nat /\ handled[s] \in Seq(Nat) /\ handled'[s] = handled[s] \o <<e>>
    BY Zenon, <1>4, <1>9, <1>12
  <2>2. Longer(handled'[s], handled[s])
    BY ONLY <2>1, OneMore, Zenon
  <2> QED
    BY Zenon, <2>2 DEF Longer
<1>14. Holds(s) = 1 /\ Holds(s)' = 0 /\ ToPush(s)' = ToPush(s)
  BY Zenon, <1>3, <1>7 DEF Holds, ToPush, ServerApart
<1>15. Len(handled[s]) \in Nat /\ Len(sub[s].out) \in Nat
  BY <1>9
<1>16. Pushed(s)' = Pushed(s)
  <2>1. Pushed(s)' = (Len(handled[s]) + 1) + 0 + Len(sub[s].out) /\ Pushed(s) = Len(handled[s]) + 1 + Len(sub[s].out)
    BY Zenon, <1>7, <1>13, <1>14 DEF Pushed
  <2>2. \A h, n \in Nat : (h + 1) + 0 + n = h + 1 + n
    OBVIOUS
  <2> QED
    BY Zenon, <1>15, <2>1, <2>2
<1>17. InTransit(s)'
  <2>1. Transit(due[s], handled[s], 1, sub[s].current, sub[s].out, ToPush(s), server.event)
    BY Zenon, <1>14 DEF IInv, InTransit
  <2>2. Transit(due[s], handled'[s], 0, sub'[s].current, sub'[s].out, ToPush(s), server.event)
    <3>1. handled'[s] = handled[s] \o <<sub[s].current[1]>> /\ sub'[s].out = sub[s].out
      BY Zenon, <1>7, <1>12
    <3> QED
      BY ONLY <1>4, <1>9, <2>1, <3>1, TransitHandle, Zenon
  <2> QED
    BY Zenon, <1>3, <1>14, <2>2 DEF InTransit, ServerApart
<1> DEFINE sends == IF server.pc = "send" /\ server.to = s THEN 1 ELSE 0
<1> HIDE DEF sends
<1>18. sub[s].wg = Len(sub[s].out) + 1 + sends /\ sends \in Nat
  <2>1. SubCounts(s)
    BY DEF IInv
  <2>2. sends \in Nat
    BY DEF sends
  <2> QED
    BY Zenon, <1>14, <2>1, <2>2 DEF SubCounts, sends
<1>19. SubCounts(s)'
  <2>1. \A n, m \in Nat : n + 1 + m - 1 = n + 0 + m
    OBVIOUS
  <2>2. sub'[s].wg = Len(sub[s].out) + 1 + sends - 1
    BY SMTT(20), <1>7, <1>18
  <2>3. Len(sub[s].out) + 1 + sends - 1 = Len(sub[s].out) + 0 + sends
    BY Zenon, <1>15, <1>18, <2>1
  <2>4. sub'[s].wg = Len(sub[s].out) + 0 + sends
    BY Zenon, <2>2, <2>3
  <2>5. sub'[s].wg = Len(sub'[s].out) + Holds(s)' + sends
    BY Zenon, <1>7, <1>14, <2>4
  <2> QED
    BY Zenon, <1>3, <2>5 DEF SubCounts, ServerApart, sends
<1>20. sub[s].wg = 1 => Pushed(s) = Len(handled'[s])
  <2>1. \A h, n, m \in Nat : n + 1 + m = 1 => h + 1 + n = h + 1
    OBVIOUS
  <2>2. Pushed(s) = Len(handled[s]) + 1 + Len(sub[s].out)
    BY Zenon, <1>14 DEF Pushed
  <2>3. sub[s].wg = 1 => Len(handled[s]) + 1 + Len(sub[s].out) = Len(handled[s]) + 1
    BY ONLY <1>15, <1>18, <2>1, Zenon
  <2> QED
    BY Zenon, <1>13, <2>2, <2>3
<1>21. /\ thread' \in [Threads -> ThreadStates] /\ \A r \in Threads : Stayed(r) \/ Moved(r)
       /\ Publishing' = Publishing
  BY ZenonT(60), <1>3, <1>13, <1>16, <1>17, <1>20, HandleWakes
<1>22. Progress(s) /\ Pushed(s)' \in Nat
  <2>1. due'[s] = due[s] /\ Len(due[s]) <= Len(due'[s]) /\ Len(handled[s]) <= Len(handled'[s])
    BY <1>3, <1>9, <1>13, <1>15
  <2> QED
    BY <1>9, <1>13, <1>16, <2>1 DEF Progress
<1> QED
  BY ZenonT(60), <1>3, <1>6, <1>7, <1>8, <1>12, <1>13, <1>17, <1>19, <1>21, <1>22, GoroutineMoves

-----------------------------------------------------------------------------
LEMMA CallSteps ==
  ASSUME IInv, NEW t \in Threads, Call(t)
  PROVE  IInv'
<1>1. CASE \E topic \in Topics : Publish(t, topic)
  BY <1>1, PublishStep
<1>2. CASE \E s \in Subscribers : \E topic \in TopicsOf[s] : Subscribe(t, s, topic) \/ Unsubscribe(t, s, topic)
  <2>1. PICK s \in Subscribers : \E topic \in TopicsOf[s] : Subscribe(t, s, topic) \/ Unsubscribe(t, s, topic)
    BY Zenon, <1>2
  <2>2. PICK topic \in TopicsOf[s] : Subscribe(t, s, topic) \/ Unsubscribe(t, s, topic)
    BY Zenon, <2>1
  <2>3. topic \in Topics
    BY PubsubAssumption
  <2> QED
    BY Zenon, <2>2, <2>3, SubscribeStep, UnsubscribeStep
<1>3. CASE Stop(t)
  BY <1>3, StopStep
<1>4. CASE \E s \in Subscribers : Wait(t, s)
  BY <1>4, WaitStep
<1> QED
  BY Zenon, <1>1, <1>2, <1>3, <1>4 DEF Call

LEMMA NextStep ==
  ASSUME IInv, [Next]_vars
  PROVE  IInv'
<1>1. CASE \E t \in Threads : Call(t) \/ Continue(t)
  <2>1. PICK t \in Threads : Call(t) \/ Continue(t)
    BY <1>1
  <2>2. CASE Call(t)
    BY <2>2, CallSteps
  <2>3. CASE Continue(t)
    BY Zenon, <2>3, ReceiveStep, GiveUpStep, MarkStep, UnmarkStep, CloseQuitStep, WakeServerStep, WaitSubStep,
       WakeSubStep DEF Continue
  <2> QED
    BY <2>1, <2>2, <2>3
<1>2. CASE Push
  BY <1>2, PushAddStep, PushSendStep, PushDoneStep DEF Push
<1>3. CASE \E s \in Subscribers : Goroutine(s)
  BY <1>3, TakeStep, HandleStep, LeaveStep DEF Goroutine
<1>4. CASE UNCHANGED vars
  <2>1. HandlersGrow /\ ServerStill /\ Subscribed' /\ UNCHANGED <<due, handled>>
    BY Zenon, <1>4, Frames DEF vars
  <2>2. thread' \in [Threads -> ThreadStates] /\ \A r \in Threads : Stayed(r)
    BY Zenon, <1>4 DEF vars, Stayed, IInv, TypeOK
  <2>3. Kept
    BY ZenonT(60), <2>1, <2>2, ThreadsMove
  <2>4. ServerCounts'
    BY Zenon, <1>4 DEF vars, IInv, ServerCounts, Publishing
  <2>5. MapsOK' /\ GhostsOK' /\ serverWg' \in Int /\ nextEvent' \in Nat
    BY Zenon, <1>4 DEF vars, IInv, TypeOK, MapsOK, GhostsOK
  <2>6. FlagsOK' /\ ServerOK(server')
    BY Zenon, <1>4 DEF vars, IInv, TypeOK, FlagsOK
  <2> QED
    BY Zenon, <2>3, <2>4, <2>5, <2>6, Rebuilt
<1> QED
  BY <1>1, <1>2, <1>3, <1>4 DEF Next

\* The invariant holds throughout.
THEOREM Invariance == Spec => []IInv
<1>1. Init => IInv
  BY InitOK
<1>2. IInv /\ [Next]_vars => IInv'
  BY NextStep
<1> QED
  BY <1>1, <1>2, PTL DEF Spec

-----------------------------------------------------------------------------
(* Wait returns from its second wait at once only if the subscriber's wait *)
(* group is at zero.                                                       *)
LEMMA Waits ==
  ASSUME IInv, Next, NEW t \in Threads, thread[t].pc = "counted", thread'[t].pc = "idle"
  PROVE  sub[thread[t].subscriber].wg = 0
<1> DEFINE s == thread[t].subscriber
<1>1. thread \in [Threads -> ThreadStates] /\ thread[t] # Idle /\ thread'[t] # thread[t]
  BY DEF IInv, TypeOK, Idle
<1>2. ASSUME NEW r \in Threads, Call(r) \/ Continue(r)
      PROVE  r = t /\ WaitSub(t)
  <2>1. CASE Call(r)
    <3>1. thread[r].pc = "idle" /\ \A q \in Threads \ {r} : thread'[q] = thread[q]
      BY Zenon, <1>1, <2>1 DEF Call, Publish, Subscribe, Unsubscribe, Stop, Wait, MayCall, Sending
    <3> QED
      BY Zenon, <1>1, <3>1
  <2>2. CASE GiveUp(r)
    <3>1. thread[r].pc = "sending" /\ r # t
      BY Zenon, <2>2 DEF GiveUp
    <3>2. [thread EXCEPT ![r] = Idle][t] = thread[t]
      BY <1>1, <3>1
    <3>3. thread'[t] = thread[t]
      BY <2>2, <3>2 DEF GiveUp, AfterServerDone, Woken
    <3> QED
      BY Zenon, <1>1, <3>3
  <2>3. CASE Receive(r) \/ Mark(r) \/ Unmark(r) \/ CloseQuit(r) \/ WakeServer(r) \/ WakeSub(r)
    <3>1. thread[r].pc # "counted" /\ \A q \in Threads \ {r} : thread'[q] = thread[q]
      BY Zenon, <1>1, <2>3 DEF Receive, Mark, Unmark, CloseQuit, WakeServer, WakeSub
    <3> QED
      BY Zenon, <1>1, <3>1
  <2>4. CASE WaitSub(r)
    <3>1. \A q \in Threads \ {r} : thread'[q] = thread[q]
      BY <1>1, <2>4 DEF WaitSub
    <3> QED
      BY Zenon, <1>1, <2>4, <3>1
  <2> QED
    BY Zenon, <1>2, <2>1, <2>2, <2>3, <2>4 DEF Continue
<1>3. ~Push
  <2>1. CASE PushDone
    <3>1. thread' = thread \/ thread' = Woken(thread, "parkedServer", "wokenServer")
      BY Zenon, <2>1 DEF PushDone, AfterServerDone
    <3> QED
      BY <1>1, <3>1 DEF Woken
  <2>2. CASE PushSend \/ \E r \in Subscribers : PushAdd(r)
    <3>1. thread' = thread
      BY Zenon, <2>2 DEF PushSend, PushAdd
    <3> QED
      BY <1>1, <3>1
  <2> QED
    BY <2>1, <2>2 DEF Push
<1>4. ASSUME NEW r \in Subscribers PROVE ~Goroutine(r)
  <2>1. CASE Handle(r)
    BY <1>1, <2>1 DEF Handle, AfterSubDone
  <2>2. CASE Take(r) \/ Leave(r)
    BY <1>1, <2>2 DEF Take, Leave
  <2> QED
    BY Zenon, <2>1, <2>2 DEF Goroutine
<1>5. WaitSub(t)
  BY <1>2, <1>3, <1>4 DEF Next
<1>6. sub[s].wg # 0 => thread'[t] = [thread[t] EXCEPT !.pc = "parkedSub"]
  BY <1>1, <1>5 DEF WaitSub
<1>7. thread[t] \in Waiting
  BY Zenon, <1>1 DEF ThreadStates, Calling, Idle
<1> QED
  BY <1>6, <1>7 DEF Waiting

\* Then all that the thread awaits is handled.
LEMMA SeesHandled ==
  ASSUME IInv, [Next]_vars, NEW t \in Threads, thread[t].pc \in {"counted", "wokenSub"}, thread'[t].pc = "idle"
  PROVE  awaited[t] \subseteq Range(handled[thread[t].subscriber])
<1>1. PICK s \in Subscribers : s = thread[t].subscriber
  <2>1. thread[t] \in ThreadStates /\ thread[t].pc \in WaitPcs
    BY DEF IInv, TypeOK, WaitPcs
  <2> QED
    BY <2>1, ThreadSubscriber
<1>2. Awaits(thread[t].pc, awaited[t], due[s], handled[s], Pushed(s))
  BY Zenon, <1>1 DEF IInv, WaitInv, AwaitsFrom, WaitPcs
<1>3. handled[s] \in Seq(Nat) /\ sub[s].out \in Seq(Events) /\ Holds(s) \in Nat
  BY Zenon, PushedBounds
<1>4. AmongFirst(awaited[t], Len(handled[s]), handled[s])
  <2>1. CASE thread[t].pc = "wokenSub"
    BY Zenon, <1>2, <2>1 DEF Awaits
  <2>2. CASE thread[t].pc = "counted"
    <3>1. Next
      BY Zenon, <2>2 DEF vars
    <3>2. sub[s].wg = 0
      BY Zenon, <1>1, <2>2, <3>1, Waits
    <3>3. \A a, b, c \in Nat : a + b + c = 0 => \A h \in Nat : h + b + a = h
      OBVIOUS
    <3> DEFINE sends == IF server.pc = "send" /\ server.to = s THEN 1 ELSE 0
    <3> HIDE DEF sends
    <3>4. Len(sub[s].out) + Holds(s) + sends = 0
      BY Zenon, <3>2 DEF IInv, SubCounts, sends
    <3>5. sends \in Nat /\ Len(sub[s].out) \in Nat /\ Len(handled[s]) \in Nat
      BY <1>3 DEF sends
    <3>6. Pushed(s) = Len(handled[s])
      BY Zenon, <1>3, <3>3, <3>4, <3>5 DEF Pushed
    <3>7. AmongFirst(awaited[t], Len(handled[s]), due[s])
      BY Zenon, <1>2, <2>2, <3>6 DEF Awaits
    <3>8. \A i \in 1..Len(handled[s]) : due[s][i] = handled[s][i]
      BY Zenon DEF IInv, InTransit, Transit
    <3> QED
      BY ZenonT(60), <1>3, <3>7, <3>8, AwaitedHandled
  <2> QED
    BY Zenon, <2>1, <2>2
<1> QED
  BY <1>1, <1>3, <1>4 DEF AmongFirst, Range

\* Wait returns only after the handlers have seen every event that was pushed
\* to the subscriber before the call (Wait in sub.go), whichever threads
\* publish, subscribe, wait and stop meanwhile.
THEOREM WaitSees == Spec => WaitSeesHandled
<1>1. IInv /\ [Next]_vars
        => [\A t \in Threads :
              (thread[t].pc \in {"counted", "wokenSub"} /\ thread'[t].pc = "idle")
                => awaited[t] \subseteq Range(handled[thread[t].subscriber])]_vars
  BY SeesHandled
<1> QED
  BY <1>1, Invariance, PTL DEF Spec, WaitSeesHandled

\* A subscriber handles the events pushed to it once each and in order, and
\* no wait group falls below zero, whichever threads make which calls.
Ordered ==
    /\ \A s \in Subscribers : Begins(handled[s], due[s]) /\ sub[s].wg >= 0
    /\ serverWg >= 0

LEMMA Prefix ==
  ASSUME NEW h \in Seq(Nat), NEW d \in Seq(Nat), Len(h) <= Len(d), \A i \in 1..Len(h) : d[i] = h[i]
  PROVE  Begins(h, d)
<1>1. Len(h) \in 0..Len(d)
  OBVIOUS
<1>2. SubSeq(d, 1, Len(h)) = [i \in 1..Len(h) |-> d[i]]
  OBVIOUS
<1>3. h = [i \in 1..Len(h) |-> h[i]]
  OBVIOUS
<1>4. h = SubSeq(d, 1, Len(h))
  BY Zenon, <1>2, <1>3
<1> QED
  BY Zenon, <1>1, <1>4 DEF Begins

LEMMA InOrder == ASSUME IInv PROVE Ordered
<1>1. ASSUME NEW s \in Subscribers PROVE Begins(handled[s], due[s]) /\ sub[s].wg >= 0
  <2>1. /\ due[s] \in Seq(Nat) /\ handled[s] \in Seq(Nat) /\ sub[s].out \in Seq(Events)
        /\ Holds(s) \in Nat /\ ToPush(s) \in Nat
        /\ Pushed(s) \in Nat /\ Pushed(s) + ToPush(s) = Len(due[s])
    BY Zenon, PushedBounds
  <2>2. Len(handled[s]) \in Nat /\ Len(sub[s].out) \in Nat
    BY <2>1
  <2>3. \A h, k, n, p, d \in Nat : (h + k + n) + p = d => h <= d
    OBVIOUS
  <2>4. Len(due[s]) \in Nat /\ (Len(handled[s]) + Holds(s) + Len(sub[s].out)) + ToPush(s) = Len(due[s])
    BY <2>1 DEF Pushed
  <2>5. Len(handled[s]) <= Len(due[s])
    BY Zenon, <2>1, <2>2, <2>3, <2>4
  <2>6. \A i \in 1..Len(handled[s]) : due[s][i] = handled[s][i]
    BY Zenon DEF IInv, InTransit, Transit
  <2>7. Begins(handled[s], due[s])
    BY ZenonT(60), <2>1, <2>5, <2>6, Prefix
  <2>8. \A n, k, m \in Nat : n + k + m >= 0
    OBVIOUS
  <2> DEFINE sends == IF server.pc = "send" /\ server.to = s THEN 1 ELSE 0
  <2> HIDE DEF sends
  <2>9. sends \in Nat
    BY DEF sends
  <2>10. sub[s].wg = Len(sub[s].out) + Holds(s) + sends
    BY Zenon DEF IInv, SubCounts, sends
  <2> QED
    BY Zenon, <2>1, <2>2, <2>7, <2>8, <2>9, <2>10
<1>2. serverWg >= 0
  <2>1. Cardinality(Publishing) \in Nat
    BY CountsFinite DEF Publishing
  <2> QED
    BY <2>1 DEF IInv, ServerCounts
<1> QED
  BY <1>1, <1>2 DEF Ordered

\* The order is kept for all callers.
THEOREM OrderKept == Spec => []Ordered
BY Invariance, InOrder, PTL

-----------------------------------------------------------------------------
(* Nothing panics either if a thread that waits is the only one that       *)
(* publishes, one thread subscribes and unsubscribes, and what is          *)
(* unsubscribed has one topic and is not subscribed again.                 *)
WaiterPublishes == \A t, r \in Threads : "wait" \in Calls[t] /\ "pub" \in Calls[r] => t = r

Subscribes(t) == "sub" \in Calls[t] \/ "unsub" \in Calls[t]

OneSubscribes == \A t, r \in Threads : Subscribes(t) /\ Subscribes(r) => t = r

OneTopic == \A s \in Subscribers \ Awaited : \A p, q \in TopicsOf[s] : p = q

NoneAgain == Again = {}

PastServer == {"counted", "wokenServer", "parkedSub", "wokenSub"}

Subscribing(th) == th.pc \in {"sending", "marking", "unmarking"} /\ th.call \in {"sub", "unsub"}

\* A thread in a call is one that may make it; past the first wait no
\* publication is left, past the second none of the subscriber's events.
Fine(t) ==
    /\ thread[t].pc \in WaitPcs => "wait" \in Calls[t]
    /\ Publishes(thread[t]) => "pub" \in Calls[t]
    /\ Subscribing(thread[t]) =>
         /\ Subscribes(t) /\ thread[t].topic \in TopicsOf[thread[t].subscriber]
         /\ thread[t].call = "unsub" => thread[t].subscriber \notin Awaited
         /\ ~sub[thread[t].subscriber].closed
    /\ thread[t].pc \in PastServer => serverWg = 0
    /\ thread[t].pc = "wokenSub" => sub[thread[t].subscriber].wg = 0

\* A subscriber that is closed has no topic left.
Tidy(s) == topicsKnown[s] \subseteq TopicsOf[s] /\ (sub[s].closed => topicsKnown[s] = {})

Orderly == ~panicked /\ (\A s \in Subscribers : Tidy(s)) /\ \A t \in Threads : Fine(t)

LEMMA FineStays ==
  ASSUME NEW r \in Threads, Fine(r), thread'[r] = thread[r],
         thread[r].pc \in PastServer => serverWg' = serverWg,
         Subscribing(thread[r]) /\ sub'[thread[r].subscriber].closed => sub[thread[r].subscriber].closed,
         thread[r].pc = "wokenSub" => sub'[thread[r].subscriber].wg = sub[thread[r].subscriber].wg
  PROVE  Fine(r)'
BY Zenon DEF Fine

\* The subscriber of a thread that subscribes.
LEMMA ThreadSubscribing ==
  ASSUME NEW th \in ThreadStates, Subscribing(th) \/ th.pc = "wokenSub"
  PROVE  th.subscriber \in Subscribers
BY DEF Subscribing, ThreadStates, Idle, Calling, Waiting

LEMMA IdlePc == Idle.pc = "idle"
BY DEF Idle

LEMMA FineIdle ==
  ASSUME NEW t \in Threads, thread'[t].pc = "idle" \/ thread'[t].pc = "stopped"
  PROVE  Fine(t)'
BY Zenon DEF Fine, Publishes, Subscribing, WaitPcs, PastServer

LEMMA InitOrderly == Init => Orderly
<1> SUFFICES ASSUME Init PROVE Orderly
  OBVIOUS
<1>1. \A t \in Threads : Fine(t)
  BY Zenon DEF Init, Idle, Fine, Publishes, Subscribing, WaitPcs, PastServer
<1>2. \A s \in Subscribers : Tidy(s)
  BY Zenon DEF Init, Tidy
<1>3. ~panicked
  BY Zenon DEF Init
<1> QED
  BY Zenon, <1>1, <1>2, <1>3 DEF Orderly

\* One thread moves and the rest stays as it is.
LEMMA OneMovesFinely ==
  ASSUME Orderly, thread \in [Threads -> ThreadStates], NEW t \in Threads, NEW th,
         thread' = [thread EXCEPT ![t] = th], Fine(t)', ~panicked',
         UNCHANGED <<serverWg, sub, topicsKnown>>
  PROVE  Orderly'
<1>1. ASSUME NEW r \in Threads PROVE Fine(r)'
  <2>1. CASE r # t
    <3>1. thread'[r] = thread[r] /\ Fine(r)
      BY <2>1 DEF Orderly
    <3> QED
      BY Zenon, <3>1, FineStays
  <2> QED
    BY Zenon, <2>1
<1>2. \A s \in Subscribers : Tidy(s)'
  BY Zenon DEF Orderly, Tidy
<1> QED
  BY Zenon, <1>1, <1>2 DEF Orderly

LEMMA PublishFinely ==
  ASSUME WaiterPublishes, IInv, Orderly, NEW t \in Threads, NEW topic \in Topics, Publish(t, topic)
  PROVE  Orderly'
<1>1. thread \in [Threads -> ThreadStates]
  BY DEF IInv, TypeOK
<1>2. /\ "pub" \in Calls[t] /\ thread[t].pc = "idle" /\ UNCHANGED <<sub, topicsKnown, panicked>>
      /\ thread' = [thread EXCEPT ![t] = [pc |-> "sending", call |-> "pub", subscriber |-> "none",
                                          topic |-> topic, event |-> nextEvent]]
  BY Zenon DEF Publish, MayCall, Sending
<1>3. ASSUME NEW r \in Threads PROVE Fine(r)'
  <2>1. CASE r = t
    <3>1. thread'[t].pc = "sending" /\ thread'[t].call = "pub"
      BY Zenon, <1>1, <1>2
    <3> QED
      BY Zenon, <1>2, <2>1, <3>1 DEF Fine, Publishes, Subscribing, WaitPcs, PastServer
  <2>2. CASE r # t
    <3>1. thread'[r] = thread[r] /\ Fine(r)
      BY Zenon, <1>1, <1>2, <2>2 DEF Orderly
    <3>2. thread[r].pc \notin PastServer
      BY Zenon, <1>2, <2>2, <3>1 DEF Fine, WaiterPublishes, PastServer, WaitPcs
    <3> QED
      BY Zenon, <1>2, <3>1, <3>2, FineStays
  <2> QED
    BY <2>1, <2>2
<1>4. ~panicked' /\ \A s \in Subscribers : Tidy(s)'
  BY Zenon, <1>2 DEF Orderly, Tidy
<1> QED
  BY Zenon, <1>3, <1>4 DEF Orderly

LEMMA SubscribeFinely ==
  ASSUME NoneAgain, IInv, Orderly, NEW t \in Threads, NEW s \in Subscribers, NEW topic \in TopicsOf[s],
         Subscribe(t, s, topic)
  PROVE  Orderly'
<1>1. thread \in [Threads -> ThreadStates] /\ SubsOK
  BY Zenon DEF IInv, TypeOK
<1>2. /\ "sub" \in Calls[t] /\ ~sub[s].closed /\ UNCHANGED <<serverWg, topicsKnown, panicked>>
      /\ thread' = [thread EXCEPT ![t] = [pc |-> "sending", call |-> "sub", subscriber |-> s,
                                          topic |-> topic, event |-> 0]]
      /\ sub' = [sub EXCEPT ![s].handlers = @ \cup {topic}]
  BY Zenon DEF Subscribe, MayCall, Sending, NoneAgain
<1>3. \A r \in Subscribers : sub'[r].closed = sub[r].closed /\ sub'[r].wg = sub[r].wg
  BY <1>1, <1>2 DEF SubsOK, SubOK, SubStates
<1>4. ASSUME NEW r \in Threads PROVE Fine(r)'
  <2>1. CASE r = t
    <3>1. /\ thread'[t].pc = "sending" /\ thread'[t].call = "sub" /\ thread'[t].subscriber = s
          /\ thread'[t].topic = topic
      BY <1>1, <1>2
    <3>2. Subscribes(t) /\ ~sub'[s].closed
      BY Zenon, <1>2, <1>3 DEF Subscribes
    <3> QED
      BY Zenon, <2>1, <3>1, <3>2 DEF Fine, Publishes, Subscribing, WaitPcs, PastServer
  <2>2. CASE r # t
    <3>1. thread'[r] = thread[r] /\ Fine(r) /\ thread[r] \in ThreadStates
      BY <1>1, <1>2, <2>2 DEF Orderly
    <3>2. Subscribing(thread[r]) \/ thread[r].pc = "wokenSub" => thread[r].subscriber \in Subscribers
      BY Zenon, <3>1, ThreadSubscribing
    <3> QED
      BY ZenonT(60), <1>2, <1>3, <3>1, <3>2, FineStays
  <2> QED
    BY Zenon, <2>1, <2>2
<1>5. ~panicked' /\ \A r \in Subscribers : Tidy(r)'
  BY Zenon, <1>2, <1>3 DEF Orderly, Tidy
<1> QED
  BY Zenon, <1>4, <1>5 DEF Orderly

LEMMA UnsubscribeFinely ==
  ASSUME IInv, Orderly, NEW t \in Threads, NEW s \in Subscribers, NEW topic \in TopicsOf[s],
         Unsubscribe(t, s, topic)
  PROVE  Orderly'
<1>1. thread \in [Threads -> ThreadStates]
  BY Zenon DEF IInv, TypeOK
<1>2. /\ "unsub" \in Calls[t] /\ s \notin Awaited /\ topic \in topicsKnown[s]
      /\ UNCHANGED <<serverWg, sub, topicsKnown, panicked>>
      /\ thread' = [thread EXCEPT ![t] = [pc |-> "sending", call |-> "unsub", subscriber |-> s,
                                          topic |-> topic, event |-> 0]]
  BY Zenon DEF Unsubscribe, MayCall, Sending
<1>3. /\ thread'[t].pc = "sending" /\ thread'[t].call = "unsub" /\ thread'[t].subscriber = s
      /\ thread'[t].topic = topic
  BY Zenon, <1>1, <1>2
<1>4. Subscribes(t) /\ ~sub'[s].closed
  BY Zenon, <1>2 DEF Subscribes, Orderly, Tidy
<1>5. Fine(t)'
  BY Zenon, <1>2, <1>3, <1>4 DEF Fine, Publishes, Subscribing, WaitPcs, PastServer
<1>6. ~panicked'
  BY Zenon, <1>2 DEF Orderly
<1> QED
  BY ZenonT(60), <1>1, <1>2, <1>5, <1>6, OneMovesFinely

LEMMA StopFinely ==
  ASSUME IInv, Orderly, NEW t \in Threads, Stop(t) \/ CloseQuit(t)
  PROVE  Orderly'
<1>1. thread \in [Threads -> ThreadStates]
  BY DEF IInv, TypeOK
<1>2. UNCHANGED <<serverWg, sub, topicsKnown>> /\ ~panicked'
  <2>1. UNCHANGED <<serverWg, sub, topicsKnown, panicked>>
    BY Zenon DEF Stop, CloseQuit
  <2> QED
    BY Zenon, <2>1 DEF Orderly
<1>3. CASE Stop(t)
  <2>1. thread' = [thread EXCEPT ![t] = [pc |-> "sending", call |-> "stop", subscriber |-> "none",
                                         topic |-> "none", event |-> 0]]
    BY Zenon, <1>3 DEF Stop, Sending
  <2>2. thread'[t].pc = "sending" /\ thread'[t].call = "stop"
    BY Zenon, <1>1, <2>1
  <2>3. Fine(t)'
    BY Zenon, <2>2 DEF Fine, Publishes, Subscribing, WaitPcs, PastServer
  <2> QED
    BY ZenonT(60), <1>1, <1>2, <2>1, <2>3, OneMovesFinely
<1>4. CASE CloseQuit(t)
  <2>1. thread' = [thread EXCEPT ![t] = Idle]
    BY Zenon, <1>4 DEF CloseQuit
  <2>2. Fine(t)'
    BY Zenon, <1>1, <2>1, FineIdle DEF Idle
  <2> QED
    BY ZenonT(60), <1>1, <1>2, <2>1, <2>2, OneMovesFinely
<1> QED
  BY <1>3, <1>4

LEMMA WaitFinely ==
  ASSUME IInv, Orderly, NEW t \in Threads, NEW s \in Subscribers, Wait(t, s)
  PROVE  Orderly'
<1> DEFINE q == IF serverWg = 0 THEN "counted" ELSE "parkedServer"
<1>1. thread \in [Threads -> ThreadStates]
  BY Zenon DEF IInv, TypeOK
<1>2. /\ "wait" \in Calls[t] /\ UNCHANGED <<serverWg, sub, topicsKnown, panicked>>
      /\ thread' = [thread EXCEPT ![t] = [pc |-> q, subscriber |-> s]]
  BY Zenon DEF Wait, MayCall
<1>3. thread'[t].pc = q
  BY Zenon, <1>1, <1>2
<1>4. Fine(t)'
  <2>1. CASE serverWg = 0
    <3>1. thread'[t].pc = "counted" /\ serverWg' = 0
      BY Zenon, <1>2, <1>3, <2>1
    <3> QED
      BY Zenon, <1>2, <3>1 DEF Fine, Publishes, Subscribing, WaitPcs, PastServer
  <2>2. CASE serverWg # 0
    <3>1. thread'[t].pc = "parkedServer"
      BY Zenon, <1>3, <2>2
    <3> QED
      BY Zenon, <1>2, <3>1 DEF Fine, Publishes, Subscribing, WaitPcs, PastServer
  <2> QED
    BY Zenon, <2>1, <2>2
<1>5. ~panicked'
  BY Zenon, <1>2 DEF Orderly
<1> HIDE DEF q
<1> QED
  BY ZenonT(60), <1>1, <1>2, <1>4, <1>5, OneMovesFinely

\* A thread that is woken finds the counter at zero.
LEMMA WakeFinely ==
  ASSUME IInv, Orderly, NEW t \in Threads, WakeServer(t) \/ WaitSub(t) \/ WakeSub(t)
  PROVE  Orderly'
<1>1. thread \in [Threads -> ThreadStates] /\ thread[t] \in ThreadStates /\ Fine(t)
  BY DEF IInv, TypeOK, Orderly
<1>2. UNCHANGED <<serverWg, sub, topicsKnown>>
  BY DEF WakeServer, WaitSub, WakeSub
<1>3. ~panicked'
  <2>1. CASE WakeServer(t)
    <3>1. serverWg = 0
      BY <1>1, <2>1 DEF WakeServer, Fine, PastServer
    <3> QED
      BY Zenon, <2>1, <3>1 DEF WakeServer, Orderly
  <2>2. CASE WaitSub(t)
    BY Zenon, <2>2 DEF WaitSub, Orderly
  <2>3. CASE WakeSub(t)
    <3>1. sub[thread[t].subscriber].wg = 0
      BY Zenon, <1>1, <2>3 DEF WakeSub, Fine
    <3> QED
      BY Zenon, <2>3, <3>1 DEF WakeSub, Orderly
  <2> QED
    BY <2>1, <2>2, <2>3
<1>4. PICK th : /\ thread' = [thread EXCEPT ![t] = th]
                /\ th = Idle \/ \E q \in {"counted", "parkedSub"} : th = [thread[t] EXCEPT !.pc = q]
  <2>1. CASE WakeServer(t)
    <3>1. thread' = [thread EXCEPT ![t] = [thread[t] EXCEPT !.pc = "counted"]]
      BY <2>1 DEF WakeServer
    <3> QED
      BY Zenon, <3>1
  <2>2. CASE WaitSub(t)
    <3> DEFINE parked == [thread[t] EXCEPT !.pc = "parkedSub"]
               th == IF sub[thread[t].subscriber].wg = 0 THEN Idle ELSE parked
    <3>1. thread' = [thread EXCEPT ![t] = th]
      BY Zenon, <1>1, <2>2 DEF WaitSub
    <3>2. th = Idle \/ th = parked
      OBVIOUS
    <3> HIDE DEF th
    <3> QED
      BY Zenon, <3>1, <3>2
  <2>3. CASE WakeSub(t)
    BY Zenon, <2>3 DEF WakeSub
  <2> QED
    BY <2>1, <2>2, <2>3
<1>5. Fine(t)'
  <2>1. thread'[t] = th
    BY <1>1, <1>4
  <2>2. CASE th = Idle
    BY Zenon, <2>1, <2>2, FineIdle, IdlePc
  <2>3. CASE th # Idle
    <3>1. thread[t].pc \in PastServer
      BY <1>4, <2>3 DEF WakeServer, WaitSub, WakeSub, PastServer
    <3>2. thread[t] \in Waiting
      BY Zenon, <1>1, <3>1, ThreadWaiting DEF PastServer, WaitPcs
    <3>3. thread'[t].pc \in {"counted", "parkedSub"}
      BY <1>4, <2>1, <2>3, <3>2 DEF Waiting
    <3> QED
      BY Zenon, <1>1, <1>2, <3>1, <3>3 DEF Fine, Publishes, Subscribing, WaitPcs, PastServer
  <2> QED
    BY <2>2, <2>3
<1> QED
  BY ZenonT(60), <1>1, <1>2, <1>3, <1>4, <1>5, OneMovesFinely

LEMMA ReceiveFinely ==
  ASSUME IInv, Orderly, NEW t \in Threads, Receive(t)
  PROVE  Orderly'
<1> DEFINE th == thread[t]
           to == IF th.call = "pub" THEN Idle ELSE [th EXCEPT !.pc = PcAfterSending(th.call)]
<1>1. thread \in [Threads -> ThreadStates] /\ th \in ThreadStates /\ Fine(t)
  BY DEF IInv, TypeOK, Orderly
<1>2. th.pc = "sending" /\ thread' = [thread EXCEPT ![t] = to] /\ UNCHANGED <<serverWg, sub, topicsKnown, panicked>>
  BY DEF Receive
<1>3. thread'[t] = to
  BY <1>1, <1>2
<1>4. th \in Calling
  BY <1>1, <1>2 DEF ThreadStates, Idle, Waiting, WaitPcs
<1>5. Fine(t)'
  <2>1. CASE th.call = "pub"
    BY <1>3, <2>1, FineIdle DEF Idle
  <2>2. CASE th.call = "stop"
    <3>1. thread'[t].pc = "stopped"
      BY <1>3, <1>4, <2>2 DEF Calling, PcAfterSending
    <3> QED
      BY Zenon, <3>1, FineIdle
  <2>3. CASE th.call \in {"sub", "unsub"}
    <3>1. /\ thread'[t].pc \in {"marking", "unmarking"} /\ thread'[t].call = th.call
          /\ thread'[t].topic = th.topic /\ thread'[t].subscriber = th.subscriber
      BY <1>3, <1>4, <2>3 DEF Calling, PcAfterSending
    <3> QED
      BY <1>1, <1>2, <2>3, <3>1 DEF Fine, Publishes, Subscribing, WaitPcs, PastServer
  <2> QED
    BY Zenon, <1>4, <2>1, <2>2, <2>3 DEF Calling
<1>6. ~panicked'
  BY Zenon, <1>2 DEF Orderly
<1> HIDE DEF to
<1> QED
  BY ZenonT(60), <1>1, <1>2, <1>5, <1>6, OneMovesFinely

LEMMA MarkFinely ==
  ASSUME IInv, Orderly, NEW t \in Threads, Mark(t)
  PROVE  Orderly'
<1> DEFINE th == thread[t]
<1>1. /\ thread \in [Threads -> ThreadStates] /\ th \in ThreadStates /\ Fine(t)
      /\ topicsKnown \in [Subscribers -> SUBSET Topics]
  BY Zenon DEF IInv, TypeOK, MapsOK, Orderly
<1>2. /\ th.pc = "marking" /\ thread' = [thread EXCEPT ![t] = Idle] /\ UNCHANGED <<serverWg, sub, panicked>>
      /\ topicsKnown' = [topicsKnown EXCEPT ![th.subscriber] = @ \cup {th.topic}]
  BY Zenon DEF Mark
<1>3. th.call = "sub" /\ th.subscriber \in Subscribers
  BY Zenon, <1>1, <1>2, ThreadMarking
<1>4. th.topic \in TopicsOf[th.subscriber] /\ ~sub[th.subscriber].closed
  BY Zenon, <1>1, <1>2, <1>3 DEF Fine, Subscribing
<1>5. ASSUME NEW s \in Subscribers PROVE Tidy(s)'
  <2>1. Tidy(s)
    BY DEF Orderly
  <2>2. CASE s = th.subscriber
    <3>1. topicsKnown'[s] = topicsKnown[s] \cup {th.topic}
      BY Zenon, <1>1, <1>2, <2>2
    <3> QED
      BY Zenon, <1>2, <1>4, <2>1, <2>2, <3>1 DEF Tidy
  <2>3. CASE s # th.subscriber
    <3>1. topicsKnown'[s] = topicsKnown[s]
      BY Zenon, <1>1, <1>2, <2>3
    <3> QED
      BY Zenon, <1>2, <2>1, <3>1 DEF Tidy
  <2> QED
    BY <2>2, <2>3
<1>6. ASSUME NEW r \in Threads PROVE Fine(r)'
  <2>1. CASE r = t
    <3>1. thread'[r].pc = "idle"
      BY Zenon, <1>1, <1>2, <2>1 DEF Idle
    <3> QED
      BY Zenon, <3>1, FineIdle
  <2>2. CASE r # t
    <3>1. thread'[r] = thread[r] /\ Fine(r)
      BY Zenon, <1>1, <1>2, <2>2 DEF Orderly
    <3> QED
      BY Zenon, <1>2, <3>1, FineStays
  <2> QED
    BY <2>1, <2>2
<1>7. ~panicked'
  BY Zenon, <1>2 DEF Orderly
<1> QED
  BY Zenon, <1>5, <1>6, <1>7 DEF Orderly

\* The quit channel is closed once: the topic taken off was the only one.
LEMMA UnmarkFinely ==
  ASSUME OneSubscribes, OneTopic, IInv, Orderly, NEW t \in Threads, Unmark(t)
  PROVE  Orderly'
<1> DEFINE th == thread[t]
<1>1. /\ thread \in [Threads -> ThreadStates] /\ th \in ThreadStates /\ Fine(t)
      /\ topicsKnown \in [Subscribers -> SUBSET Topics] /\ SubsOK
  BY DEF IInv, TypeOK, MapsOK, Orderly
<1>2. /\ th.pc = "unmarking" /\ thread' = [thread EXCEPT ![t] = Idle] /\ serverWg' = serverWg
      /\ topicsKnown' = [topicsKnown EXCEPT ![th.subscriber] = @ \ {th.topic}]
      /\ sub' = [sub EXCEPT ![th.subscriber].closed = TRUE]
      /\ panicked' = (panicked \/ sub[th.subscriber].closed)
  BY Zenon DEF Unmark
<1>3. th.call = "unsub" /\ th.subscriber \in Subscribers
  BY <1>1, <1>2 DEF ThreadStates, Idle, Waiting, WaitPcs, Calling
<1>4. /\ th.topic \in TopicsOf[th.subscriber] /\ ~sub[th.subscriber].closed /\ th.subscriber \notin Awaited
      /\ Subscribes(t)
  BY <1>1, <1>2, <1>3 DEF Fine, Subscribing
<1>5. ~panicked'
  BY Zenon, <1>2, <1>4 DEF Orderly
<1>6. /\ \A s \in Subscribers : sub'[s].wg = sub[s].wg
      /\ \A s \in Subscribers \ {th.subscriber} : sub'[s] = sub[s]
  BY Zenon, <1>1, <1>2, <1>3 DEF SubsOK, SubOK, SubStates
<1>7. ASSUME NEW s \in Subscribers PROVE Tidy(s)'
  <2>1. Tidy(s)
    BY DEF Orderly
  <2>2. CASE s = th.subscriber
    <3>1. topicsKnown'[s] = topicsKnown[s] \ {th.topic}
      BY <1>1, <1>2, <2>2
    <3>2. \A p \in topicsKnown[s] : p = th.topic
      BY Zenon, <1>4, <2>1, <2>2 DEF Tidy, OneTopic
    <3>3. topicsKnown'[s] = {}
      BY Zenon, <3>1, <3>2
    <3> QED
      BY Zenon, <3>3 DEF Tidy
  <2>3. CASE s # th.subscriber
    <3>1. topicsKnown'[s] = topicsKnown[s] /\ sub'[s] = sub[s]
      BY <1>1, <1>2, <1>6, <2>3
    <3> QED
      BY Zenon, <2>1, <3>1 DEF Tidy
  <2> QED
    BY <2>2, <2>3
<1>8. ASSUME NEW r \in Threads PROVE Fine(r)'
  <2>1. CASE r = t
    <3>1. thread'[r].pc = "idle"
      BY <1>1, <1>2, <2>1 DEF Idle
    <3> QED
      BY Zenon, <3>1, FineIdle
  <2>2. CASE r # t
    <3>1. thread'[r] = thread[r] /\ Fine(r) /\ thread[r] \in ThreadStates
      BY <1>1, <1>2, <2>2 DEF Orderly
    <3>2. ~Subscribing(thread[r])
      BY Zenon, <1>4, <2>2, <3>1 DEF Fine, OneSubscribes
    <3>3. thread[r].pc = "wokenSub" => thread[r].subscriber \in Subscribers
      BY Zenon, <3>1, ThreadSubscriber DEF WaitPcs
    <3> QED
      BY ZenonT(60), <1>2, <1>6, <3>1, <3>2, <3>3, FineStays
  <2> QED
    BY <2>1, <2>2
<1> QED
  BY Zenon, <1>5, <1>7, <1>8 DEF Orderly

LEMMA ServerDoneFinely ==
  ASSUME Orderly, thread \in [Threads -> ThreadStates], serverWg # 0, serverWg' = serverWg - 1,
         NEW T \in [Threads -> ThreadStates], \A r \in Threads : T[r] = thread[r] \/ T[r] = Idle,
         thread' = AfterServerDone(T), UNCHANGED <<sub, topicsKnown, panicked>>
  PROVE  Orderly'
<1>1. ASSUME NEW r \in Threads PROVE Fine(r)'
  <2>1. Fine(r) /\ thread[r] \in ThreadStates /\ thread[r].pc \notin PastServer
    BY Zenon DEF Orderly, Fine
  <2>2. CASE serverWg = 1 /\ T[r].pc = "parkedServer"
    <3>1. T[r] = thread[r] /\ thread[r].pc = "parkedServer"
      BY <2>2 DEF Idle
    <3>2. thread'[r] = [thread[r] EXCEPT !.pc = "wokenServer"]
      BY <2>2, <3>1 DEF AfterServerDone, Woken
    <3>3. thread[r] \in Waiting
      BY Zenon, <2>1, <3>1, ThreadWaiting DEF WaitPcs
    <3>4. thread'[r].pc = "wokenServer" /\ serverWg' = 0
      BY <2>2, <3>2, <3>3 DEF Waiting
    <3>5. "wait" \in Calls[r]
      BY Zenon, <2>1, <3>1 DEF Fine, WaitPcs
    <3>6. ~Publishes(thread'[r]) /\ ~Subscribing(thread'[r]) /\ thread'[r].pc # "wokenSub"
      BY Zenon, <3>4 DEF Publishes, Subscribing
    <3> QED
      BY Zenon, <3>4, <3>5, <3>6 DEF Fine
  <2>3. CASE ~(serverWg = 1 /\ T[r].pc = "parkedServer")
    <3>1. thread'[r] = T[r]
      BY <2>3 DEF AfterServerDone, Woken
    <3>2. CASE T[r] = Idle
      BY Zenon, <3>1, <3>2, FineIdle, IdlePc
    <3>3. CASE T[r] = thread[r]
      BY Zenon, <2>1, <3>1, <3>3, FineStays
    <3> QED
      BY Zenon, <3>2, <3>3
  <2> QED
    BY <2>2, <2>3
<1>2. ~panicked' /\ \A s \in Subscribers : Tidy(s)'
  BY Zenon DEF Orderly, Tidy
<1> QED
  BY Zenon, <1>1, <1>2 DEF Orderly

LEMMA GiveUpFinely ==
  ASSUME IInv, Orderly, NEW t \in Threads, GiveUp(t)
  PROVE  Orderly'
<1> DEFINE T == [thread EXCEPT ![t] = Idle]
<1>1. thread \in [Threads -> ThreadStates] /\ T \in [Threads -> ThreadStates]
  BY Zenon DEF IInv, TypeOK, ThreadStates
<1>2. \A r \in Threads : T[r] = thread[r] \/ T[r] = Idle
  BY <1>1
<1>3. UNCHANGED <<sub, topicsKnown, panicked>> /\ thread[t].pc = "sending"
  BY Zenon DEF GiveUp
<1>4. CASE thread[t].call = "pub"
  <2>1. serverWg' = serverWg - 1 /\ thread' = AfterServerDone(T)
    BY Zenon, <1>4 DEF GiveUp, WgAfterGivingUp
  <2>2. t \in Publishing
    BY Zenon, <1>3, <1>4 DEF Publishing, Publishes
  <2>3. serverWg # 0
    BY <2>2, NothingToPush
  <2> HIDE DEF T
  <2> QED
    BY ZenonT(60), <1>1, <1>2, <1>3, <2>1, <2>3, ServerDoneFinely
<1>5. CASE thread[t].call # "pub"
  <2>1. serverWg' = serverWg /\ thread' = [thread EXCEPT ![t] = Idle]
    BY Zenon, <1>5 DEF GiveUp, WgAfterGivingUp
  <2>2. thread'[t].pc = "idle"
    BY Zenon, <1>1, <2>1 DEF Idle
  <2>3. Fine(t)'
    BY Zenon, <2>2, FineIdle
  <2>4. ~panicked' /\ UNCHANGED <<serverWg, sub, topicsKnown>>
    BY Zenon, <1>3, <2>1 DEF Orderly
  <2> QED
    BY ZenonT(60), <1>1, <2>1, <2>3, <2>4, OneMovesFinely
<1> QED
  BY <1>4, <1>5

LEMMA PushDoneFinely ==
  ASSUME IInv, Orderly, PushDone
  PROVE  Orderly'
<1>1. thread \in [Threads -> ThreadStates] /\ \A r \in Threads : thread[r] = thread[r] \/ thread[r] = Idle
  BY DEF IInv, TypeOK
<1>2. serverWg' = serverWg - 1 /\ thread' = AfterServerDone(thread) /\ UNCHANGED <<sub, topicsKnown, panicked>>
  BY Zenon DEF PushDone
<1>3. serverWg # 0
  BY Zenon, NothingToPush DEF PushDone, Pushes
<1> QED
  BY ZenonT(60), <1>1, <1>2, <1>3, ServerDoneFinely

\* An event moves on and no thread is woken.
LEMMA MovesOnFinely ==
  ASSUME IInv, Orderly, NEW s \in Subscribers, PushAdd(s) \/ PushSend \/ Take(s) \/ Leave(s)
  PROVE  Orderly'
<1>1. thread \in [Threads -> ThreadStates] /\ SubsOK
  BY DEF IInv, TypeOK
<1>2. UNCHANGED <<serverWg, thread, topicsKnown, panicked>>
  BY Zenon DEF PushAdd, PushSend, Take, Leave
<1>3. \A r \in Subscribers : sub'[r].closed = sub[r].closed
  <2>1. CASE PushAdd(s)
    BY <1>1, <2>1 DEF PushAdd, SubsOK, SubOK, SubStates
  <2>2. CASE PushSend
    BY Zenon, <1>1, <2>2 DEF PushSend, SubsOK, SubOK, SubStates
  <2>3. CASE Take(s)
    BY <1>1, <2>3 DEF Take, SubsOK, SubOK, SubStates
  <2>4. CASE Leave(s)
    BY <1>1, <2>4 DEF Leave, SubsOK, SubOK, SubStates
  <2> QED
    BY Zenon, <2>1, <2>2, <2>3, <2>4
<1>4. ~PushAdd(s) => \A r \in Subscribers : sub'[r].wg = sub[r].wg
  <2>1. CASE PushSend
    BY Zenon, <1>1, <2>1 DEF PushSend, SubsOK, SubOK, SubStates
  <2>2. CASE Take(s)
    BY <1>1, <2>2 DEF Take, SubsOK, SubOK, SubStates
  <2>3. CASE Leave(s)
    BY <1>1, <2>3 DEF Leave, SubsOK, SubOK, SubStates
  <2> QED
    BY Zenon, <2>1, <2>2, <2>3
<1>5. PushAdd(s) => serverWg # 0
  BY NothingToPush DEF PushAdd, Pushes
<1>6. ASSUME NEW r \in Threads PROVE Fine(r)'
  <2>1. Fine(r) /\ thread'[r] = thread[r] /\ thread[r] \in ThreadStates
    BY <1>1, <1>2 DEF Orderly
  <2>2. Subscribing(thread[r]) \/ thread[r].pc = "wokenSub" => thread[r].subscriber \in Subscribers
    BY Zenon, <2>1, ThreadSubscribing
  <2>3. thread[r].pc = "wokenSub" => ~PushAdd(s)
    BY Zenon, <1>5, <2>1 DEF Fine, PastServer
  <2> QED
    BY ZenonT(60), <1>2, <1>3, <1>4, <2>1, <2>2, <2>3, FineStays
<1>7. ~panicked' /\ \A r \in Subscribers : Tidy(r)'
  BY Zenon, <1>2, <1>3 DEF Orderly, Tidy
<1> QED
  BY Zenon, <1>6, <1>7 DEF Orderly

LEMMA HandleFinely ==
  ASSUME IInv, Orderly, NEW s \in Subscribers, Handle(s)
  PROVE  Orderly'
<1>1. thread \in [Threads -> ThreadStates] /\ SubsOK
  BY DEF IInv, TypeOK
<1>2. UNCHANGED <<serverWg, topicsKnown, panicked>> /\ thread' = AfterSubDone(s) /\ sub[s].at = "handle"
  BY DEF Handle
<1>3. /\ \A r \in Subscribers : sub'[r].closed = sub[r].closed
      /\ \A r \in Subscribers \ {s} : sub'[r].wg = sub[r].wg
      /\ sub'[s].wg = sub[s].wg - 1
  BY <1>1 DEF Handle, SubsOK, SubOK, SubStates
<1>4. sub[s].wg # 0
  <2>1. sub[s].out \in Seq(Events) /\ Holds(s) = 1
    BY Zenon, <1>2, PushedBounds DEF Holds
  <2> DEFINE sends == IF server.pc = "send" /\ server.to = s THEN 1 ELSE 0
  <2> HIDE DEF sends
  <2>2. sub[s].wg = Len(sub[s].out) + Holds(s) + sends
    BY Zenon DEF IInv, SubCounts, sends
  <2>3. sends \in Nat /\ Len(sub[s].out) \in Nat
    BY <2>1 DEF sends
  <2>4. \A n, m \in Nat : n + 1 + m # 0
    OBVIOUS
  <2> QED
    BY Zenon, <2>1, <2>2, <2>3, <2>4
<1>5. ASSUME NEW r \in Threads PROVE Fine(r)'
  <2>1. Fine(r) /\ thread[r] \in ThreadStates
    BY <1>1 DEF Orderly
  <2>2. CASE sub[s].wg = 1 /\ thread[r].pc = "parkedSub" /\ thread[r].subscriber = s
    <3>1. thread'[r] = [thread[r] EXCEPT !.pc = "wokenSub"]
      BY <1>2, <2>2 DEF AfterSubDone
    <3>2. thread[r] \in Waiting
      BY Zenon, <2>1, <2>2, ThreadWaiting DEF WaitPcs
    <3>3. thread'[r].pc = "wokenSub" /\ thread'[r].subscriber = s /\ sub'[s].wg = 0
      BY <1>3, <2>2, <3>1, <3>2 DEF Waiting
    <3>4. "wait" \in Calls[r] /\ serverWg' = 0
      BY Zenon, <1>2, <2>1, <2>2 DEF Fine, WaitPcs, PastServer
    <3> QED
      BY Zenon, <3>3, <3>4 DEF Fine, Publishes, Subscribing
  <2>3. CASE ~(sub[s].wg = 1 /\ thread[r].pc = "parkedSub" /\ thread[r].subscriber = s)
    <3>1. thread'[r] = thread[r]
      BY <1>2, <2>3 DEF AfterSubDone
    <3>2. Subscribing(thread[r]) \/ thread[r].pc = "wokenSub" => thread[r].subscriber \in Subscribers
      BY Zenon, <2>1, ThreadSubscribing
    <3>3. thread[r].pc = "wokenSub" => thread[r].subscriber # s
      BY Zenon, <1>4, <2>1 DEF Fine
    <3> QED
      BY ZenonT(60), <1>2, <1>3, <2>1, <3>1, <3>2, <3>3, FineStays
  <2> QED
    BY Zenon, <2>2, <2>3
<1>6. ~panicked' /\ \A r \in Subscribers : Tidy(r)'
  BY Zenon, <1>2, <1>3 DEF Orderly, Tidy
<1> QED
  BY Zenon, <1>5, <1>6 DEF Orderly

LEMMA OrderlyStep ==
  ASSUME WaiterPublishes, OneSubscribes, OneTopic, NoneAgain, IInv, Orderly, [Next]_vars
  PROVE  Orderly'
<1>1. CASE \E t \in Threads : Call(t) \/ Continue(t)
  <2>1. PICK t \in Threads : Call(t) \/ Continue(t)
    BY <1>1
  <2>2. CASE Call(t)
    <3>1. CASE \E topic \in Topics : Publish(t, topic)
      BY <3>1, PublishFinely
    <3>2. CASE \E s \in Subscribers : \E topic \in TopicsOf[s] : Subscribe(t, s, topic) \/ Unsubscribe(t, s, topic)
      BY Zenon, <3>2, SubscribeFinely, UnsubscribeFinely
    <3>3. CASE Stop(t)
      BY <3>3, StopFinely
    <3>4. CASE \E s \in Subscribers : Wait(t, s)
      BY <3>4, WaitFinely
    <3> QED
      BY Zenon, <2>2, <3>1, <3>2, <3>3, <3>4 DEF Call
  <2>3. CASE Continue(t)
    BY Zenon, <2>3, ReceiveFinely, GiveUpFinely, MarkFinely, UnmarkFinely, StopFinely, WakeFinely DEF Continue
  <2> QED
    BY <2>1, <2>2, <2>3
<1>2. CASE Push
  <2>1. CASE PushDone
    BY <2>1, PushDoneFinely
  <2>2. CASE PushSend
    <3>1. server.to \in Subscribers
      BY <2>2 DEF PushSend, IInv, TypeOK, ServerOK, ServerStates
    <3> QED
      BY <2>2, <3>1, MovesOnFinely
  <2>3. CASE \E s \in Subscribers : PushAdd(s)
    BY <2>3, MovesOnFinely
  <2> QED
    BY <1>2, <2>1, <2>2, <2>3 DEF Push
<1>3. CASE \E s \in Subscribers : Goroutine(s)
  BY <1>3, MovesOnFinely, HandleFinely DEF Goroutine
<1>4. CASE UNCHANGED vars
  BY Zenon, <1>4 DEF vars, Orderly, Tidy, Fine
<1> QED
  BY <1>1, <1>2, <1>3, <1>4 DEF Next

\* If a thread that calls Wait is the only one that calls Publish, one thread
\* calls Subscribe and Unsubscribe, and what is unsubscribed has one topic and
\* is not subscribed again, then every subscriber handles what is pushed to it
\* once and in order, no wait group is reused under its waiters and no quit
\* channel closed twice.
THEOREM NothingPanics ==
  ASSUME WaiterPublishes, OneSubscribes, OneTopic, NoneAgain
  PROVE  Spec => []HandledInOrder
<1>1. Init => Orderly
  BY InitOrderly
<1>2. IInv /\ Orderly /\ [Next]_vars => Orderly'
  BY OrderlyStep
<1>3. IInv /\ Orderly => HandledInOrder
  BY Zenon, InOrder DEF Orderly, Ordered, HandledInOrder
<1> QED
  BY <1>1, <1>2, <1>3, Invariance, PTL DEF Spec
=============================================================================
