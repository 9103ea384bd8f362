------------------------------- MODULE Pubsub -------------------------------
(***************************************************************************)
(* The publish/subscribe server (pubsub/pub.go, pubsub/sub.go).  The       *)
(* server's goroutine takes commands from an unbuffered channel; each      *)
(* subscriber has a goroutine that takes events from a buffered channel.   *)
(* Other goroutines (threads) call Publish, Subscribe, Unsubscribe, Wait   *)
(* and Stop.  A wait group is its counter and the threads parked on it; a  *)
(* thread that is woken and finds the counter above zero panics, as        *)
(* sync.WaitGroup does.                                                    *)
(***************************************************************************)
EXTENDS Integers, Sequences, FiniteSets, Functions

CONSTANTS
    Threads,
    Subscribers,
    Topics,
    Calls,        \* [thread -> the calls it makes: "pub", "sub", "unsub", "wait", "stop"]
    TopicsOf,     \* [subscriber -> topics it subscribes to]
    Awaited,      \* subscribers that Wait is called on, and Unsubscribe is not
    Again,        \* subscribers that are subscribed again after an Unsubscribe
    Capacity,     \* capacity of Subscriber.out (100 in the code)
    MaxEvents     \* bound: events published

ASSUME PubsubAssumption ==
    /\ IsFiniteSet(Threads)
    /\ Calls \in [Threads -> SUBSET {"pub", "sub", "unsub", "wait", "stop"}]
    /\ TopicsOf \in [Subscribers -> SUBSET Topics]
    /\ Awaited \subseteq Subscribers /\ Again \subseteq Subscribers
    /\ Capacity \in Nat \ {0} /\ MaxEvents \in Nat

VARIABLES
    server,          \* pc of loop: "loop", "push", "send", "gone"; event, to, todo
    subscriptions,   \* server.subscriptions: topic -> subscribers
    topicsKnown,     \* server.subscribers: subscriber -> topics
    running,         \* IsRunning
    quit,            \* server.Quit() is closed
    serverWg,        \* counter of server.wg
    sub,             \* per subscriber: handlers, out, wg, closed, at, current
    thread,          \* per thread: pc, call, subscriber, topic, event
    panicked,
    nextEvent,       \* events are numbered as they are published
    due,             \* per subscriber: the events pushed to it
    handled,         \* per subscriber: the events its handlers have seen
    awaited          \* per thread: the events its Wait is to see handled

vars == <<server, subscriptions, topicsKnown, running, quit, serverWg, sub, thread,
          panicked, nextEvent, due, handled, awaited>>

Idle == [pc |-> "idle"]
AtLoop == [pc |-> "loop", event |-> <<>>, to |-> "none", todo |-> {}]

Init ==
    /\ server = AtLoop
    /\ subscriptions = [t \in Topics |-> {}]
    /\ topicsKnown = [s \in Subscribers |-> {}]
    /\ running = TRUE /\ quit = FALSE /\ serverWg = 0
    /\ sub = [s \in Subscribers |->
                [handlers |-> {}, out |-> <<>>, wg |-> 0, closed |-> FALSE,
                 at |-> "select", current |-> <<>>]]
    /\ thread = [t \in Threads |-> Idle]
    /\ panicked = FALSE /\ nextEvent = 1
    /\ due = [s \in Subscribers |-> <<>>]
    /\ handled = [s \in Subscribers |-> <<>>]
    /\ awaited = [t \in Threads |-> {}]

Ghosts == <<due, handled, awaited>>

-----------------------------------------------------------------------------
(* Wait groups.  Done at one wakes every thread parked on the group.       *)
Woken(threads, parkedAt, wokenAt) ==
    [t \in Threads |-> IF threads[t].pc = parkedAt THEN [threads[t] EXCEPT !.pc = wokenAt] ELSE threads[t]]

AfterServerDone(threads) ==
    IF serverWg = 1 THEN Woken(threads, "parkedServer", "wokenServer") ELSE threads

AfterSubDone(s) ==
    [t \in Threads |->
        IF sub[s].wg = 1 /\ thread[t].pc = "parkedSub" /\ thread[t].subscriber = s
        THEN [thread[t] EXCEPT !.pc = "wokenSub"] ELSE thread[t]]

-----------------------------------------------------------------------------
(* The calls up to the send on server.cmds.                                *)
MayCall(t, call) == call \in Calls[t] /\ thread[t].pc = "idle" /\ ~panicked

Sending(t, call, s, topic, event) ==
    thread' = [thread EXCEPT ![t] =
        [pc |-> "sending", call |-> call, subscriber |-> s, topic |-> topic, event |-> event]]

Publish(t, topic) ==
    /\ MayCall(t, "pub") /\ running /\ nextEvent <= MaxEvents
    /\ serverWg' = serverWg + 1
    /\ nextEvent' = nextEvent + 1
    /\ Sending(t, "pub", "none", topic, nextEvent)
    /\ UNCHANGED <<server, subscriptions, topicsKnown, running, quit, sub, panicked, Ghosts>>

(* Subscribe does not look whether the subscriber's goroutine is still     *)
(* there; which callers come back after an Unsubscribe is up to Again.     *)
Subscribe(t, s, topic) ==
    /\ MayCall(t, "sub") /\ topic \notin topicsKnown[s]
    /\ sub[s].closed => s \in Again
    /\ sub' = [sub EXCEPT ![s].handlers = @ \cup {topic}]
    /\ Sending(t, "sub", s, topic, 0)
    /\ UNCHANGED <<server, subscriptions, topicsKnown, running, quit, serverWg, panicked, nextEvent, Ghosts>>

Unsubscribe(t, s, topic) ==
    /\ MayCall(t, "unsub") /\ s \notin Awaited /\ topic \in topicsKnown[s]
    /\ Sending(t, "unsub", s, topic, 0)
    /\ UNCHANGED <<server, subscriptions, topicsKnown, running, quit, serverWg, sub, panicked, nextEvent, Ghosts>>

(* BaseService.Stop clears running, sends the shutdown command (OnStop)    *)
(* and then closes Quit.                                                   *)
Stop(t) ==
    /\ MayCall(t, "stop") /\ running
    /\ running' = FALSE
    /\ Sending(t, "stop", "none", "none", 0)
    /\ UNCHANGED <<server, subscriptions, topicsKnown, quit, serverWg, sub, panicked, nextEvent, Ghosts>>

CloseQuit(t) ==
    /\ thread[t].pc = "stopped"
    /\ quit' = TRUE
    /\ thread' = [thread EXCEPT ![t] = Idle]
    /\ UNCHANGED <<server, subscriptions, topicsKnown, running, serverWg, sub, panicked, nextEvent, Ghosts>>

(* The other branch of the select, once Quit is closed: Publish takes its  *)
(* event off the wait group again.                                         *)
WgAfterGivingUpKept(call) == serverWg

WgAfterGivingUp(call) == IF call = "pub" THEN serverWg - 1 ELSE serverWg

GiveUp(t) ==
    /\ quit /\ thread[t].pc = "sending" /\ thread[t].call # "stop"
    /\ serverWg' = WgAfterGivingUp(thread[t].call)
    /\ thread' = LET threads == [thread EXCEPT ![t] = Idle]
                 IN  IF thread[t].call = "pub" THEN AfterServerDone(threads) ELSE threads
    /\ UNCHANGED <<server, subscriptions, topicsKnown, running, quit, sub, panicked, nextEvent, Ghosts>>

-----------------------------------------------------------------------------
(* The server takes the command of thread t, which goes on: a subscriber   *)
(* still has to note its topic, Stop to close Quit.                        *)
Targets(call, s, topic) ==
    CASE call = "sub" -> [subscriptions EXCEPT ![topic] = @ \cup {s}]
      [] call = "unsub" -> [subscriptions EXCEPT ![topic] = @ \ {s}]
      [] call = "stop" -> [p \in Topics |-> {}]
      [] OTHER -> subscriptions

PcAfterSending(call) ==
    CASE call = "sub" -> "marking" [] call = "unsub" -> "unmarking" [] call = "stop" -> "stopped"

Pushing(topic, event) ==
    [pc |-> "push", event |-> <<event, topic>>, to |-> "none", todo |-> subscriptions[topic]]

Receive(t) ==
    LET th == thread[t]
    IN  /\ th.pc = "sending" /\ server.pc = "loop"
        /\ subscriptions' = Targets(th.call, th.subscriber, th.topic)
        /\ server' = CASE th.call = "pub" -> Pushing(th.topic, th.event)
                       [] th.call = "stop" -> [server EXCEPT !.pc = "gone"]
                       [] OTHER -> server
        /\ thread' = [thread EXCEPT ![t] = IF th.call = "pub" THEN Idle ELSE [@ EXCEPT !.pc = PcAfterSending(th.call)]]
        /\ due' = [s \in Subscribers |-> IF th.call = "pub" /\ s \in subscriptions[th.topic]
                                         THEN Append(due[s], th.event) ELSE due[s]]
        /\ UNCHANGED <<topicsKnown, running, quit, serverWg, sub, panicked, nextEvent, handled, awaited>>

Mark(t) ==
    /\ thread[t].pc = "marking"
    /\ topicsKnown' = [topicsKnown EXCEPT ![thread[t].subscriber] = @ \cup {thread[t].topic}]
    /\ thread' = [thread EXCEPT ![t] = Idle]
    /\ UNCHANGED <<server, subscriptions, running, quit, serverWg, sub, panicked, nextEvent, Ghosts>>

(* Closing a channel that is closed panics.                                *)
Unmark(t) ==
    LET s == thread[t].subscriber
    IN  /\ thread[t].pc = "unmarking"
        /\ topicsKnown' = [topicsKnown EXCEPT ![s] = @ \ {thread[t].topic}]
        /\ sub' = [sub EXCEPT ![s].closed = TRUE]
        /\ panicked' = (panicked \/ sub[s].closed)
        /\ thread' = [thread EXCEPT ![t] = Idle]
        /\ UNCHANGED <<server, subscriptions, running, quit, serverWg, nextEvent, Ghosts>>

-----------------------------------------------------------------------------
(* push: the subscribers of the topic in any order.  Each is counted       *)
(* before the send, which waits for room in its channel.                   *)
WgAddedNot(n) == n

WgAdded(n) == n + 1

PushAdd(s) ==
    /\ server.pc = "push" /\ s \in server.todo
    /\ sub' = [sub EXCEPT ![s].wg = WgAdded(@)]
    /\ server' = [server EXCEPT !.pc = "send", !.to = s]
    /\ UNCHANGED <<subscriptions, topicsKnown, running, quit, serverWg, thread, panicked, nextEvent, Ghosts>>

Remaining(s, todo) == todo \ {s}

RoomFor(out) == Len(out) < Capacity

PushSend ==
    LET s == server.to
    IN  /\ server.pc = "send"
        /\ RoomFor(sub[s].out)
        /\ sub' = [sub EXCEPT ![s].out = Append(@, server.event)]
        /\ server' = [server EXCEPT !.pc = "push", !.to = "none", !.todo = Remaining(s, @)]
        /\ UNCHANGED <<subscriptions, topicsKnown, running, quit, serverWg, thread, panicked, nextEvent, Ghosts>>

PushDone ==
    /\ server.pc = "push" /\ server.todo = {}
    /\ serverWg' = serverWg - 1
    /\ thread' = AfterServerDone(thread)
    /\ server' = AtLoop
    /\ UNCHANGED <<subscriptions, topicsKnown, running, quit, sub, panicked, nextEvent, Ghosts>>

(* The goroutine of a subscriber: it takes an event, or leaves when quit   *)
(* is closed (either, if both are possible).                               *)
Take(s) ==
    /\ sub[s].at = "select" /\ sub[s].out # <<>>
    /\ sub' = [sub EXCEPT ![s].at = "handle", ![s].current = Head(sub[s].out), ![s].out = Tail(@)]
    /\ UNCHANGED <<server, subscriptions, topicsKnown, running, quit, serverWg, thread, panicked, nextEvent, Ghosts>>

HandlerCallsForEach(s) ==
    [n \in 1..(Cardinality(sub[s].handlers) + Len(sub[s].out)) |-> sub[s].current[1]]

HandlerCalls(s) ==
    IF sub[s].current[2] \in sub[s].handlers THEN <<sub[s].current[1]>> ELSE <<>>

Handle(s) ==
    /\ sub[s].at = "handle"
    /\ sub' = [sub EXCEPT ![s].at = "select", ![s].current = <<>>, ![s].wg = @ - 1]
    /\ handled' = [handled EXCEPT ![s] = @ \o HandlerCalls(s)]
    /\ thread' = AfterSubDone(s)
    /\ UNCHANGED <<server, subscriptions, topicsKnown, running, quit, serverWg, panicked, nextEvent, due, awaited>>

Leave(s) ==
    /\ sub[s].at = "select" /\ sub[s].closed
    /\ sub' = [sub EXCEPT ![s].at = "gone"]
    /\ UNCHANGED <<server, subscriptions, topicsKnown, running, quit, serverWg, thread, panicked, nextEvent, Ghosts>>

-----------------------------------------------------------------------------
(* Wait: the server's wait group, then the subscriber's.                   *)
Wait(t, s) ==
    /\ MayCall(t, "wait") /\ s \in Awaited
    /\ awaited' = [awaited EXCEPT ![t] = Range(due[s])]
    /\ thread' = [thread EXCEPT ![t] =
                    [pc |-> IF serverWg = 0 THEN "counted" ELSE "parkedServer", subscriber |-> s]]
    /\ UNCHANGED <<server, subscriptions, topicsKnown, running, quit, serverWg, sub, panicked, nextEvent, due, handled>>

WakeServer(t) ==
    /\ thread[t].pc = "wokenServer"
    /\ panicked' = (panicked \/ serverWg # 0)
    /\ thread' = [thread EXCEPT ![t].pc = "counted"]
    /\ UNCHANGED <<server, subscriptions, topicsKnown, running, quit, serverWg, sub, nextEvent, Ghosts>>

WaitSub(t) ==
    LET s == thread[t].subscriber
    IN  /\ thread[t].pc = "counted"
        /\ thread' = [thread EXCEPT ![t] = IF sub[s].wg = 0 THEN Idle ELSE [@ EXCEPT !.pc = "parkedSub"]]
        /\ UNCHANGED <<server, subscriptions, topicsKnown, running, quit, serverWg, sub, panicked, nextEvent, Ghosts>>

WakeSub(t) ==
    /\ thread[t].pc = "wokenSub"
    /\ panicked' = (panicked \/ sub[thread[t].subscriber].wg # 0)
    /\ thread' = [thread EXCEPT ![t] = Idle]
    /\ UNCHANGED <<server, subscriptions, topicsKnown, running, quit, serverWg, sub, nextEvent, Ghosts>>

Call(t) ==
    \/ \E topic \in Topics : Publish(t, topic)
    \/ \E s \in Subscribers : \E topic \in TopicsOf[s] : Subscribe(t, s, topic) \/ Unsubscribe(t, s, topic)
    \/ Stop(t)
    \/ \E s \in Subscribers : Wait(t, s)

Continue(t) ==
    \/ Receive(t) \/ GiveUp(t) \/ Mark(t) \/ Unmark(t) \/ CloseQuit(t)
    \/ WakeServer(t) \/ WaitSub(t) \/ WakeSub(t)

Push == (\E s \in Subscribers : PushAdd(s)) \/ PushSend \/ PushDone

Goroutine(s) == Take(s) \/ Handle(s) \/ Leave(s)

Next ==
    \/ \E t \in Threads : Call(t) \/ Continue(t)
    \/ Push
    \/ \E s \in Subscribers : Goroutine(s)

Spec == Init /\ [][Next]_vars

(* Goroutines that can run do; calls need not be made.                     *)
FairSpec ==
    /\ Spec /\ WF_vars(Push)
    /\ \A t \in Threads : WF_vars(Continue(t))
    /\ \A s \in Subscribers : WF_vars(Goroutine(s))

-----------------------------------------------------------------------------
(* A Wait that returns has seen the handlers of every event that was       *)
(* published to the subscriber before it was called (Wait in sub.go).      *)
WaitSeesHandled ==
    [][\A t \in Threads :
        (thread[t].pc \in {"counted", "wokenSub"} /\ thread'[t].pc = "idle")
            => awaited[t] \subseteq Range(handled[thread[t].subscriber])]_vars

Begins(h, d) == \E n \in 0..Len(d) : h = SubSeq(d, 1, n)

(* A subscriber handles the events pushed to it once each and in the order *)
(* of publication, whoever subscribes, unsubscribes or stops the server    *)
(* meanwhile.  If no subscriber is subscribed again after an Unsubscribe,  *)
(* nothing panics either: no wait group is used again before its waiters   *)
(* are gone or falls below zero, and no channel is closed twice.  (The     *)
(* second Unsubscribe of one that is subscribed again closes quit twice.)  *)
HandledInOrder ==
    /\ \A s \in Subscribers : Begins(handled[s], due[s]) /\ sub[s].wg >= 0
    /\ serverWg >= 0
    /\ Again = {} => ~panicked

(* Every call returns, publishers and waiters that race with Stop          *)
(* included, if no subscriber is subscribed again after an Unsubscribe:    *)
(* such a subscriber has no goroutine left to take its events, and push    *)
(* waits for ever once its channel is full.                                *)
CallsReturn ==
    Again = {} => \A t \in Threads : thread[t].pc # "idle" ~> thread[t].pc = "idle"
=============================================================================
