---------------------------- MODULE IavlIterator ----------------------------
(***************************************************************************)
(* The iterator over a range of a tree (store/iavlstore.go): one goroutine *)
(* walks the tree and hands its items over one at a time, another receives *)
(* the first of them, and the callers of Valid, Key, Next and Close share  *)
(* the rest under a mutex.                                                 *)
(*                                                                         *)
(* The items of the range are 1..Items.  A handover on the channel without *)
(* buffer is one step of both sides.  A caller recovers from a panic, as   *)
(* the application does around a transaction, and goes on.                 *)
(***************************************************************************)
EXTENDS Integers, FiniteSets

CONSTANTS
    Callers,
    Items,       \* number of items in the range
    MaxCalls     \* bound: calls of one caller

None == "none"
InitRoutine == "initRoutine"

ASSUME IteratorAssumption ==
    /\ Items \in Nat /\ MaxCalls \in Nat
    /\ None \notin Callers /\ InitRoutine \notin Callers

Receivers == Callers \cup {InitRoutine}

VARIABLES
    sent,       \* items iterateRoutine has handed over
    iterCh,     \* "open" | "closed"
    quit,       \* whether quitCh is closed
    key,        \* the current key, 0 before the first
    invalid,
    mtx,        \* the caller that holds the mutex, or None
    pc,         \* the step initRoutine and each caller are at
    got,        \* the item each has received and not set, 0 for none
    calls,      \* calls each caller has begun
    advanced    \* calls of Next that have set the next item, or the end

channel == <<sent, iterCh, quit>>
cursor == <<key, invalid, advanced>>
vars == <<channel, cursor, mtx, pc, got, calls>>

Init ==
    /\ sent = 0 /\ iterCh = "open" /\ quit = FALSE
    /\ key = 0 /\ invalid = FALSE /\ advanced = 0
    /\ mtx = None
    /\ pc = [r \in Receivers |-> IF r = InitRoutine THEN "receive" ELSE "idle"]
    /\ got = [r \in Receivers |-> 0]
    /\ calls = [c \in Callers |-> 0]

Goto(r, p) == pc' = [pc EXCEPT ![r] = p]

-----------------------------------------------------------------------------
(* iterateRoutine: an item for whoever receives, of which Close drops its  *)
(* own; then the end of the range, or quitCh, which select may leave aside *)
(* while someone receives.                                                 *)
More == sent < Items

HandOver ==
    /\ iterCh = "open" /\ More
    /\ sent' = sent + 1
    /\ \/ \E r \in Receivers :
          /\ pc[r] = "receive"
          /\ got' = [got EXCEPT ![r] = sent + 1]
          /\ Goto(r, "set")
       \/ (\E c \in Callers : pc[c] = "drain") /\ UNCHANGED <<got, pc>>
    /\ UNCHANGED <<iterCh, quit, cursor, mtx, calls>>

EndWalk ==
    /\ iterCh = "open" /\ (sent = Items \/ quit)
    /\ iterCh' = "closed"
    /\ UNCHANGED <<sent, quit, cursor, mtx, pc, got, calls>>

(* receiveNext, in initRoutine and in Next: the channel is closed, and     *)
(* what was received is set.                                               *)
ReceiveEnd(r) ==
    /\ pc[r] = "receive" /\ iterCh = "closed"
    /\ got' = [got EXCEPT ![r] = 0]
    /\ Goto(r, "set")
    /\ UNCHANGED <<channel, cursor, mtx, calls>>

InvalidAfterForgotten(item) == FALSE

InvalidAfter(item) == item = 0

SetNext(r) ==
    /\ pc[r] = "set"
    /\ key' = IF got[r] = 0 THEN key ELSE got[r]
    /\ invalid' = (invalid \/ InvalidAfter(got[r]))
    /\ IF r = InitRoutine
       THEN Goto(r, "close") /\ UNCHANGED <<mtx, advanced>>
       ELSE Goto(r, "idle") /\ mtx' = None /\ advanced' = advanced + 1
    /\ UNCHANGED <<channel, got, calls>>

(* initRoutine closes initCh, for which every call but Close waits.        *)
InitReceived == pc[InitRoutine] = "close"

InitDone ==
    /\ InitReceived
    /\ Goto(InitRoutine, "done")
    /\ UNCHANGED <<channel, cursor, mtx, got, calls>>

-----------------------------------------------------------------------------
(* A caller begins a call.                                                 *)
Call(c, p) ==
    /\ pc[c] = "idle" /\ calls[c] < MaxCalls
    /\ calls' = [calls EXCEPT ![c] = @ + 1]
    /\ Goto(c, p)
    /\ UNCHANGED <<channel, cursor, mtx, got>>

Ready(c, p) == pc[c] = p /\ pc[InitRoutine] = "done" /\ mtx = None

(* Valid takes the mutex and releases it.                                  *)
Valid(c) ==
    /\ Ready(c, "valid")
    /\ Goto(c, "idle")
    /\ UNCHANGED <<channel, cursor, mtx, got, calls>>

(* Key, Value: as Valid, or a panic that has released the mutex.           *)
MtxAfterPanicKept(c) == c

MtxAfterPanic(c) == None

Read(c) ==
    /\ Ready(c, "read")
    /\ mtx' = IF invalid THEN MtxAfterPanic(c) ELSE None
    /\ Goto(c, "idle")
    /\ UNCHANGED <<channel, cursor, got, calls>>

(* Next: a panic, or a receive under the mutex.                            *)
Advance(c) ==
    /\ Ready(c, "next")
    /\ IF invalid THEN mtx' = MtxAfterPanic(c) /\ Goto(c, "idle")
                  ELSE mtx' = c /\ Goto(c, "receive")
    /\ UNCHANGED <<channel, cursor, got, calls>>

(* Close: quitCh once, a second close of which panics, and then items are  *)
(* dropped until the channel is closed.                                    *)
Close(c) ==
    /\ pc[c] = "close"
    /\ quit' = TRUE
    /\ Goto(c, IF quit THEN "idle" ELSE "drain")
    /\ UNCHANGED <<sent, iterCh, cursor, mtx, got, calls>>

Drained(c) ==
    /\ pc[c] = "drain" /\ iterCh = "closed"
    /\ Goto(c, "idle")
    /\ UNCHANGED <<channel, cursor, mtx, got, calls>>

Receive(r) == ReceiveEnd(r) \/ SetNext(r)

Step(c) ==
    \/ Receive(c)
    \/ Valid(c) \/ Read(c) \/ Advance(c)
    \/ Close(c) \/ Drained(c)

Next ==
    \/ HandOver \/ EndWalk
    \/ Receive(InitRoutine) \/ InitDone
    \/ \E c \in Callers :
        Step(c) \/ (\E p \in {"valid", "read", "next", "close"} : Call(c, p))

(* The scheduler runs every goroutine, a mutex is handed to every waiter,  *)
(* and select takes a closed channel that is there each time it chooses.   *)
Fairness ==
    /\ WF_vars(HandOver) /\ SF_vars(EndWalk)
    /\ WF_vars(Receive(InitRoutine)) /\ WF_vars(InitDone)
    /\ \A c \in Callers : SF_vars(Step(c))

Spec == Init /\ [][Next]_vars

FairSpec == Spec /\ Fairness

-----------------------------------------------------------------------------
(* Every variable has a value of its kind.                                 *)
TypeOK ==
    /\ sent \in 0..Items /\ key \in 0..Items
    /\ iterCh \in {"open", "closed"}
    /\ quit \in BOOLEAN /\ invalid \in BOOLEAN
    /\ mtx \in Callers \cup {None}
    /\ pc \in [Receivers -> {"idle", "valid", "read", "next", "receive", "set",
                             "close", "drain", "done"}]
    /\ got \in [Receivers -> 0..Items]
    /\ calls \in [Callers -> 0..MaxCalls] /\ advanced \in Nat

(* Until someone closes it the iterator shows the range in order and drops *)
(* no item: after n calls of Next it stands at item n + 1, or it is        *)
(* invalid and n is the length of the range, with any number of callers.   *)
InOrder ==
    pc[InitRoutine] = "done" /\ mtx = None /\ ~quit =>
        IF invalid THEN advanced = Items ELSE key = advanced + 1

(* The iterator never goes back to an earlier item and never becomes valid *)
(* again, when Close and the first receive compete for items included.     *)
NeverBack == [][key' >= key /\ (invalid => invalid')]_vars

(* Every call returns, calls of an invalid iterator that panic and are     *)
(* recovered from, and calls during and after Close, included; and once it *)
(* is closed both goroutines end: "Caller must release the iavlIterator,   *)
(* as each one creates a new goroutine".                                   *)
CallsReturn ==
    /\ \A c \in Callers : pc[c] # "idle" ~> pc[c] = "idle"
    /\ quit ~> iterCh = "closed" /\ pc[InitRoutine] = "done"
=============================================================================
