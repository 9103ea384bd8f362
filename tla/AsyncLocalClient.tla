-------------------------- MODULE AsyncLocalClient --------------------------
(***************************************************************************)
(* The asynchronous ABCI client of server/concurrent: the locks, the wait  *)
(* group, the two work queues, the two goroutine pools and the two worker  *)
(* goroutines that stand between Tendermint's connections and the          *)
(* application.                                                            *)
(*                                                                         *)
(* Every CheckTxAsync call is a goroutine of its own, so a check item is   *)
(* both the transaction and its caller.  The consensus connection is one   *)
(* goroutine that calls BeginBlock, DeliverTxAsync any number of times,    *)
(* EndBlock, Commit and ReCheckTxAsync, in that order, for each height.    *)
(* Query connections take the read lock; every other call that holds only  *)
(* the write lock (CheckTxSync, SetOption, StartRecovery, ...) is an       *)
(* exclusive caller.                                                       *)
(***************************************************************************)
EXTENDS Integers, Sequences, FiniteSets

CONSTANTS CheckTxs,      \* CheckTxAsync calls (one goroutine each)
          DeliverTxs,    \* transactions the consensus thread may deliver
          Queriers,      \* goroutines calling Query or Info
          Exclusives,    \* goroutines calling an API that takes only rwLock
          QueueCap,      \* capacity of checkTxQueue and of deliverTxQueue
          CheckPoolSize, DeliverPoolSize,  \* goroutines of the two pools (cap of sem)
          PoolQueue,     \* capacity of a pool's work channel
          PoolSpawn,     \* goroutines a pool starts with
          MaxHeight,     \* bound: blocks the consensus thread runs
          Loads,         \* bound: the sets of callers that may be active together
          MayFail,       \* transactions that PreCheckTx or PreDeliverTx may reject
          Stopper,       \* the goroutine that calls OnStop
          Consensus, NoOne   \* the consensus thread as a lock owner, and no owner

Items == CheckTxs \cup DeliverTxs

\* The two queues, the two pools and the two workers.
Kinds == {"check", "deliver"}

ASSUME ClientAssumption ==
  /\ CheckTxs \cap DeliverTxs = {}
  /\ IsFiniteSet(CheckTxs) /\ IsFiniteSet(DeliverTxs)
  /\ QueueCap \in Nat \ {0} /\ CheckPoolSize \in Nat /\ DeliverPoolSize \in Nat
  /\ PoolQueue \in Nat \ {0}
  /\ PoolSpawn \in Nat \ {0}                                  \* as NewPool checks
  /\ PoolSpawn <= CheckPoolSize /\ PoolSpawn <= DeliverPoolSize
  /\ MaxHeight \in Nat
  /\ Exclusives \cap Items = {}
  /\ Consensus # NoOne
  /\ {Consensus, NoOne} \cap (Items \cup Exclusives) = {}
  /\ Kinds \cap (Items \cup Exclusives \cup {Consensus, NoOne}) = {}

VARIABLES stage,       \* where each item is, see Stages
          response,    \* reqRes.Response of each item
          queue,       \* checkTxQueue and deliverTxQueue
          work, sem,   \* work channel and occupied goroutine slots of each pool
          wpc, witem,  \* program counter and current item of each worker
          checkTxLowLock, checkTxMidLock, commitLock,  \* owners of the mutexes
          writer, readers,  \* rwLock
          wgCommit,    \* counter of the wait group
          phase, pc,   \* the consensus thread's call, and where it is in it
          height,      \* the height the consensus thread works on
          block,       \* transactions delivered to this height, in call order
          executed,    \* transactions deliverTxWorker finished at this height
          xpc,         \* program counter of the exclusive callers
          closed,      \* whether OnStop closed the queues
          panicked     \* a send on a closed channel ended the process

lockVars == <<checkTxLowLock, checkTxMidLock, commitLock>>
poolVars == <<work, sem>>
workerVars == <<wpc, witem>>
consVars == <<phase, pc, height, block>>
vars == <<stage, response, queue, work, sem, wpc, witem, checkTxLowLock,
          checkTxMidLock, commitLock, writer, readers, wgCommit, phase, pc,
          height, block, executed, xpc, closed, panicked>>

Kind(i) == IF i \in CheckTxs THEN "check" ELSE "deliver"

\* NewAsyncLocalClient gives the two pools different numbers of goroutines.
PoolSize(k) == IF k = "check" THEN CheckPoolSize ELSE DeliverPoolSize
Of(k) == IF k = "check" THEN CheckTxs ELSE DeliverTxs

\* The life of an item.  Its own mutex (WorkItem.mtx) is locked until "ready".
Stages == {"new",         \* the call was not made
           "wantLow", "wantMid", "wantCommit",  \* CheckTxAsync takes its locks
           "push",        \* next: send on the work queue
           "add",         \* sent; next: wgCommit.Add(1)
           "schedule",    \* counted; next: Pool.Schedule
           "work",        \* the task is in the pool's work channel
           "pre",         \* a pool goroutine runs PreCheckTx / PreDeliverTx
           "ready",       \* the task unlocked the item's mutex
           "done"}        \* the worker set the response and called wgCommit.Done

Init ==
  /\ stage = [i \in Items |-> "new"]
  /\ response = [i \in Items |-> "none"]
  /\ queue = [k \in Kinds |-> <<>>]
  /\ work = [k \in Kinds |-> <<>>]
  /\ sem = [k \in Kinds |-> PoolSpawn]
  /\ wpc = [k \in Kinds |-> "take"]
  /\ witem = [k \in Kinds |-> NoOne]
  /\ checkTxLowLock = NoOne /\ checkTxMidLock = NoOne /\ commitLock = NoOne
  /\ writer = NoOne /\ readers = {}
  /\ wgCommit = 0
  /\ phase = "BeginBlock" /\ pc = "lock"
  /\ height = 1
  /\ block = <<>> /\ executed = <<>>
  /\ xpc = [x \in Exclusives |-> "idle"]
  /\ closed = FALSE /\ panicked = FALSE

-----------------------------------------------------------------------------
(* CheckTxAsync and DeliverTxAsync.  A check item is its own caller. *)

\* Bound: caller c joins the items that were called and the connections in a call.
Within(c) ==
  \E load \in Loads :
    /\ c \in load
    /\ {i \in Items : stage[i] # "new"} \subseteq load
    /\ readers \cup {x \in Exclusives : xpc[x] # "idle"} \subseteq load
    /\ closed => Stopper \in load

CallerFrame ==
  UNCHANGED <<response, poolVars, workerVars, writer, readers, consVars,
              executed, xpc, closed>>

CheckTxAsync(i) ==
  /\ stage[i] = "new" /\ Within(i)
  /\ stage' = [stage EXCEPT ![i] = "wantLow"]
  /\ CallerFrame /\ UNCHANGED <<queue, lockVars, wgCommit, panicked>>

LockLow(i) ==
  /\ stage[i] = "wantLow" /\ checkTxLowLock = NoOne
  /\ checkTxLowLock' = i
  /\ stage' = [stage EXCEPT ![i] = "wantMid"]
  /\ CallerFrame /\ UNCHANGED <<queue, checkTxMidLock, commitLock, wgCommit, panicked>>

MidUnlocked == checkTxMidLock = NoOne

LockMid(i) ==
  /\ stage[i] = "wantMid" /\ MidUnlocked
  /\ checkTxMidLock' = i
  /\ stage' = [stage EXCEPT ![i] = "wantCommit"]
  /\ CallerFrame /\ UNCHANGED <<queue, checkTxLowLock, commitLock, wgCommit, panicked>>

\* commitLock.Lock(); checkTxMidLock.Unlock()
LockCommit(i) ==
  /\ stage[i] = "wantCommit" /\ commitLock = NoOne
  /\ commitLock' = i
  /\ checkTxMidLock' = NoOne
  /\ stage' = [stage EXCEPT ![i] = "push"]
  /\ CallerFrame /\ UNCHANGED <<queue, checkTxLowLock, wgCommit, panicked>>

\* The send on checkTxQueue or deliverTxQueue: it blocks while the channel is
\* full, with every lock of the caller held.
Push(i) ==
  /\ stage[i] = "push" /\ ~closed
  /\ Len(queue[Kind(i)]) < QueueCap
  /\ queue' = [queue EXCEPT ![Kind(i)] = Append(@, i)]
  /\ stage' = [stage EXCEPT ![i] = "add"]
  /\ CallerFrame /\ UNCHANGED <<lockVars, wgCommit, panicked>>

\* A send on a channel OnStop has closed panics, whether it starts after the
\* close or is blocked on the full channel when the close happens.
PushOnClosed(i) ==
  /\ stage[i] = "push" /\ closed
  /\ panicked' = TRUE
  /\ CallerFrame /\ UNCHANGED <<stage, queue, lockVars, wgCommit>>

\* A CheckTxAsync releases the lock, a DeliverTxAsync does not hold it.
\* Mutant: it is not released.
ReleasedNever(i, lock) == lock
Released(i, lock) == IF i \in CheckTxs THEN NoOne ELSE lock

\* wgCommit.Add(1), then commitLock.Unlock() and checkTxLowLock.Unlock().
Add(i) ==
  /\ stage[i] = "add"
  /\ wgCommit' = wgCommit + 1
  /\ stage' = [stage EXCEPT ![i] = "schedule"]
  /\ commitLock' = Released(i, commitLock)
  /\ checkTxLowLock' = Released(i, checkTxLowLock)
  /\ CallerFrame /\ UNCHANGED <<queue, checkTxMidLock, panicked>>
-----------------------------------------------------------------------------
(* The goroutine pools. *)

PoolFrame ==
  UNCHANGED <<queue, workerVars, lockVars, writer, readers, wgCommit, consVars,
              executed, xpc, closed, panicked>>

Running(k) == {i \in Of(k) : stage[i] = "pre"}

\* Pool.schedule: the task goes to the work channel ...
ScheduleWork(i) ==
  /\ stage[i] = "schedule"
  /\ Len(work[Kind(i)]) < PoolQueue
  /\ work' = [work EXCEPT ![Kind(i)] = Append(@, i)]
  /\ stage' = [stage EXCEPT ![i] = "work"]
  /\ PoolFrame /\ UNCHANGED <<response, sem>>

FreeSlot(k) == sem[k] < PoolSize(k)

\* ... or to a new goroutine of the pool, which starts with it.
ScheduleSpawn(i) ==
  /\ stage[i] = "schedule"
  /\ FreeSlot(Kind(i))
  /\ sem' = [sem EXCEPT ![Kind(i)] = @ + 1]
  /\ stage' = [stage EXCEPT ![i] = "pre"]
  /\ PoolFrame /\ UNCHANGED <<response, work>>

\* Pool.worker: an idle goroutine of the pool takes the next task.
PoolTake(k) ==
  /\ work[k] # <<>>
  /\ Cardinality(Running(k)) < sem[k]
  /\ stage' = [stage EXCEPT ![Head(work[k])] = "pre"]
  /\ work' = [work EXCEPT ![k] = Tail(@)]
  /\ PoolFrame /\ UNCHANGED <<response, sem>>

\* The deferred mtx.Unlock() of the task.
AfterPre(ok) == "ready"

\* The task returns; a failed pre-check is the item's response.
PreDone(i) ==
  /\ stage[i] = "pre"
  /\ \E ok \in BOOLEAN :
       /\ ok \/ i \in MayFail
       /\ response' = IF ok THEN response ELSE [response EXCEPT ![i] = "pre"]
       /\ stage' = [stage EXCEPT ![i] = AfterPre(ok)]
  /\ PoolFrame /\ UNCHANGED <<work, sem>>
-----------------------------------------------------------------------------
(* checkTxWorker and deliverTxWorker. *)

WorkerFrame == UNCHANGED <<poolVars, lockVars, readers, consVars, xpc, closed, panicked>>

WorkerTake(k) ==
  /\ wpc[k] = "take" /\ queue[k] # <<>>
  /\ witem' = [witem EXCEPT ![k] = Head(queue[k])]
  /\ queue' = [queue EXCEPT ![k] = Tail(@)]
  /\ wpc' = [wpc EXCEPT ![k] = "wait"]
  /\ WorkerFrame /\ UNCHANGED <<stage, response, writer, wgCommit, executed>>

\* range ends once the closed channel is drained.
RangeEnds(k) == closed /\ queue[k] = <<>>

WorkerExit(k) ==
  /\ wpc[k] = "take" /\ RangeEnds(k)
  /\ wpc' = [wpc EXCEPT ![k] = "exited"]
  /\ WorkerFrame
  /\ UNCHANGED <<stage, response, queue, witem, writer, wgCommit, executed>>

\* Mutant: the worker does not wait for the item's mutex.
MtxIgnored(i) == TRUE
MtxUnlocked(i) == stage[i] = "ready"

\* i.mtx.Lock(); i.mtx.Unlock()
WorkerWait(k) ==
  /\ wpc[k] = "wait" /\ MtxUnlocked(witem[k])
  /\ wpc' = [wpc EXCEPT ![k] = "lock"]
  /\ WorkerFrame
  /\ UNCHANGED <<stage, response, queue, witem, writer, wgCommit, executed>>

WorkerLock(k) ==
  /\ wpc[k] = "lock" /\ writer = NoOne /\ readers = {}
  /\ writer' = k
  /\ wpc' = [wpc EXCEPT ![k] = "run"]
  /\ WorkerFrame
  /\ UNCHANGED <<stage, response, queue, witem, wgCommit, executed>>

\* The application call returns (it is skipped when the pre-check left a
\* response); reqRes.Done(); wgCommit.Done().
WorkerRun(k) ==
  /\ wpc[k] = "run"
  /\ response' = [response EXCEPT ![witem[k]] = IF @ = "none" THEN "app" ELSE @]
  /\ wgCommit' = wgCommit - 1
  /\ stage' = [stage EXCEPT ![witem[k]] = "done"]
  /\ executed' = IF k = "deliver" THEN Append(executed, witem[k]) ELSE executed
  /\ wpc' = [wpc EXCEPT ![k] = "callback"]
  /\ WorkerFrame /\ UNCHANGED <<queue, witem, writer>>

\* The callbacks return and the deferred rwLock.Unlock() runs.
WorkerCallback(k) ==
  /\ wpc[k] = "callback"
  /\ writer' = NoOne
  /\ wpc' = [wpc EXCEPT ![k] = "take"]
  /\ witem' = [witem EXCEPT ![k] = NoOne]
  /\ WorkerFrame /\ UNCHANGED <<stage, response, queue, wgCommit, executed>>
-----------------------------------------------------------------------------
(* The consensus connection. *)

ConsensusFrame ==
  UNCHANGED <<response, queue, poolVars, workerVars, checkTxLowLock, readers,
              wgCommit, xpc, closed, panicked>>

Barriers == {"EndBlock", "Commit"}       \* calls that wait for the queues
Exclusive == {"BeginBlock", "ReCheckTx"} \* calls that only take rwLock

\* The consensus thread is between two calls: it returns from one
\* DeliverTxAsync before it makes the next call.
BetweenCalls == \A d \in DeliverTxs : stage[d] \notin {"push", "add", "schedule"}

DeliverTxAsync(d) ==
  /\ phase = "DeliverTx" /\ BetweenCalls
  /\ stage[d] = "new" /\ Within(d)
  /\ stage' = [stage EXCEPT ![d] = "push"]
  /\ block' = Append(block, d)
  /\ ConsensusFrame
  /\ UNCHANGED <<checkTxMidLock, commitLock, writer, phase, pc, height, executed>>

BlockDelivered ==
  /\ phase = "DeliverTx" /\ BetweenCalls
  /\ phase' = "EndBlock" /\ pc' = "mid"
  /\ ConsensusFrame
  /\ UNCHANGED <<stage, checkTxMidLock, commitLock, writer, height, block, executed>>

BarrierLockMid ==
  /\ phase \in Barriers /\ pc = "mid" /\ MidUnlocked
  /\ checkTxMidLock' = Consensus
  /\ pc' = "commit"
  /\ ConsensusFrame
  /\ UNCHANGED <<stage, commitLock, writer, phase, height, block, executed>>

BarrierLockCommit ==
  /\ phase \in Barriers /\ pc = "commit" /\ commitLock = NoOne
  /\ commitLock' = Consensus
  /\ checkTxMidLock' = NoOne
  /\ pc' = "wait"
  /\ ConsensusFrame
  /\ UNCHANGED <<stage, writer, phase, height, block, executed>>

\* Mutant: EndBlock and Commit do not wait for the outstanding items.
WaitReturnsAlways == TRUE
WaitReturns == wgCommit = 0

\* wgCommit.Wait()
BarrierWait ==
  /\ phase \in Barriers /\ pc = "wait" /\ WaitReturns
  /\ pc' = "lock"
  /\ ConsensusFrame
  /\ UNCHANGED <<stage, checkTxMidLock, commitLock, writer, phase, height, block, executed>>

ConsensusLock ==
  /\ phase \in Barriers \cup Exclusive /\ pc = "lock"
  /\ writer = NoOne /\ readers = {}
  /\ writer' = Consensus
  /\ pc' = "run"
  /\ ConsensusFrame
  /\ UNCHANGED <<stage, checkTxMidLock, commitLock, phase, height, block, executed>>

\* The application call returns and every lock of the call is released.
ConsensusRun ==
  /\ phase \in Barriers \cup Exclusive /\ pc = "run"
  /\ writer' = NoOne
  /\ commitLock' = IF phase \in Barriers THEN NoOne ELSE commitLock
  /\ phase' = CASE phase = "BeginBlock" -> "DeliverTx"
                [] phase = "EndBlock"   -> "Commit"
                [] phase = "Commit"     -> "ReCheckTx"
                [] phase = "ReCheckTx"  -> IF height < MaxHeight
                                           THEN "BeginBlock" ELSE "Halted"
  /\ pc' = IF phase = "EndBlock" THEN "mid" ELSE "lock"
  /\ IF phase = "ReCheckTx" /\ height < MaxHeight
     THEN height' = height + 1 /\ block' = <<>> /\ executed' = <<>>
     ELSE UNCHANGED <<height, block, executed>>
  /\ ConsensusFrame /\ UNCHANGED <<stage, checkTxMidLock>>
-----------------------------------------------------------------------------
(* The other connections. *)

OtherFrame ==
  UNCHANGED <<stage, response, queue, poolVars, workerVars, lockVars, wgCommit,
              consVars, executed, panicked>>

QueryLock(q) ==
  /\ q \notin readers /\ writer = NoOne /\ Within(q)
  /\ readers' = readers \cup {q}
  /\ OtherFrame /\ UNCHANGED <<writer, xpc, closed>>

QueryUnlock(q) ==
  /\ q \in readers
  /\ readers' = readers \ {q}
  /\ OtherFrame /\ UNCHANGED <<writer, xpc, closed>>

ExclusiveCall(x) ==
  /\ xpc[x] = "idle" /\ Within(x)
  /\ xpc' = [xpc EXCEPT ![x] = "lock"]
  /\ OtherFrame /\ UNCHANGED <<writer, readers, closed>>

ExclusiveLock(x) ==
  /\ xpc[x] = "lock" /\ writer = NoOne /\ readers = {}
  /\ writer' = x
  /\ xpc' = [xpc EXCEPT ![x] = "run"]
  /\ OtherFrame /\ UNCHANGED <<readers, closed>>

ExclusiveRun(x) ==
  /\ xpc[x] = "run"
  /\ writer' = NoOne
  /\ xpc' = [xpc EXCEPT ![x] = "idle"]
  /\ OtherFrame /\ UNCHANGED <<readers, closed>>

MayClose == commitLock = NoOne

\* commitLock.Lock(), close of both queues, commitLock.Unlock()
OnStop ==
  /\ ~closed /\ Within(Stopper) /\ MayClose
  /\ closed' = TRUE
  /\ OtherFrame /\ UNCHANGED <<writer, readers, xpc>>
-----------------------------------------------------------------------------
ItemStep(i) ==
  \/ Push(i) \/ PushOnClosed(i) \/ Add(i)
  \/ ScheduleWork(i) \/ ScheduleSpawn(i) \/ PreDone(i)

CheckStep(i) == CheckTxAsync(i) \/ LockLow(i) \/ LockMid(i) \/ LockCommit(i)

WorkerStep(k) ==
  \/ WorkerTake(k) \/ WorkerExit(k) \/ WorkerWait(k)
  \/ WorkerLock(k) \/ WorkerRun(k) \/ WorkerCallback(k)

ConsensusStep ==
  \/ \E d \in DeliverTxs : DeliverTxAsync(d)
  \/ BlockDelivered \/ BarrierLockMid \/ BarrierLockCommit \/ BarrierWait
  \/ ConsensusLock \/ ConsensusRun

OtherStep ==
  \/ \E q \in Queriers : QueryLock(q) \/ QueryUnlock(q)
  \/ \E x \in Exclusives : ExclusiveCall(x) \/ ExclusiveLock(x) \/ ExclusiveRun(x)
  \/ OnStop

\* Bound: the consensus thread ran MaxHeight blocks and every CheckTxAsync
\* call that was made was answered, or the process panicked.
Terminated ==
  /\ panicked \/ (phase = "Halted" /\ \A i \in CheckTxs : stage[i] \in {"new", "done"})
  /\ UNCHANGED vars

Next ==
  \/ /\ ~panicked
     /\ \/ \E i \in Items : ItemStep(i)
        \/ \E i \in CheckTxs : CheckStep(i)
        \/ \E k \in Kinds : PoolTake(k) \/ WorkerStep(k)
        \/ ConsensusStep
        \/ OtherStep
  \/ Terminated

Spec == Init /\ [][Next]_vars

\* What the goroutines do of themselves: nothing obliges a caller to make a call,
\* the consensus thread to deliver one more transaction, or OnStop to happen.
Progress ==
  \/ \E i \in Items : ItemStep(i)
  \/ \E i \in CheckTxs : LockLow(i) \/ LockMid(i) \/ LockCommit(i)
  \/ \E k \in Kinds : PoolTake(k) \/ WorkerStep(k)
  \/ BlockDelivered \/ BarrierLockMid \/ BarrierLockCommit \/ BarrierWait
  \/ ConsensusLock \/ ConsensusRun

\* The runtime does not leave all of them aside for ever while one keeps being
\* able to move, and the callers that hold rwLock give it back.  Where the step
\* acquires a lock this is strong fairness: sync.Mutex hands the lock to its
\* oldest waiter in starvation mode, and a pending writer of sync.RWMutex stops
\* new readers.
Fairness ==
  /\ SF_vars(~panicked /\ Progress)
  /\ WF_vars(~panicked /\ \E q \in Queriers : QueryUnlock(q))
  /\ WF_vars(~panicked /\ \E x \in Exclusives : ExclusiveRun(x))

FairSpec == Spec /\ Fairness
-----------------------------------------------------------------------------
(* Properties. *)

Owners == CheckTxs \cup {Consensus, NoOne}

\* Every variable has a value of its kind: the semaphores of the pools stay within
\* their sizes, and locks are held by those who may take them.
TypeOK ==
  /\ stage \in [Items -> Stages]
  /\ response \in [Items -> {"none", "pre", "app"}]
  /\ queue \in [Kinds -> Seq(Items)]
  /\ work \in [Kinds -> Seq(Items)]
  /\ sem \in [Kinds -> Nat] /\ \A k \in Kinds : sem[k] <= PoolSize(k)
  /\ wpc \in [Kinds -> {"take", "wait", "lock", "run", "callback", "exited"}]
  /\ witem \in [Kinds -> Items \cup {NoOne}]
  /\ checkTxLowLock \in CheckTxs \cup {NoOne}
  /\ checkTxMidLock \in Owners /\ commitLock \in Owners
  /\ writer \in Kinds \cup Exclusives \cup {Consensus, NoOne}
  /\ readers \in SUBSET Queriers
  /\ wgCommit \in Int
  /\ phase \in Barriers \cup Exclusive \cup {"DeliverTx", "Halted"}
  /\ pc \in {"mid", "commit", "wait", "lock", "run"}
  /\ height \in Nat
  /\ block \in Seq(Items) /\ executed \in Seq(Items)
  /\ xpc \in [Exclusives -> {"idle", "lock", "run"}]
  /\ closed \in BOOLEAN /\ panicked \in BOOLEAN

\* Items between wgCommit.Add and wgCommit.Done.
Counted == {i \in Items : stage[i] \in {"schedule", "work", "pre", "ready"}}

\* The wait group counts exactly the items that were added and whose worker
\* has not finished: it never goes negative (which would panic), because the
\* worker that calls Done waits for the item's mutex, and never stays positive
\* for a finished item.
WaitGroupExact == wgCommit = Cardinality(Counted)

\* EndBlock and Commit run alone: while either is inside the application, no
\* CheckTx or DeliverTx is anywhere between the send on its queue and its
\* wgCommit.Done, so in particular no PreCheckTx or PreDeliverTx, which take
\* no lock of their own, reads the state Commit replaces.
CommitIsolated ==
  phase \in Barriers /\ pc = "run" =>
    \A i \in Items : stage[i] \notin {"add", "schedule", "work", "pre", "ready"}

\* PreDeliverTx and DeliverTx run only between BeginBlock, which creates the
\* deliver state, and the EndBlock that closes the block; after Commit the
\* deliver state is nil.
DeliverInOpenBlock ==
  (\E d \in DeliverTxs : stage[d] \in {"work", "pre", "ready"}) \/ wpc["deliver"] = "run"
    => phase = "DeliverTx" \/ (phase = "EndBlock" /\ pc \in {"mid", "commit", "wait"})

\* When EndBlock runs, every transaction of the block was executed exactly once
\* and in the order of the block, although the pre-checks ran in any order.
BlockExecutedInOrder == phase = "EndBlock" /\ pc = "run" => executed = block

\* checkTxMidLock gives EndBlock and Commit priority: once the consensus thread
\* holds it, no further CheckTxAsync gets commitLock before the consensus
\* thread does.
CommitPriority ==
  [][checkTxMidLock = Consensus => \A i \in CheckTxs : commitLock' = i => commitLock = i]_vars

\* OnStop closes the queues under commitLock, so it never closes checkTxQueue
\* under a CheckTxAsync that already holds the lock and is about to send.
CloseSparesLockedCallers ==
  [][closed' # closed => \A i \in CheckTxs : stage[i] \notin {"push", "add"}]_vars

\* Every CheckTxAsync call is answered, although it queues behind EndBlock and
\* Commit for three locks, a bounded channel and a bounded pool, and the
\* consensus thread, which CheckTxAsync callers never starve, finishes every
\* block.  OnStop may close the channels: the items in them are answered, and a
\* later send panics the process.
EveryCallFinishes ==
  <>[](\/ panicked
       \/ /\ phase = "Halted"
          /\ \A i \in CheckTxs : stage[i] # "new" => stage[i] = "done" /\ response[i] # "none")
=============================================================================
