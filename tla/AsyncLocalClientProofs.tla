----------------------- MODULE AsyncLocalClientProofs -----------------------
(***************************************************************************)
(* The wait group of the asynchronous client is exact, EndBlock and Commit *)
(* run alone, DeliverTx runs only inside an open block, the barrier calls  *)
(* keep their priority and OnStop spares the callers that hold the lock,   *)
(* for any number of callers, any capacity of the queues and pools and any *)
(* number of blocks.                                                       *)
(***************************************************************************)
EXTENDS AsyncLocalClient, FiniteSetTheorems, TLAPS

(* The larger obligations need more than the prover's default time.        *)
USE SMTT(60)

\* Who holds commitLock and checkTxMidLock, read off the program counters.
LockInv ==
  /\ \A i \in CheckTxs : commitLock = i <=> stage[i] \in {"push", "add"}
  /\ \A i \in CheckTxs : checkTxMidLock = i <=> stage[i] = "wantCommit"
  /\ checkTxMidLock = Consensus <=> phase \in Barriers /\ pc = "commit"
  /\ commitLock = Consensus <=> phase \in Barriers /\ pc \in {"wait", "lock", "run"}
  /\ \A d \in DeliverTxs : stage[d] \notin {"wantLow", "wantMid", "wantCommit"}

\* The tasks of a pool's work channel are distinct items of its kind in stage
\* "work".
WorkInv ==
  \A k \in Kinds : \A a \in DOMAIN work[k] :
    /\ work[k][a] \in Of(k) /\ stage[work[k][a]] = "work"
    /\ \A b \in DOMAIN work[k] : work[k][a] = work[k][b] => a = b

\* A queue holds items of its kind.
QueueInv == \A k \in Kinds : \A a \in DOMAIN queue[k] : queue[k][a] \in Of(k)

\* A worker past the item's mutex holds an item whose pre-check has returned.
WorkerInv ==
  /\ \A k \in Kinds : wpc[k] \in {"wait", "lock", "run"} => witem[k] \in Of(k)
  /\ \A k \in Kinds : wpc[k] \in {"lock", "run"} => stage[witem[k]] = "ready"

\* Delivered transactions are on their way only inside an open block.
DeliverInv ==
  /\ \/ phase = "DeliverTx"
     \/ \A d \in DeliverTxs : stage[d] \notin {"push", "add", "schedule"}
  /\ \/ phase = "DeliverTx"
     \/ phase = "EndBlock" /\ pc \in {"mid", "commit", "wait"}
     \/ \A d \in DeliverTxs : stage[d] \in {"new", "done"}

\* Once the barrier has passed wgCommit.Wait, nothing is outstanding.
BarrierInv == phase \in Barriers /\ pc \in {"lock", "run"} => Counted = {}

IInv == /\ TypeOK /\ LockInv /\ WorkInv /\ QueueInv /\ WorkerInv /\ DeliverInv
        /\ WaitGroupExact /\ BarrierInv
\* The head of a pool's work channel is a task in stage "work", and the rest
\* of the channel is the same sequence one place on.
LEMMA HeadTail ==
  ASSUME NEW S, NEW s \in Seq(S), s # <<>>
  PROVE  /\ Head(s) \in S /\ Head(s) = s[1] /\ 1 \in DOMAIN s
         /\ Tail(s) \in Seq(S)
         /\ \A a \in DOMAIN Tail(s) : a + 1 \in DOMAIN s /\ Tail(s)[a] = s[a + 1] /\ a \in Nat \ {0}
  OBVIOUS

LEMMA TaskWorks ==
  ASSUME TypeOK, WorkInv, NEW k \in Kinds, work[k] # <<>>
  PROVE  Head(work[k]) \in Items /\ stage[Head(work[k])] = "work"
<1>1. work[k] \in Seq(Items)
  BY DEF TypeOK
<1>2. Head(work[k]) = work[k][1] /\ 1 \in DOMAIN work[k] /\ Head(work[k]) \in Items
  BY ONLY <1>1, SMTT(20), work[k] # <<>>
<1> QED
  BY Zenon, <1>2 DEF WorkInv

\* The head of a queue, and what is left of it, are items of its kind.
LEMMA FirstOfKind ==
  ASSUME TypeOK, QueueInv, NEW k \in Kinds, queue[k] # <<>>
  PROVE  Head(queue[k]) \in Of(k)
<1>1. queue[k] \in Seq(Items)
  BY DEF TypeOK
<1>2. Head(queue[k]) = queue[k][1] /\ 1 \in DOMAIN queue[k]
  BY ONLY <1>1, SMTT(20), queue[k] # <<>>
<1> QED
  BY Zenon, <1>2 DEF QueueInv

LEMMA RestOfKind ==
  ASSUME TypeOK, QueueInv, NEW k \in Kinds, queue[k] # <<>>
  PROVE  \A a \in DOMAIN Tail(queue[k]) : Tail(queue[k])[a] \in Of(k)
<1>1. queue[k] \in Seq(Items)
  BY DEF TypeOK
<1>2. \A a \in DOMAIN Tail(queue[k]) : a + 1 \in DOMAIN queue[k] /\ Tail(queue[k])[a] = queue[k][a + 1]
  BY ONLY <1>1, SMTT(20), queue[k] # <<>>
<1> QED
  BY Zenon, <1>2 DEF QueueInv

\* Append keeps the elements in place and adds one at the end.
LEMMA AppendElement ==
  ASSUME NEW S, NEW s \in Seq(S), NEW e \in S
  PROVE  /\ DOMAIN Append(s, e) = DOMAIN s \cup {Len(s) + 1}
         /\ \A a \in DOMAIN s : Append(s, e)[a] = s[a] /\ a # Len(s) + 1
         /\ Append(s, e)[Len(s) + 1] = e
  OBVIOUS

\* A finite set of outstanding items: its size is a natural number, and it is
\* empty exactly when its size is zero.
LEMMA CountedFinite == IsFiniteSet(Counted)
<1>1. IsFiniteSet(Items)
  BY ZenonT(60), ClientAssumption, FS_Union DEF Items
<1> QED
  BY <1>1, FS_Subset DEF Counted

\* Every step keeps the type invariant.
LEMMA TypeStep == IInv /\ Next => TypeOK'
<1> SUFFICES ASSUME IInv, Next PROVE TypeOK'
  OBVIOUS
<1> USE ClientAssumption DEF IInv, TypeOK, WorkInv, QueueInv, WorkerInv, Items, Kinds,
     Kind, Of, Stages, Owners, Barriers, Exclusive,
         vars, lockVars, poolVars, workerVars, consVars
<1>1. ASSUME NEW i \in CheckTxs, CheckTxAsync(i) PROVE TypeOK'
  BY <1>1 DEF CheckTxAsync, CallerFrame
<1>2. ASSUME NEW i \in CheckTxs, LockLow(i) PROVE TypeOK'
  BY <1>2 DEF LockLow, CallerFrame
<1>3. ASSUME NEW i \in CheckTxs, LockMid(i) PROVE TypeOK'
  BY <1>3 DEF LockMid, CallerFrame, MidUnlocked
<1>4. ASSUME NEW i \in CheckTxs, LockCommit(i) PROVE TypeOK'
  BY <1>4 DEF LockCommit, CallerFrame
<1>5. ASSUME NEW i \in Items, Push(i) PROVE TypeOK'
  BY <1>5 DEF Push, CallerFrame
<1>6. ASSUME NEW i \in Items, PushOnClosed(i) PROVE TypeOK'
  BY <1>6 DEF PushOnClosed, CallerFrame
<1>7. ASSUME NEW i \in Items, Add(i) PROVE TypeOK'
  BY <1>7 DEF Add, CallerFrame, Released
<1>8. ASSUME NEW i \in Items, ScheduleWork(i) PROVE TypeOK'
  BY <1>8 DEF ScheduleWork, PoolFrame
<1>9. ASSUME NEW i \in Items, ScheduleSpawn(i) PROVE TypeOK'
  BY <1>9 DEF ScheduleSpawn, PoolFrame, FreeSlot, PoolSize
<1>10. ASSUME NEW i \in Items, PreDone(i) PROVE TypeOK'
  BY <1>10 DEF PreDone, PoolFrame, AfterPre
<1>11. ASSUME NEW k \in Kinds, PoolTake(k) PROVE TypeOK'
  BY <1>11 DEF PoolTake, PoolFrame
<1>12. ASSUME NEW k \in Kinds, WorkerTake(k) PROVE TypeOK'
  BY <1>12 DEF WorkerTake, WorkerFrame
<1>13. ASSUME NEW k \in Kinds, WorkerExit(k) PROVE TypeOK'
  BY <1>13 DEF WorkerExit, WorkerFrame, RangeEnds
<1>14. ASSUME NEW k \in Kinds, WorkerWait(k) PROVE TypeOK'
  BY <1>14 DEF WorkerWait, WorkerFrame, MtxUnlocked
<1>15. ASSUME NEW k \in Kinds, WorkerLock(k) PROVE TypeOK'
  BY <1>15 DEF WorkerLock, WorkerFrame
<1>16. ASSUME NEW k \in Kinds, WorkerRun(k) PROVE TypeOK'
  BY <1>16 DEF WorkerRun, WorkerFrame
<1>17. ASSUME NEW k \in Kinds, WorkerCallback(k) PROVE TypeOK'
  BY <1>17 DEF WorkerCallback, WorkerFrame
<1>18. ASSUME NEW d \in DeliverTxs, DeliverTxAsync(d) PROVE TypeOK'
  BY <1>18 DEF DeliverTxAsync, ConsensusFrame, BetweenCalls
<1>19. CASE BlockDelivered
  BY <1>19 DEF BlockDelivered, ConsensusFrame, BetweenCalls
<1>20. CASE BarrierLockMid
  BY ZenonT(60), <1>20 DEF BarrierLockMid, ConsensusFrame, MidUnlocked
<1>21. CASE BarrierLockCommit
  BY <1>21 DEF BarrierLockCommit, ConsensusFrame
<1>22. CASE BarrierWait
  BY <1>22 DEF BarrierWait, ConsensusFrame, WaitReturns
<1>23. CASE ConsensusLock
  BY <1>23 DEF ConsensusLock, ConsensusFrame
<1>24. CASE ConsensusRun
  <2>1. phase' \in Barriers \cup Exclusive \cup {"DeliverTx", "Halted"} /\ pc' \in {"mid", "lock"}
    BY <1>24 DEF ConsensusRun, ConsensusFrame
  <2>2. height' \in Nat /\ block' \in Seq(Items) /\ executed' \in Seq(Items)
    <3>1. CASE phase = "ReCheckTx" /\ height < MaxHeight
      BY <1>24, <3>1 DEF ConsensusRun, ConsensusFrame
    <3>2. CASE ~(phase = "ReCheckTx" /\ height < MaxHeight)
      BY <1>24, <3>2 DEF ConsensusRun, ConsensusFrame
    <3> QED
      BY <3>1, <3>2
  <2> QED
    BY ZenonT(60), <1>24, <2>1, <2>2 DEF ConsensusRun, ConsensusFrame
<1>25. ASSUME NEW q \in Queriers, QueryLock(q) PROVE TypeOK'
  BY <1>25 DEF QueryLock, OtherFrame
<1>26. ASSUME NEW q \in Queriers, QueryUnlock(q) PROVE TypeOK'
  BY <1>26 DEF QueryUnlock, OtherFrame
<1>27. ASSUME NEW x \in Exclusives, ExclusiveCall(x) PROVE TypeOK'
  BY <1>27 DEF ExclusiveCall, OtherFrame
<1>28. ASSUME NEW x \in Exclusives, ExclusiveLock(x) PROVE TypeOK'
  BY <1>28 DEF ExclusiveLock, OtherFrame
<1>29. ASSUME NEW x \in Exclusives, ExclusiveRun(x) PROVE TypeOK'
  BY <1>29 DEF ExclusiveRun, OtherFrame
<1>30. CASE OnStop
  BY <1>30 DEF OnStop, OtherFrame, MayClose
<1>31. CASE Terminated
  BY <1>31 DEF Terminated
<1> HIDE DEF IInv, TypeOK, WorkInv, QueueInv, WorkerInv, Items, Kinds, Kind, Of,
     Stages, Owners, Barriers, Exclusive
<1> QED
  BY Zenon, <1>1, <1>2, <1>3, <1>4, <1>5, <1>6, <1>7, <1>8, <1>9, <1>10, <1>11, <1>12, <1>13,
       <1>14, <1>15, <1>16, <1>17, <1>18, <1>19, <1>20, <1>21, <1>22, <1>23, <1>24,
       <1>25, <1>26, <1>27, <1>28, <1>29, <1>30, <1>31
  DEF Next, ItemStep, CheckStep, WorkerStep, ConsensusStep, OtherStep

\* Every step keeps the lock ownership.
LEMMA LockStep == IInv /\ Next => LockInv'
<1> SUFFICES ASSUME IInv, Next PROVE LockInv'
  OBVIOUS
<1> USE ClientAssumption DEF IInv, TypeOK, LockInv, Items, Kinds, Barriers, Exclusive,
         vars, lockVars, poolVars, workerVars, consVars
<1>1. ASSUME NEW i \in CheckTxs, CheckTxAsync(i) PROVE LockInv'
  BY <1>1 DEF CheckTxAsync, CallerFrame
<1>2. ASSUME NEW i \in CheckTxs, LockLow(i) PROVE LockInv'
  BY <1>2 DEF LockLow, CallerFrame
<1>3. ASSUME NEW i \in CheckTxs, LockMid(i) PROVE LockInv'
  BY <1>3 DEF LockMid, CallerFrame, MidUnlocked
<1>4. ASSUME NEW i \in CheckTxs, LockCommit(i) PROVE LockInv'
  BY ZenonT(60), <1>4 DEF LockCommit, CallerFrame
<1>5. ASSUME NEW i \in Items, Push(i) PROVE LockInv'
  BY Zenon, <1>5 DEF Push, CallerFrame
<1>6. ASSUME NEW i \in Items, PushOnClosed(i) PROVE LockInv'
  BY Zenon, <1>6 DEF PushOnClosed, CallerFrame
<1>7. ASSUME NEW i \in Items, Add(i) PROVE LockInv'
  BY <1>7 DEF Add, CallerFrame, Released
<1>8. ASSUME NEW i \in Items, ScheduleWork(i) PROVE LockInv'
  BY Zenon, <1>8 DEF ScheduleWork, PoolFrame
<1>9. ASSUME NEW i \in Items, ScheduleSpawn(i) PROVE LockInv'
  BY Zenon, <1>9 DEF ScheduleSpawn, PoolFrame, FreeSlot
<1>10. ASSUME NEW i \in Items, PreDone(i) PROVE LockInv'
  BY <1>10 DEF PreDone, PoolFrame, AfterPre
<1>11. ASSUME NEW k \in Kinds, PoolTake(k) PROVE LockInv'
  <2>1. stage[Head(work[k])] = "work"
    BY Zenon, <1>11, TaskWorks DEF PoolTake
  <2> QED
    BY Zenon, <1>11, <2>1 DEF PoolTake, PoolFrame
<1>12. ASSUME NEW k \in Kinds, WorkerTake(k) PROVE LockInv'
  BY Zenon, <1>12 DEF WorkerTake, WorkerFrame
<1>13. ASSUME NEW k \in Kinds, WorkerExit(k) PROVE LockInv'
  BY Zenon, <1>13 DEF WorkerExit, WorkerFrame, RangeEnds
<1>14. ASSUME NEW k \in Kinds, WorkerWait(k) PROVE LockInv'
  BY <1>14 DEF WorkerWait, WorkerFrame, MtxUnlocked
<1>15. ASSUME NEW k \in Kinds, WorkerLock(k) PROVE LockInv'
  BY Zenon, <1>15 DEF WorkerLock, WorkerFrame
<1>16. ASSUME NEW k \in Kinds, WorkerRun(k) PROVE LockInv'
  <2>1. stage[witem[k]] = "ready"
    BY Zenon, <1>16 DEF WorkerRun, WorkerFrame, WorkerInv
  <2> QED
    BY Zenon, <1>16, <2>1 DEF WorkerRun, WorkerFrame
<1>17. ASSUME NEW k \in Kinds, WorkerCallback(k) PROVE LockInv'
  BY Zenon, <1>17 DEF WorkerCallback, WorkerFrame
<1>18. ASSUME NEW d \in DeliverTxs, DeliverTxAsync(d) PROVE LockInv'
  BY <1>18 DEF DeliverTxAsync, ConsensusFrame, BetweenCalls
<1>19. CASE BlockDelivered
  BY Zenon, <1>19 DEF BlockDelivered, ConsensusFrame, BetweenCalls
<1>20. CASE BarrierLockMid
  BY Zenon, <1>20 DEF BarrierLockMid, ConsensusFrame, MidUnlocked
<1>21. CASE BarrierLockCommit
  BY Zenon, <1>21 DEF BarrierLockCommit, ConsensusFrame
<1>22. CASE BarrierWait
  BY Zenon, <1>22 DEF BarrierWait, ConsensusFrame, WaitReturns
<1>23. CASE ConsensusLock
  BY Zenon, <1>23 DEF ConsensusLock, ConsensusFrame
<1>24. CASE ConsensusRun
  BY <1>24 DEF ConsensusRun, ConsensusFrame
<1>25. ASSUME NEW q \in Queriers, QueryLock(q) PROVE LockInv'
  BY Zenon, <1>25 DEF QueryLock, OtherFrame
<1>26. ASSUME NEW q \in Queriers, QueryUnlock(q) PROVE LockInv'
  BY Zenon, <1>26 DEF QueryUnlock, OtherFrame
<1>27. ASSUME NEW x \in Exclusives, ExclusiveCall(x) PROVE LockInv'
  BY Zenon, <1>27 DEF ExclusiveCall, OtherFrame
<1>28. ASSUME NEW x \in Exclusives, ExclusiveLock(x) PROVE LockInv'
  BY Zenon, <1>28 DEF ExclusiveLock, OtherFrame
<1>29. ASSUME NEW x \in Exclusives, ExclusiveRun(x) PROVE LockInv'
  BY Zenon, <1>29 DEF ExclusiveRun, OtherFrame
<1>30. CASE OnStop
  BY Zenon, <1>30 DEF OnStop, OtherFrame, MayClose
<1>31. CASE Terminated
  BY Zenon, <1>31 DEF Terminated
<1> HIDE DEF IInv, TypeOK, LockInv, Items, Kinds, Barriers, Exclusive
<1> QED
  BY <1>1, <1>2, <1>3, <1>4, <1>5, <1>6, <1>7, <1>8, <1>9, <1>10, <1>11, <1>12, <1>13,
       <1>14, <1>15, <1>16, <1>17, <1>18, <1>19, <1>20, <1>21, <1>22, <1>23, <1>24,
       <1>25, <1>26, <1>27, <1>28, <1>29, <1>30, <1>31
  DEF Next, ItemStep, CheckStep, WorkerStep, ConsensusStep, OtherStep

\* Every step keeps the contents of the work channels.
LEMMA WorkStep == IInv /\ Next => WorkInv'
<1> SUFFICES ASSUME IInv, Next PROVE WorkInv'
  OBVIOUS
<1> USE ClientAssumption DEF IInv, TypeOK, WorkInv, Items, Kinds, Kind, Of,
         vars, lockVars, poolVars, workerVars, consVars
<1>1. ASSUME NEW i \in CheckTxs, CheckTxAsync(i) PROVE WorkInv'
  BY <1>1 DEF CheckTxAsync, CallerFrame
<1>2. ASSUME NEW i \in CheckTxs, LockLow(i) PROVE WorkInv'
  BY <1>2 DEF LockLow, CallerFrame
<1>3. ASSUME NEW i \in CheckTxs, LockMid(i) PROVE WorkInv'
  BY <1>3 DEF LockMid, CallerFrame, MidUnlocked
<1>4. ASSUME NEW i \in CheckTxs, LockCommit(i) PROVE WorkInv'
  BY <1>4 DEF LockCommit, CallerFrame
<1>5. ASSUME NEW i \in Items, Push(i) PROVE WorkInv'
  BY <1>5 DEF Push, CallerFrame
<1>6. ASSUME NEW i \in Items, PushOnClosed(i) PROVE WorkInv'
  BY <1>6 DEF PushOnClosed, CallerFrame
<1>7. ASSUME NEW i \in Items, Add(i) PROVE WorkInv'
  BY <1>7 DEF Add, CallerFrame, Released
<1>8. ASSUME NEW i \in Items, ScheduleWork(i) PROVE WorkInv'
  <2> DEFINE w == work[Kind(i)]
  <2>1. /\ w \in Seq(Items) /\ DOMAIN Append(w, i) = DOMAIN w \cup {Len(w) + 1}
        /\ \A a \in DOMAIN w : Append(w, i)[a] = w[a] /\ a # Len(w) + 1
        /\ Append(w, i)[Len(w) + 1] = i
    <3>1. w \in Seq(Items)
      OBVIOUS
    <3> HIDE DEF w, IInv, TypeOK, WorkInv, Kind, Of, Items, Kinds
    <3> QED
      BY <3>1, AppendElement
  <2>2. \A j \in Kinds : \A a \in DOMAIN work[j] : work[j][a] # i
    BY ZenonT(60), <1>8 DEF ScheduleWork, PoolFrame
  <2>3. \A j \in Kinds : j # Kind(i) => work'[j] = work[j]
    BY Zenon, <1>8 DEF ScheduleWork, PoolFrame
  <2>4. work'[Kind(i)] = Append(w, i)
    BY Zenon, <1>8 DEF ScheduleWork, PoolFrame
  <2>5. stage'[i] = "work" /\ \A j \in Items : j # i => stage'[j] = stage[j]
    BY Zenon, <1>8 DEF ScheduleWork, PoolFrame
  <2>6. Kind(i) \in Kinds /\ i \in Of(Kind(i))
    OBVIOUS
  <2> SUFFICES ASSUME NEW j \in Kinds
               PROVE  \A a \in DOMAIN work'[j] :
                        /\ work'[j][a] \in Of(j) /\ stage'[work'[j][a]] = "work"
                        /\ \A b \in DOMAIN work'[j] : work'[j][a] = work'[j][b] => a = b
    OBVIOUS
  <2>7. CASE j = Kind(i)
    <3>1. \A a \in DOMAIN w : w[a] \in Of(Kind(i)) /\ stage[w[a]] = "work" /\ w[a] \in Items
      BY Zenon, <2>6
    <3>2. \A a, b \in DOMAIN w : w[a] = w[b] => a = b
      BY Zenon, <2>6
    <3>3. \A a \in DOMAIN w : w[a] # i
      BY Zenon, <2>2, <2>6
    <3> HIDE DEF w, IInv, TypeOK, WorkInv, Kind, Of, Items, Kinds
    <3>4. work'[j] = Append(w, i)
      BY <2>4, <2>7
    <3>5. \A a \in DOMAIN Append(w, i) :
            Append(w, i)[a] \in Of(j) /\ stage'[Append(w, i)[a]] = "work"
      BY <2>1, <2>5, <2>6, <2>7, <3>1, <3>3
    <3>6. \A a, b \in DOMAIN Append(w, i) : Append(w, i)[a] = Append(w, i)[b] => a = b
      BY <2>1, <3>2, <3>3
    <3> QED
      BY <3>4, <3>5, <3>6
  <2>8. CASE j # Kind(i)
    BY <2>2, <2>3, <2>5, <2>8
  <2> QED
    BY Zenon, <2>7, <2>8
<1>9. ASSUME NEW i \in Items, ScheduleSpawn(i) PROVE WorkInv'
  BY <1>9 DEF ScheduleSpawn, PoolFrame, FreeSlot
<1>10. ASSUME NEW i \in Items, PreDone(i) PROVE WorkInv'
  BY <1>10 DEF PreDone, PoolFrame, AfterPre
<1>11. ASSUME NEW k \in Kinds, PoolTake(k) PROVE WorkInv'
  <2> DEFINE w == work[k]
  <2>1. /\ w \in Seq(Items) /\ w # <<>>
        /\ \A j \in Kinds : work'[j] = IF j = k THEN Tail(w) ELSE work[j]
        /\ \A i \in Items : stage'[i] = IF i = Head(w) THEN "pre" ELSE stage[i]
    BY Zenon, <1>11 DEF PoolTake, PoolFrame
  <2>2. /\ Head(w) = w[1] /\ 1 \in DOMAIN w
        /\ \A a \in DOMAIN Tail(w) :
             a + 1 \in DOMAIN w /\ Tail(w)[a] = w[a + 1] /\ a \in Nat \ {0}
    BY ZenonT(60), <2>1, HeadTail
  <2>3. \A a \in DOMAIN Tail(w) : Tail(w)[a] # Head(w)
    BY <2>2
  <2>4. \A j \in Kinds \ {k} : \A a \in DOMAIN work[j] : work[j][a] # Head(w)
    BY <2>2
  <2> SUFFICES ASSUME NEW j \in Kinds
               PROVE  \A a \in DOMAIN work'[j] :
                        /\ work'[j][a] \in Of(j) /\ stage'[work'[j][a]] = "work"
                        /\ \A b \in DOMAIN work'[j] : work'[j][a] = work'[j][b] => a = b
    OBVIOUS
  <2>5. CASE j = k
    <3>1. \A a \in DOMAIN w : w[a] \in Of(k) /\ stage[w[a]] = "work" /\ w[a] \in Items
      OBVIOUS
    <3>2. \A a, b \in DOMAIN w : w[a] = w[b] => a = b
      OBVIOUS
    <3>3. \A a, b \in DOMAIN Tail(w) : Tail(w)[a] = Tail(w)[b] => a = b
      BY <2>2, <3>2
    <3> HIDE DEF w, IInv, TypeOK, WorkInv, Kind, Of, Items, Kinds
    <3>4. work'[j] = Tail(w)
      BY ZenonT(60), <2>1, <2>5
    <3>5. \A a \in DOMAIN Tail(w) : Tail(w)[a] \in Of(j) /\ stage'[Tail(w)[a]] = "work"
      BY <2>1, <2>2, <2>3, <2>5, <3>1
    <3> QED
      BY Zenon, <3>3, <3>4, <3>5
  <2>6. CASE j # k
    <3>1. \A a \in DOMAIN work[j] :
            /\ work[j][a] \in Of(j) /\ work[j][a] \in Items /\ stage[work[j][a]] = "work"
            /\ \A b \in DOMAIN work[j] : work[j][a] = work[j][b] => a = b
      OBVIOUS
    <3> HIDE DEF w, IInv, TypeOK, WorkInv, Kind, Of, Items, Kinds
    <3> QED
      BY <2>1, <2>4, <2>6, <3>1
  <2> QED
    BY Zenon, <2>5, <2>6
<1>12. ASSUME NEW k \in Kinds, WorkerTake(k) PROVE WorkInv'
  BY <1>12 DEF WorkerTake, WorkerFrame
<1>13. ASSUME NEW k \in Kinds, WorkerExit(k) PROVE WorkInv'
  BY <1>13 DEF WorkerExit, WorkerFrame, RangeEnds
<1>14. ASSUME NEW k \in Kinds, WorkerWait(k) PROVE WorkInv'
  BY <1>14 DEF WorkerWait, WorkerFrame, MtxUnlocked
<1>15. ASSUME NEW k \in Kinds, WorkerLock(k) PROVE WorkInv'
  BY <1>15 DEF WorkerLock, WorkerFrame
<1>16. ASSUME NEW k \in Kinds, WorkerRun(k) PROVE WorkInv'
  <2>1. stage[witem[k]] = "ready"
    BY Zenon, <1>16 DEF WorkerRun, WorkerFrame, WorkerInv
  <2> QED
    BY <1>16, <2>1 DEF WorkerRun, WorkerFrame
<1>17. ASSUME NEW k \in Kinds, WorkerCallback(k) PROVE WorkInv'
  BY <1>17 DEF WorkerCallback, WorkerFrame
<1>18. ASSUME NEW d \in DeliverTxs, DeliverTxAsync(d) PROVE WorkInv'
  BY <1>18 DEF DeliverTxAsync, ConsensusFrame, BetweenCalls
<1>19. CASE BlockDelivered
  BY <1>19 DEF BlockDelivered, ConsensusFrame, BetweenCalls
<1>20. CASE BarrierLockMid
  BY <1>20 DEF BarrierLockMid, ConsensusFrame, MidUnlocked
<1>21. CASE BarrierLockCommit
  BY <1>21 DEF BarrierLockCommit, ConsensusFrame
<1>22. CASE BarrierWait
  BY <1>22 DEF BarrierWait, ConsensusFrame, WaitReturns
<1>23. CASE ConsensusLock
  BY <1>23 DEF ConsensusLock, ConsensusFrame
<1>24. CASE ConsensusRun
  BY <1>24 DEF ConsensusRun, ConsensusFrame
<1>25. ASSUME NEW q \in Queriers, QueryLock(q) PROVE WorkInv'
  BY <1>25 DEF QueryLock, OtherFrame
<1>26. ASSUME NEW q \in Queriers, QueryUnlock(q) PROVE WorkInv'
  BY <1>26 DEF QueryUnlock, OtherFrame
<1>27. ASSUME NEW x \in Exclusives, ExclusiveCall(x) PROVE WorkInv'
  BY <1>27 DEF ExclusiveCall, OtherFrame
<1>28. ASSUME NEW x \in Exclusives, ExclusiveLock(x) PROVE WorkInv'
  BY <1>28 DEF ExclusiveLock, OtherFrame
<1>29. ASSUME NEW x \in Exclusives, ExclusiveRun(x) PROVE WorkInv'
  BY <1>29 DEF ExclusiveRun, OtherFrame
<1>30. CASE OnStop
  BY <1>30 DEF OnStop, OtherFrame, MayClose
<1>31. CASE Terminated
  BY <1>31 DEF Terminated
<1> HIDE DEF IInv, TypeOK, WorkInv, Items, Kinds, Kind, Of
<1> QED
  BY <1>1, <1>2, <1>3, <1>4, <1>5, <1>6, <1>7, <1>8, <1>9, <1>10, <1>11, <1>12, <1>13,
       <1>14, <1>15, <1>16, <1>17, <1>18, <1>19, <1>20, <1>21, <1>22, <1>23, <1>24,
       <1>25, <1>26, <1>27, <1>28, <1>29, <1>30, <1>31
  DEF Next, ItemStep, CheckStep, WorkerStep, ConsensusStep, OtherStep

\* Every step keeps the contents of the queues.
LEMMA QueueStep == IInv /\ Next => QueueInv'
<1> SUFFICES ASSUME IInv, Next PROVE QueueInv'
  OBVIOUS
<1> USE ClientAssumption DEF IInv, TypeOK, QueueInv, LockInv, Items, Kinds, Kind, Of,
         vars, lockVars, poolVars, workerVars, consVars
<1>1. ASSUME NEW i \in CheckTxs, CheckTxAsync(i) PROVE QueueInv'
  BY Zenon, <1>1 DEF CheckTxAsync, CallerFrame
<1>2. ASSUME NEW i \in CheckTxs, LockLow(i) PROVE QueueInv'
  BY Zenon, <1>2 DEF LockLow, CallerFrame
<1>3. ASSUME NEW i \in CheckTxs, LockMid(i) PROVE QueueInv'
  BY Zenon, <1>3 DEF LockMid, CallerFrame, MidUnlocked
<1>4. ASSUME NEW i \in CheckTxs, LockCommit(i) PROVE QueueInv'
  BY Zenon, <1>4 DEF LockCommit, CallerFrame
<1>5. ASSUME NEW i \in Items, Push(i) PROVE QueueInv'
  BY <1>5 DEF Push, CallerFrame
<1>6. ASSUME NEW i \in Items, PushOnClosed(i) PROVE QueueInv'
  BY Zenon, <1>6 DEF PushOnClosed, CallerFrame
<1>7. ASSUME NEW i \in Items, Add(i) PROVE QueueInv'
  BY Zenon, <1>7 DEF Add, CallerFrame, Released
<1>8. ASSUME NEW i \in Items, ScheduleWork(i) PROVE QueueInv'
  BY Zenon, <1>8 DEF ScheduleWork, PoolFrame
<1>9. ASSUME NEW i \in Items, ScheduleSpawn(i) PROVE QueueInv'
  BY Zenon, <1>9 DEF ScheduleSpawn, PoolFrame, FreeSlot
<1>10. ASSUME NEW i \in Items, PreDone(i) PROVE QueueInv'
  BY Zenon, <1>10 DEF PreDone, PoolFrame, AfterPre
<1>11. ASSUME NEW k \in Kinds, PoolTake(k) PROVE QueueInv'
  BY Zenon, <1>11 DEF PoolTake, PoolFrame
<1>12. ASSUME NEW k \in Kinds, WorkerTake(k) PROVE QueueInv'
  <2>1. \A a \in DOMAIN Tail(queue[k]) : Tail(queue[k])[a] \in Of(k)
    BY Zenon, <1>12, RestOfKind DEF WorkerTake
  <2> QED
    BY Zenon, <1>12, <2>1 DEF WorkerTake, WorkerFrame
<1>13. ASSUME NEW k \in Kinds, WorkerExit(k) PROVE QueueInv'
  BY Zenon, <1>13 DEF WorkerExit, WorkerFrame, RangeEnds
<1>14. ASSUME NEW k \in Kinds, WorkerWait(k) PROVE QueueInv'
  BY Zenon, <1>14 DEF WorkerWait, WorkerFrame, MtxUnlocked
<1>15. ASSUME NEW k \in Kinds, WorkerLock(k) PROVE QueueInv'
  BY Zenon, <1>15 DEF WorkerLock, WorkerFrame
<1>16. ASSUME NEW k \in Kinds, WorkerRun(k) PROVE QueueInv'
  BY Zenon, <1>16 DEF WorkerRun, WorkerFrame
<1>17. ASSUME NEW k \in Kinds, WorkerCallback(k) PROVE QueueInv'
  BY Zenon, <1>17 DEF WorkerCallback, WorkerFrame
<1>18. ASSUME NEW d \in DeliverTxs, DeliverTxAsync(d) PROVE QueueInv'
  BY Zenon, <1>18 DEF DeliverTxAsync, ConsensusFrame, BetweenCalls
<1>19. CASE BlockDelivered
  BY Zenon, <1>19 DEF BlockDelivered, ConsensusFrame, BetweenCalls
<1>20. CASE BarrierLockMid
  BY Zenon, <1>20 DEF BarrierLockMid, ConsensusFrame, MidUnlocked
<1>21. CASE BarrierLockCommit
  BY Zenon, <1>21 DEF BarrierLockCommit, ConsensusFrame
<1>22. CASE BarrierWait
  BY Zenon, <1>22 DEF BarrierWait, ConsensusFrame, WaitReturns
<1>23. CASE ConsensusLock
  BY Zenon, <1>23 DEF ConsensusLock, ConsensusFrame
<1>24. CASE ConsensusRun
  BY <1>24 DEF ConsensusRun, ConsensusFrame
<1>25. ASSUME NEW q \in Queriers, QueryLock(q) PROVE QueueInv'
  BY Zenon, <1>25 DEF QueryLock, OtherFrame
<1>26. ASSUME NEW q \in Queriers, QueryUnlock(q) PROVE QueueInv'
  BY Zenon, <1>26 DEF QueryUnlock, OtherFrame
<1>27. ASSUME NEW x \in Exclusives, ExclusiveCall(x) PROVE QueueInv'
  BY Zenon, <1>27 DEF ExclusiveCall, OtherFrame
<1>28. ASSUME NEW x \in Exclusives, ExclusiveLock(x) PROVE QueueInv'
  BY Zenon, <1>28 DEF ExclusiveLock, OtherFrame
<1>29. ASSUME NEW x \in Exclusives, ExclusiveRun(x) PROVE QueueInv'
  BY Zenon, <1>29 DEF ExclusiveRun, OtherFrame
<1>30. CASE OnStop
  BY Zenon, <1>30 DEF OnStop, OtherFrame, MayClose
<1>31. CASE Terminated
  BY Zenon, <1>31 DEF Terminated
<1> HIDE DEF IInv, TypeOK, QueueInv, LockInv, Items, Kinds, Kind, Of
<1> QED
  BY <1>1, <1>2, <1>3, <1>4, <1>5, <1>6, <1>7, <1>8, <1>9, <1>10, <1>11, <1>12, <1>13,
       <1>14, <1>15, <1>16, <1>17, <1>18, <1>19, <1>20, <1>21, <1>22, <1>23, <1>24,
       <1>25, <1>26, <1>27, <1>28, <1>29, <1>30, <1>31
  DEF Next, ItemStep, CheckStep, WorkerStep, ConsensusStep, OtherStep

\* Every step keeps what the workers hold.
LEMMA WorkerInvStep == IInv /\ Next => WorkerInv'
<1> SUFFICES ASSUME IInv, Next PROVE WorkerInv'
  OBVIOUS
<1> USE ClientAssumption DEF IInv, TypeOK, WorkerInv, QueueInv, Items, Kinds, Kind, Of,
         vars, lockVars, poolVars, workerVars, consVars
<1>1. ASSUME NEW i \in CheckTxs, CheckTxAsync(i) PROVE WorkerInv'
  BY Zenon, <1>1 DEF CheckTxAsync, CallerFrame
<1>2. ASSUME NEW i \in CheckTxs, LockLow(i) PROVE WorkerInv'
  BY Zenon, <1>2 DEF LockLow, CallerFrame
<1>3. ASSUME NEW i \in CheckTxs, LockMid(i) PROVE WorkerInv'
  BY Zenon, <1>3 DEF LockMid, CallerFrame, MidUnlocked
<1>4. ASSUME NEW i \in CheckTxs, LockCommit(i) PROVE WorkerInv'
  BY Zenon, <1>4 DEF LockCommit, CallerFrame
<1>5. ASSUME NEW i \in Items, Push(i) PROVE WorkerInv'
  BY Zenon, <1>5 DEF Push, CallerFrame
<1>6. ASSUME NEW i \in Items, PushOnClosed(i) PROVE WorkerInv'
  BY Zenon, <1>6 DEF PushOnClosed, CallerFrame
<1>7. ASSUME NEW i \in Items, Add(i) PROVE WorkerInv'
  BY Zenon, <1>7 DEF Add, CallerFrame, Released
<1>8. ASSUME NEW i \in Items, ScheduleWork(i) PROVE WorkerInv'
  BY Zenon, <1>8 DEF ScheduleWork, PoolFrame
<1>9. ASSUME NEW i \in Items, ScheduleSpawn(i) PROVE WorkerInv'
  BY Zenon, <1>9 DEF ScheduleSpawn, PoolFrame, FreeSlot
<1>10. ASSUME NEW i \in Items, PreDone(i) PROVE WorkerInv'
  BY <1>10 DEF PreDone, PoolFrame, AfterPre
<1>11. ASSUME NEW k \in Kinds, PoolTake(k) PROVE WorkerInv'
  <2>1. stage[Head(work[k])] = "work"
    BY Zenon, <1>11, TaskWorks DEF PoolTake
  <2> QED
    BY Zenon, <1>11, <2>1 DEF PoolTake, PoolFrame
<1>12. ASSUME NEW k \in Kinds, WorkerTake(k) PROVE WorkerInv'
  <2>1. Head(queue[k]) \in Of(k)
    BY Zenon, <1>12, FirstOfKind DEF WorkerTake
  <2> QED
    BY Zenon, <1>12, <2>1 DEF WorkerTake, WorkerFrame
<1>13. ASSUME NEW k \in Kinds, WorkerExit(k) PROVE WorkerInv'
  BY Zenon, <1>13 DEF WorkerExit, WorkerFrame, RangeEnds
<1>14. ASSUME NEW k \in Kinds, WorkerWait(k) PROVE WorkerInv'
  BY Zenon, <1>14 DEF WorkerWait, WorkerFrame, MtxUnlocked
<1>15. ASSUME NEW k \in Kinds, WorkerLock(k) PROVE WorkerInv'
  BY Zenon, <1>15 DEF WorkerLock, WorkerFrame
<1>16. ASSUME NEW k \in Kinds, WorkerRun(k) PROVE WorkerInv'
  BY Zenon, <1>16 DEF WorkerRun, WorkerFrame
<1>17. ASSUME NEW k \in Kinds, WorkerCallback(k) PROVE WorkerInv'
  BY Zenon, <1>17 DEF WorkerCallback, WorkerFrame
<1>18. ASSUME NEW d \in DeliverTxs, DeliverTxAsync(d) PROVE WorkerInv'
  BY Zenon, <1>18 DEF DeliverTxAsync, ConsensusFrame, BetweenCalls
<1>19. CASE BlockDelivered
  BY Zenon, <1>19 DEF BlockDelivered, ConsensusFrame, BetweenCalls
<1>20. CASE BarrierLockMid
  BY Zenon, <1>20 DEF BarrierLockMid, ConsensusFrame, MidUnlocked
<1>21. CASE BarrierLockCommit
  BY Zenon, <1>21 DEF BarrierLockCommit, ConsensusFrame
<1>22. CASE BarrierWait
  BY Zenon, <1>22 DEF BarrierWait, ConsensusFrame, WaitReturns
<1>23. CASE ConsensusLock
  BY Zenon, <1>23 DEF ConsensusLock, ConsensusFrame
<1>24. CASE ConsensusRun
  BY <1>24 DEF ConsensusRun, ConsensusFrame
<1>25. ASSUME NEW q \in Queriers, QueryLock(q) PROVE WorkerInv'
  BY Zenon, <1>25 DEF QueryLock, OtherFrame
<1>26. ASSUME NEW q \in Queriers, QueryUnlock(q) PROVE WorkerInv'
  BY Zenon, <1>26 DEF QueryUnlock, OtherFrame
<1>27. ASSUME NEW x \in Exclusives, ExclusiveCall(x) PROVE WorkerInv'
  BY Zenon, <1>27 DEF ExclusiveCall, OtherFrame
<1>28. ASSUME NEW x \in Exclusives, ExclusiveLock(x) PROVE WorkerInv'
  BY Zenon, <1>28 DEF ExclusiveLock, OtherFrame
<1>29. ASSUME NEW x \in Exclusives, ExclusiveRun(x) PROVE WorkerInv'
  BY Zenon, <1>29 DEF ExclusiveRun, OtherFrame
<1>30. CASE OnStop
  BY Zenon, <1>30 DEF OnStop, OtherFrame, MayClose
<1>31. CASE Terminated
  BY Zenon, <1>31 DEF Terminated
<1> HIDE DEF IInv, TypeOK, WorkerInv, QueueInv, Items, Kinds, Kind, Of
<1> QED
  BY <1>1, <1>2, <1>3, <1>4, <1>5, <1>6, <1>7, <1>8, <1>9, <1>10, <1>11, <1>12, <1>13,
       <1>14, <1>15, <1>16, <1>17, <1>18, <1>19, <1>20, <1>21, <1>22, <1>23, <1>24,
       <1>25, <1>26, <1>27, <1>28, <1>29, <1>30, <1>31
  DEF Next, ItemStep, CheckStep, WorkerStep, ConsensusStep, OtherStep

\* Every step keeps delivered transactions inside the open block.
LEMMA DeliverStep == IInv /\ Next => DeliverInv'
<1> SUFFICES ASSUME IInv, Next PROVE DeliverInv'
  OBVIOUS
<1> USE ClientAssumption DEF IInv, TypeOK, DeliverInv, LockInv, Items, Kinds, Stages,
     Barriers, Exclusive,
         BetweenCalls, BarrierInv, Counted,
         vars, lockVars, poolVars, workerVars, consVars
<1>1. ASSUME NEW i \in CheckTxs, CheckTxAsync(i) PROVE DeliverInv'
  BY <1>1 DEF CheckTxAsync, CallerFrame
<1>2. ASSUME NEW i \in CheckTxs, LockLow(i) PROVE DeliverInv'
  BY Zenon, <1>2 DEF LockLow, CallerFrame
<1>3. ASSUME NEW i \in CheckTxs, LockMid(i) PROVE DeliverInv'
  BY Zenon, <1>3 DEF LockMid, CallerFrame, MidUnlocked
<1>4. ASSUME NEW i \in CheckTxs, LockCommit(i) PROVE DeliverInv'
  BY Zenon, <1>4 DEF LockCommit, CallerFrame
<1>5. ASSUME NEW i \in Items, Push(i) PROVE DeliverInv'
  BY Zenon, <1>5 DEF Push, CallerFrame
<1>6. ASSUME NEW i \in Items, PushOnClosed(i) PROVE DeliverInv'
  BY Zenon, <1>6 DEF PushOnClosed, CallerFrame
<1>7. ASSUME NEW i \in Items, Add(i) PROVE DeliverInv'
  BY Zenon, <1>7 DEF Add, CallerFrame, Released
<1>8. ASSUME NEW i \in Items, ScheduleWork(i) PROVE DeliverInv'
  BY Zenon, <1>8 DEF ScheduleWork, PoolFrame
<1>9. ASSUME NEW i \in Items, ScheduleSpawn(i) PROVE DeliverInv'
  BY Zenon, <1>9 DEF ScheduleSpawn, PoolFrame, FreeSlot
<1>10. ASSUME NEW i \in Items, PreDone(i) PROVE DeliverInv'
  BY ZenonT(60), <1>10 DEF PreDone, PoolFrame, AfterPre
<1>11. ASSUME NEW k \in Kinds, PoolTake(k) PROVE DeliverInv'
  <2>1. stage[Head(work[k])] = "work"
    BY Zenon, <1>11, TaskWorks DEF PoolTake
  <2> QED
    BY Zenon, <1>11, <2>1 DEF PoolTake, PoolFrame
<1>12. ASSUME NEW k \in Kinds, WorkerTake(k) PROVE DeliverInv'
  BY Zenon, <1>12 DEF WorkerTake, WorkerFrame
<1>13. ASSUME NEW k \in Kinds, WorkerExit(k) PROVE DeliverInv'
  BY Zenon, <1>13 DEF WorkerExit, WorkerFrame, RangeEnds
<1>14. ASSUME NEW k \in Kinds, WorkerWait(k) PROVE DeliverInv'
  BY Zenon, <1>14 DEF WorkerWait, WorkerFrame, MtxUnlocked
<1>15. ASSUME NEW k \in Kinds, WorkerLock(k) PROVE DeliverInv'
  BY Zenon, <1>15 DEF WorkerLock, WorkerFrame
<1>16. ASSUME NEW k \in Kinds, WorkerRun(k) PROVE DeliverInv'
  BY Zenon, <1>16 DEF WorkerRun, WorkerFrame
<1>17. ASSUME NEW k \in Kinds, WorkerCallback(k) PROVE DeliverInv'
  BY Zenon, <1>17 DEF WorkerCallback, WorkerFrame
<1>18. ASSUME NEW d \in DeliverTxs, DeliverTxAsync(d) PROVE DeliverInv'
  BY Zenon, <1>18 DEF DeliverTxAsync, ConsensusFrame, BetweenCalls
<1>19. CASE BlockDelivered
  BY Zenon, <1>19 DEF BlockDelivered, ConsensusFrame, BetweenCalls
<1>20. CASE BarrierLockMid
  BY Zenon, <1>20 DEF BarrierLockMid, ConsensusFrame, MidUnlocked
<1>21. CASE BarrierLockCommit
  BY Zenon, <1>21 DEF BarrierLockCommit, ConsensusFrame
<1>22. CASE BarrierWait
  <2>1. Counted = {}
    BY ZenonT(60), <1>22, CountedFinite, FS_EmptySet DEF BarrierWait, ConsensusFrame, WaitReturns,
         WaitGroupExact
  <2> QED
    BY <1>22, <2>1 DEF BarrierWait, ConsensusFrame, WaitReturns
<1>23. CASE ConsensusLock
  BY Zenon, <1>23 DEF ConsensusLock, ConsensusFrame
<1>24. CASE ConsensusRun
  BY <1>24 DEF ConsensusRun, ConsensusFrame
<1>25. ASSUME NEW q \in Queriers, QueryLock(q) PROVE DeliverInv'
  BY Zenon, <1>25 DEF QueryLock, OtherFrame
<1>26. ASSUME NEW q \in Queriers, QueryUnlock(q) PROVE DeliverInv'
  BY Zenon, <1>26 DEF QueryUnlock, OtherFrame
<1>27. ASSUME NEW x \in Exclusives, ExclusiveCall(x) PROVE DeliverInv'
  BY Zenon, <1>27 DEF ExclusiveCall, OtherFrame
<1>28. ASSUME NEW x \in Exclusives, ExclusiveLock(x) PROVE DeliverInv'
  BY Zenon, <1>28 DEF ExclusiveLock, OtherFrame
<1>29. ASSUME NEW x \in Exclusives, ExclusiveRun(x) PROVE DeliverInv'
  BY Zenon, <1>29 DEF ExclusiveRun, OtherFrame
<1>30. CASE OnStop
  BY Zenon, <1>30 DEF OnStop, OtherFrame, MayClose
<1>31. CASE Terminated
  BY Zenon, <1>31 DEF Terminated
<1> HIDE DEF IInv, TypeOK, DeliverInv, LockInv, Items, Kinds, Stages, Barriers, Exclusive,
         BetweenCalls, BarrierInv, Counted
<1> QED
  BY <1>1, <1>2, <1>3, <1>4, <1>5, <1>6, <1>7, <1>8, <1>9, <1>10, <1>11, <1>12, <1>13,
       <1>14, <1>15, <1>16, <1>17, <1>18, <1>19, <1>20, <1>21, <1>22, <1>23, <1>24,
       <1>25, <1>26, <1>27, <1>28, <1>29, <1>30, <1>31
  DEF Next, ItemStep, CheckStep, WorkerStep, ConsensusStep, OtherStep

\* Every step keeps the barrier: only Add, which needs commitLock or an open
\* block, can make an item outstanding.
LEMMA BarrierStep == IInv /\ Next => BarrierInv'
<1> SUFFICES ASSUME IInv, Next PROVE BarrierInv'
  OBVIOUS
<1> USE ClientAssumption DEF IInv, TypeOK, LockInv, DeliverInv, BarrierInv, Counted,
     Items, Kinds, Barriers,
         Exclusive,
         vars, lockVars, poolVars, workerVars, consVars
<1>1. ASSUME NEW i \in CheckTxs, CheckTxAsync(i) PROVE BarrierInv'
  BY Zenon, <1>1 DEF CheckTxAsync, CallerFrame
<1>2. ASSUME NEW i \in CheckTxs, LockLow(i) PROVE BarrierInv'
  BY Zenon, <1>2 DEF LockLow, CallerFrame
<1>3. ASSUME NEW i \in CheckTxs, LockMid(i) PROVE BarrierInv'
  BY <1>3 DEF LockMid, CallerFrame, MidUnlocked
<1>4. ASSUME NEW i \in CheckTxs, LockCommit(i) PROVE BarrierInv'
  BY Zenon, <1>4 DEF LockCommit, CallerFrame
<1>5. ASSUME NEW i \in Items, Push(i) PROVE BarrierInv'
  BY Zenon, <1>5 DEF Push, CallerFrame
<1>6. ASSUME NEW i \in Items, PushOnClosed(i) PROVE BarrierInv'
  BY Zenon, <1>6 DEF PushOnClosed, CallerFrame
<1>7. ASSUME NEW i \in Items, Add(i) PROVE BarrierInv'
  BY Zenon, <1>7 DEF Add, CallerFrame, Released
<1>8. ASSUME NEW i \in Items, ScheduleWork(i) PROVE BarrierInv'
  BY Zenon, <1>8 DEF ScheduleWork, PoolFrame
<1>9. ASSUME NEW i \in Items, ScheduleSpawn(i) PROVE BarrierInv'
  BY Zenon, <1>9 DEF ScheduleSpawn, PoolFrame, FreeSlot
<1>10. ASSUME NEW i \in Items, PreDone(i) PROVE BarrierInv'
  BY Zenon, <1>10 DEF PreDone, PoolFrame, AfterPre
<1>11. ASSUME NEW k \in Kinds, PoolTake(k) PROVE BarrierInv'
  <2>1. stage[Head(work[k])] = "work"
    BY Zenon, <1>11, TaskWorks DEF PoolTake
  <2> QED
    BY <1>11, <2>1 DEF PoolTake, PoolFrame
<1>12. ASSUME NEW k \in Kinds, WorkerTake(k) PROVE BarrierInv'
  BY Zenon, <1>12 DEF WorkerTake, WorkerFrame
<1>13. ASSUME NEW k \in Kinds, WorkerExit(k) PROVE BarrierInv'
  BY Zenon, <1>13 DEF WorkerExit, WorkerFrame, RangeEnds
<1>14. ASSUME NEW k \in Kinds, WorkerWait(k) PROVE BarrierInv'
  BY ZenonT(60), <1>14 DEF WorkerWait, WorkerFrame, MtxUnlocked
<1>15. ASSUME NEW k \in Kinds, WorkerLock(k) PROVE BarrierInv'
  BY Zenon, <1>15 DEF WorkerLock, WorkerFrame
<1>16. ASSUME NEW k \in Kinds, WorkerRun(k) PROVE BarrierInv'
  <2>1. \A i \in Items : stage'[i] = stage[i] \/ stage'[i] = "done"
    BY Zenon, <1>16 DEF WorkerRun
  <2>2. Counted' \subseteq Counted
    BY Zenon, <2>1
  <2>3. phase' = phase /\ pc' = pc
    BY Zenon, <1>16 DEF WorkerRun, WorkerFrame
  <2> QED
    BY ONLY <2>2, <2>3, BarrierInv, SMTT(20) DEF BarrierInv
<1>17. ASSUME NEW k \in Kinds, WorkerCallback(k) PROVE BarrierInv'
  BY Zenon, <1>17 DEF WorkerCallback, WorkerFrame
<1>18. ASSUME NEW d \in DeliverTxs, DeliverTxAsync(d) PROVE BarrierInv'
  BY Zenon, <1>18 DEF DeliverTxAsync, ConsensusFrame, BetweenCalls
<1>19. CASE BlockDelivered
  BY Zenon, <1>19 DEF BlockDelivered, ConsensusFrame, BetweenCalls
<1>20. CASE BarrierLockMid
  BY Zenon, <1>20 DEF BarrierLockMid, ConsensusFrame, MidUnlocked
<1>21. CASE BarrierLockCommit
  BY Zenon, <1>21 DEF BarrierLockCommit, ConsensusFrame
<1>22. CASE BarrierWait
  <2>1. Counted = {}
    BY ZenonT(60), <1>22, CountedFinite, FS_EmptySet DEF BarrierWait, ConsensusFrame, WaitReturns,
         WaitGroupExact
  <2> QED
    BY Zenon, <1>22, <2>1 DEF BarrierWait, ConsensusFrame, WaitReturns
<1>23. CASE ConsensusLock
  BY Zenon, <1>23 DEF ConsensusLock, ConsensusFrame
<1>24. CASE ConsensusRun
  BY <1>24 DEF ConsensusRun, ConsensusFrame
<1>25. ASSUME NEW q \in Queriers, QueryLock(q) PROVE BarrierInv'
  BY Zenon, <1>25 DEF QueryLock, OtherFrame
<1>26. ASSUME NEW q \in Queriers, QueryUnlock(q) PROVE BarrierInv'
  BY Zenon, <1>26 DEF QueryUnlock, OtherFrame
<1>27. ASSUME NEW x \in Exclusives, ExclusiveCall(x) PROVE BarrierInv'
  BY Zenon, <1>27 DEF ExclusiveCall, OtherFrame
<1>28. ASSUME NEW x \in Exclusives, ExclusiveLock(x) PROVE BarrierInv'
  BY Zenon, <1>28 DEF ExclusiveLock, OtherFrame
<1>29. ASSUME NEW x \in Exclusives, ExclusiveRun(x) PROVE BarrierInv'
  BY Zenon, <1>29 DEF ExclusiveRun, OtherFrame
<1>30. CASE OnStop
  BY Zenon, <1>30 DEF OnStop, OtherFrame, MayClose
<1>31. CASE Terminated
  BY Zenon, <1>31 DEF Terminated
<1> HIDE DEF IInv, TypeOK, LockInv, DeliverInv, BarrierInv, Counted, Items, Kinds,
     Barriers,
         Exclusive
<1> QED
  BY <1>1, <1>2, <1>3, <1>4, <1>5, <1>6, <1>7, <1>8, <1>9, <1>10, <1>11, <1>12, <1>13,
       <1>14, <1>15, <1>16, <1>17, <1>18, <1>19, <1>20, <1>21, <1>22, <1>23, <1>24,
       <1>25, <1>26, <1>27, <1>28, <1>29, <1>30, <1>31
  DEF Next, ItemStep, CheckStep, WorkerStep, ConsensusStep, OtherStep

\* Every step keeps the wait group exact.
LEMMA CountStep == IInv /\ Next => WaitGroupExact'
<1> SUFFICES ASSUME IInv, Next PROVE WaitGroupExact'
  OBVIOUS
<1> USE ClientAssumption DEF IInv, TypeOK, WaitGroupExact, Counted, Items,
         vars, lockVars, poolVars, workerVars, consVars
<1>1. ASSUME NEW i \in CheckTxs, CheckTxAsync(i) PROVE WaitGroupExact'
  BY ZenonT(60), <1>1 DEF CheckTxAsync, CallerFrame
<1>2. ASSUME NEW i \in CheckTxs, LockLow(i) PROVE WaitGroupExact'
  BY ZenonT(60), <1>2 DEF LockLow, CallerFrame
<1>3. ASSUME NEW i \in CheckTxs, LockMid(i) PROVE WaitGroupExact'
  BY ZenonT(60), <1>3 DEF LockMid, CallerFrame, MidUnlocked
<1>4. ASSUME NEW i \in CheckTxs, LockCommit(i) PROVE WaitGroupExact'
  BY ZenonT(60), <1>4 DEF LockCommit, CallerFrame
<1>5. ASSUME NEW i \in Items, Push(i) PROVE WaitGroupExact'
  BY ZenonT(60), <1>5 DEF Push, CallerFrame
<1>6. ASSUME NEW i \in Items, PushOnClosed(i) PROVE WaitGroupExact'
  BY Zenon, <1>6 DEF PushOnClosed, CallerFrame
<1>7. ASSUME NEW i \in Items, Add(i) PROVE WaitGroupExact'
  <2>1. Counted' = Counted \cup {i} /\ i \notin Counted
    BY <1>7 DEF Add, CallerFrame, Released
  <2>2. Cardinality(Counted \cup {i}) = Cardinality(Counted) + 1
    BY ZenonT(60), <2>1, CountedFinite, FS_AddElement
  <2> QED
    BY ZenonT(60), <1>7, <2>1, <2>2 DEF Add, CallerFrame, Released
<1>8. ASSUME NEW i \in Items, ScheduleWork(i) PROVE WaitGroupExact'
  BY ZenonT(60), <1>8 DEF ScheduleWork, PoolFrame
<1>9. ASSUME NEW i \in Items, ScheduleSpawn(i) PROVE WaitGroupExact'
  BY ZenonT(60), <1>9 DEF ScheduleSpawn, PoolFrame, FreeSlot
<1>10. ASSUME NEW i \in Items, PreDone(i) PROVE WaitGroupExact'
  BY ZenonT(60), <1>10 DEF PreDone, PoolFrame, AfterPre
<1>11. ASSUME NEW k \in Kinds, PoolTake(k) PROVE WaitGroupExact'
  <2>1. Head(work[k]) \in Items /\ stage[Head(work[k])] = "work"
    BY Zenon, <1>11, TaskWorks DEF PoolTake
  <2>2. Counted' = Counted
    BY Zenon, <1>11, <2>1 DEF PoolTake, PoolFrame
  <2> QED
    BY ZenonT(60), <1>11, <2>2 DEF PoolTake, PoolFrame
<1>12. ASSUME NEW k \in Kinds, WorkerTake(k) PROVE WaitGroupExact'
  BY Zenon, <1>12 DEF WorkerTake, WorkerFrame
<1>13. ASSUME NEW k \in Kinds, WorkerExit(k) PROVE WaitGroupExact'
  BY Zenon, <1>13 DEF WorkerExit, WorkerFrame, RangeEnds
<1>14. ASSUME NEW k \in Kinds, WorkerWait(k) PROVE WaitGroupExact'
  BY Zenon, <1>14 DEF WorkerWait, WorkerFrame, MtxUnlocked
<1>15. ASSUME NEW k \in Kinds, WorkerLock(k) PROVE WaitGroupExact'
  BY Zenon, <1>15 DEF WorkerLock, WorkerFrame
<1>16. ASSUME NEW k \in Kinds, WorkerRun(k) PROVE WaitGroupExact'
  <2>1. witem[k] \in Items /\ stage[witem[k]] = "ready"
    BY Zenon, <1>16 DEF WorkerRun, WorkerFrame, WorkerInv, Of, Kinds
  <2>2. Counted' = Counted \ {witem[k]} /\ witem[k] \in Counted
    BY ZenonT(60), <1>16, <2>1 DEF WorkerRun, WorkerFrame
  <2>3. wgCommit = Cardinality(Counted)
    OBVIOUS
  <2> HIDE DEF Counted, IInv, TypeOK
  <2>4. Cardinality(Counted \ {witem[k]}) = Cardinality(Counted) - 1
    BY ZenonT(60), <2>2, CountedFinite, FS_RemoveElement
  <2> QED
    BY Zenon, <1>16, <2>2, <2>4, <2>3 DEF WorkerRun, WorkerFrame
<1>17. ASSUME NEW k \in Kinds, WorkerCallback(k) PROVE WaitGroupExact'
  BY Zenon, <1>17 DEF WorkerCallback, WorkerFrame
<1>18. ASSUME NEW d \in DeliverTxs, DeliverTxAsync(d) PROVE WaitGroupExact'
  BY ZenonT(60), <1>18 DEF DeliverTxAsync, ConsensusFrame, BetweenCalls
<1>19. CASE BlockDelivered
  BY Zenon, <1>19 DEF BlockDelivered, ConsensusFrame, BetweenCalls
<1>20. CASE BarrierLockMid
  BY Zenon, <1>20 DEF BarrierLockMid, ConsensusFrame, MidUnlocked
<1>21. CASE BarrierLockCommit
  BY Zenon, <1>21 DEF BarrierLockCommit, ConsensusFrame
<1>22. CASE BarrierWait
  BY ZenonT(60), <1>22 DEF BarrierWait, ConsensusFrame, WaitReturns
<1>23. CASE ConsensusLock
  BY Zenon, <1>23 DEF ConsensusLock, ConsensusFrame
<1>24. CASE ConsensusRun
  BY <1>24 DEF ConsensusRun, ConsensusFrame
<1>25. ASSUME NEW q \in Queriers, QueryLock(q) PROVE WaitGroupExact'
  BY Zenon, <1>25 DEF QueryLock, OtherFrame
<1>26. ASSUME NEW q \in Queriers, QueryUnlock(q) PROVE WaitGroupExact'
  BY Zenon, <1>26 DEF QueryUnlock, OtherFrame
<1>27. ASSUME NEW x \in Exclusives, ExclusiveCall(x) PROVE WaitGroupExact'
  BY Zenon, <1>27 DEF ExclusiveCall, OtherFrame
<1>28. ASSUME NEW x \in Exclusives, ExclusiveLock(x) PROVE WaitGroupExact'
  BY Zenon, <1>28 DEF ExclusiveLock, OtherFrame
<1>29. ASSUME NEW x \in Exclusives, ExclusiveRun(x) PROVE WaitGroupExact'
  BY Zenon, <1>29 DEF ExclusiveRun, OtherFrame
<1>30. CASE OnStop
  BY Zenon, <1>30 DEF OnStop, OtherFrame, MayClose
<1>31. CASE Terminated
  BY Zenon, <1>31 DEF Terminated
<1> HIDE DEF IInv, TypeOK, WaitGroupExact, Counted, Items
<1> QED
  BY <1>1, <1>2, <1>3, <1>4, <1>5, <1>6, <1>7, <1>8, <1>9, <1>10, <1>11, <1>12, <1>13,
       <1>14, <1>15, <1>16, <1>17, <1>18, <1>19, <1>20, <1>21, <1>22, <1>23, <1>24,
       <1>25, <1>26, <1>27, <1>28, <1>29, <1>30, <1>31
  DEF Next, ItemStep, CheckStep, WorkerStep, ConsensusStep, OtherStep

\* The inductive invariant holds in every reachable state.
THEOREM Invariance == Spec => []IInv
<1>1. Init => IInv
  <2> SUFFICES ASSUME Init PROVE IInv
    OBVIOUS
  <2>1. Counted = {}
    BY DEF Init, Counted
  <2>2. WaitGroupExact
    BY <2>1, FS_EmptySet DEF Init, WaitGroupExact
  <2>3. TypeOK
    <3>1. PoolSpawn \in Nat /\ \A k \in Kinds : PoolSpawn <= PoolSize(k)
      BY ClientAssumption DEF PoolSize
    <3>2. stage \in [Items -> Stages] /\ response \in [Items -> {"none", "pre", "app"}]
      BY DEF Init, Stages
    <3>3. /\ queue \in [Kinds -> Seq(Items)] /\ work \in [Kinds -> Seq(Items)]
          /\ sem \in [Kinds -> Nat] /\ \A k \in Kinds : sem[k] <= PoolSize(k)
          /\ block \in Seq(Items) /\ executed \in Seq(Items)
      BY <3>1 DEF Init
    <3>4. closed \in BOOLEAN /\ panicked \in BOOLEAN
      BY ZenonT(60) DEF Init
    <3>5. /\ wpc \in [Kinds -> {"take", "wait", "lock", "run", "callback", "exited"}]
          /\ witem \in [Kinds -> Items \cup {NoOne}]
          /\ xpc \in [Exclusives -> {"idle", "lock", "run"}]
      BY DEF Init
    <3> QED
      BY <3>2, <3>3, <3>4, <3>5 DEF Init, TypeOK, Owners, Barriers, Exclusive
  <2>4. LockInv /\ WorkInv /\ QueueInv /\ WorkerInv /\ DeliverInv
    BY ClientAssumption DEF Init, LockInv, WorkInv, QueueInv, WorkerInv, DeliverInv,
         Items, Kinds, Barriers
  <2> QED
    BY <2>1, <2>2, <2>3, <2>4 DEF IInv, BarrierInv
<1>2. IInv /\ [Next]_vars => IInv'
  <2> SUFFICES ASSUME IInv, [Next]_vars PROVE IInv'
    OBVIOUS
  <2>1. CASE Next
    BY <2>1, TypeStep, LockStep, WorkStep, QueueStep, WorkerInvStep, DeliverStep,
       BarrierStep, CountStep DEF IInv
  <2>2. CASE UNCHANGED vars
    <3>1. TypeOK'
      BY ZenonT(60), <2>2 DEF vars, IInv, TypeOK
    <3>2. LockInv'
      BY Zenon, <2>2 DEF vars, IInv, LockInv
    <3>3. WorkInv'
      BY Zenon, <2>2 DEF vars, IInv, WorkInv
    <3>4. QueueInv'
      BY Zenon, <2>2 DEF vars, IInv, QueueInv
    <3>5. WorkerInv'
      BY Zenon, <2>2 DEF vars, IInv, WorkerInv
    <3>6. DeliverInv' /\ BarrierInv'
      BY Zenon, <2>2 DEF vars, IInv, DeliverInv, BarrierInv, Counted
    <3>7. WaitGroupExact'
      BY Zenon, <2>2 DEF vars, IInv, WaitGroupExact, Counted
    <3> QED
      BY <3>1, <3>2, <3>4, <3>5, <3>6, <3>7, <3>3 DEF IInv
  <2> QED
    BY <2>1, <2>2
<1> QED
  BY <1>1, <1>2, PTL DEF Spec

\* The type invariant of the client.
THEOREM TypeCorrect == Spec => []TypeOK
<1>1. IInv => TypeOK
  BY DEF IInv
<1> QED
  BY <1>1, Invariance, PTL

\* wgCommit always counts exactly the outstanding items: it never goes negative
\* and EndBlock and Commit never wait for an item that was answered.
THEOREM WaitGroupIsExact == Spec => []WaitGroupExact
<1>1. IInv => WaitGroupExact
  BY DEF IInv
<1> QED
  BY <1>1, Invariance, PTL

\* EndBlock and Commit never overlap a CheckTx or DeliverTx or their pre-checks.
THEOREM CommitRunsAlone == Spec => []CommitIsolated
<1>1. IInv => CommitIsolated
  <2> SUFFICES ASSUME IInv, phase \in Barriers, pc = "run", NEW i \in Items
               PROVE  stage[i] \notin {"add", "schedule", "work", "pre", "ready"}
    BY DEF CommitIsolated
  <2>1. stage[i] \notin {"schedule", "work", "pre", "ready"}
    BY DEF IInv, BarrierInv, Counted
  <2>2. stage[i] # "add"
    BY Zenon, ClientAssumption DEF IInv, LockInv, DeliverInv, Items, Barriers
  <2> QED
    BY <2>1, <2>2
<1> QED
  BY <1>1, Invariance, PTL

\* PreDeliverTx and DeliverTx run only while the block is open.
THEOREM DeliverStaysInBlock == Spec => []DeliverInOpenBlock
<1>1. IInv => DeliverInOpenBlock
  BY Zenon DEF IInv, DeliverInOpenBlock, DeliverInv, WorkerInv, Of, Kinds
<1> QED
  BY <1>1, Invariance, PTL

\* Once the barrier call holds checkTxMidLock no CheckTxAsync overtakes it.
THEOREM BarrierHasPriority == Spec => CommitPriority
<1>1. IInv /\ [Next]_vars =>
        [checkTxMidLock = Consensus => \A i \in CheckTxs : commitLock' = i => commitLock = i]_vars
  <2> SUFFICES ASSUME IInv, Next, checkTxMidLock = Consensus, NEW c \in CheckTxs,
                      commitLock' = c, commitLock # c
               PROVE  FALSE
    OBVIOUS
  <2>1. ASSUME NEW i \in CheckTxs, LockCommit(i) PROVE FALSE
    BY Zenon, <2>1, ClientAssumption DEF LockCommit, CallerFrame, IInv, LockInv, Items
  <2>2. \E i \in CheckTxs : LockCommit(i)
    <3>1. CASE \E i \in CheckTxs : CheckStep(i)
      BY Zenon, <3>1 DEF CheckStep, CheckTxAsync, LockLow, LockMid, lockVars
    <3>2. CASE \E i \in Items : Push(i) \/ PushOnClosed(i) \/ Add(i)
      BY Zenon, <3>2, ClientAssumption DEF Push, PushOnClosed, Add, Released, Items, lockVars
    <3>3. CASE \E i \in Items : ScheduleWork(i) \/ ScheduleSpawn(i) \/ PreDone(i)
      BY Zenon, <3>3 DEF ScheduleWork, ScheduleSpawn, PreDone, PoolFrame, lockVars
    <3>4. CASE \E k \in Kinds : PoolTake(k) \/ WorkerTake(k)
      BY ZenonT(60), <3>4 DEF PoolTake, WorkerTake, PoolFrame, WorkerFrame, lockVars
    <3>5. CASE \E k \in Kinds : WorkerExit(k) \/ WorkerWait(k)
      BY ZenonT(60), <3>5 DEF WorkerExit, WorkerWait, WorkerFrame, lockVars
    <3>6. CASE \E k \in Kinds : WorkerLock(k) \/ WorkerRun(k) \/ WorkerCallback(k)
      BY Zenon, <3>6 DEF WorkerLock, WorkerRun, WorkerCallback, WorkerFrame, lockVars
    <3>7. CASE ConsensusStep
      BY <3>7, ClientAssumption DEF ConsensusStep, DeliverTxAsync, BlockDelivered,
         BarrierLockMid, BarrierLockCommit, BarrierWait, ConsensusLock, ConsensusRun, Items
    <3>8. CASE OtherStep \/ Terminated
      BY ZenonT(60), <3>8 DEF OtherStep, QueryLock, QueryUnlock, ExclusiveCall, ExclusiveLock,
         ExclusiveRun, OnStop, OtherFrame, Terminated, lockVars, vars
    <3> QED
      BY Zenon, <3>1, <3>2, <3>3, <3>4, <3>6, <3>7, <3>8, <3>5 DEF Next, ItemStep, WorkerStep
  <2> QED
    BY <2>1, <2>2
<1> QED
  BY <1>1, Invariance, PTL DEF Spec, CommitPriority

\* OnStop takes commitLock before it closes the queues, so no CheckTxAsync is
\* between taking the lock and giving it back when they close.
THEOREM CallersSurviveClose == Spec => CloseSparesLockedCallers
<1>1. IInv /\ [Next]_vars =>
        [closed' # closed => \A i \in CheckTxs : stage[i] \notin {"push", "add"}]_vars
  <2> SUFFICES ASSUME IInv, Next, closed' # closed, NEW c \in CheckTxs
               PROVE  stage[c] \notin {"push", "add"}
    OBVIOUS
  <2>1. OnStop
    <3>1. CASE \E i \in CheckTxs : CheckStep(i)
      BY Zenon, <3>1 DEF CheckStep, CheckTxAsync, LockLow, LockMid, LockCommit, CallerFrame
    <3>2. CASE \E i \in Items : Push(i) \/ PushOnClosed(i) \/ Add(i)
      BY Zenon, <3>2 DEF Push, PushOnClosed, Add, CallerFrame
    <3>3. CASE \E i \in Items : ScheduleWork(i) \/ ScheduleSpawn(i) \/ PreDone(i)
      BY Zenon, <3>3 DEF ScheduleWork, ScheduleSpawn, PreDone, PoolFrame
    <3>4. CASE \E k \in Kinds : PoolTake(k) \/ WorkerTake(k)
      BY ZenonT(60), <3>4 DEF PoolTake, WorkerTake, PoolFrame, WorkerFrame
    <3>5. CASE \E k \in Kinds : WorkerExit(k) \/ WorkerWait(k)
      BY ZenonT(60), <3>5 DEF WorkerExit, WorkerWait, WorkerFrame
    <3>6. CASE \E k \in Kinds : WorkerLock(k) \/ WorkerRun(k) \/ WorkerCallback(k)
      BY Zenon, <3>6 DEF WorkerLock, WorkerRun, WorkerCallback, WorkerFrame
    <3>7. CASE ConsensusStep
      BY Zenon, <3>7 DEF ConsensusStep, DeliverTxAsync, BlockDelivered, BarrierLockMid,
         BarrierLockCommit, BarrierWait, ConsensusLock, ConsensusRun, ConsensusFrame
    <3>8. CASE OtherStep \/ Terminated
      BY Zenon, <3>8 DEF OtherStep, QueryLock, QueryUnlock, ExclusiveCall, ExclusiveLock,
         ExclusiveRun, Terminated, vars
    <3> QED
      BY <3>1, <3>2, <3>3, <3>4, <3>6, <3>7, <3>8, <3>5 DEF Next, ItemStep, WorkerStep
  <2> QED
    BY Zenon, <2>1, ClientAssumption DEF OnStop, MayClose, IInv, LockInv, Items
<1> QED
  BY <1>1, Invariance, PTL DEF Spec, CloseSparesLockedCallers

-----------------------------------------------------------------------------
(* EndBlock runs after every transaction of the block was executed once    *)
(* and in the order of the block.                                          *)

(* The facts about sequences that the argument uses.                       *)
LEMMA LengthOfSeq ==
  ASSUME NEW S, NEW s \in Seq(S)
  PROVE Len(s) \in Nat
OBVIOUS

(* A queue of items holds items.                                           *)
LEMMA MemberOfSeq ==
  ASSUME NEW S, NEW s \in Seq(S), NEW a \in 1 .. Len(s)
  PROVE s[a] \in S
OBVIOUS

(* Two sequences that agree at every place are the same.                   *)
LEMMA SameSeq ==
  ASSUME NEW S, NEW s \in Seq(S), NEW t \in Seq(S), Len(s) = Len(t),
         \A a \in 1 .. Len(s) : s[a] = t[a]
  PROVE s = t
OBVIOUS

\* A delivered item between the send on deliverTxQueue and its execution.
Active == {"add", "schedule", "work", "pre", "ready"}

\* Whether deliverTxWorker holds an item, and whether DeliverTxAsync has one
\* that it has not sent, as numbers of items.
HeldByWorker == IF wpc["deliver"] \in {"wait", "lock", "run"} THEN 1 ELSE 0
HeldByCaller == IF \E d \in DeliverTxs : stage[d] = "push" THEN 1 ELSE 0

\* The block is what was executed, followed by the worker's item, the queue
\* and the caller's item.
OrderInv ==
  /\ Len(block) = Len(executed) + HeldByWorker + Len(queue["deliver"]) + HeldByCaller
  /\ \A a \in 1 .. Len(executed) : block[a] = executed[a]
  /\ HeldByWorker = 1 => block[Len(executed) + 1] = witem["deliver"]
  /\ \A a \in 1 .. Len(queue["deliver"]) :
       block[Len(executed) + HeldByWorker + a] = queue["deliver"][a]
  /\ \A d \in DeliverTxs : stage[d] = "push" => block[Len(block)] = d

\* What is held is on its way, and no transaction is in the block twice.
HeldInv ==
  /\ HeldByWorker = 1 => stage[witem["deliver"]] \in Active
  /\ \A a \in 1 .. Len(queue["deliver"]) : stage[queue["deliver"][a]] \in Active
  /\ \A a \in 1 .. Len(block) : block[a] \in DeliverTxs /\ stage[block[a]] # "new"
  /\ \A a, b \in 1 .. Len(block) : block[a] = block[b] => a = b

BlockInv == OrderInv /\ HeldInv

\* A step that moves no item of the block between the caller, the queue, the
\* worker and the executed ones keeps the invariant.
LEMMA BlockFrame ==
  ASSUME IInv, BlockInv,
         queue'["deliver"] = queue["deliver"],
         HeldByWorker' = HeldByWorker,
         HeldByWorker = 1 => witem'["deliver"] = witem["deliver"],
         block' = block, executed' = executed,
         \A d \in DeliverTxs : \/ stage'[d] = stage[d]
                               \/ stage[d] \in Active /\ stage'[d] \in Active
  PROVE  BlockInv'
<1>1. HeldByCaller' = HeldByCaller
  BY DEF HeldByCaller, Active
<1>2. OrderInv'
  BY <1>1 DEF BlockInv, OrderInv, Active
<1>3. \A a \in 1 .. Len(queue["deliver"]) : queue["deliver"][a] \in DeliverTxs
  BY DEF IInv, QueueInv, TypeOK, Kinds, Of
<1>4. HeldByWorker = 1 => witem["deliver"] \in DeliverTxs
  BY DEF HeldByWorker, IInv, WorkerInv, Kinds, Of
<1>5. HeldInv'
  BY <1>3, <1>4 DEF BlockInv, HeldInv, Active
<1> QED
  BY <1>2, <1>5 DEF BlockInv

\* The steps of the callers and of the pools move no item of the block, but for
\* the send on deliverTxQueue.
LEMMA CallerStep ==
  ASSUME IInv, BlockInv,
         \/ \E i \in CheckTxs : CheckStep(i) \/ Push(i)
         \/ \E i \in Items : \/ PushOnClosed(i) \/ Add(i) \/ ScheduleWork(i)
                             \/ ScheduleSpawn(i) \/ PreDone(i)
         \/ \E k \in Kinds : PoolTake(k)
  PROVE  BlockInv'
<1>1. /\ wpc' = wpc /\ witem' = witem /\ block' = block /\ executed' = executed
      /\ queue'["deliver"] = queue["deliver"]
  <2> USE DEF poolVars, workerVars, consVars, CallerFrame, PoolFrame
  <2>1. ASSUME NEW i \in CheckTxs, Push(i)
        PROVE  /\ wpc' = wpc /\ witem' = witem /\ block' = block /\ executed' = executed
               /\ queue'["deliver"] = queue["deliver"]
    BY <2>1 DEF Push, Kind, IInv, TypeOK, Kinds
  <2>2. ASSUME NEW i \in CheckTxs, CheckStep(i)
        PROVE  UNCHANGED <<wpc, witem, block, executed, queue>>
    <3>1. CASE CheckTxAsync(i) \/ LockLow(i)
      BY <3>1 DEF CheckTxAsync, LockLow
    <3>2. CASE LockMid(i) \/ LockCommit(i)
      BY <3>2 DEF LockMid, LockCommit
    <3> QED
      BY <2>2, <3>1, <3>2 DEF CheckStep
  <2>3. ASSUME NEW i \in Items, \/ PushOnClosed(i) \/ Add(i) \/ ScheduleWork(i)
                                \/ ScheduleSpawn(i) \/ PreDone(i)
        PROVE  UNCHANGED <<wpc, witem, block, executed, queue>>
    <3>1. CASE PushOnClosed(i) \/ Add(i)
      BY <3>1 DEF PushOnClosed, Add
    <3>2. CASE ScheduleWork(i) \/ ScheduleSpawn(i) \/ PreDone(i)
      BY Zenon, <3>2 DEF ScheduleWork, ScheduleSpawn, PreDone
    <3> QED
      BY <2>3, <3>1, <3>2
  <2>4. ASSUME NEW k \in Kinds, PoolTake(k)
        PROVE  UNCHANGED <<wpc, witem, block, executed, queue>>
    BY Zenon, <2>4 DEF PoolTake
  <2> QED
    BY <2>1, <2>2, <2>3, <2>4
<1>a. stage \in [Items -> Stages] /\ \A i \in CheckTxs : i \notin DeliverTxs
  BY Zenon, ClientAssumption DEF IInv, TypeOK
<1> USE ClientAssumption DEF IInv, TypeOK, Items, Kinds, Kind, Active
<1>2. \A d \in DeliverTxs : \/ stage'[d] = stage[d]
                            \/ stage[d] \in Active /\ stage'[d] \in Active
  <2>1. CASE \E i \in CheckTxs : CheckStep(i) \/ Push(i)
    <3>1. PICK i \in CheckTxs : CheckStep(i) \/ Push(i)
      BY <2>1
    <3>2. \E x : stage' = [stage EXCEPT ![i] = x]
      <4> HIDE DEF IInv, TypeOK
      <4> QED
        BY Zenon, <3>1 DEF CheckStep, CheckTxAsync, LockLow, LockMid, LockCommit, Push
    <3>3. \A d \in DeliverTxs : stage'[d] = stage[d]
      BY ONLY <1>a, <3>1, <3>2, Zenon DEF Items
    <3> QED
      BY ONLY <3>3
  <2>2. CASE \E i \in Items : \/ PushOnClosed(i) \/ Add(i) \/ ScheduleWork(i)
                              \/ ScheduleSpawn(i) \/ PreDone(i)
    BY Zenon, <2>2 DEF PushOnClosed, Add, ScheduleWork, ScheduleSpawn, PreDone, AfterPre
  <2>3. ASSUME NEW k \in Kinds, PoolTake(k)
        PROVE  \A d \in DeliverTxs : \/ stage'[d] = stage[d]
                                     \/ stage[d] \in Active /\ stage'[d] \in Active
    <3>1. stage[Head(work[k])] = "work"
      BY <2>3, HeadTail DEF PoolTake, WorkInv
    <3> QED
      BY Zenon, <2>3, <3>1 DEF PoolTake
  <2> QED
    BY Zenon, <2>1, <2>2, <2>3
<1> HIDE DEF IInv, Active
<1> QED
  BY <1>1, <1>2, BlockFrame DEF HeldByWorker

\* The send moves the caller's item to the end of the queue.
LEMMA SendStep ==
  ASSUME IInv, BlockInv, NEW i \in DeliverTxs, Push(i)
  PROVE  BlockInv'
<1> DEFINE q == queue["deliver"]
<1>1. /\ stage' = [stage EXCEPT ![i] = "add"] /\ stage[i] = "push"
      /\ UNCHANGED <<wpc, witem, block, executed>>
      /\ queue'["deliver"] = Append(q, i)
  BY Zenon, ClientAssumption DEF Push, CallerFrame, workerVars, consVars, Kind, IInv, TypeOK, Kinds
<1>2. /\ stage \in [Items -> Stages] /\ DeliverTxs \subseteq Items /\ i \in Items
      /\ q \in Seq(Items) /\ block \in Seq(Items) /\ executed \in Seq(Items)
  BY DEF IInv, TypeOK, Items, Kinds
<1>3. HeldByWorker' = HeldByWorker /\ HeldByWorker \in {0, 1}
  BY <1>1 DEF HeldByWorker
<1>4. {Len(q), Len(block), Len(executed), HeldByWorker} \subseteq Nat
  BY <1>2, <1>3, LengthOfSeq
<1>5. HeldByCaller = 1
  BY <1>1 DEF HeldByCaller
<1>6. \A d \in DeliverTxs : stage'[d] # "push"
  BY <1>1, <1>2 DEF BlockInv, OrderInv
<1>7. HeldByCaller' = 0
  BY <1>6 DEF HeldByCaller
<1>8. /\ Len(Append(q, i)) = Len(q) + 1 /\ Append(q, i)[Len(q) + 1] = i
      /\ \A a \in 1 .. Len(q) : Append(q, i)[a] = q[a]
  BY <1>2
<1>9. \A a \in 1 .. Len(q) + 1 :
        block[Len(executed) + HeldByWorker + a] = Append(q, i)[a]
  <2>1. block[Len(executed) + HeldByWorker + (Len(q) + 1)] = i
    <3>1. block[Len(block)] = i
      BY <1>1 DEF BlockInv, OrderInv
    <3>2. Len(block) = Len(executed) + HeldByWorker + Len(q) + 1
      BY <1>5 DEF BlockInv, OrderInv
    <3>3. Len(block) = Len(executed) + HeldByWorker + (Len(q) + 1)
      BY <1>4, <3>2
    <3> QED
      BY <3>1, <3>3
  <2>2. \A a \in 1 .. Len(q) : block[Len(executed) + HeldByWorker + a] = Append(q, i)[a]
    BY <1>8 DEF BlockInv, OrderInv
  <2> QED
    BY <1>2, <1>8, <2>1, <2>2
<1>10. OrderInv'
  <2>1. Len(block) = Len(executed) + HeldByWorker + (Len(q) + 1) + 0
    <3>1. Len(block) = Len(executed) + HeldByWorker + Len(q) + 1
      BY <1>5 DEF BlockInv, OrderInv
    <3> QED
      BY <1>4, <3>1
  <2>2. \A a \in 1 .. Len(executed) : block[a] = executed[a]
    BY DEF BlockInv, OrderInv
  <2>3. HeldByWorker = 1 => block[Len(executed) + 1] = witem["deliver"]
    BY ZenonT(60) DEF BlockInv, OrderInv
  <2> HIDE DEF q
  <2> QED
    BY <1>1, <1>3, <1>6, <1>7, <1>8, <1>9, <2>1, <2>2, <2>3 DEF OrderInv
<1>11. HeldInv'
  <2>1. \A d \in Items : stage'[d] = IF d = i THEN "add" ELSE stage[d]
    BY <1>1, <1>2
  <2>2. \A a \in 1 .. Len(q) : q[a] \in DeliverTxs
    BY <1>2 DEF IInv, QueueInv, Kinds, Of
  <2>3. HeldByWorker = 1 => witem["deliver"] \in DeliverTxs
    BY DEF HeldByWorker, IInv, WorkerInv, Kinds, Of
  <2>4. \A a \in 1 .. Len(q) + 1 : stage'[Append(q, i)[a]] \in Active
    <3>1. \A a \in 1 .. Len(q) : stage[q[a]] \in Active
      BY Zenon DEF BlockInv, HeldInv
    <3>2. ASSUME NEW a \in 1 .. Len(q) PROVE stage'[Append(q, i)[a]] \in Active
      <4>1. q[a] \in Items /\ stage'[q[a]] \in {"add", stage[q[a]]}
        BY Zenon, <1>2, <2>1, <2>2
      <4> QED
        BY Zenon, <1>8, <3>1, <4>1 DEF Active
    <3>3. stage'[Append(q, i)[Len(q) + 1]] \in Active
      BY Zenon, <1>2, <1>8, <2>1 DEF Active
    <3>4. \A a \in 1 .. Len(q) + 1 : a \in 1 .. Len(q) \/ a = Len(q) + 1
      <4> HIDE DEF q
      <4> QED
        BY ONLY <1>4
    <3> QED
      BY Zenon, <3>2, <3>3, <3>4
  <2> QED
    BY <1>1, <1>2, <1>3, <1>8, <2>1, <2>3, <2>4 DEF BlockInv, HeldInv, Active
<1> QED
  BY <1>10, <1>11 DEF BlockInv

\* deliverTxWorker takes the first item of the queue.
LEMMA TakeStep ==
  ASSUME IInv, BlockInv, WorkerTake("deliver")
  PROVE  BlockInv'
<1> DEFINE q == queue["deliver"]
<1>1. /\ UNCHANGED <<stage, block, executed>>
      /\ q # <<>> /\ queue'["deliver"] = Tail(q) /\ witem'["deliver"] = Head(q)
      /\ wpc["deliver"] = "take" /\ wpc'["deliver"] = "wait"
  BY DEF WorkerTake, WorkerFrame, consVars, IInv, TypeOK, Kinds
<1>2. q \in Seq(Items) /\ block \in Seq(Items) /\ executed \in Seq(Items)
  BY DEF IInv, TypeOK, Kinds
<1>3. HeldByWorker = 0 /\ HeldByWorker' = 1 /\ HeldByCaller' = HeldByCaller
  BY <1>1 DEF HeldByWorker, HeldByCaller
<1>4. /\ Len(Tail(q)) = Len(q) - 1 /\ Len(q) >= 1 /\ Head(q) = q[1]
      /\ \A a \in 1 .. Len(q) - 1 : Tail(q)[a] = q[a + 1]
  BY <1>1, <1>2
<1>5. HeldByCaller \in {0, 1}
  BY DEF HeldByCaller
<1>6. {Len(q), Len(block), Len(executed), HeldByCaller} \subseteq Nat
  BY <1>2, <1>5, LengthOfSeq
<1>7. OrderInv'
  <2>1. block[Len(executed) + 1] = Head(q)
    BY <1>2, <1>3, <1>4 DEF BlockInv, OrderInv
  <2>2. \A a \in 1 .. Len(q) - 1 : block[Len(executed) + 1 + a] = Tail(q)[a]
    <3> SUFFICES ASSUME NEW a \in 1 .. Len(q) - 1
                 PROVE  block[Len(executed) + 1 + a] = Tail(q)[a]
      OBVIOUS
    <3>1. a + 1 \in 1 .. Len(q) /\ Len(executed) + 0 + (a + 1) = Len(executed) + 1 + a
      BY <1>2
    <3>2. block[Len(executed) + 0 + (a + 1)] = q[a + 1]
      BY <1>3, <3>1 DEF BlockInv, OrderInv
    <3> QED
      BY <1>4, <3>1, <3>2
  <2> QED
    <3>1. Len(block) = Len(executed) + 1 + (Len(q) - 1) + HeldByCaller
      <4>1. Len(block) = Len(executed) + 0 + Len(q) + HeldByCaller
        BY <1>3 DEF BlockInv, OrderInv
      <4>2. \A x, y, z \in Nat : x + 0 + y + z = x + 1 + (y - 1) + z
        OBVIOUS
      <4> QED
        BY ZenonT(60), <1>6, <4>1, <4>2
    <3>2. /\ \A a \in 1 .. Len(executed) : block[a] = executed[a]
          /\ \A d \in DeliverTxs : stage[d] = "push" => block[Len(block)] = d
      BY DEF BlockInv, OrderInv
    <3> HIDE DEF q
    <3> QED
      BY <1>1, <1>3, <1>4, <2>1, <2>2, <3>1, <3>2 DEF OrderInv
<1>8. HeldInv'
  <2>1. /\ \A a \in 1 .. Len(q) : stage[q[a]] \in Active
        /\ \A a \in 1 .. Len(block) : block[a] \in DeliverTxs /\ stage[block[a]] # "new"
        /\ \A a, b \in 1 .. Len(block) : block[a] = block[b] => a = b
    BY DEF BlockInv, HeldInv
  <2>2. \A a \in 1 .. Len(q) - 1 : stage[Tail(q)[a]] \in Active
    BY <1>2, <1>4, <2>1
  <2>3. stage[Head(q)] \in Active
    BY <1>2, <1>4, <2>1
  <2> HIDE DEF q
  <2> QED
    BY <1>1, <1>4, <2>1, <2>2, <2>3 DEF HeldInv
<1> QED
  BY <1>7, <1>8 DEF BlockInv

\* deliverTxWorker executes its item.
LEMMA RunStep ==
  ASSUME IInv, BlockInv, WorkerRun("deliver")
  PROVE  BlockInv'
<1> DEFINE q == queue["deliver"]
           w == witem["deliver"]
           n == Len(executed)
<1>1. /\ UNCHANGED <<queue, witem, block>>
      /\ stage' = [stage EXCEPT ![w] = "done"] /\ executed' = Append(executed, w)
      /\ wpc["deliver"] = "run" /\ wpc'["deliver"] = "callback"
  BY DEF WorkerRun, WorkerFrame, consVars, IInv, TypeOK, Kinds
<1>2. /\ q \in Seq(Items) /\ block \in Seq(Items) /\ executed \in Seq(Items)
      /\ stage \in [Items -> Stages] /\ DeliverTxs \subseteq Items
  BY DEF IInv, TypeOK, Kinds, Items
<1>3. w \in DeliverTxs /\ w \in Items /\ stage[w] = "ready"
  BY <1>1, <1>2 DEF IInv, WorkerInv, Kinds, Of
<1>4. \A d \in Items : stage'[d] = IF d = w THEN "done" ELSE stage[d]
  BY <1>1, <1>2
<1>5. HeldByWorker = 1 /\ HeldByWorker' = 0 /\ HeldByCaller' = HeldByCaller
  <2>1. HeldByWorker = 1 /\ HeldByWorker' = 0
    BY <1>1 DEF HeldByWorker
  <2>2. \A d \in DeliverTxs : stage'[d] = "push" <=> stage[d] = "push"
    BY <1>2, <1>3, <1>4
  <2> QED
    BY <2>1, <2>2 DEF HeldByCaller
<1>6. {Len(q), Len(block), n, HeldByCaller} \subseteq Nat
  <2>1. HeldByCaller \in Nat
    BY DEF HeldByCaller
  <2> QED
    BY <1>2, <2>1, LengthOfSeq
<1>7. /\ Len(block) = n + 1 + Len(q) + HeldByCaller
      /\ \A a \in 1 .. n : block[a] = executed[a]
      /\ block[n + 1] = w
      /\ \A a \in 1 .. Len(q) : block[n + 1 + a] = q[a]
      /\ \A d \in DeliverTxs : stage[d] = "push" => block[Len(block)] = d
  BY ZenonT(60), <1>5 DEF BlockInv, OrderInv
<1>8. /\ Len(Append(executed, w)) = n + 1 /\ Append(executed, w)[n + 1] = w
      /\ \A a \in 1 .. n : Append(executed, w)[a] = executed[a]
  BY <1>2, <1>3
<1>9. OrderInv'
  <2>1. \A a \in 1 .. n + 1 : block[a] = Append(executed, w)[a]
    <3>1. \A a \in 1 .. n + 1 : a \in 1 .. n \/ a = n + 1
      BY <1>6
    <3> QED
      BY ZenonT(60), <1>7, <1>8, <3>1
  <2>2. /\ Len(block) = n + 1 + 0 + Len(q) + HeldByCaller
        /\ \A a \in 1 .. Len(q) : block[n + 1 + 0 + a] = q[a]
    <3>1. n + 1 + 0 = n + 1
      BY <1>6
    <3> QED
      BY ZenonT(60), <1>7, <3>1
  <2>3. \A d \in DeliverTxs : stage'[d] = "push" => block[Len(block)] = d
    BY ZenonT(60), <1>2, <1>4, <1>7
  <2> HIDE DEF q, w, n
  <2>4. Len(executed') = n + 1
    BY <1>1, <1>8
  <2> QED
    BY <1>1, <1>5, <2>1, <2>2, <2>3, <2>4 DEF OrderInv, q
<1>10. HeldInv'
  <2>1. \A a \in 1 .. Len(q) : q[a] # w /\ q[a] \in Items
    <3> SUFFICES ASSUME NEW a \in 1 .. Len(q) PROVE q[a] # w /\ q[a] \in Items
      OBVIOUS
    <3>1. n + 1 \in 1 .. Len(block) /\ n + 1 + a \in 1 .. Len(block) /\ n + 1 # n + 1 + a
      <4>1. \A x, y, z \in Nat : \A b \in 1 .. y :
              /\ x + 1 \in 1 .. (x + 1 + y + z) /\ x + 1 + b \in 1 .. (x + 1 + y + z)
              /\ x + 1 # x + 1 + b
        OBVIOUS
      <4>2. Len(block) = n + 1 + Len(q) + HeldByCaller
        BY <1>7
      <4> HIDE DEF q, n
      <4> QED
        BY <1>6, <4>1, <4>2
    <3>2. block[n + 1] # block[n + 1 + a]
      BY <3>1 DEF BlockInv, HeldInv
    <3>3. q[a] = block[n + 1 + a] /\ w = block[n + 1]
      BY ZenonT(60), <1>7
    <3>4. q[a] \in Items
      BY <1>2, MemberOfSeq
    <3> QED
      BY <3>2, <3>3, <3>4
  <2>2. \A a \in 1 .. Len(q) : stage'[q[a]] \in Active
    BY <1>4, <2>1 DEF BlockInv, HeldInv
  <2>3. \A a \in 1 .. Len(block) : block[a] \in DeliverTxs /\ stage'[block[a]] # "new"
    BY <1>2, <1>4 DEF BlockInv, HeldInv
  <2>4. \A a, b \in 1 .. Len(block) : block[a] = block[b] => a = b
    BY DEF BlockInv, HeldInv
  <2> HIDE DEF w, n
  <2> QED
    BY <1>1, <1>5, <2>2, <2>3, <2>4 DEF HeldInv
<1> QED
  BY <1>9, <1>10 DEF BlockInv

\* The other steps of the workers move no item of the block.
LEMMA WorkerOtherStep ==
  ASSUME IInv, BlockInv, NEW k \in Kinds, WorkerStep(k),
         k = "deliver" => ~WorkerTake(k) /\ ~WorkerRun(k)
  PROVE  BlockInv'
<1> USE DEF IInv, TypeOK, Kinds, WorkerFrame, consVars
<1>1. CASE k = "deliver"
  <2>1. /\ UNCHANGED <<stage, block, executed, queue>>
        /\ HeldByWorker' = HeldByWorker
        /\ HeldByWorker = 1 => witem'["deliver"] = witem["deliver"]
    <3>1. CASE WorkerExit(k)
      BY <1>1, <3>1 DEF WorkerExit, HeldByWorker
    <3>2. CASE WorkerWait(k)
      BY <1>1, <3>2 DEF WorkerWait, HeldByWorker
    <3>3. CASE WorkerLock(k)
      BY <1>1, <3>3 DEF WorkerLock, HeldByWorker
    <3>4. CASE WorkerCallback(k)
      BY <1>1, <3>4 DEF WorkerCallback, HeldByWorker
    <3> HIDE DEF IInv, TypeOK, Kinds, WorkerFrame, consVars
    <3> QED
      BY <1>1, <3>1, <3>2, <3>3, <3>4, Zenon DEF WorkerStep
  <2> HIDE DEF IInv
  <2> QED
    BY <2>1, BlockFrame
<1>2. CASE k = "check"
  <2>1. /\ UNCHANGED <<block, executed>> /\ queue'["deliver"] = queue["deliver"]
        /\ wpc'["deliver"] = wpc["deliver"] /\ witem'["deliver"] = witem["deliver"]
    <3>1. CASE WorkerTake(k) \/ WorkerExit(k)
      BY Zenon, <1>2, <3>1 DEF WorkerTake, WorkerExit
    <3>2. CASE WorkerWait(k) \/ WorkerLock(k)
      BY Zenon, <1>2, <3>2 DEF WorkerWait, WorkerLock
    <3>3. CASE WorkerRun(k) \/ WorkerCallback(k)
      BY Zenon, <1>2, <3>3 DEF WorkerRun, WorkerCallback
    <3> HIDE DEF IInv, TypeOK, WorkerFrame
    <3> QED
      BY Zenon, <3>1, <3>2, <3>3 DEF WorkerStep
  <2>2. \A d \in DeliverTxs : stage'[d] = stage[d]
    <3>1. CASE WorkerRun(k)
      <4>1. stage' = [stage EXCEPT ![witem["check"]] = "done"] /\ witem["check"] \in CheckTxs
        BY Zenon, <1>2, <3>1 DEF WorkerRun, WorkerInv, Of
      <4> QED
        BY <4>1, ClientAssumption
    <3>2. CASE ~WorkerRun(k)
      <4>1. stage' = stage
        <5> HIDE DEF IInv, TypeOK
        <5> QED
          BY Zenon, <3>2 DEF WorkerStep, WorkerTake, WorkerExit, WorkerWait, WorkerLock, WorkerCallback
      <4> QED
        BY Zenon, <4>1
    <3> QED
      BY <3>1, <3>2
  <2> HIDE DEF IInv
  <2> QED
    BY Zenon, <2>1, <2>2, BlockFrame DEF HeldByWorker
<1> QED
  BY <1>1, <1>2

\* DeliverTxAsync adds a new transaction to the block and has it to send.
LEMMA CallStep ==
  ASSUME IInv, BlockInv, NEW d \in DeliverTxs, DeliverTxAsync(d)
  PROVE  BlockInv'
<1> DEFINE q == queue["deliver"]
           n == Len(executed)
           new == Append(block, d)
<1>1. /\ UNCHANGED <<queue, wpc, witem, executed>> /\ block' = new
      /\ stage' = [stage EXCEPT ![d] = "push"] /\ stage[d] = "new"
      /\ \A e \in DeliverTxs : stage[e] # "push"
  BY DEF DeliverTxAsync, ConsensusFrame, BetweenCalls, workerVars
<1>2. /\ q \in Seq(Items) /\ block \in Seq(Items) /\ executed \in Seq(Items)
      /\ stage \in [Items -> Stages] /\ DeliverTxs \subseteq Items /\ d \in Items
  BY Zenon DEF IInv, TypeOK, Kinds, Items
<1>3. \A e \in Items : stage'[e] = IF e = d THEN "push" ELSE stage[e]
  BY <1>1, <1>2
<1>4. HeldByWorker' = HeldByWorker /\ HeldByCaller = 0 /\ HeldByCaller' = 1
  BY <1>1, <1>2, <1>3 DEF HeldByWorker, HeldByCaller
<1>5. {Len(q), Len(block), n, HeldByWorker} \subseteq Nat
  <2>1. HeldByWorker \in Nat
    BY DEF HeldByWorker
  <2> QED
    BY <1>2, <2>1, LengthOfSeq
<1>6. Len(block) = n + HeldByWorker + Len(q) + 0
  BY <1>4 DEF BlockInv, OrderInv
<1>7. /\ Len(new) = Len(block) + 1 /\ new[Len(block) + 1] = d
      /\ \A a \in 1 .. Len(block) : new[a] = block[a]
  BY <1>2
<1>8. OrderInv'
  <2>1. \A x, y, z \in Nat : x + y + z + 0 + 1 = x + y + z + 1
    OBVIOUS
  <2>2. Len(new) = n + HeldByWorker + Len(q) + 1
    BY <1>5, <1>6, <1>7, <2>1
  <2>3. \A a \in 1 .. n : new[a] = executed[a]
    <3>1. \A x, y, z \in Nat : \A a \in 1 .. x : a \in 1 .. (x + y + z + 0)
      OBVIOUS
    <3>2. \A a \in 1 .. n : a \in 1 .. Len(block)
      BY <1>5, <1>6, <3>1
    <3> QED
      BY <1>7, <3>2 DEF BlockInv, OrderInv
  <2>4. HeldByWorker = 1 => new[n + 1] = witem["deliver"]
    <3>1. HeldByWorker = 1 => n + 1 \in 1 .. Len(block)
      <4>1. \A x, z \in Nat : x + 1 \in 1 .. (x + 1 + z + 0)
        OBVIOUS
      <4> QED
        BY ZenonT(60), <1>5, <1>6, <4>1
    <3> QED
      BY ZenonT(60), <1>7, <3>1 DEF BlockInv, OrderInv
  <2>5. \A a \in 1 .. Len(q) : new[n + HeldByWorker + a] = q[a]
    <3>1. \A x, y, z \in Nat : \A a \in 1 .. z : x + y + a \in 1 .. (x + y + z + 0)
      OBVIOUS
    <3>2. \A a \in 1 .. Len(q) : n + HeldByWorker + a \in 1 .. Len(block)
      BY <1>5, <1>6, <3>1
    <3> QED
      BY Zenon, <1>7, <3>2 DEF BlockInv, OrderInv
  <2>6. \A e \in DeliverTxs : stage'[e] = "push" => new[Len(new)] = e
    BY <1>1, <1>2, <1>3, <1>7
  <2> HIDE DEF new, n, q
  <2> QED
    BY Zenon, <1>1, <1>4, <2>2, <2>3, <2>4, <2>5, <2>6 DEF OrderInv, n, q
<1>9. HeldInv'
  <2>1. /\ HeldByWorker = 1 => stage[witem["deliver"]] \in Active
        /\ \A a \in 1 .. Len(q) : stage[q[a]] \in Active
        /\ \A a \in 1 .. Len(block) : block[a] \in DeliverTxs /\ stage[block[a]] # "new"
        /\ \A a, b \in 1 .. Len(block) : block[a] = block[b] => a = b
    BY Zenon DEF BlockInv, HeldInv
  <2>2. HeldByWorker = 1 => stage'[witem["deliver"]] \in Active
    <3>1. HeldByWorker = 1 => witem["deliver"] \in DeliverTxs
      BY DEF HeldByWorker, IInv, WorkerInv, Kinds, Of
    <3> QED
      BY Zenon, <1>1, <1>2, <1>3, <2>1, <3>1 DEF Active
  <2>3. \A a \in 1 .. Len(q) : stage'[q[a]] \in Active
    <3>1. \A a \in 1 .. Len(q) : q[a] \in Items
      BY <1>2, MemberOfSeq
    <3> QED
      BY <1>1, <1>3, <2>1, <3>1 DEF Active
  <2>4. \A a \in 1 .. Len(new) : a \in 1 .. Len(block) \/ a = Len(block) + 1
    BY <1>5, <1>7
  <2>5. \A a \in 1 .. Len(new) : new[a] \in DeliverTxs /\ stage'[new[a]] # "new"
    BY <1>2, <1>3, <1>7, <2>1, <2>4
  <2>6. \A a, b \in 1 .. Len(new) : new[a] = new[b] => a = b
    BY <1>1, <1>7, <2>1, <2>4
  <2> HIDE DEF new
  <2> QED
    BY Zenon, <1>1, <1>4, <2>2, <2>3, <2>5, <2>6 DEF HeldInv
<1> QED
  BY <1>8, <1>9 DEF BlockInv

\* Between EndBlock's wait and the next BeginBlock nothing of the block is held.
LEMMA NothingHeld ==
  ASSUME IInv, BlockInv, \A d \in DeliverTxs : stage[d] \in {"new", "done"}
  PROVE  queue["deliver"] = <<>> /\ HeldByWorker = 0 /\ HeldByCaller = 0
<1>1. HeldByCaller = 0
  BY DEF HeldByCaller
<1>2. HeldByWorker = 0
  <2>1. wpc["deliver"] \in {"wait", "lock", "run"} => witem["deliver"] \in DeliverTxs
    BY DEF IInv, WorkerInv, Kinds, Of
  <2> QED
    BY <2>1 DEF HeldByWorker, BlockInv, HeldInv, Active
<1>3. queue["deliver"] = <<>>
  <2>1. queue["deliver"] \in Seq(Items)
    BY DEF IInv, TypeOK, Kinds
  <2>2. queue["deliver"] # <<>> => 1 \in 1 .. Len(queue["deliver"]) /\ 1 \in DOMAIN queue["deliver"]
    BY <2>1
  <2>3. queue["deliver"] # <<>> => queue["deliver"][1] \in DeliverTxs
    BY <2>2 DEF IInv, QueueInv, Kinds, Of
  <2> QED
    BY <2>2, <2>3 DEF BlockInv, HeldInv, Active
<1> QED
  BY <1>1, <1>2, <1>3

\* The other steps of the consensus thread hold nothing of the block; the last
\* one of a height starts the next block.
LEMMA ConsensusOtherStep ==
  ASSUME IInv, BlockInv,
         \/ BlockDelivered \/ BarrierLockMid \/ BarrierLockCommit \/ BarrierWait
         \/ ConsensusLock \/ ConsensusRun
  PROVE  BlockInv'
<1>1. UNCHANGED <<stage, queue, wpc, witem>>
  BY DEF BlockDelivered, BarrierLockMid, BarrierLockCommit, BarrierWait, ConsensusLock,
     ConsensusRun, ConsensusFrame, workerVars
<1>2. CASE UNCHANGED <<block, executed>>
  BY <1>1, <1>2, BlockFrame DEF HeldByWorker
<1>3. CASE ~UNCHANGED <<block, executed>>
  <2>1. phase = "ReCheckTx" /\ block' = <<>> /\ executed' = <<>>
    BY <1>3 DEF BlockDelivered, BarrierLockMid, BarrierLockCommit, BarrierWait, ConsensusLock,
       ConsensusRun
  <2>2. \A d \in DeliverTxs : stage[d] \in {"new", "done"}
    BY <2>1 DEF IInv, DeliverInv
  <2>3. queue["deliver"] = <<>> /\ HeldByWorker = 0 /\ HeldByCaller = 0
    BY <2>2, NothingHeld
  <2>4. queue'["deliver"] = <<>> /\ HeldByWorker' = 0 /\ HeldByCaller' = 0
    BY <1>1, <2>3 DEF HeldByWorker, HeldByCaller
  <2>5. \A d \in DeliverTxs : stage'[d] # "push"
    BY <1>1, <2>2
  <2> QED
    BY <2>1, <2>4, <2>5 DEF BlockInv, OrderInv, HeldInv
<1> QED
  BY <1>2, <1>3

\* The block is always what was executed, followed by what is on its way.
THEOREM BlockInvariance == Spec => []BlockInv
<1>1. Init => BlockInv
  BY DEF Init, BlockInv, OrderInv, HeldInv, HeldByWorker, HeldByCaller, Items, Kinds
<1>2. IInv /\ BlockInv /\ [Next]_vars => BlockInv'
  <2> SUFFICES ASSUME IInv, BlockInv, [Next]_vars PROVE BlockInv'
    OBVIOUS
  <2>1. CASE \E i \in Items : ItemStep(i)
    BY <2>1, CallerStep, SendStep DEF ItemStep, Items
  <2>2. CASE (\E i \in CheckTxs : CheckStep(i)) \/ (\E k \in Kinds : PoolTake(k))
    BY <2>2, CallerStep
  <2>3. CASE \E k \in Kinds : WorkerStep(k)
    BY <2>3, TakeStep, RunStep, WorkerOtherStep
  <2>4. CASE ConsensusStep
    BY <2>4, CallStep, ConsensusOtherStep DEF ConsensusStep
  <2>5. CASE OtherStep \/ Terminated \/ UNCHANGED vars
    <3> DEFINE Kept == UNCHANGED <<stage, queue, wpc, witem, block, executed>>
    <3>1. ASSUME NEW q \in Queriers, QueryLock(q) \/ QueryUnlock(q) PROVE Kept
      BY <3>1 DEF QueryLock, QueryUnlock, OtherFrame, workerVars, consVars
    <3>2. ASSUME NEW x \in Exclusives, ExclusiveCall(x) \/ ExclusiveLock(x) \/ ExclusiveRun(x)
          PROVE  Kept
      BY Zenon, <3>2 DEF ExclusiveCall, ExclusiveLock, ExclusiveRun, OtherFrame, workerVars, consVars
    <3>3. ASSUME OnStop \/ Terminated \/ UNCHANGED vars PROVE Kept
      BY Zenon, <3>3 DEF OnStop, OtherFrame, Terminated, vars, workerVars, consVars
    <3>4. Kept
      BY <2>5, <3>1, <3>2, <3>3 DEF OtherStep
    <3> QED
      BY <3>4, BlockFrame DEF HeldByWorker
  <2> QED
    BY <2>1, <2>2, <2>3, <2>4, <2>5 DEF Next
<1> QED
  BY <1>1, <1>2, Invariance, PTL DEF Spec

\* When EndBlock runs, deliverTxWorker has executed exactly the transactions of
\* the block, in their order.
THEOREM BlocksExecuteInOrder == Spec => []BlockExecutedInOrder
<1>1. IInv /\ BlockInv => BlockExecutedInOrder
  <2> SUFFICES ASSUME IInv, BlockInv, phase = "EndBlock", pc = "run"
               PROVE  executed = block
    BY DEF BlockExecutedInOrder
  <2>1. \A d \in DeliverTxs : stage[d] \in {"new", "done"}
    BY DEF IInv, DeliverInv
  <2>2. queue["deliver"] = <<>> /\ HeldByWorker = 0 /\ HeldByCaller = 0
    BY <2>1, NothingHeld
  <2>3. block \in Seq(Items) /\ executed \in Seq(Items)
    BY DEF IInv, TypeOK
  <2>4. Len(block) = Len(executed) + 0 + 0 + 0
    BY <2>2 DEF BlockInv, OrderInv
  <2>5. Len(executed) = Len(block)
    BY <2>3, <2>4
  <2>6. \A a \in 1 .. Len(executed) : executed[a] = block[a]
    BY DEF BlockInv, OrderInv
  <2> QED
    BY <2>3, <2>5, <2>6, SameSeq
<1> QED
  BY <1>1, Invariance, BlockInvariance, PTL

=============================================================================
