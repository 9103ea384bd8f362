--------------------------- MODULE BaseAppProofs ---------------------------
(***************************************************************************)
(* For any accounts, transactions, queries, cache sizes and number of      *)
(* blocks: the account caches of BaseApp are never stale, the application  *)
(* implements the ledger of Ledger, and no transaction is executed twice.  *)
(*                                                                         *)
(* CachesFresh is not inductive.  A query fills the LRU cache with what it *)
(* read from the tree a step earlier, so what it holds must be fresh too   *)
(* (the lock keeps Commit out meanwhile); Commit writes the dirty accounts *)
(* of the deliver state, so there must be one; and InitChain changes the   *)
(* tree under the LRU cache, so that has to be empty before (FreshInv).    *)
(*                                                                         *)
(* The refinement maps the ledger's open block to what the deliver state   *)
(* shows through these caches.  It needs that Commit may leave out the     *)
(* accounts the deliver state did not change, and that a cached            *)
(* transaction was verified (LedgerInv).  NoReplay follows from what a     *)
(* successful execution does to the sequence number of the first signer    *)
(* (Executed) and from the log and the state surviving together            *)
(* (ReplayInv).                                                            *)
(***************************************************************************)
EXTENDS BaseApp, WellFoundedInduction, FiniteSetTheorems, TLAPS

(* The larger obligations need more than the prover's default time.        *)
USE SMTT(60)

LruFresh == \A a \in DOMAIN lru : a \in Accts /\ lru[a] = tree.acct[a]

CleanFresh(state) ==
  \A a \in DOMAIN state.acc : ~state.acc[a].dirty => state.acc[a].acc = tree.acct[a]

IsState(state) ==
  /\ state = [height |-> state.height, acc |-> state.acc, next |-> state.next]
  /\ DOMAIN state.acc \subseteq Accts

ReadingFresh ==
  \A q \in Queriers : reading[q] # None =>
    reading[q].addr \in Accts /\ reading[q].acc = tree.acct[reading[q].addr]

BlockOpen ==
  /\ deliver # None => IsState(deliver)
  /\ phase \in {"block", "commit"} => IsState(deliver)

Boot ==
  phase = "boot" => /\ tree = Empty
                    /\ DOMAIN lru = {}
                    /\ \A q \in Queriers : reading[q] = None

DiskEmpty == disk.height \in Nat /\ (disk.height = 0 => disk.st = Empty)

\* The inductive invariant.
FreshInv ==
  /\ LruFresh
  /\ IsState(check) /\ CleanFresh(check)
  /\ ReadingFresh /\ reading = [q \in Queriers |-> reading[q]]
  /\ BlockOpen /\ Boot /\ DiskEmpty
-----------------------------------------------------------------------------
\* An overflowing cache only forgets entries.
LEMMA EvictedIs ==
  ASSUME NEW f, NEW n, NEW g \in Evicted(f, n)
  PROVE  DOMAIN g \subseteq DOMAIN f /\ \A a \in DOMAIN g : g[a] = f[a]
BY DEF Evicted, Restrict

\* A new check or deliver state has read no account.
LEMMA NewStateIs ==
  ASSUME NEW h
  PROVE  IsState(NewState(h)) /\ DOMAIN NewState(h).acc = {}
BY DEF IsState, NewState

\* A transaction involves addresses of accounts.
LEMMA Involved ==
  ASSUME NEW t \in Txs
  PROVE  GetInvolvedAddresses(t) \in SUBSET Accts
<1> DEFINE Parts == [addr : Accts, coins : Nat \ {0}]
<1>1. t.inputs \in Seq(Parts) /\ t.outputs \in Seq(Parts)
  BY Zenon, TxAssumption
<1>2. ASSUME NEW f \in Seq(Parts) PROVE Range(f) \subseteq Parts
  <2> HIDE DEF Parts
  <2>1. \A i \in DOMAIN f : f[i] \in Parts
    OBVIOUS
  <2> QED
    BY Zenon, <2>1 DEF Range
<1>3. \A e \in Parts : e.addr \in Accts
  OBVIOUS
<1> HIDE DEF Parts
<1> QED
  BY Zenon, <1>1, <1>2, <1>3 DEF GetInvolvedAddresses

\* A read through the LRU cache returns the account of the tree.
LEMMA StoreGetFresh ==
  ASSUME LruFresh, NEW a
  PROVE  StoreGet(a) = tree.acct[a]
BY DEF LruFresh, StoreGet

\* What the reads of a call leave in the LRU cache is fresh.
LEMMA FilledFresh ==
  ASSUME LruFresh, NEW S \in SUBSET Accts, lru' \in Filled(S), tree' = tree
  PROVE  LruFresh'
<1> DEFINE more == [a \in {a \in S : tree.acct[a] # NoAcc} |-> tree.acct[a]]
<1>1. DOMAIN lru' \subseteq DOMAIN Over(lru, more)
      /\ \A a \in DOMAIN lru' : lru'[a] = Over(lru, more)[a]
  BY EvictedIs DEF Filled
<1>2. \A a \in DOMAIN Over(lru, more) : a \in Accts /\ Over(lru, more)[a] = tree.acct[a]
  BY DEF Over, LruFresh
<1> QED
  BY ZenonT(60), <1>1, <1>2 DEF LruFresh

\* Before InitChain there is no account to read.
LEMMA FilledEmpty ==
  ASSUME NEW S \in SUBSET Accts, lru' \in Filled(S), tree = Empty, DOMAIN lru = {}
  PROVE  DOMAIN lru' = {}
<1> DEFINE more == [a \in {a \in S : tree.acct[a] # NoAcc} |-> tree.acct[a]]
<1>1. DOMAIN lru' \subseteq DOMAIN Over(lru, more)
  BY EvictedIs DEF Filled
<1>2. DOMAIN more = {}
  BY StateAssumption
<1> QED
  BY ZenonT(60), <1>1, <1>2 DEF Over

\* Reading through a layer adds clean copies of the tree's accounts.
LEMMA TouchFresh ==
  ASSUME LruFresh, NEW state, IsState(state), NEW S \in SUBSET Accts
  PROVE  /\ IsState(Touch(state, S))
         /\ CleanFresh(state) => CleanFresh(Touch(state, S))
<1> DEFINE copies == [a \in S |-> [acc |-> StoreGet(a), dirty |-> FALSE]]
<1>1. Touch(state, S) = [height |-> state.height, acc |-> Over(state.acc, copies),
                         next |-> state.next]
  BY DEF Touch, IsState
<1>2. DOMAIN Over(state.acc, copies) \subseteq Accts
  BY DEF Over, IsState
<1>3. ASSUME CleanFresh(state), NEW a \in DOMAIN Over(state.acc, copies),
             ~Over(state.acc, copies)[a].dirty
      PROVE  Over(state.acc, copies)[a].acc = tree.acct[a]
  <2>1. CASE a \in DOMAIN state.acc
    BY <1>3, <2>1 DEF Over, CleanFresh
  <2>2. CASE a \notin DOMAIN state.acc
    BY <1>3, <2>2, StoreGetFresh DEF Over
  <2> QED
    BY <2>1, <2>2
<1> QED
  BY <1>1, <1>2, <1>3 DEF IsState, CleanFresh

\* Writing a transaction's caches into a layer adds dirty entries.
LEMMA WriteFresh ==
  ASSUME NEW state, IsState(state), NEW st
  PROVE  /\ IsState(Write(state, st))
         /\ CleanFresh(state) => CleanFresh(Write(state, st))
<1> DEFINE puts == [a \in {a \in Accts : st.acct[a] # View(state).acct[a]} |->
                      [acc |-> st.acct[a], dirty |-> TRUE]]
<1>1. Write(state, st) = [height |-> state.height, acc |-> Over(puts, state.acc),
                          next |-> <<st.next>>]
  BY DEF Write
<1>2. DOMAIN Over(puts, state.acc) \subseteq Accts
  BY DEF Over, IsState
<1>3. ASSUME CleanFresh(state), NEW a \in DOMAIN Over(puts, state.acc),
             ~Over(puts, state.acc)[a].dirty
      PROVE  Over(puts, state.acc)[a].acc = tree.acct[a]
  <2>1. a \notin DOMAIN puts
    BY <1>3 DEF Over
  <2> QED
    BY <1>3, <2>1 DEF Over, CleanFresh
<1> QED
  BY <1>1, <1>2, <1>3 DEF IsState, CleanFresh

\* So does a whole run of a transaction, on the check or the deliver state.
LEMMA RunTxFresh ==
  ASSUME LruFresh, NEW state, IsState(state), NEW t \in Txs, NEW verify
  PROVE  /\ IsState(RunTx(state, t, verify).state)
         /\ CleanFresh(state) => CleanFresh(RunTx(state, t, verify).state)
<1> DEFINE r == Execute(View(state), t, verify, state.height)
           read == Touch(state, GetInvolvedAddresses(t))
<1>1. IsState(read) /\ (CleanFresh(state) => CleanFresh(read))
  BY Zenon, TouchFresh, Involved
<1>2. IsState(Write(read, r.st)) /\ (CleanFresh(read) => CleanFresh(Write(read, r.st)))
  BY <1>1, WriteFresh
<1>3. RunTx(state, t, verify).state = IF r.ok THEN Write(read, r.st) ELSE read
  BY DEF RunTx
<1> QED
  BY <1>1, <1>2, <1>3
-----------------------------------------------------------------------------
\* The consensus connection.
LEMMA InitChainStep == FreshInv /\ InitChain => FreshInv'
<1> SUFFICES ASSUME FreshInv, InitChain PROVE FreshInv'
  OBVIOUS
<1> DEFINE made == [a \in {a \in Accts : Genesis.acct[a] # NoAcc} |-> Genesis.acct[a]]
<1>1. tree'.acct = Genesis.acct
  BY StateAssumption DEF FreshInv, Boot, InitChain
<1>2. LruFresh'
  <2>1. DOMAIN lru' \subseteq DOMAIN Over(made, lru)
        /\ \A a \in DOMAIN lru' : lru'[a] = Over(made, lru)[a]
    BY EvictedIs DEF InitChain
  <2>2. \A a \in DOMAIN Over(made, lru) : a \in Accts /\ Over(made, lru)[a] = Genesis.acct[a]
    BY DEF FreshInv, Boot, InitChain, Over
  <2> QED
    BY ZenonT(60), <1>1, <2>1, <2>2 DEF LruFresh
<1>3. IsState(check') /\ CleanFresh(check)'
  BY NewStateIs DEF InitChain, CleanFresh
<1>4. (ReadingFresh /\ reading = [q \in Queriers |-> reading[q]])'
  BY DEF FreshInv, InitChain, Exclusive, ReadingFresh
<1>5. IsState(deliver')
  BY DEF InitChain, NewState, IsState
<1>6. (BlockOpen /\ Boot /\ DiskEmpty)'
  BY <1>5 DEF FreshInv, InitChain, BlockOpen, Boot, DiskEmpty
<1> QED
  BY <1>2, <1>3, <1>4, <1>6 DEF FreshInv, IsState

LEMMA BeginBlockStep == FreshInv /\ BeginBlock => FreshInv'
<1> SUFFICES ASSUME FreshInv, BeginBlock PROVE FreshInv'
  OBVIOUS
<1>1. IsState(deliver')
  <2> DEFINE old == IF deliver = None THEN NewState(0) ELSE deliver
  <2>1. IsState(old)
    BY NewStateIs DEF FreshInv, BlockOpen
  <2>2. \A s, h : IsState(s) => IsState([s EXCEPT !.height = h])
    BY DEF IsState
  <2>3. deliver' = [old EXCEPT !.height = disk.height + 1]
    BY DEF BeginBlock
  <2> QED
    BY <2>1, <2>2, <2>3
<1> QED
  BY <1>1 DEF FreshInv, BeginBlock, LruFresh, CleanFresh, IsState, ReadingFresh, BlockOpen,
              Boot, DiskEmpty

LEMMA DeliverTxStep == ASSUME NEW t \in Txs PROVE FreshInv /\ DeliverTx(t) => FreshInv'
<1> SUFFICES ASSUME FreshInv, DeliverTx(t) PROVE FreshInv'
  OBVIOUS
<1>1. LruFresh'
  BY FilledFresh, Involved DEF FreshInv, DeliverTx
<1>2. IsState(deliver')
  BY RunTxFresh DEF FreshInv, DeliverTx, BlockOpen
<1> QED
  BY <1>1, <1>2 DEF FreshInv, DeliverTx, CleanFresh, IsState, ReadingFresh, BlockOpen, Boot,
                    DiskEmpty

LEMMA CommitStep == FreshInv /\ Commit => FreshInv'
<1> SUFFICES ASSUME FreshInv, Commit PROVE FreshInv'
  OBVIOUS
<1> DEFINE dirty == {a \in DOMAIN deliver.acc : deliver.acc[a].dirty}
           accts == [a \in Accts |-> IF a \in dirty THEN deliver.acc[a].acc ELSE tree.acct[a]]
<1>1. tree'.acct = accts
  BY DEF Commit
<1>2. dirty \subseteq Accts
  BY DEF FreshInv, Commit, BlockOpen, IsState
<1>3. LruFresh'
  <2>1. DOMAIN lru' \subseteq DOMAIN WrittenLru(dirty)
        /\ \A a \in DOMAIN lru' : lru'[a] = WrittenLru(dirty)[a]
    BY ZenonT(60), EvictedIs DEF Commit
  <2>2. \A a \in DOMAIN WrittenLru(dirty) : a \in Accts /\ WrittenLru(dirty)[a] = accts[a]
    BY <1>2 DEF FreshInv, LruFresh, WrittenLru, Over
  <2> QED
    BY ZenonT(60), <1>1, <2>1, <2>2 DEF LruFresh
<1>4. IsState(check') /\ CleanFresh(check)'
  BY NewStateIs DEF Commit, AfterCommit, CleanFresh
<1>5. (ReadingFresh /\ reading = [q \in Queriers |-> reading[q]])'
  BY DEF FreshInv, Commit, Alone, Exclusive, ReadingFresh
<1>6. (BlockOpen /\ Boot)'
  BY DEF Commit, BlockOpen, Boot
<1>7. DiskEmpty'
  <2>1. disk'.height = disk.height + 1 /\ disk.height \in Nat
    BY DEF Commit, FreshInv, DiskEmpty
  <2> QED
    BY <2>1 DEF DiskEmpty
<1> QED
  BY <1>3, <1>4, <1>5, <1>6, <1>7 DEF FreshInv, IsState

LEMMA CrashStep == FreshInv /\ Crash => FreshInv'
<1> SUFFICES ASSUME FreshInv, Crash PROVE FreshInv'
  OBVIOUS
<1>1. IsState(check') /\ CleanFresh(check)'
  BY NewStateIs DEF Crash, CleanFresh
<1>2. (LruFresh /\ ReadingFresh /\ reading = [q \in Queriers |-> reading[q]])'
  BY DEF Crash, LruFresh, ReadingFresh
<1>3. (BlockOpen /\ Boot /\ DiskEmpty)'
  BY DEF FreshInv, Crash, BlockOpen, Boot, DiskEmpty
<1> QED
  BY <1>1, <1>2, <1>3 DEF FreshInv, IsState

\* A call that runs a transaction on the check state.
LEMMA CheckStep ==
  ASSUME FreshInv, NEW t \in Txs, NEW verify, check' = RunTx(check, t, verify).state,
         lru' \in Filled(GetInvolvedAddresses(t)),
         UNCHANGED <<disk, tree, deliver, phase, reading>>
  PROVE  FreshInv'
<1>1. LruFresh'
  BY FilledFresh, Involved DEF FreshInv
<1>2. IsState(check') /\ CleanFresh(check')
  BY RunTxFresh DEF FreshInv
<1>3. CleanFresh(check)'
  BY <1>2 DEF CleanFresh
<1>4. Boot'
  BY FilledEmpty, Involved DEF FreshInv, Boot
<1> QED
  BY <1>1, <1>2, <1>3, <1>4 DEF FreshInv, IsState, ReadingFresh, BlockOpen, DiskEmpty

\* A step that changes neither the caches nor what lies below them.
LEMMA FrameStep ==
  ASSUME FreshInv, disk' = disk, tree' = tree, lru' = lru, check' = check,
         deliver' = deliver, reading' = reading,
         phase' = phase \/ (phase = "block" /\ phase' = "commit")
  PROVE  FreshInv'
BY DEF FreshInv, LruFresh, IsState, CleanFresh, ReadingFresh, BlockOpen, Boot, DiskEmpty

\* A custom query.
LEMMA QueryReadStep ==
  ASSUME NEW q \in Queriers, NEW a \in Accts
  PROVE  FreshInv /\ QueryRead(q, a) => FreshInv'
<1> SUFFICES ASSUME FreshInv, QueryRead(q, a) PROVE FreshInv'
  OBVIOUS
<1>1. phase # "boot"
  BY StateAssumption DEF FreshInv, Boot, QueryRead
<1>2. (ReadingFresh /\ reading = [p \in Queriers |-> reading[p]])'
  BY DEF FreshInv, QueryRead, ReadingFresh
<1> QED
  BY <1>1, <1>2 DEF FreshInv, QueryRead, LruFresh, IsState, CleanFresh, BlockOpen, Boot,
                    DiskEmpty

LEMMA QueryFillStep ==
  ASSUME NEW q \in Queriers
  PROVE  FreshInv /\ QueryFill(q) => FreshInv'
<1> SUFFICES ASSUME FreshInv, QueryFill(q) PROVE FreshInv'
  OBVIOUS
<1> DEFINE got == [a \in {reading[q].addr} |-> reading[q].acc]
<1>1. LruFresh'
  <2>1. DOMAIN lru' \subseteq DOMAIN Over(got, lru)
        /\ \A a \in DOMAIN lru' : lru'[a] = Over(got, lru)[a]
    BY EvictedIs DEF QueryFill
  <2>2. \A a \in DOMAIN Over(got, lru) : a \in Accts /\ Over(got, lru)[a] = tree.acct[a]
    BY DEF FreshInv, LruFresh, ReadingFresh, QueryFill, Over
  <2> QED
    BY <2>1, <2>2 DEF LruFresh, QueryFill
<1>2. phase # "boot"
  BY DEF FreshInv, Boot, QueryFill
<1>3. (ReadingFresh /\ reading = [p \in Queriers |-> reading[p]])'
  BY DEF FreshInv, QueryFill, ReadingFresh
<1> QED
  BY <1>1, <1>2, <1>3 DEF FreshInv, QueryFill, IsState, CleanFresh, BlockOpen, Boot, DiskEmpty

LEMMA FreshInit == Init => FreshInv
<1> SUFFICES ASSUME Init PROVE FreshInv
  OBVIOUS
<1>1. IsState(check) /\ CleanFresh(check)
  BY NewStateIs DEF Init, CleanFresh
<1> QED
  BY <1>1 DEF Init, FreshInv, LruFresh, ReadingFresh, BlockOpen, Boot, DiskEmpty

LEMMA FreshStep == FreshInv /\ [Next]_vars => FreshInv'
<1> SUFFICES ASSUME FreshInv, [Next]_vars PROVE FreshInv'
  OBVIOUS
<1>1. CASE InitChain
  BY <1>1, InitChainStep
<1>2. CASE BeginBlock
  BY <1>2, BeginBlockStep
<1>3. CASE EndBlock
  BY <1>3, FrameStep DEF EndBlock
<1>4. CASE Commit
  BY <1>4, CommitStep
<1>5. CASE Crash
  BY <1>5, CrashStep
<1>6. ASSUME NEW t \in Txs, DeliverTx(t) PROVE FreshInv'
  BY <1>6, DeliverTxStep
<1>7. ASSUME NEW t \in Txs, CheckTxAfterPre(t) PROVE FreshInv'
  BY ZenonT(60), <1>7, CheckStep DEF CheckTxAfterPre
<1>8. ASSUME NEW t \in Txs, CheckTxAdd(t) PROVE FreshInv'
  BY <1>8, FrameStep DEF CheckTxAdd
<1>9. ASSUME NEW t \in Txs, CheckTxRun(t) PROVE FreshInv'
  BY ZenonT(60), <1>9, CheckStep DEF CheckTxRun
<1>10. ASSUME NEW t \in Txs, ReCheckTx(t) PROVE FreshInv'
  BY ZenonT(60), <1>10, CheckStep DEF ReCheckTx
<1>11. ASSUME NEW k \in Kinds, NEW t \in Txs, PreCheck(k, t) \/ PreChecked(k, t)
       PROVE  FreshInv'
  BY <1>11, FrameStep DEF PreCheck, PreChecked
<1>12. ASSUME NEW q \in Queriers, QueryFill(q) PROVE FreshInv'
  BY <1>12, QueryFillStep
<1>13. ASSUME NEW q \in Queriers, NEW a \in Accts, QueryRead(q, a) PROVE FreshInv'
  BY <1>13, QueryReadStep
<1>14. CASE UNCHANGED vars
  BY <1>14, FrameStep DEF vars
<1> QED
  BY <1>1, <1>2, <1>3, <1>4, <1>5, <1>6, <1>7, <1>8, <1>9, <1>10, <1>11, <1>12, <1>13, <1>14
  DEF Next

\* No cache serves an account of an older block: BaseApp's LRU account cache and
\* the accounts CheckState has read agree with the working tree, whatever checks,
\* blocks, queries in progress and crashes came before.
THEOREM AccountCachesFresh == Spec => []CachesFresh
<1>1. FreshInv => CachesFresh
  BY DEF FreshInv, LruFresh, CleanFresh, CachesFresh
<1> QED
  BY <1>1, FreshInit, FreshStep, PTL DEF Spec

-----------------------------------------------------------------------------
(* What executing a transaction does to a state.                           *)

LEMMA Least ==
  ASSUME NEW T, T \subseteq Nat, T # {}
  PROVE  \E x \in T : \A y \in T : x <= y
<1> DEFINE R == OpToRel(<, Nat)
<1> HIDE DEF R
<1>1. IsWellFoundedOn(R, Nat)
  BY ZenonT(60), NatLessThanWellFounded DEF R
<1>2. PICK x \in T : \A y \in T : ~(<<y, x>> \in R)
  BY ZenonT(60), <1>1, WFMin
<1>3. \A y \in T : ~(y < x)
  BY ZenonT(60), <1>2 DEF R, OpToRel
<1> QED
  BY <1>3

\* The moves of a transaction on a state follow one another.
At(g, st, t, n) == IF n = 0 THEN [ok |-> TRUE, st |-> st] ELSE Move(g[n - 1], t, n)

IsRun(g, st, t, k) == g = [n \in 0..k |-> At(g, st, t, n)]

LEMMA RunExists ==
  ASSUME NEW st, NEW t, NEW last \in Nat
  PROVE  \E g : IsRun(g, st, t, last)
<1> DEFINE Bad == {k \in Nat : ~\E g : IsRun(g, st, t, k)}
<1> SUFFICES ASSUME Bad # {} PROVE FALSE
  BY Zenon
<1>1. Bad \subseteq Nat
  BY Zenon
<1>2. PICK k \in Bad : \A y \in Bad : k <= y
  <2> HIDE DEF Bad
  <2> QED
    BY Zenon, <1>1, Least
<1>3. k \in Nat /\ ~\E g : IsRun(g, st, t, k)
  BY Zenon
<1>4. k # 0
  <2> DEFINE f == [n \in 0..0 |-> [ok |-> TRUE, st |-> st]]
  <2>1. \A n \in 0..0 : n = 0
    OBVIOUS
  <2>2. IsRun(f, st, t, 0)
    BY Zenon, <2>1 DEF IsRun, At
  <2> QED
    BY Zenon, <1>3, <2>2
<1>5. k - 1 \in Nat /\ ~(k <= k - 1)
  BY <1>3, <1>4
<1>6. k - 1 \notin Bad
  <2> HIDE DEF Bad
  <2> QED
    BY Zenon, <1>2, <1>5
<1>7. PICK g : IsRun(g, st, t, k - 1)
  BY Zenon, <1>5, <1>6
<1> DEFINE h == [n \in 0..k |-> IF n < k THEN g[n] ELSE Move(g[k - 1], t, k)]
<1>8. /\ \A n \in 0..k : h[n] = IF n < k THEN g[n] ELSE Move(g[k - 1], t, k)
      /\ h = [n \in 0..k |-> h[n]]
  BY Zenon
<1>9. \A n \in 0..(k - 1) : g[n] = At(g, st, t, n)
  BY Zenon, <1>7 DEF IsRun
<1> HIDE DEF h, Bad
<1>10. ASSUME NEW n \in 0..k PROVE h[n] = At(h, st, t, n)
  <2>1. CASE n = 0
    <3>1. 0 \in 0..k /\ 0 < k /\ 0 \in 0..(k - 1)
      BY <1>3, <1>4
    <3>2. h[0] = g[0] /\ g[0] = [ok |-> TRUE, st |-> st]
      BY Zenon, <1>8, <1>9, <3>1 DEF At
    <3> QED
      BY Zenon, <2>1, <3>2 DEF At
  <2>2. CASE n # 0 /\ n < k
    <3>1. n \in 0..(k - 1) /\ n - 1 \in 0..k /\ n - 1 < k
      BY <1>3, <2>2
    <3>2. h[n] = g[n] /\ h[n - 1] = g[n - 1]
      BY Zenon, <1>8, <2>2, <3>1
    <3>3. g[n] = Move(g[n - 1], t, n)
      BY Zenon, <1>9, <2>2, <3>1 DEF At
    <3> QED
      BY Zenon, <2>2, <3>2, <3>3 DEF At
  <2>3. CASE n = k
    <3>1. k - 1 \in 0..k /\ k - 1 < k /\ ~(k < k) /\ k \in 0..k
      BY <1>3, <1>4
    <3>2. h[k - 1] = g[k - 1] /\ h[k] = Move(g[k - 1], t, k)
      BY Zenon, <1>8, <3>1
    <3> QED
      BY Zenon, <1>4, <2>3, <3>2 DEF At
  <2>4. n = 0 \/ (n # 0 /\ n < k) \/ n = k
    BY <1>3
  <2> QED
    BY Zenon, <2>1, <2>2, <2>3, <2>4
<1>11. IsRun(h, st, t, k)
  BY Zenon, <1>8, <1>10 DEF IsRun
<1> QED
  BY Zenon, <1>3, <1>11

Follow(f, st, t, last) ==
  /\ f[0] = [ok |-> TRUE, st |-> st]
  /\ \A n \in 1..last : f[n] = Move(f[n - 1], t, n)

LEMMA MovesIs ==
  ASSUME NEW st, NEW t, NEW last \in Nat, last = Len(t.inputs) + Len(t.outputs)
  PROVE  Follow(Moves(st, t), st, t, last)
<1>1. Moves(st, t) = CHOOSE g : IsRun(g, st, t, last)
  BY Zenon DEF Moves, IsRun, At
<1>2. IsRun(Moves(st, t), st, t, last)
  BY Zenon, <1>1, RunExists
<1>3. \A n \in 0..last : Moves(st, t)[n] = At(Moves(st, t), st, t, n)
  BY Zenon, <1>2 DEF IsRun
<1>4. 0 \in 0..last /\ \A n \in 1..last : n \in 0..last /\ n # 0
  BY ONLY last \in Nat
<1> QED
  BY Zenon, <1>3, <1>4 DEF At, Follow

\* Accounts are never removed, and their sequence numbers never fall.
Grows(s1, s2) ==
  \A a \in Accts : s1.acct[a] # NoAcc =>
    s2.acct[a] # NoAcc /\ s1.acct[a].seq <= s2.acct[a].seq

LEMMA GrowsTransitive ==
  ASSUME NEW s1 \in States, NEW s2 \in States, NEW s3 \in States, Grows(s1, s2), Grows(s2, s3)
  PROVE  Grows(s1, s3)
<1> SUFFICES ASSUME NEW a \in Accts, s1.acct[a] # NoAcc
             PROVE  s3.acct[a] # NoAcc /\ s1.acct[a].seq <= s3.acct[a].seq
  BY Zenon DEF Grows
<1>1. /\ s2.acct[a] # NoAcc /\ s1.acct[a].seq <= s2.acct[a].seq
      /\ s3.acct[a] # NoAcc /\ s2.acct[a].seq <= s3.acct[a].seq
  BY Zenon DEF Grows
<1>2. /\ s1.acct[a] \in Accounts /\ s2.acct[a] \in Accounts /\ s3.acct[a] \in Accounts
  BY <1>1 DEF States
<1>3. s1.acct[a].seq \in Nat /\ s2.acct[a].seq \in Nat /\ s3.acct[a].seq \in Nat
  BY <1>2 DEF Accounts
<1>4. \A i, j, k \in Nat : i <= j /\ j <= k => i <= k
  OBVIOUS
<1> QED
  BY Zenon, <1>1, <1>3, <1>4

\* Giving an address other coins makes at most a new account.
LEMMA SetCoinsGrows ==
  ASSUME NEW st \in States, NEW a \in Accts, NEW n \in Nat
  PROVE  SetCoins(st, a, n) \in States /\ Grows(st, SetCoins(st, a, n))
<1>1. /\ st = [acct |-> st.acct, next |-> st.next] /\ st.next \in Nat
      /\ st.acct \in [Accts -> {NoAcc} \cup Accounts]
  BY DEF States
<1>2. ASSUME NEW acc \in Accounts, NEW k \in Nat, st.acct[a] # NoAcc => st.acct[a].seq <= acc.seq,
             SetCoins(st, a, n) = [acct |-> [st.acct EXCEPT ![a] = acc], next |-> k]
      PROVE  SetCoins(st, a, n) \in States /\ Grows(st, SetCoins(st, a, n))
  <2> DEFINE new == [st.acct EXCEPT ![a] = acc]
  <2>1. new \in [Accts -> {NoAcc} \cup Accounts] /\ new[a] = acc
        /\ \A b \in Accts : b # a => new[b] = st.acct[b]
    BY <1>1
  <2>2. SetCoins(st, a, n) = [acct |-> new, next |-> k]
    BY <1>2
  <2> HIDE DEF new
  <2>3. SetCoins(st, a, n) \in States /\ SetCoins(st, a, n).acct = new
    BY <2>1, <2>2 DEF States
  <2>4. \A b \in Accts : st.acct[b] # NoAcc => st.acct[b].seq <= st.acct[b].seq
    <3> SUFFICES ASSUME NEW b \in Accts, st.acct[b] # NoAcc PROVE st.acct[b].seq <= st.acct[b].seq
      OBVIOUS
    <3>1. st.acct[b].seq \in Nat
      BY <1>1 DEF Accounts
    <3> QED
      BY <3>1
  <2>5. acc # NoAcc
    BY StateAssumption
  <2> QED
    BY Zenon, <1>2, <2>1, <2>3, <2>4, <2>5 DEF Grows
<1>3. CASE st.acct[a] = NoAcc
  <2> DEFINE acc == [num |-> st.next, seq |-> 0, coins |-> n]
  <2>1. acc \in Accounts /\ st.next + 1 \in Nat
    BY <1>1 DEF Accounts
  <2>2. SetCoins(st, a, n) = [acct |-> [st.acct EXCEPT ![a] = acc], next |-> st.next + 1]
    BY Zenon, <1>3 DEF SetCoins
  <2> QED
    BY Zenon, <1>2, <1>3, <2>1, <2>2
<1>4. CASE st.acct[a] # NoAcc
  <2> DEFINE acc == [st.acct[a] EXCEPT !.coins = n]
  <2>1. st.acct[a] \in Accounts
    BY <1>1, <1>4
  <2>2. acc \in Accounts /\ acc.seq = st.acct[a].seq /\ st.acct[a].seq \in Nat
    BY <2>1 DEF Accounts
  <2>3. st.acct[a].seq <= acc.seq
    <3> HIDE DEF acc
    <3> QED
      BY <2>2
  <2>4. SetCoins(st, a, n) = [st EXCEPT !.acct = [st.acct EXCEPT ![a] = acc]]
    BY <1>4 DEF SetCoins
  <2>5. SetCoins(st, a, n) = [acct |-> [st.acct EXCEPT ![a] = acc], next |-> st.next]
    BY <1>1, <2>4
  <2> QED
    BY Zenon, <1>1, <1>2, <2>2, <2>3, <2>5
<1> QED
  BY <1>3, <1>4

Results == [ok : BOOLEAN, st : States]

\* What an address holds is a number.
LEMMA CoinsAre ==
  ASSUME NEW st \in States, NEW a \in Accts
  PROVE  GetCoins(st, a) \in Nat
BY DEF GetCoins, States, Accounts

\* The writes of a handler are kept in the state it hands on, error or not.
LEMMA MoveGrows ==
  ASSUME NEW t \in Txs, NEW r \in Results, NEW n \in 1..(Len(t.inputs) + Len(t.outputs))
  PROVE  Move(r, t, n) \in Results /\ Grows(r.st, Move(r, t, n).st)
<1> DEFINE Parts == [addr : Accts, coins : Nat \ {0}]
<1>1. t.inputs \in Seq(Parts) /\ t.outputs \in Seq(Parts)
  BY Zenon, TxAssumption
<1>2. r.ok \in BOOLEAN /\ r.st \in States /\ r = [ok |-> r.ok, st |-> r.st]
  BY DEF Results
<1>3. Grows(r.st, r.st)
  <2> SUFFICES ASSUME NEW a \in Accts, r.st.acct[a] # NoAcc
               PROVE  r.st.acct[a].seq <= r.st.acct[a].seq
    BY Zenon DEF Grows
  <2>1. r.st.acct[a].seq \in Nat
    BY <1>2 DEF States, Accounts
  <2> QED
    BY <2>1
<1>4. ASSUME NEW a \in Accts, NEW k \in Nat, NEW m, m = [r EXCEPT !.st = SetCoins(r.st, a, k)]
      PROVE  m \in Results /\ Grows(r.st, m.st)
  <2>1. SetCoins(r.st, a, k) \in States /\ Grows(r.st, SetCoins(r.st, a, k))
    BY Zenon, <1>2, SetCoinsGrows
  <2>2. m = [ok |-> r.ok, st |-> SetCoins(r.st, a, k)]
    BY <1>2, <1>4
  <2> QED
    BY Zenon, <1>2, <2>1, <2>2 DEF Results
<1>5. ASSUME NEW e \in Parts
      PROVE  SubtractCoins(r, e) \in Results /\ Grows(r.st, SubtractCoins(r, e).st)
  <2>1. e.addr \in Accts /\ e.coins \in Nat
    OBVIOUS
  <2> HIDE DEF Parts
  <2>2. GetCoins(r.st, e.addr) \in Nat
    BY Zenon, <1>2, <2>1, CoinsAre
  <2>3. CASE r.ok /\ GetCoins(r.st, e.addr) >= e.coins
    <3>1. GetCoins(r.st, e.addr) - e.coins \in Nat
      BY <2>1, <2>2, <2>3
    <3>2. SubtractCoins(r, e) = [r EXCEPT !.st = SetCoins(r.st, e.addr, GetCoins(r.st, e.addr) - e.coins)]
      BY Zenon, <2>3 DEF SubtractCoins
    <3> QED
      BY Zenon, <1>4, <2>1, <3>1, <3>2
  <2>4. CASE ~(r.ok /\ GetCoins(r.st, e.addr) >= e.coins)
    <3>1. SubtractCoins(r, e) = [r EXCEPT !.ok = FALSE]
      BY Zenon, <2>4 DEF SubtractCoins
    <3>2. SubtractCoins(r, e) \in Results
      BY Zenon, <3>1 DEF Results
    <3>3. SubtractCoins(r, e).st = r.st
      BY <3>1 DEF Results
    <3> QED
      BY Zenon, <1>3, <3>2, <3>3
  <2> QED
    BY Zenon, <2>3, <2>4
<1>6. ASSUME NEW e \in Parts
      PROVE  AddCoins(r, e) \in Results /\ Grows(r.st, AddCoins(r, e).st)
  <2>1. e.addr \in Accts /\ e.coins \in Nat
    OBVIOUS
  <2> HIDE DEF Parts
  <2>2. GetCoins(r.st, e.addr) \in Nat
    BY Zenon, <1>2, <2>1, CoinsAre
  <2>3. GetCoins(r.st, e.addr) + e.coins \in Nat
    BY <2>1, <2>2
  <2>4. CASE r.ok
    <3>1. AddCoins(r, e) = [r EXCEPT !.st = SetCoins(r.st, e.addr, GetCoins(r.st, e.addr) + e.coins)]
      BY Zenon, <2>4 DEF AddCoins
    <3> QED
      BY Zenon, <1>4, <2>1, <2>3, <3>1
  <2>5. CASE ~r.ok
    BY Zenon, <1>3, <2>5 DEF AddCoins
  <2> QED
    BY Zenon, <2>4, <2>5
<1> HIDE DEF Parts
<1>7. CASE n <= Len(t.inputs)
  <2>1. t.inputs[n] \in Parts
    BY <1>1, <1>7
  <2> QED
    BY Zenon, <1>5, <1>7, <2>1 DEF Move
<1>8. CASE ~(n <= Len(t.inputs))
  <2>1. n - Len(t.inputs) \in 1..Len(t.outputs)
    <3>1. \A i, j \in Nat : \A k \in 1..(i + j) : ~(k <= i) => k - i \in 1..j
      BY ONLY SMTT(20)
    <3>2. Len(t.inputs) \in Nat /\ Len(t.outputs) \in Nat
      BY <1>1
    <3> QED
      BY Zenon, <1>8, <3>1, <3>2
  <2>2. t.outputs[n - Len(t.inputs)] \in Parts
    BY <1>1, <2>1
  <2> QED
    BY Zenon, <1>6, <1>8, <2>2 DEF Move
<1> QED
  BY Zenon, <1>7, <1>8

LEMMA MovesGrow ==
  ASSUME NEW t \in Txs, NEW st \in States
  PROVE  InputOutputCoins(st, t) \in Results /\ Grows(st, InputOutputCoins(st, t).st)
<1> DEFINE last == Len(t.inputs) + Len(t.outputs)
           f == Moves(st, t)
           Good(n) == f[n] \in Results /\ Grows(st, f[n].st)
           Bad == {n \in 0..last : ~Good(n)}
<1>1. last \in Nat
  <2>1. t.inputs \in Seq([addr : Accts, coins : Nat \ {0}])
        /\ t.outputs \in Seq([addr : Accts, coins : Nat \ {0}])
    BY Zenon, TxAssumption
  <2>2. Len(t.inputs) \in Nat /\ Len(t.outputs) \in Nat
    BY <2>1
  <2>3. \A i, j \in Nat : i + j \in Nat
    BY ONLY SMTT(20)
  <2> QED
    BY Zenon, <2>2, <2>3
<1>2. f[0] = [ok |-> TRUE, st |-> st] /\ \A n \in 1..last : f[n] = Move(f[n - 1], t, n)
  <2>1. \A k \in Nat : k = Len(t.inputs) + Len(t.outputs) => Follow(f, st, t, k)
    BY Zenon, MovesIs
  <2>2. last = Len(t.inputs) + Len(t.outputs)
    BY Zenon
  <2> HIDE DEF f, last
  <2> QED
    BY Zenon, <1>1, <2>1, <2>2 DEF Follow
<1>3. \A r \in Results : \A n \in 1..last :
        Move(r, t, n) \in Results /\ Grows(r.st, Move(r, t, n).st)
  BY Zenon, MoveGrows
<1> HIDE DEF f, last
<1>4. Good(0)
  <2>1. f[0] \in Results
    BY <1>2 DEF Results
  <2>2. f[0].st = st
    BY <1>2
  <2>3. Grows(st, st)
    <3> SUFFICES ASSUME NEW a \in Accts, st.acct[a] # NoAcc
                 PROVE  st.acct[a].seq <= st.acct[a].seq
      BY Zenon DEF Grows
    <3>1. st.acct[a].seq \in Nat
      BY DEF States, Accounts
    <3> QED
      BY <3>1
  <2> QED
    BY Zenon, <2>1, <2>2, <2>3
<1>5. ASSUME NEW n \in 1..last, Good(n - 1) PROVE Good(n)
  <2>1. f[n] \in Results /\ Grows(f[n - 1].st, f[n].st)
    BY Zenon, <1>2, <1>3, <1>5
  <2>2. f[n - 1].st \in States /\ f[n].st \in States
    BY Zenon, <1>5, <2>1 DEF Results
  <2> QED
    BY Zenon, <1>5, <2>1, <2>2, GrowsTransitive
<1> HIDE DEF Good
<1>6. Bad = {}
  <2> SUFFICES ASSUME Bad # {} PROVE FALSE
    BY Zenon
  <2>1. Bad \subseteq Nat
    <3>1. 0..last \subseteq Nat
      BY <1>1
    <3> QED
      BY Zenon, <3>1
  <2>2. PICK n \in Bad : \A m \in Bad : n <= m
    <3> HIDE DEF Bad
    <3> QED
      BY Zenon, <2>1, Least
  <2>3. n \in 0..last /\ ~Good(n)
    BY Zenon
  <2> HIDE DEF Bad
  <2>4. n # 0
    BY Zenon, <1>4, <2>3
  <2>5. n \in 1..last /\ n - 1 \in 0..last /\ ~(n <= n - 1)
    BY <1>1, <2>3, <2>4
  <2>6. Good(n - 1)
    BY Zenon, <2>2, <2>5 DEF Bad
  <2> QED
    BY Zenon, <1>5, <2>3, <2>5, <2>6
<1>7. last \in 0..last
  BY <1>1
<1>8. Good(last)
  BY Zenon, <1>6, <1>7
<1> QED
  BY Zenon, <1>8 DEF Good, f, last, InputOutputCoins

\* The first signer of t has used the sequence number it signed with.
Signer(t) == t.inputs[1].addr

Spent(st, t) == st.acct[Signer(t)] # NoAcc /\ t.sigs[1].seq < st.acct[Signer(t)].seq

\* A transaction has a first input and a signature for it.
LEMMA TxIs ==
  ASSUME NEW t \in Txs
  PROVE  /\ 1 \in DOMAIN t.inputs /\ Signer(t) \in Accts
         /\ t.sigs[1].seq \in Nat /\ t.signed \in BOOLEAN
         /\ \A i \in DOMAIN t.inputs : t.inputs[i].addr \in Accts
<1> DEFINE Parts == [addr : Accts, coins : Nat \ {0}]
           Sigs == [num : Nat, seq : Nat]
<1>1. /\ t.inputs \in Seq(Parts) /\ t.inputs # <<>>
      /\ t.sigs \in Seq(Sigs) /\ t.sigs # <<>>
      /\ t.signed \in BOOLEAN
  BY Zenon, TxAssumption
<1>2. (\A e \in Parts : e.addr \in Accts) /\ (\A e \in Sigs : e.seq \in Nat)
  OBVIOUS
<1> HIDE DEF Parts, Sigs
<1>3. \A f \in Seq(Parts) : f # <<>> =>
        /\ Len(f) \in Nat /\ 1 \in 1..Len(f) /\ DOMAIN f = 1..Len(f)
        /\ \A i \in DOMAIN f : f[i] \in Parts
  BY ONLY SMTT(20)
<1>4. \A f \in Seq(Sigs) : f # <<>> => f[1] \in Sigs
  BY ONLY SMTT(20)
<1>5. t.sigs[1] \in Sigs
  BY Zenon, <1>1, <1>4
<1> QED
  BY Zenon, <1>1, <1>2, <1>3, <1>5 DEF Signer

\* The address of the first input signs first, wherever else it occurs.
LEMMA SignsFirst ==
  ASSUME NEW t \in Txs
  PROVE  Signer(t) \in Signers(t) /\ Place(t, Signer(t)) = 1
<1> DEFINE First(i) == /\ t.inputs[i].addr = Signer(t)
                       /\ \A j \in 1..(i - 1) : t.inputs[j].addr # Signer(t)
<1>1. 1 \in DOMAIN t.inputs /\ DOMAIN t.inputs \subseteq Nat \ {0}
  <2> DEFINE Parts == [addr : Accts, coins : Nat \ {0}]
  <2>1. t.inputs \in Seq(Parts)
    BY Zenon, TxAssumption
  <2> HIDE DEF Parts
  <2>2. \A f \in Seq(Parts) : DOMAIN f \subseteq Nat \ {0}
    BY ONLY SMTT(20)
  <2> QED
    BY Zenon, <2>1, <2>2, TxIs
<1>2. 1..(1 - 1) = {} /\ 1..1 = {1} /\ \A i \in Nat \ {0} : i # 1 => 1 \in 1..(i - 1)
  BY ONLY SMTT(20)
<1>3. First(1)
  BY Zenon, <1>2 DEF Signer
<1>4. \A i \in DOMAIN t.inputs : First(i) => i = 1
  BY Zenon, <1>1, <1>2 DEF Signer
<1>5. FirstInput(t, Signer(t)) = CHOOSE i \in DOMAIN t.inputs : First(i)
  BY Zenon DEF FirstInput
<1> HIDE DEF First
<1>6. FirstInput(t, Signer(t)) = 1
  BY Zenon, <1>1, <1>3, <1>4, <1>5
<1>7. {t.inputs[j].addr : j \in 1..FirstInput(t, Signer(t))} = {Signer(t)}
  BY Zenon, <1>2, <1>6 DEF Signer
<1>8. Place(t, Signer(t)) = 1
  BY Zenon, <1>7, FS_Singleton DEF Place
<1> QED
  BY Zenon, <1>1, <1>8 DEF Signers, Signer, Range

\* The ante handler lets a transaction through only with the sequence numbers its
\* signers are at, and moves them on.
LEMMA AnteSpends ==
  ASSUME NEW st \in States, NEW t \in Txs, NEW verify \in BOOLEAN, NEW h,
         NEW r, r = AnteHandler(st, t, verify, h)
  PROVE  /\ r \in Results /\ Grows(st, r.st)
         /\ r.ok => /\ st.acct[Signer(t)] # NoAcc /\ ~Spent(st, t) /\ Spent(r.st, t)
                    /\ verify => t.signed
<1> DEFINE signers == Signers(t)
           new == [a \in Accts |-> IF a \in signers THEN ProcessSig(st.acct[a]) ELSE st.acct[a]]
<1>1. /\ st = [acct |-> st.acct, next |-> st.next] /\ st.next \in Nat
      /\ st.acct \in [Accts -> {NoAcc} \cup Accounts]
      /\ \A a \in Accts : st.acct[a] # NoAcc => st.acct[a] \in Accounts
  BY DEF States
<1>2. \A acc \in Accounts :
        /\ ProcessSig(acc) \in Accounts /\ acc.seq \in Nat
        /\ ProcessSig(acc).seq = acc.seq + 1
  BY DEF Accounts, ProcessSig
<1>3. \A k \in Nat : k <= k /\ k <= k + 1 /\ k < k + 1 /\ ~(k < k)
  OBVIOUS
<1>4. CASE ~(ValidateAccNumAndSequence(st, t, h) /\ (verify => t.signed))
  <2>1. r = [ok |-> FALSE, st |-> st]
    BY Zenon, <1>4 DEF AnteHandler
  <2>2. r \in Results /\ r.st = st /\ ~r.ok
    BY <2>1 DEF Results
  <2>3. Grows(st, st)
    BY Zenon, <1>1, <1>2, <1>3 DEF Grows
  <2> QED
    BY Zenon, <2>2, <2>3
<1>5. CASE ValidateAccNumAndSequence(st, t, h) /\ (verify => t.signed)
  <2>1. r = [ok |-> TRUE, st |-> [st EXCEPT !.acct = new]]
    BY Zenon, <1>5 DEF AnteHandler
  <2>2. \A a \in signers : st.acct[a] # NoAcc
    BY Zenon, <1>5 DEF ValidateAccNumAndSequence
  <2>3. /\ st.acct[Signer(t)] # NoAcc /\ t.sigs[1].seq = st.acct[Signer(t)].seq
        /\ Signer(t) \in signers /\ Signer(t) \in Accts
    BY Zenon, <1>5, TxIs, SignsFirst DEF ValidateAccNumAndSequence
  <2>4. ASSUME NEW a \in Accts
        PROVE  /\ new[a] \in {NoAcc} \cup Accounts
               /\ st.acct[a] # NoAcc => new[a] # NoAcc /\ st.acct[a].seq <= new[a].seq
               /\ a \in signers => new[a] # NoAcc /\ st.acct[a].seq < new[a].seq
    <3>1. CASE a \in signers
      <4>1. new[a] = ProcessSig(st.acct[a])
        BY Zenon, <3>1
      <4>2. st.acct[a] \in Accounts
        BY Zenon, <1>1, <2>2, <3>1
      <4> HIDE DEF new, signers
      <4>3. new[a] \in Accounts /\ new[a].seq = st.acct[a].seq + 1 /\ st.acct[a].seq \in Nat
        BY Zenon, <1>2, <4>1, <4>2
      <4>4. st.acct[a].seq <= new[a].seq /\ st.acct[a].seq < new[a].seq
        BY Zenon, <1>3, <4>3
      <4>5. new[a] # NoAcc
        BY Zenon, <4>3, StateAssumption
      <4> QED
        BY Zenon, <4>3, <4>4, <4>5
    <3>2. CASE a \notin signers
      <4>1. new[a] = st.acct[a]
        BY Zenon, <3>2
      <4>2. st.acct[a] \in {NoAcc} \cup Accounts
        BY <1>1
      <4> HIDE DEF new, signers
      <4> QED
        BY Zenon, <1>1, <1>2, <1>3, <3>2, <4>1, <4>2
    <3> QED
      BY Zenon, <3>1, <3>2
  <2>5. new = [a \in Accts |-> new[a]]
    BY Zenon
  <2> HIDE DEF new, signers
  <2>6. new \in [Accts -> {NoAcc} \cup Accounts]
    BY Zenon, <2>4, <2>5
  <2>7. [st EXCEPT !.acct = new] = [acct |-> new, next |-> st.next]
    BY <1>1
  <2>8. [acct |-> new, next |-> st.next] \in States /\ [acct |-> new, next |-> st.next].acct = new
    BY <1>1, <2>6 DEF States
  <2>9. r.ok /\ r.st = [acct |-> new, next |-> st.next]
    BY <2>1, <2>7
  <2>10. r \in Results
    <3>1. r = [ok |-> TRUE, st |-> [acct |-> new, next |-> st.next]]
      BY Zenon, <2>1, <2>7
    <3> QED
      BY <2>8, <3>1 DEF Results
  <2>11. r.st.acct = new
    BY Zenon, <2>8, <2>9
  <2>12. Grows(st, r.st)
    BY Zenon, <2>4, <2>11 DEF Grows
  <2>13. Spent(r.st, t)
    BY Zenon, <2>3, <2>4, <2>11 DEF Spent
  <2>14. ~Spent(st, t)
    BY Zenon, <1>1, <1>2, <1>3, <2>3 DEF Spent
  <2> QED
    BY Zenon, <1>5, <2>3, <2>10, <2>12, <2>13, <2>14
<1> QED
  BY Zenon, <1>4, <1>5

\* A spent sequence number stays spent.
LEMMA SpentStays ==
  ASSUME NEW s1 \in States, NEW s2 \in States, Grows(s1, s2), NEW t \in Txs, Spent(s1, t)
  PROVE  Spent(s2, t)
<1> DEFINE a == Signer(t)
<1>1. a \in Accts /\ t.sigs[1].seq \in Nat
  BY Zenon, TxIs
<1>2. /\ s1.acct[a] # NoAcc /\ t.sigs[1].seq < s1.acct[a].seq
      /\ s2.acct[a] # NoAcc /\ s1.acct[a].seq <= s2.acct[a].seq
  BY Zenon, <1>1 DEF Spent, Grows
<1> HIDE DEF a
<1>3. s1.acct[a].seq \in Nat /\ s2.acct[a].seq \in Nat
  BY <1>1, <1>2 DEF States, Accounts
<1>4. \A i, j, k \in Nat : i < j /\ j <= k => i < k
  OBVIOUS
<1> QED
  BY Zenon, <1>1, <1>2, <1>3, <1>4 DEF Spent, a

\* What RunTx's execution of a transaction on a state may do: the ante handler's
\* writes are kept, the first signer's sequence number is used up, and no account
\* is lost, whatever the message handler does.
Effect(r, st, t, verify) ==
  /\ r \in Results /\ Grows(st, r.st)
  /\ r.ok => /\ st.acct[Signer(t)] # NoAcc /\ ~Spent(st, t) /\ Spent(r.st, t)
             /\ verify => t.signed

LEMMA Executed ==
  ASSUME NEW st \in States, NEW t \in Txs, NEW verify \in BOOLEAN, NEW h
  PROVE  Effect(Execute(st, t, verify, h), st, t, verify)
<1> SUFFICES ASSUME NEW r, r = Execute(st, t, verify, h) PROVE Effect(r, st, t, verify)
  BY Zenon
<1> DEFINE ante == AnteHandler(st, t, verify, h)
<1>1. /\ ante \in Results /\ Grows(st, ante.st)
      /\ ante.ok => /\ st.acct[Signer(t)] # NoAcc /\ ~Spent(st, t) /\ Spent(ante.st, t)
                    /\ verify => t.signed
  BY Zenon, AnteSpends
<1>2. r = IF ante.ok THEN InputOutputCoins(ante.st, t) ELSE ante
  BY Zenon DEF Execute
<1> HIDE DEF ante
<1>3. CASE ~ante.ok
  BY Zenon, <1>1, <1>2, <1>3 DEF Effect
<1>4. CASE ante.ok
  <2>1. ante.st \in States
    BY <1>1 DEF Results
  <2>2. r \in Results /\ Grows(ante.st, r.st)
    BY Zenon, <1>2, <1>4, <2>1, MovesGrow
  <2>3. r.st \in States
    BY <2>2 DEF Results
  <2>4. Grows(st, r.st)
    BY Zenon, <1>1, <2>1, <2>2, <2>3, GrowsTransitive
  <2>5. Spent(r.st, t)
    BY Zenon, <1>1, <1>4, <2>1, <2>2, <2>3, SpentStays
  <2> QED
    BY Zenon, <1>1, <1>4, <2>2, <2>4, <2>5 DEF Effect
<1> QED
  BY Zenon, <1>3, <1>4

LEMMA ExecuteIs ==
  ASSUME NEW st \in States, NEW t \in Txs, NEW verify \in BOOLEAN, NEW h
  PROVE  Execute(st, t, verify, h) \in Results
BY Zenon, Executed DEF Effect

\* Skipping the verification of a transaction that is signed changes nothing, and
\* the height only matters in the genesis block.
LEMMA ExecuteSame ==
  ASSUME NEW st, NEW t, NEW verify \in BOOLEAN, NEW h, h # 0, verify \/ t.signed
  PROVE  Execute(st, t, verify, h) = Execute(st, t, TRUE, 1)
<1>1. 1 # 0
  OBVIOUS
<1>2. ValidateAccNumAndSequence(st, t, h) <=> ValidateAccNumAndSequence(st, t, 1)
  BY Zenon, <1>1 DEF ValidateAccNumAndSequence
<1>3. AnteHandler(st, t, verify, h) = AnteHandler(st, t, TRUE, 1)
  BY Zenon, <1>2 DEF AnteHandler
<1> QED
  BY Zenon, <1>3 DEF Execute

-----------------------------------------------------------------------------
(* The deliver state over the tree.                                        *)

\* What a read through a layer and fresh caches returns.
Seen(state, tr) ==
  [acct |-> [a \in Accts |-> IF a \in DOMAIN state.acc THEN state.acc[a].acc ELSE tr.acct[a]],
   next |-> IF state.next = <<>> THEN tr.next ELSE state.next[1]]

\* The state the open block has reached.
Reached == IF deliver = None THEN disk.st ELSE Seen(deliver, tree)

\* The inductive invariant of the refinement.  The tree is the last version until
\* InitChain changes it under the deliver state; a copy the deliver state has not
\* changed is the tree's, so that Commit may leave it out; and a cached transaction
\* is signed unless CheckTx still has to verify it.
LedgerInv ==
  /\ FreshInv
  /\ tree \in States /\ disk.st \in States
  /\ deliver = None => tree = disk.st
  /\ deliver # None => deliver \in Layers /\ CleanFresh(deliver)
  /\ phase \in {"block", "commit"} => deliver # None
  /\ phase = "block" => deliver.height # 0
  /\ phase = "boot" => deliver = None /\ disk.height = 0
  /\ \A t \in msgCache : t \in Txs /\ (t.signed \/ checking = t)

\* The inductive invariant of NoReplay: every transaction that was executed has used
\* up a sequence number of its first signer, in the durable state and in the open block.
AllSpent(st, txs) == \A i \in DOMAIN txs : Spent(st, txs[i])

ReplayInv ==
  /\ disk.log \in Seq(Txs) /\ log \in Seq(Txs)
  /\ AllSpent(disk.st, disk.log) /\ AllSpent(Reached, disk.log \o log)
  /\ deliver = None => log = <<>>
  /\ disk.height = 0 => disk.log = <<>>
  /\ NoReplay

Entries == [acc : {NoAcc} \cup Accounts, dirty : BOOLEAN]

Maps == UNION {[S -> Entries] : S \in SUBSET Accts}

LEMMA MapsAre ==
  ASSUME NEW f
  PROVE  f \in Maps <=> /\ f = [a \in DOMAIN f |-> f[a]] /\ DOMAIN f \subseteq Accts
                        /\ \A a \in DOMAIN f : f[a] \in Entries
<1>1. ASSUME f \in Maps
      PROVE  /\ f = [a \in DOMAIN f |-> f[a]] /\ DOMAIN f \subseteq Accts
             /\ \A a \in DOMAIN f : f[a] \in Entries
  <2>1. PICK S \in SUBSET Accts : f \in [S -> Entries]
    BY Zenon, <1>1 DEF Maps
  <2> QED
    BY Zenon, <2>1
<1>2. ASSUME f = [a \in DOMAIN f |-> f[a]], DOMAIN f \subseteq Accts,
             \A a \in DOMAIN f : f[a] \in Entries
      PROVE  f \in Maps
  <2>1. f \in [DOMAIN f -> Entries]
    BY Zenon, <1>2
  <2> QED
    BY Zenon, <1>2, <2>1 DEF Maps
<1> QED
  BY Zenon, <1>1, <1>2

LEMMA LayersAre ==
  /\ \A l \in Layers : /\ l = [height |-> l.height, acc |-> l.acc, next |-> l.next]
                       /\ l.height \in Nat /\ l.acc \in Maps /\ l.next \in Seq(Nat)
  /\ \A h \in Nat, f \in Maps, n \in Seq(Nat) : [height |-> h, acc |-> f, next |-> n] \in Layers
<1>1. Layers = [height : Nat, acc : Maps, next : Seq(Nat)]
  BY Zenon DEF Layers, Maps, Entries
<1> QED
  BY <1>1

\* A new layer shows the tree.
LEMMA NewLayer ==
  ASSUME NEW h \in Nat, NEW n \in Seq(Nat)
  PROVE  [height |-> h, acc |-> <<>>, next |-> n] \in Layers
<1>1. <<>> \in [{} -> Entries]
  OBVIOUS
<1>2. <<>> \in Maps
  BY Zenon, <1>1 DEF Maps
<1> QED
  BY Zenon, <1>2, LayersAre

\* Reading through a layer.
LEMMA ViewIs ==
  ASSUME LruFresh, NEW l
  PROVE  View(l) = Seen(l, tree)
<1>1. \A a \in Accts : StoreGet(a) = tree.acct[a]
  BY Zenon, StoreGetFresh
<1> QED
  BY Zenon, <1>1 DEF View, Seen

LEMMA SeenIs ==
  ASSUME NEW tr \in States, NEW l \in Layers
  PROVE  Seen(l, tr) \in States
<1> DEFINE acct == [a \in Accts |-> IF a \in DOMAIN l.acc THEN l.acc[a].acc ELSE tr.acct[a]]
           next == IF l.next = <<>> THEN tr.next ELSE l.next[1]
<1>1. /\ l.next \in Seq(Nat) /\ \A a \in DOMAIN l.acc : l.acc[a] \in Entries
  BY Zenon, LayersAre, MapsAre
<1>2. tr.next \in Nat /\ \A a \in Accts : tr.acct[a] \in {NoAcc} \cup Accounts
  BY DEF States
<1>3. \A e \in Entries : e.acc \in {NoAcc} \cup Accounts
  BY DEF Entries
<1>4. next \in Nat
  BY <1>1, <1>2
<1>5. acct \in [Accts -> {NoAcc} \cup Accounts]
  BY Zenon, <1>1, <1>2, <1>3
<1>6. Seen(l, tr) = [acct |-> acct, next |-> next]
  BY Zenon DEF Seen
<1> HIDE DEF acct, next
<1> QED
  BY <1>4, <1>5, <1>6 DEF States

LEMMA SeenSame ==
  ASSUME NEW tr, NEW l, NEW m, l.acc = m.acc, l.next = m.next
  PROVE  Seen(l, tr) = Seen(m, tr)
BY Zenon DEF Seen

\* What an account read through a layer is.
LEMMA SeenAt ==
  ASSUME NEW tr, NEW l, NEW a \in Accts
  PROVE  /\ a \in DOMAIN l.acc => Seen(l, tr).acct[a] = l.acc[a].acc
         /\ a \notin DOMAIN l.acc => Seen(l, tr).acct[a] = tr.acct[a]
<1>1. Seen(l, tr).acct = [b \in Accts |-> IF b \in DOMAIN l.acc THEN l.acc[b].acc ELSE tr.acct[b]]
  BY DEF Seen
<1> QED
  BY Zenon, <1>1

\* Two states are the same when they hold the same.
LEMMA SameState ==
  ASSUME NEW s1 \in States, NEW s2 \in States, s1.next = s2.next,
         \A a \in Accts : s1.acct[a] = s2.acct[a]
  PROVE  s1 = s2
<1>1. s1.acct \in [Accts -> {NoAcc} \cup Accounts] /\ s2.acct \in [Accts -> {NoAcc} \cup Accounts]
  BY DEF States
<1>2. s1.acct = s2.acct
  BY <1>1
<1>3. s1 = [acct |-> s1.acct, next |-> s1.next] /\ s2 = [acct |-> s2.acct, next |-> s2.next]
  BY DEF States
<1> QED
  BY Zenon, <1>2, <1>3

\* Accounts that are read stay what they are.
LEMMA TouchSeen ==
  ASSUME LruFresh, tree \in States, NEW l \in Layers, NEW S \in SUBSET Accts
  PROVE  /\ Touch(l, S) \in Layers /\ Seen(Touch(l, S), tree) = Seen(l, tree)
         /\ Touch(l, S).height = l.height
<1> DEFINE copies == [a \in S |-> [acc |-> StoreGet(a), dirty |-> FALSE]]
           both == Over(l.acc, copies)
<1>1. /\ l = [height |-> l.height, acc |-> l.acc, next |-> l.next]
      /\ l.height \in Nat /\ l.next \in Seq(Nat)
      /\ DOMAIN l.acc \subseteq Accts /\ \A a \in DOMAIN l.acc : l.acc[a] \in Entries
  BY Zenon, LayersAre, MapsAre
<1>2. Touch(l, S) = [height |-> l.height, acc |-> both, next |-> l.next]
  BY <1>1 DEF Touch
<1>3. \A a \in S : copies[a] \in Entries /\ copies[a].acc = tree.acct[a]
  <2> SUFFICES ASSUME NEW a \in S
               PROVE  copies[a] \in Entries /\ copies[a].acc = tree.acct[a]
    OBVIOUS
  <2>1. StoreGet(a) = tree.acct[a]
    BY Zenon, StoreGetFresh
  <2>2. tree.acct[a] \in {NoAcc} \cup Accounts
    BY DEF States
  <2>3. copies[a] = [acc |-> tree.acct[a], dirty |-> FALSE]
    BY Zenon, <2>1
  <2> QED
    BY <2>2, <2>3 DEF Entries
<1>4. DOMAIN copies = S
  BY Zenon
<1> HIDE DEF copies
<1>5. /\ DOMAIN both = DOMAIN l.acc \cup S /\ both = [a \in DOMAIN both |-> both[a]]
      /\ \A a \in DOMAIN both : both[a] = IF a \in DOMAIN l.acc THEN l.acc[a] ELSE copies[a]
  BY Zenon, <1>4 DEF Over
<1> HIDE DEF both
<1>6. both \in Maps
  <2>1. \A a \in DOMAIN both : both[a] \in Entries
    BY Zenon, <1>1, <1>3, <1>5
  <2>2. DOMAIN both \subseteq Accts
    BY Zenon, <1>1, <1>5
  <2> QED
    BY Zenon, <1>5, <2>1, <2>2, MapsAre
<1>7. Touch(l, S) \in Layers
  BY ZenonT(60), <1>1, <1>2, <1>6, LayersAre
<1>8. Touch(l, S).acc = both /\ Touch(l, S).next = l.next /\ Touch(l, S).height = l.height
  BY <1>2
<1>9. Seen(Touch(l, S), tree).next = Seen(l, tree).next
  BY <1>8 DEF Seen
<1>10. ASSUME NEW a \in Accts PROVE Seen(Touch(l, S), tree).acct[a] = Seen(l, tree).acct[a]
  <2>1. /\ a \in DOMAIN l.acc => Seen(l, tree).acct[a] = l.acc[a].acc
        /\ a \notin DOMAIN l.acc => Seen(l, tree).acct[a] = tree.acct[a]
    BY Zenon, SeenAt
  <2>2. /\ a \in DOMAIN both => Seen(Touch(l, S), tree).acct[a] = both[a].acc
        /\ a \notin DOMAIN both => Seen(Touch(l, S), tree).acct[a] = tree.acct[a]
    <3>1. /\ a \in DOMAIN Touch(l, S).acc => Seen(Touch(l, S), tree).acct[a] = Touch(l, S).acc[a].acc
          /\ a \notin DOMAIN Touch(l, S).acc => Seen(Touch(l, S), tree).acct[a] = tree.acct[a]
      BY Zenon, SeenAt
    <3> QED
      BY Zenon, <1>8, <3>1
  <2> QED
    BY Zenon, <1>3, <1>5, <2>1, <2>2
<1>11. Seen(Touch(l, S), tree) \in States /\ Seen(l, tree) \in States
  BY Zenon, <1>7, SeenIs
<1>12. Seen(Touch(l, S), tree) = Seen(l, tree)
  BY Zenon, <1>9, <1>10, <1>11, SameState
<1> QED
  BY Zenon, <1>7, <1>8, <1>12

\* The layer shows what a transaction has written into it.
LEMMA WriteSeen ==
  ASSUME LruFresh, tree \in States, NEW l \in Layers, NEW st \in States
  PROVE  /\ Write(l, st) \in Layers /\ Seen(Write(l, st), tree) = st
         /\ Write(l, st).height = l.height
<1> DEFINE changed == {a \in Accts : st.acct[a] # View(l).acct[a]}
           puts == [a \in changed |-> [acc |-> st.acct[a], dirty |-> TRUE]]
           both == Over(puts, l.acc)
<1>1. /\ l.height \in Nat /\ DOMAIN l.acc \subseteq Accts
      /\ \A a \in DOMAIN l.acc : l.acc[a] \in Entries
  BY Zenon, LayersAre, MapsAre
<1>2. st.next \in Nat /\ \A a \in Accts : st.acct[a] \in {NoAcc} \cup Accounts
  BY DEF States
<1>3. PICK n \in Seq(Nat) : n = <<st.next>> /\ n # <<>> /\ n[1] = st.next
  <2>1. \A k \in Nat : <<k>> \in Seq(Nat) /\ <<k>> # <<>> /\ <<k>>[1] = k
    BY ONLY SMTT(20)
  <2>2. <<st.next>> \in Seq(Nat) /\ <<st.next>> # <<>> /\ <<st.next>>[1] = st.next
    BY Zenon, <1>2, <2>1
  <2> QED
    BY Zenon, <2>2
<1>4. Write(l, st) = [height |-> l.height, acc |-> both, next |-> n]
  BY Zenon, <1>3 DEF Write
<1>5. changed \subseteq Accts /\ \A a \in Accts : a \notin changed => st.acct[a] = Seen(l, tree).acct[a]
  BY Zenon, ViewIs
<1>6. /\ DOMAIN puts = changed
      /\ \A a \in changed : puts[a] = [acc |-> st.acct[a], dirty |-> TRUE]
  BY Zenon
<1> HIDE DEF changed, puts
<1>7. \A a \in changed : puts[a] \in Entries /\ puts[a].acc = st.acct[a]
  <2> SUFFICES ASSUME NEW a \in changed
               PROVE  puts[a] \in Entries /\ puts[a].acc = st.acct[a]
    OBVIOUS
  <2>1. puts[a] = [acc |-> st.acct[a], dirty |-> TRUE] /\ st.acct[a] \in {NoAcc} \cup Accounts
    BY Zenon, <1>2, <1>5, <1>6
  <2> QED
    BY <2>1 DEF Entries
<1>8. /\ DOMAIN both = changed \cup DOMAIN l.acc /\ both = [a \in DOMAIN both |-> both[a]]
      /\ \A a \in DOMAIN both : both[a] = IF a \in changed THEN puts[a] ELSE l.acc[a]
  BY Zenon, <1>6 DEF Over
<1> HIDE DEF both
<1>9. both \in Maps
  <2>1. \A a \in DOMAIN both : both[a] \in Entries
    BY Zenon, <1>1, <1>7, <1>8
  <2>2. DOMAIN both \subseteq Accts
    BY Zenon, <1>1, <1>5, <1>8
  <2> QED
    BY Zenon, <1>8, <2>1, <2>2, MapsAre
<1>10. Write(l, st) \in Layers
  BY ZenonT(60), <1>1, <1>3, <1>9, <1>4, LayersAre
<1>11. /\ Write(l, st).acc = both /\ Write(l, st).next = n
       /\ Write(l, st).height = l.height
  BY <1>4
<1>12. Seen(Write(l, st), tree).next = st.next
  <2>1. Seen(Write(l, st), tree).next =
          IF Write(l, st).next = <<>> THEN tree.next ELSE Write(l, st).next[1]
    BY DEF Seen
  <2> QED
    BY Zenon, <1>3, <1>11, <2>1
<1>13. ASSUME NEW a \in Accts PROVE Seen(Write(l, st), tree).acct[a] = st.acct[a]
  <2>1. /\ a \in DOMAIN l.acc => Seen(l, tree).acct[a] = l.acc[a].acc
        /\ a \notin DOMAIN l.acc => Seen(l, tree).acct[a] = tree.acct[a]
    BY Zenon, SeenAt
  <2>2. /\ a \in DOMAIN both => Seen(Write(l, st), tree).acct[a] = both[a].acc
        /\ a \notin DOMAIN both => Seen(Write(l, st), tree).acct[a] = tree.acct[a]
    <3>1. /\ a \in DOMAIN Write(l, st).acc => Seen(Write(l, st), tree).acct[a] = Write(l, st).acc[a].acc
          /\ a \notin DOMAIN Write(l, st).acc => Seen(Write(l, st), tree).acct[a] = tree.acct[a]
      BY Zenon, SeenAt
    <3> QED
      BY Zenon, <1>11, <3>1
  <2> QED
    BY Zenon, <1>5, <1>7, <1>8, <2>1, <2>2
<1>14. Seen(Write(l, st), tree) = st
  <2>1. Seen(Write(l, st), tree) \in States
    BY Zenon, <1>10, SeenIs
  <2> QED
    BY Zenon, <1>12, <1>13, <2>1, SameState
<1> QED
  BY Zenon, <1>10, <1>11, <1>14

\* RunTx executes the transaction on what the layer shows, and the layer shows the
\* whole effect afterwards, or none.
Shows(run, r, l, tr) ==
  /\ run.ok = r.ok /\ run.state \in Layers /\ run.state.height = l.height
  /\ r.ok => Seen(run.state, tr) = r.st
  /\ ~r.ok => Seen(run.state, tr) = Seen(l, tr)

LEMMA RunTxSeen ==
  ASSUME LruFresh, tree \in States, NEW l \in Layers, NEW t \in Txs, NEW verify \in BOOLEAN
  PROVE  Shows(RunTx(l, t, verify), Execute(Seen(l, tree), t, verify, l.height), l, tree)
<1> SUFFICES ASSUME NEW r, r = Execute(Seen(l, tree), t, verify, l.height),
                    NEW run, run = RunTx(l, t, verify)
             PROVE  Shows(run, r, l, tree)
  BY Zenon
<1> DEFINE read == Touch(l, GetInvolvedAddresses(t))
<1>1. r = Execute(View(l), t, verify, l.height)
  BY Zenon, ViewIs
<1>2. run = [ok |-> r.ok, state |-> IF r.ok THEN Write(read, r.st) ELSE read]
  BY Zenon, <1>1 DEF RunTx
<1>3. read \in Layers /\ Seen(read, tree) = Seen(l, tree) /\ read.height = l.height
  BY Zenon, Involved, TouchSeen
<1>4. r.st \in States
  <2>1. Seen(l, tree) \in States
    BY Zenon, SeenIs
  <2>2. r \in Results
    BY Zenon, <2>1, ExecuteIs
  <2> QED
    BY <2>2 DEF Results
<1>5. /\ Write(read, r.st) \in Layers /\ Seen(Write(read, r.st), tree) = r.st
      /\ Write(read, r.st).height = read.height
  <2> HIDE DEF read
  <2> QED
    BY Zenon, <1>3, <1>4, WriteSeen
<1> HIDE DEF read
<1>6. run.ok = r.ok /\ run.state = IF r.ok THEN Write(read, r.st) ELSE read
  BY SMTT(20), <1>2
<1> QED
  BY Zenon, <1>3, <1>5, <1>6 DEF Shows

-----------------------------------------------------------------------------
(* Every step keeps LedgerInv, and what it does to the state the block has reached. *)

\* A step that leaves the block alone.
LEMMA LedgerFrame ==
  ASSUME LedgerInv, FreshInv', disk' = disk, tree' = tree, deliver' = deliver,
         phase' = phase \/ (phase = "block" /\ phase' = "commit"),
         (\A t \in msgCache : t \in Txs /\ (t.signed \/ checking = t))'
  PROVE  LedgerInv' /\ Reached' = Reached
<1>1. Reached' = Reached
  BY Zenon DEF Reached
<1>2. CleanFresh(deliver)' <=> CleanFresh(deliver)
  BY Zenon DEF CleanFresh
<1>3. CASE phase' = phase
  BY Zenon, <1>1, <1>2, <1>3 DEF LedgerInv
<1>4. CASE phase = "block" /\ phase' = "commit"
  <2>1. deliver # None /\ phase' # "block" /\ phase' # "boot"
    BY <1>4 DEF LedgerInv
  <2> QED
    BY Zenon, <1>1, <1>2, <2>1 DEF LedgerInv
<1> QED
  BY Zenon, <1>3, <1>4

LEMMA LedgerInitChain ==
  ASSUME LedgerInv, FreshInv', InitChain
  PROVE  /\ LedgerInv' /\ disk' = disk /\ log' = log
         /\ disk.st = Empty /\ Reached = Empty /\ Reached' = Genesis
<1>1. disk.height = 0 /\ deliver = None /\ disk.st = Empty /\ tree = Empty
  BY Zenon DEF LedgerInv, InitChain, FreshInv, Boot, DiskEmpty
<1>2. Genesis \in States /\ Empty.next = 0 /\ Empty = [acct |-> Empty.acct, next |-> Empty.next]
  BY StateAssumption
<1>3. tree' = [acct |-> Genesis.acct, next |-> Empty.next]
  BY <1>1, <1>2 DEF InitChain
<1>4. /\ Genesis.acct \in [Accts -> {NoAcc} \cup Accounts] /\ Genesis.next \in Nat
  BY <1>2 DEF States
<1>5. tree' \in States
  BY <1>2, <1>3, <1>4 DEF States
<1>6. PICK n \in Seq(Nat) : n = <<Genesis.next>> /\ n # <<>> /\ n[1] = Genesis.next
  <2>1. \A k \in Nat : <<k>> \in Seq(Nat) /\ <<k>> # <<>> /\ <<k>>[1] = k
    BY ONLY SMTT(20)
  <2>2. <<Genesis.next>> \in Seq(Nat) /\ <<Genesis.next>> # <<>> /\ <<Genesis.next>>[1] = Genesis.next
    BY Zenon, <1>4, <2>1
  <2> QED
    BY Zenon, <2>2
<1>7. deliver' = [NewState(0) EXCEPT !.next = n]
  BY Zenon, <1>6 DEF InitChain
<1>8. deliver' = [height |-> 0, acc |-> <<>>, next |-> n]
  BY <1>7 DEF NewState
<1>9. deliver' \in Layers /\ deliver' # None
  <2>1. 0 \in Nat
    OBVIOUS
  <2>2. deliver' \in Layers
    BY Zenon, <1>8, <2>1, NewLayer
  <2> QED
    BY Zenon, <2>2, StateAssumption
<1>10. deliver'.acc = <<>> /\ deliver'.next = n /\ DOMAIN deliver'.acc = {}
  BY <1>8
<1>11. CleanFresh(deliver)'
  BY Zenon, <1>10 DEF CleanFresh
<1>12. Seen(deliver', tree') = Genesis
  <2>1. Seen(deliver', tree') \in States
    BY Zenon, <1>5, <1>9, SeenIs
  <2>2. \A a \in Accts : Seen(deliver', tree').acct[a] = tree'.acct[a]
    BY Zenon, <1>10, SeenAt
  <2>3. tree'.acct = Genesis.acct
    BY <1>3
  <2>4. Seen(deliver', tree').next = IF deliver'.next = <<>> THEN tree'.next ELSE deliver'.next[1]
    BY DEF Seen
  <2>5. Seen(deliver', tree').next = Genesis.next
    BY Zenon, <1>6, <1>10, <2>4
  <2> QED
    BY ZenonT(60), <1>2, <2>1, <2>2, <2>3, <2>5, SameState
<1>13. Reached' = Genesis
  BY Zenon, <1>9, <1>12 DEF Reached
<1>14. Reached = Empty
  BY Zenon, <1>1 DEF Reached
<1>15. /\ phase' = "wait" /\ disk' = disk /\ log' = log /\ msgCache' = msgCache /\ checking' = checking
  BY Zenon DEF InitChain
<1>16. phase' \notin {"block", "commit", "boot"}
  BY <1>15
<1>17. LedgerInv'
  BY Zenon, <1>5, <1>9, <1>11, <1>15, <1>16 DEF LedgerInv
<1> QED
  BY Zenon, <1>1, <1>13, <1>14, <1>15, <1>17

LEMMA LedgerBeginBlock ==
  ASSUME LedgerInv, FreshInv', BeginBlock
  PROVE  /\ LedgerInv' /\ disk' = disk /\ log' = log /\ Reached' = Reached
         /\ deliver' = None => deliver = None
<1> DEFINE old == IF deliver = None THEN NewState(0) ELSE deliver
           h == disk.height + 1
<1>1. disk.height \in Nat /\ tree \in States
  BY Zenon DEF LedgerInv, FreshInv, DiskEmpty
<1>2. h \in Nat /\ h # 0
  BY <1>1
<1>3. deliver' = [old EXCEPT !.height = h] /\ tree' = tree /\ disk' = disk /\ phase' = "block"
      /\ log' = log /\ msgCache' = msgCache /\ checking' = checking
  BY Zenon DEF BeginBlock
<1>4. old \in Layers
  <2>1. NewState(0) \in Layers
    <3>1. 0 \in Nat /\ <<>> \in Seq(Nat)
      OBVIOUS
    <3> QED
      BY Zenon, <3>1, NewLayer DEF NewState
  <2> QED
    BY Zenon, <2>1 DEF LedgerInv
<1>5. CleanFresh(old) /\ Seen(old, tree) = Reached
  <2>1. CASE deliver # None
    BY Zenon, <2>1 DEF LedgerInv, Reached
  <2>2. CASE deliver = None
    <3>1. old = NewState(0)
      BY Zenon, <2>2
    <3>2. DOMAIN NewState(0).acc = {} /\ NewState(0).next = <<>>
      BY DEF NewState
    <3>3. Seen(old, tree) \in States
      BY Zenon, <1>1, <1>4, SeenIs
    <3>4. \A a \in Accts : Seen(old, tree).acct[a] = tree.acct[a]
      BY ZenonT(60), <3>1, <3>2, SeenAt
    <3>5. Seen(old, tree).next = IF old.next = <<>> THEN tree.next ELSE old.next[1]
      <4> HIDE DEF old
      <4> QED
        BY DEF Seen
    <3>6. Seen(old, tree) = tree
      BY Zenon, <1>1, <3>1, <3>2, <3>3, <3>4, <3>5, SameState
    <3> QED
      BY Zenon, <2>2, <3>1, <3>2, <3>6 DEF LedgerInv, Reached, CleanFresh
  <2> QED
    BY Zenon, <2>1, <2>2
<1> HIDE DEF old, h
<1>6. /\ old = [height |-> old.height, acc |-> old.acc, next |-> old.next]
      /\ old.acc \in Maps /\ old.next \in Seq(Nat)
  BY Zenon, <1>4, LayersAre
<1>7. deliver' = [height |-> h, acc |-> old.acc, next |-> old.next]
  BY <1>3, <1>6
<1>8. deliver'.height = h /\ deliver'.acc = old.acc /\ deliver'.next = old.next
  BY <1>7
<1>9. deliver' \in Layers
  BY Zenon, <1>2, <1>6, <1>7, LayersAre
<1>10. deliver' # None
  BY Zenon, <1>9, StateAssumption
<1>11. Seen(deliver', tree') = Seen(old, tree)
  BY Zenon, <1>3, <1>8, SeenSame
<1>12. CleanFresh(deliver)'
  BY Zenon, <1>3, <1>5, <1>8 DEF CleanFresh
<1>13. phase' # "boot"
  BY <1>3
<1>14. LedgerInv'
  BY Zenon, <1>2, <1>3, <1>8, <1>9, <1>10, <1>12, <1>13 DEF LedgerInv
<1>15. Reached' = Reached
  BY Zenon, <1>5, <1>10, <1>11 DEF Reached
<1> QED
  BY Zenon, <1>3, <1>10, <1>14, <1>15

\* DeliverTx has the whole effect of a verified execution on the state the block has
\* reached, or none.
LEMMA LedgerDeliverTx ==
  ASSUME LedgerInv, FreshInv', NEW t \in Txs, DeliverTx(t),
         NEW r, r = Execute(Reached, t, TRUE, 1)
  PROVE  /\ LedgerInv' /\ disk' = disk /\ Reached \in States /\ deliver' # None /\ phase' # "boot"
         /\ \/ r.ok /\ Reached' = r.st /\ log' = Append(log, t)
            \/ Reached' = Reached /\ log' = log
<1> DEFINE verify == t \notin msgCache
           x == Execute(Seen(deliver, tree), t, verify, deliver.height)
           run == RunTx(deliver, t, verify)
<1>1. /\ LruFresh /\ tree \in States /\ deliver # None /\ deliver \in Layers /\ CleanFresh(deliver)
      /\ IsState(deliver) /\ deliver.height # 0
      /\ checking = None /\ \A u \in msgCache : u \in Txs /\ (u.signed \/ checking = u)
      /\ phase = "block"
  <2>1. phase = "block" /\ checking = None
    BY Zenon DEF DeliverTx, Exclusive
  <2>2. phase \in {"block", "commit"}
    BY <2>1
  <2> QED
    BY Zenon, <2>1, <2>2 DEF LedgerInv, FreshInv, BlockOpen
<1>2. /\ deliver' = run.state /\ log' = IF run.ok THEN Append(log, t) ELSE log
      /\ UNCHANGED <<disk, tree, phase, msgCache, checking>>
  BY Zenon DEF DeliverTx
<1>3. verify \in BOOLEAN /\ (verify \/ t.signed)
  BY Zenon, <1>1, StateAssumption
<1>4. Reached = Seen(deliver, tree) /\ Seen(deliver, tree) \in States
  BY Zenon, <1>1, SeenIs DEF Reached
<1>5. x = r
  BY Zenon, <1>1, <1>3, <1>4, ExecuteSame
<1>6. Shows(run, x, deliver, tree)
  <2> HIDE DEF verify
  <2> QED
    BY Zenon, <1>1, <1>3, RunTxSeen
<1>7. CleanFresh(run.state)
  <2> HIDE DEF verify
  <2> QED
    BY Zenon, <1>1, <1>3, RunTxFresh
<1> HIDE DEF verify, x, run
<1>8. deliver' \in Layers /\ deliver' # None /\ deliver'.height # 0
  BY Zenon, <1>1, <1>2, <1>6, StateAssumption DEF Shows
<1>9. CleanFresh(deliver)'
  BY Zenon, <1>2, <1>7 DEF CleanFresh
<1>10. Reached' = Seen(run.state, tree)
  BY Zenon, <1>2, <1>8 DEF Reached
<1>11. phase' # "boot" /\ disk' = disk
  BY <1>1, <1>2
<1>12. LedgerInv'
  <2>1. tree' = tree /\ msgCache' = msgCache /\ checking' = checking /\ disk.st \in States
    BY Zenon, <1>2 DEF LedgerInv
  <2> QED
    BY Zenon, <1>1, <1>8, <1>9, <1>11, <2>1 DEF LedgerInv
<1>13. CASE r.ok
  BY Zenon, <1>2, <1>4, <1>5, <1>6, <1>8, <1>10, <1>11, <1>12, <1>13
  DEF Shows
<1>14. CASE ~r.ok
  BY Zenon, <1>2, <1>4, <1>5, <1>6, <1>8, <1>10, <1>11, <1>12, <1>14
  DEF Shows
<1> QED
  BY Zenon, <1>13, <1>14

\* Commit makes the block durable as it is.
LEMMA LedgerCommit ==
  ASSUME LedgerInv, FreshInv', Commit
  PROVE  /\ LedgerInv' /\ Reached \in States /\ disk'.st = Reached /\ Reached' = Reached
         /\ disk'.log = disk.log \o log /\ log' = <<>> /\ deliver' = None
         /\ disk'.height = disk.height + 1 /\ disk.height \in Nat /\ phase' = "wait"
<1> DEFINE dirty == {a \in DOMAIN deliver.acc : deliver.acc[a].dirty}
           accts == [a \in Accts |-> IF a \in dirty THEN deliver.acc[a].acc ELSE tree.acct[a]]
           new == [acct |-> accts, next |-> View(deliver).next]
<1>1. /\ LruFresh /\ tree \in States /\ deliver # None /\ deliver \in Layers /\ CleanFresh(deliver)
      /\ checking = None /\ \A u \in msgCache : u \in Txs /\ (u.signed \/ checking = u)
      /\ disk.height \in Nat
  <2>1. phase = "commit" /\ checking = None
    BY Zenon DEF Commit, Alone, Exclusive
  <2>2. phase \in {"block", "commit"}
    BY <2>1
  <2> QED
    BY Zenon, <2>1, <2>2 DEF LedgerInv, FreshInv, DiskEmpty
<1>2. /\ tree' = new
      /\ disk' = [height |-> disk.height + 1, st |-> new, log |-> disk.log \o log]
      /\ deliver' = None /\ log' = <<>> /\ phase' = "wait"
      /\ msgCache' = msgCache /\ checking' = checking
  BY Zenon DEF Commit
<1>3. Reached = Seen(deliver, tree) /\ Seen(deliver, tree) \in States
  BY Zenon, <1>1, SeenIs DEF Reached
<1>4. new = Seen(deliver, tree)
  <2>1. View(deliver) = Seen(deliver, tree)
    BY Zenon, <1>1, ViewIs
  <2>2. ASSUME NEW a \in Accts PROVE accts[a] = Seen(deliver, tree).acct[a]
    <3>1. /\ a \in DOMAIN deliver.acc => Seen(deliver, tree).acct[a] = deliver.acc[a].acc
          /\ a \notin DOMAIN deliver.acc => Seen(deliver, tree).acct[a] = tree.acct[a]
      BY Zenon, SeenAt
    <3>2. CASE a \in dirty
      BY Zenon, <3>1, <3>2
    <3>3. CASE a \notin dirty
      <4>1. a \in DOMAIN deliver.acc => deliver.acc[a].acc = tree.acct[a]
        BY Zenon, <1>1, <3>3 DEF CleanFresh
      <4> QED
        BY Zenon, <3>1, <3>3, <4>1
    <3> QED
      BY Zenon, <3>2, <3>3
  <2>3. accts = [a \in Accts |-> accts[a]]
    BY Zenon
  <2>4. /\ Seen(deliver, tree).acct \in [Accts -> {NoAcc} \cup Accounts]
        /\ Seen(deliver, tree) = [acct |-> Seen(deliver, tree).acct, next |-> Seen(deliver, tree).next]
    BY <1>3 DEF States
  <2> HIDE DEF accts, dirty
  <2>5. accts = Seen(deliver, tree).acct
    BY Zenon, <2>2, <2>3, <2>4
  <2> QED
    BY Zenon, <2>1, <2>4, <2>5
<1> HIDE DEF new
<1>5. disk'.st = new /\ disk'.height = disk.height + 1 /\ disk'.log = disk.log \o log
  BY <1>2
<1>6. Reached' = new
  BY Zenon, <1>2, <1>5 DEF Reached
<1>7. phase' \notin {"block", "commit", "boot"}
  BY <1>2
<1>8. LedgerInv'
  BY Zenon, <1>1, <1>2, <1>3, <1>4, <1>5, <1>7 DEF LedgerInv
<1> QED
  BY Zenon, <1>1, <1>2, <1>3, <1>4, <1>5, <1>6, <1>8

LEMMA LedgerCrash ==
  ASSUME LedgerInv, FreshInv', Crash
  PROVE  LedgerInv' /\ disk' = disk /\ Reached' = disk.st /\ log' = <<>> /\ deliver' = None
<1>1. /\ tree' = disk.st /\ deliver' = None /\ disk' = disk /\ msgCache' = {} /\ log' = <<>>
      /\ phase' = IF disk.height = 0 THEN "boot" ELSE "wait"
  BY Zenon DEF Crash
<1>2. phase' \notin {"block", "commit"} /\ (phase' = "boot" => disk.height = 0)
  BY <1>1
<1>3. Reached' = disk.st
  BY Zenon, <1>1 DEF Reached
<1>4. LedgerInv'
  BY Zenon, <1>1, <1>2 DEF LedgerInv
<1> QED
  BY Zenon, <1>1, <1>3, <1>4

\* An execution that verifies the signatures succeeds only on signed transactions.
LEMMA ExecuteVerifies ==
  ASSUME NEW st, NEW t, NEW h, Execute(st, t, TRUE, h).ok
  PROVE  t.signed
<1> SUFFICES ASSUME ~t.signed PROVE FALSE
  OBVIOUS
<1>1. AnteHandler(st, t, TRUE, h) = [ok |-> FALSE, st |-> st]
  BY Zenon DEF AnteHandler
<1>2. \A r : r = [ok |-> FALSE, st |-> st] => ~r.ok
  BY ONLY SMTT(20)
<1>3. ~AnteHandler(st, t, TRUE, h).ok
  BY Zenon, <1>1, <1>2
<1> QED
  BY Zenon, <1>3 DEF Execute

\* The calls of the mempool and the queries.
LEMMA LedgerMempool ==
  ASSUME LedgerInv, FreshInv', NEW t \in Txs, NEW k \in Kinds,
         \/ CheckTxAfterPre(t) \/ CheckTxAdd(t) \/ CheckTxRun(t) \/ ReCheckTx(t)
         \/ PreCheck(k, t) \/ PreChecked(k, t)
  PROVE  /\ LedgerInv' /\ disk' = disk /\ log' = log /\ Reached' = Reached
         /\ deliver' = None => deliver = None
<1>1. disk' = disk /\ tree' = tree /\ deliver' = deliver /\ phase' = phase /\ log' = log
  BY Zenon DEF CheckTxAfterPre, CheckTxAdd, CheckTxRun, ReCheckTx, PreCheck, PreChecked
<1>2. \A u \in msgCache : u \in Txs /\ (u.signed \/ checking = u)
  BY Zenon DEF LedgerInv
<1>3. checking = None => \A u \in msgCache : u.signed
  BY Zenon, <1>2, StateAssumption
<1>4. \A S \in Cached(msgCache, t) : S \subseteq msgCache \cup {t}
  BY Zenon DEF Cached
<1>5. (\A u \in msgCache : u \in Txs /\ (u.signed \/ checking = u))'
  <2>1. CASE CheckTxAfterPre(t)
    <3>1. msgCache' \subseteq msgCache /\ checking' = checking
      BY Zenon, <2>1 DEF CheckTxAfterPre
    <3> QED
      BY Zenon, <1>2, <3>1
  <2>2. CASE CheckTxAdd(t)
    <3>1. msgCache' \subseteq msgCache \cup {t} /\ checking = None /\ checking' = t
      BY Zenon, <1>4, <2>2 DEF CheckTxAdd, Exclusive
    <3> QED
      BY Zenon, <1>2, <1>3, <3>1
  <2>3. CASE CheckTxRun(t)
    <3> DEFINE r == RunTx(check, t, TRUE)
    <3>1. checking = t /\ msgCache' = KeptAfterCheck(t, r.ok)
      BY Zenon, <2>3 DEF CheckTxRun
    <3>2. r.ok => t.signed
      <4>1. r.ok = Execute(View(check), t, TRUE, check.height).ok
        BY SMTT(20) DEF RunTx
      <4> QED
        BY Zenon, <4>1, ExecuteVerifies
    <3> HIDE DEF r
    <3>3. msgCache' \subseteq msgCache /\ (t \in msgCache' => r.ok)
      BY Zenon, <3>1 DEF KeptAfterCheck
    <3> QED
      BY Zenon, <1>2, <3>1, <3>2, <3>3
  <2>4. CASE ReCheckTx(t) \/ PreCheck(k, t)
    <3>1. msgCache' = msgCache /\ checking' = checking
      BY Zenon, <2>4 DEF ReCheckTx, PreCheck
    <3> QED
      BY Zenon, <1>2, <3>1
  <2>5. CASE PreChecked(k, t)
    <3>1. /\ msgCache' \subseteq msgCache \cup {t} /\ checking' = checking
          /\ t \in msgCache' => t.signed \/ t \in msgCache
      BY Zenon, <1>4, <2>5 DEF PreChecked, PreCheckPasses
    <3> QED
      BY Zenon, <1>2, <3>1
  <2> QED
    BY Zenon, <2>1, <2>2, <2>3, <2>4, <2>5
<1> QED
  BY Zenon, <1>1, <1>5, LedgerFrame

LEMMA LedgerOthers ==
  ASSUME LedgerInv, FreshInv',
         \/ EndBlock \/ UNCHANGED vars
         \/ \E q \in Queriers : QueryFill(q) \/ \E a \in Accts : QueryRead(q, a)
  PROVE  /\ LedgerInv' /\ disk' = disk /\ log' = log /\ Reached' = Reached
         /\ deliver' = None => deliver = None
<1>1. /\ disk' = disk /\ tree' = tree /\ deliver' = deliver /\ log' = log
      /\ msgCache' = msgCache /\ checking' = checking
      /\ phase' = phase \/ (phase = "block" /\ phase' = "commit")
  BY Zenon DEF EndBlock, QueryFill, QueryRead, vars
<1>2. (\A t \in msgCache : t \in Txs /\ (t.signed \/ checking = t))'
  BY Zenon, <1>1 DEF LedgerInv
<1> QED
  BY Zenon, <1>1, <1>2, LedgerFrame

LEMMA LedgerInit == Init => LedgerInv /\ disk.st = Empty /\ Reached = Empty
<1> SUFFICES ASSUME Init PROVE LedgerInv /\ disk.st = Empty /\ Reached = Empty
  OBVIOUS
<1>1. FreshInv
  BY Zenon, FreshInit
<1>2. /\ disk = [height |-> 0, st |-> Empty, log |-> <<>>] /\ tree = Empty /\ deliver = None
      /\ phase = "boot" /\ msgCache = {}
  BY Zenon DEF Init
<1>3. disk.st = Empty /\ disk.height = 0 /\ phase \notin {"block", "commit"}
  BY <1>2
<1>4. Empty \in States
  BY StateAssumption DEF States
<1>5. LedgerInv
  BY Zenon, <1>1, <1>2, <1>3, <1>4 DEF LedgerInv
<1> QED
  BY Zenon, <1>2, <1>3, <1>5 DEF Reached

LEMMA LedgerStep == LedgerInv /\ [Next]_vars => LedgerInv'
<1> SUFFICES ASSUME LedgerInv, [Next]_vars PROVE LedgerInv'
  OBVIOUS
<1>1. FreshInv'
  BY Zenon, FreshStep DEF LedgerInv
<1>2. ASSUME NEW t \in Txs, NEW k \in Kinds,
             \/ CheckTxAfterPre(t) \/ CheckTxAdd(t) \/ CheckTxRun(t) \/ ReCheckTx(t)
             \/ PreCheck(k, t) \/ PreChecked(k, t)
      PROVE  LedgerInv'
  BY Zenon, <1>1, <1>2, LedgerMempool
<1>3. ASSUME NEW t \in Txs, DeliverTx(t) PROVE LedgerInv'
  BY Zenon, <1>1, <1>3, LedgerDeliverTx
<1>4. "check" \in Kinds
  BY DEF Kinds
<1>5. CASE InitChain \/ BeginBlock \/ Commit \/ Crash
  BY Zenon, <1>1, <1>5, LedgerInitChain, LedgerBeginBlock, LedgerCommit, LedgerCrash
<1>6. CASE \/ EndBlock \/ UNCHANGED vars
           \/ \E q \in Queriers : QueryFill(q) \/ \E a \in Accts : QueryRead(q, a)
  BY Zenon, <1>1, <1>6, LedgerOthers
<1> QED
  BY Zenon, <1>2, <1>3, <1>4, <1>5, <1>6 DEF Next

\* What the refinement mapping makes of the open block.
Open == IF deliver = None THEN disk.st ELSE View(deliver)

LEMMA OpenIs == LedgerInv => Open = Reached
BY Zenon, ViewIs DEF LedgerInv, FreshInv, Open, Reached

\* Every step of the application is a step of the ledger, or leaves it alone.
LEMMA LedgerNext ==
  ASSUME LedgerInv, LedgerInv', [Next]_vars, Open = Reached, Open' = Reached'
  PROVE  TheLedger!Next \/ UNCHANGED <<disk.st, Open>>
<1>1. FreshInv'
  BY Zenon DEF LedgerInv
<1>2. CASE InitChain
  <2>1. /\ disk.st = Empty /\ Reached = Empty /\ Reached' = Genesis /\ disk'.st = disk.st
    BY Zenon, <1>1, <1>2, LedgerInitChain
  <2>2. TheLedger!InitChain
    BY Zenon, <2>1 DEF TheLedger!InitChain, Open
  <2> QED
    BY Zenon, <2>2 DEF TheLedger!Next
<1>3. ASSUME NEW t \in Txs, DeliverTx(t)
      PROVE  TheLedger!Next \/ UNCHANGED <<disk.st, Open>>
  <2> DEFINE r == Execute(Reached, t, TRUE, 1)
  <2>1. /\ disk' = disk /\ Reached \in States
        /\ (r.ok /\ Reached' = r.st) \/ Reached' = Reached
    BY Zenon, <1>1, <1>3, LedgerDeliverTx
  <2>2. CASE r.ok /\ Reached' = r.st
    <3>1. Reached.acct[Signer(t)] # NoAcc
      <4>1. TRUE \in BOOLEAN
        OBVIOUS
      <4>2. Effect(r, Reached, t, TRUE)
        BY Zenon, <2>1, <4>1, Executed
      <4> QED
        BY Zenon, <2>2, <4>2 DEF Effect
    <3>2. Empty.acct[Signer(t)] = NoAcc
      BY StateAssumption, TxIs
    <3>3. TheLedger!Deliver(t)
      BY Zenon, <2>1, <2>2, <3>1, <3>2 DEF TheLedger!Deliver, Open
    <3> QED
      BY Zenon, <3>3 DEF TheLedger!Next
  <2>3. CASE Reached' = Reached
    BY Zenon, <2>1, <2>3
  <2> QED
    BY Zenon, <2>1, <2>2, <2>3
<1>4. CASE Commit
  <2>1. disk'.st = Reached /\ Reached' = Reached
    BY Zenon, <1>1, <1>4, LedgerCommit
  <2>2. TheLedger!Commit
    BY Zenon, <2>1 DEF TheLedger!Commit, Open
  <2> QED
    BY Zenon, <2>2 DEF TheLedger!Next
<1>5. CASE Crash
  <2>1. disk'.st = disk.st /\ Reached' = disk.st
    BY Zenon, <1>1, <1>5, LedgerCrash
  <2>2. TheLedger!Crash
    BY Zenon, <2>1 DEF TheLedger!Crash, Open
  <2> QED
    BY Zenon, <2>2 DEF TheLedger!Next
<1>6. CASE \/ BeginBlock \/ EndBlock \/ UNCHANGED vars
           \/ \E q \in Queriers : QueryFill(q) \/ \E a \in Accts : QueryRead(q, a)
           \/ \E t \in Txs : CheckTxAfterPre(t) \/ CheckTxAdd(t) \/ CheckTxRun(t) \/ ReCheckTx(t)
           \/ \E k \in Kinds, t \in Txs : PreCheck(k, t) \/ PreChecked(k, t)
  <2>1. "check" \in Kinds
    BY DEF Kinds
  <2>2. disk' = disk /\ Reached' = Reached
    BY ZenonT(60), <1>1, <1>6, <2>1, LedgerBeginBlock, LedgerOthers, LedgerMempool
  <2> QED
    BY Zenon, <2>2
<1> QED
  BY Zenon, <1>2, <1>3, <1>4, <1>5, <1>6 DEF Next

\* The application is the ledger Ledger describes: for any accounts, transactions,
\* cache sizes, queries and number of blocks, every call of baseapp, the concurrent
\* checks, the caches and crashes included, has on the durable state and the open block
\* the effect of one step of the ledger or none.
THEOREM ImplementsLedger == Spec => RefinesLedger
<1>1. Init => TheLedger!Init
  BY Zenon, LedgerInit, OpenIs DEF TheLedger!Init, Open
<1>2. LedgerInv /\ LedgerInv' /\ [Next]_vars /\ Open = Reached /\ (Open = Reached)'
        => [TheLedger!Next]_<<disk.st, Open>>
  BY Zenon, LedgerNext
<1> QED
  BY <1>1, <1>2, LedgerInit, LedgerStep, OpenIs, PTL DEF Spec, RefinesLedger, TheLedger!Spec, Open

-----------------------------------------------------------------------------
(* Sequence numbers keep a transaction from being executed twice.          *)

Once(txs) == \A i, j \in DOMAIN txs : txs[i] = txs[j] => i = j

\* A transaction that finds its sequence number unused can be added.
LEMMA SpendOnce ==
  ASSUME NEW txs \in Seq(Txs), NEW t \in Txs, NEW s1 \in States, NEW s2 \in States,
         Grows(s1, s2), AllSpent(s1, txs), Once(txs), ~Spent(s1, t), Spent(s2, t)
  PROVE  AllSpent(s2, Append(txs, t)) /\ Once(Append(txs, t))
<1> DEFINE new == Append(txs, t)
           n == Len(txs) + 1
<1>1. /\ n \notin DOMAIN txs /\ DOMAIN new = DOMAIN txs \cup {n} /\ new[n] = t
      /\ \A i \in DOMAIN txs : new[i] = txs[i] /\ txs[i] \in Txs
  OBVIOUS
<1> HIDE DEF new, n
<1>2. \A i \in DOMAIN txs : Spent(s2, txs[i]) /\ txs[i] # t
  BY Zenon, <1>1, SpentStays DEF AllSpent
<1>3. AllSpent(s2, new)
  BY Zenon, <1>1, <1>2 DEF AllSpent
<1>4. Once(new)
  BY Zenon, <1>1, <1>2 DEF Once
<1> QED
  BY Zenon, <1>3, <1>4 DEF new

\* Part of a log.
LEMMA LogIs ==
  ASSUME NEW a \in Seq(Txs), NEW b \in Seq(Txs)
  PROVE  /\ a \o b \in Seq(Txs) /\ a \o <<>> = a /\ <<>> \in Seq(Txs)
         /\ Once(a \o b) => Once(a)
<1>1. a \o b \in Seq(Txs) /\ a \o <<>> = a /\ <<>> \in Seq(Txs)
  OBVIOUS
<1>2. DOMAIN a \subseteq DOMAIN (a \o b) /\ \A i \in DOMAIN a : (a \o b)[i] = a[i]
  OBVIOUS
<1> QED
  BY Zenon, <1>1, <1>2 DEF Once

LEMMA LogAdd ==
  ASSUME NEW a \in Seq(Txs), NEW b \in Seq(Txs), NEW t \in Txs
  PROVE  a \o Append(b, t) = Append(a \o b, t) /\ Append(b, t) \in Seq(Txs)
OBVIOUS

LEMMA ReplayInit == Init => ReplayInv
<1> SUFFICES ASSUME Init PROVE ReplayInv
  OBVIOUS
<1>1. disk.log = <<>> /\ log = <<>>
  BY DEF Init
<1>2. <<>> \in Seq(Txs) /\ <<>> \o <<>> = <<>> /\ DOMAIN <<>> = {}
  OBVIOUS
<1> QED
  BY Zenon, <1>1, <1>2 DEF ReplayInv, AllSpent, NoReplay

LEMMA ReplayStep ==
  ASSUME LedgerInv, ReplayInv, [Next]_vars, LedgerInv'
  PROVE  ReplayInv'
<1> DEFINE all == disk.log \o log
<1>1. FreshInv' /\ disk.st \in States /\ disk'.st \in States
  BY Zenon DEF LedgerInv
<1>2. /\ disk.log \in Seq(Txs) /\ log \in Seq(Txs) /\ all \in Seq(Txs)
      /\ AllSpent(disk.st, disk.log) /\ AllSpent(Reached, all) /\ Once(all)
  BY Zenon, LogIs DEF ReplayInv, NoReplay, Once
<1>3. ASSUME disk' = disk, log' = log, Reached' = Reached, deliver' = None => deliver = None
      PROVE  ReplayInv'
  BY Zenon, <1>3 DEF ReplayInv, NoReplay
<1>4. CASE InitChain
  <2>1. deliver = None /\ disk.height = 0 /\ disk' = disk /\ log' = log
    BY Zenon, <1>1, <1>4, LedgerInitChain DEF LedgerInv, InitChain
  <2>2. disk.log = <<>> /\ log = <<>>
    BY Zenon, <2>1 DEF ReplayInv
  <2>3. <<>> \o <<>> = <<>> /\ DOMAIN <<>> = {} /\ <<>> \in Seq(Txs)
    OBVIOUS
  <2> QED
    BY Zenon, <2>1, <2>2, <2>3 DEF ReplayInv, AllSpent, NoReplay
<1>5. ASSUME NEW t \in Txs, DeliverTx(t) PROVE ReplayInv'
  <2> DEFINE r == Execute(Reached, t, TRUE, 1)
  <2>1. /\ disk' = disk /\ Reached \in States /\ deliver' # None
        /\ \/ r.ok /\ Reached' = r.st /\ log' = Append(log, t)
           \/ Reached' = Reached /\ log' = log
    BY Zenon, <1>1, <1>5, LedgerDeliverTx
  <2>2. CASE r.ok /\ Reached' = r.st /\ log' = Append(log, t)
    <3>1. TRUE \in BOOLEAN
      OBVIOUS
    <3>2. Effect(r, Reached, t, TRUE)
      BY Zenon, <2>1, <3>1, Executed
    <3>3. Grows(Reached, r.st) /\ ~Spent(Reached, t) /\ Spent(r.st, t) /\ r \in Results
      BY Zenon, <2>2, <3>2 DEF Effect
    <3> HIDE DEF r
    <3>4. r.st \in States
      BY <3>3 DEF Results
    <3>5. AllSpent(r.st, Append(all, t)) /\ Once(Append(all, t))
      BY Zenon, <1>2, <2>1, <3>3, <3>4, SpendOnce
    <3>6. disk.log \o Append(log, t) = Append(disk.log \o log, t) /\ Append(log, t) \in Seq(Txs)
      <4>1. disk.log \in Seq(Txs) /\ log \in Seq(Txs)
        BY Zenon, <1>2
      <4> HIDE DEF all
      <4> QED
        BY Zenon, <4>1, LogAdd
    <3>7. disk'.log \o log' = Append(all, t) /\ log' \in Seq(Txs)
      BY Zenon, <2>1, <2>2, <3>6
    <3> HIDE DEF all
    <3>8. AllSpent(Reached', disk'.log \o log') /\ Once(disk'.log \o log')
      BY Zenon, <2>2, <3>5, <3>7
    <3>9. NoReplay'
      BY Zenon, <3>8 DEF NoReplay, Once
    <3> QED
      BY Zenon, <1>2, <2>1, <3>7, <3>8, <3>9 DEF ReplayInv
  <2>3. CASE Reached' = Reached /\ log' = log
    BY Zenon, <1>3, <2>1, <2>3
  <2> QED
    BY Zenon, <2>1, <2>2, <2>3
<1>6. CASE Commit
  <2>1. /\ disk'.st = Reached /\ Reached' = Reached /\ disk'.log = all /\ log' = <<>>
        /\ deliver' = None /\ disk'.height = disk.height + 1 /\ disk.height \in Nat
    BY Zenon, <1>1, <1>6, LedgerCommit
  <2>2. disk'.height # 0
    <3>1. \A k \in Nat : k + 1 # 0
      BY ONLY SMTT(20)
    <3> QED
      BY Zenon, <2>1, <3>1
  <2>3. all \o <<>> = all /\ <<>> \in Seq(Txs)
    BY Zenon, <1>2, LogIs
  <2> HIDE DEF all
  <2>4. disk'.log \o log' = all /\ disk'.log \in Seq(Txs) /\ log' \in Seq(Txs)
    BY Zenon, <1>2, <2>1, <2>3
  <2>5. AllSpent(Reached', disk'.log \o log') /\ AllSpent(disk'.st, disk'.log)
    BY Zenon, <1>2, <2>1, <2>4
  <2>6. NoReplay'
    BY Zenon, <1>2, <2>4 DEF NoReplay, Once
  <2> QED
    BY Zenon, <2>1, <2>2, <2>4, <2>5, <2>6 DEF ReplayInv
<1>7. CASE Crash
  <2>1. disk' = disk /\ Reached' = disk.st /\ log' = <<>>
    BY Zenon, <1>1, <1>7, LedgerCrash
  <2>2. disk.log \o <<>> = disk.log /\ <<>> \in Seq(Txs) /\ Once(disk.log)
    BY Zenon, <1>2, LogIs
  <2> HIDE DEF all
  <2>3. disk.height = 0 => disk.log = <<>>
    BY Zenon DEF ReplayInv
  <2>4. disk'.log \o log' = disk.log /\ disk'.log = disk.log /\ log' \in Seq(Txs)
    BY Zenon, <2>1, <2>2
  <2>5. AllSpent(Reached', disk'.log \o log') /\ AllSpent(disk'.st, disk'.log)
    BY Zenon, <1>2, <2>1, <2>4
  <2>6. NoReplay'
    BY Zenon, <2>2, <2>4 DEF NoReplay, Once
  <2> QED
    BY Zenon, <1>2, <2>1, <2>3, <2>4, <2>5, <2>6 DEF ReplayInv
<1>8. CASE \/ BeginBlock \/ EndBlock \/ UNCHANGED vars
           \/ \E q \in Queriers : QueryFill(q) \/ \E a \in Accts : QueryRead(q, a)
           \/ \E t \in Txs : CheckTxAfterPre(t) \/ CheckTxAdd(t) \/ CheckTxRun(t) \/ ReCheckTx(t)
           \/ \E k \in Kinds, t \in Txs : PreCheck(k, t) \/ PreChecked(k, t)
  <2>1. "check" \in Kinds
    BY DEF Kinds
  <2>2. disk' = disk /\ log' = log /\ Reached' = Reached /\ (deliver' = None => deliver = None)
    BY ZenonT(60), <1>1, <1>8, <2>1, LedgerBeginBlock, LedgerOthers, LedgerMempool
  <2> QED
    BY Zenon, <1>3, <2>2
<1> QED
  BY Zenon, <1>4, <1>5, <1>6, <1>7, <1>8 DEF Next

\* No transaction that ValidateBasic lets through, also one that names an input
\* twice, is executed twice by DeliverTx, in one block or in two, whatever
\* checks, crashes and blocks that were never committed came in between: the ante
\* handler's sequence numbers survive in exactly the states the log survives in.
THEOREM NeverReplayed == Spec => []NoReplay
<1>1. LedgerInv /\ ReplayInv /\ [Next]_vars /\ LedgerInv' => ReplayInv'
  BY Zenon, ReplayStep
<1>2. ReplayInv => NoReplay
  BY Zenon DEF ReplayInv
<1> QED
  BY <1>1, <1>2, LedgerInit, LedgerStep, ReplayInit, PTL DEF Spec
=============================================================================
