------------------------------- MODULE BaseApp -------------------------------
(***************************************************************************)
(* The ABCI application of baseapp: the committed multistore, the check and *)
(* deliver states, the two levels of account caches above it, and the cache *)
(* of verified transactions that CheckTx, DeliverTx and the concurrent      *)
(* pre-checks share.                                                        *)
(*                                                                         *)
(* The client guarantees (AsyncLocalClient) that CheckTx, DeliverTx and     *)
(* Commit exclude each other and every query, that pre-checks run at any    *)
(* time, and that no call is outstanding when EndBlock and Commit run.      *)
(***************************************************************************)
EXTENDS StdTx

CONSTANTS
  Genesis,        \* the accounts initChainer creates, [acct, next]
  Empty,          \* the state of a new database
  Queriers,       \* concurrent custom queries
  HasPreChecker,  \* does the application set a pre-checker
  MsgCacheSize,   \* TxMsgCacheSize
  AccCacheSize,   \* capacity of the account store cache
  MaxHeight,      \* bound on the number of blocks
  None

VARIABLES
  disk,       \* [height, st, log]: the last version of the multistore, and the
              \* transactions that led to it (history)
  tree,       \* the working trees of the multistore
  lru,        \* accountStoreCache.cache
  check,      \* CheckState
  deliver,    \* DeliverState, or None
  phase,      \* the consensus connection
  item,       \* the calls in progress on each transaction
  msgCache,   \* txMsgCache
  checking,   \* the transaction inside CheckTx, or None
  log,        \* transactions executed in the open block (history)
  reading     \* the account a query has read from the tree, or None

vars == <<disk, tree, lru, check, deliver, phase, item, msgCache,
          checking, log, reading>>

\* What a check or deliver state may hold.
Layers ==
  [height : Nat,
   acc : UNION {[S -> [acc : {NoAcc} \cup Accounts, dirty : BOOLEAN]] : S \in SUBSET Accts},
   next : Seq(Nat)]

\* A new database holds no account.
ASSUME StateAssumption ==
  /\ Empty = [acct |-> [a \in Accts |-> NoAcc], next |-> 0] /\ Genesis \in States
  /\ NoAcc \notin Accounts /\ None \notin Txs \cup Layers

Kinds == {"check", "deliver"}

\* The entries of f over those of g: a map after f's entries are put into it.
Over(f, g) ==
  [x \in DOMAIN f \cup DOMAIN g |-> IF x \in DOMAIN f THEN f[x] ELSE g[x]]

\* A cache of capacity n that overflows drops entries by their last use; the
\* model lets it drop any.
Evicted(f, n) ==
  {Restrict(f, S) : S \in {S \in SUBSET DOMAIN f :
      Cardinality(S) = IF Cardinality(DOMAIN f) <= n THEN Cardinality(DOMAIN f) ELSE n}}

\* Adding t to txMsgCache.
Cached(c, t) == {S \in SUBSET (c \cup {t}) :
  /\ t \in S
  /\ Cardinality(S) = IF Cardinality(c \cup {t}) <= MsgCacheSize
                      THEN Cardinality(c \cup {t}) ELSE MsgCacheSize}
-----------------------------------------------------------------------------
(* The account caches.  A layer maps the addresses it has seen to           *)
(* [acc, dirty]; below it is accountStoreCache, an LRU cache over the tree.  *)
(* next is <<>> until it is written, and then <<the number>>.                *)

NewState(height) == [height |-> height, acc |-> <<>>, next |-> <<>>]

\* accountStoreCache.GetAccount
StoreGet(a) == IF a \in DOMAIN lru THEN lru[a] ELSE tree.acct[a]

\* accountCache.GetAccount and the cache-wrapped multistore
View(state) ==
  [acct |-> [a \in Accts |-> IF a \in DOMAIN state.acc THEN state.acc[a].acc ELSE StoreGet(a)],
   next |-> IF state.next = <<>> THEN tree.next ELSE state.next[1]]

\* The accounts of S are read through the layer: clean copies stay in it ...
Touch(state, S) ==
  [state EXCEPT !.acc = Over(@, [a \in S |-> [acc |-> StoreGet(a), dirty |-> FALSE]])]

\* ... and those that exist stay in the LRU cache.
Filled(S) ==
  Evicted(Over(lru, [a \in {a \in S : tree.acct[a] # NoAcc} |-> tree.acct[a]]), AccCacheSize)

\* accountCache.Write and msCache.Write of a transaction, into the state below.
Write(state, st) ==
  [height |-> state.height,
   acc |-> Over([a \in {a \in Accts : st.acct[a] # View(state).acct[a]} |->
                   [acc |-> st.acct[a], dirty |-> TRUE]], state.acc),
   next |-> <<st.next>>]

\* RunTx and ReRunTx: the state after the call.  The transaction's caches are
\* written only when the handler succeeds.
\* Mutant: they are written whatever the handler returns.
RunTxAlwaysWrites(state, t, verify) ==
  LET r == Execute(View(state), t, verify, state.height) IN
  [ok |-> r.ok, state |-> Write(Touch(state, GetInvolvedAddresses(t)), r.st)]
RunTx(state, t, verify) ==
  LET r == Execute(View(state), t, verify, state.height)
      read == Touch(state, GetInvolvedAddresses(t))
  IN [ok |-> r.ok, state |-> IF r.ok THEN Write(read, r.st) ELSE read]

Init ==
  /\ disk = [height |-> 0, st |-> Empty, log |-> <<>>]
  /\ tree = Empty
  /\ lru = <<>>
  /\ check = NewState(0) /\ deliver = None
  /\ phase = "boot"
  /\ item = [k \in Kinds |-> [t \in Txs |-> "idle"]]
  /\ msgCache = {} /\ checking = None
  /\ log = <<>>
  /\ reading = [q \in Queriers |-> None]

\* rwLock is free for an exclusive call.
Exclusive == checking = None /\ \A q \in Queriers : reading[q] = None
\* EndBlock and Commit also wait for every outstanding call.
Alone == Exclusive /\ \A k \in Kinds, t \in Txs : item[k][t] = "idle"
-----------------------------------------------------------------------------
(* The consensus connection. *)

\* The accounts of initChainer go through the deliver state's account cache
\* into AccountStoreCache at once; the other stores stay in its multistore.
InitChain ==
  /\ phase = "boot" /\ Exclusive
  /\ deliver' = [NewState(0) EXCEPT !.next = <<Genesis.next>>]
  /\ check' = NewState(0)
  /\ tree' = [tree EXCEPT !.acct = Genesis.acct]
  /\ lru' \in Evicted(Over([a \in {a \in Accts : Genesis.acct[a] # NoAcc} |-> Genesis.acct[a]],
                           lru), AccCacheSize)
  /\ phase' = "wait"
  /\ UNCHANGED <<disk, item, msgCache, checking, log, reading>>

BeginBlock ==
  /\ phase = "wait" /\ Exclusive /\ disk.height < MaxHeight
  /\ deliver' = [IF deliver = None THEN NewState(0) ELSE deliver EXCEPT !.height = disk.height + 1]
  /\ phase' = "block"
  /\ UNCHANGED <<disk, tree, lru, check, item, msgCache, checking, log, reading>>

DeliverTx(t) ==
  /\ phase = "block" /\ Exclusive /\ item["deliver"][t] = "ready"
  /\ LET r == RunTx(deliver, t, t \notin msgCache) IN
     /\ deliver' = r.state
     /\ log' = IF r.ok THEN Append(log, t) ELSE log
  /\ lru' \in Filled(GetInvolvedAddresses(t))
  /\ item' = [item EXCEPT !["deliver"][t] = "idle"]
  /\ UNCHANGED <<disk, tree, check, phase, msgCache, checking, reading>>

EndBlock ==
  /\ phase = "block" /\ Alone
  /\ phase' = "commit"
  /\ UNCHANGED <<disk, tree, lru, check, deliver, item, msgCache, checking, log, reading>>

\* The check state that follows a commit.
\* Mutant: the old one is kept.
AfterCommitKept(height) == check
AfterCommit(height) == NewState(height)

\* The LRU cache after the accounts of dirty were written through it.
WrittenLru(dirty) == Over([a \in dirty |-> deliver.acc[a].acc], lru)

Commit ==
  /\ phase = "commit" /\ Alone
  /\ LET dirty == {a \in DOMAIN deliver.acc : deliver.acc[a].dirty}
         accts == [a \in Accts |-> IF a \in dirty THEN deliver.acc[a].acc ELSE tree.acct[a]]
         new == [acct |-> accts, next |-> View(deliver).next]
     IN /\ lru' \in Evicted(WrittenLru(dirty), AccCacheSize)
        /\ tree' = new
        /\ disk' = [height |-> disk.height + 1, st |-> new, log |-> disk.log \o log]
  /\ check' = AfterCommit(disk.height + 1)
  /\ deliver' = None /\ log' = <<>> /\ phase' = "wait"
  /\ UNCHANGED <<item, msgCache, checking, reading>>
-----------------------------------------------------------------------------
(* The mempool connection and the pre-checks. *)

\* preCheck, up to the pre-checker: a transaction in the cache needs none.
PreCheck(k, t) ==
  /\ item[k][t] = "idle"
  /\ IF k = "deliver" THEN phase = "block" ELSE phase # "boot"
  /\ item' = [item EXCEPT ![k][t] = IF HasPreChecker /\ t \notin msgCache
                                    THEN "verify" ELSE "ready"]
  /\ UNCHANGED <<disk, tree, lru, check, deliver, phase, msgCache, checking, log, reading>>

\* The pre-checker verifies the signatures.
PreCheckPasses(t) == t.signed

\* The pre-checker returns; a transaction that passes is cached.
PreChecked(k, t) ==
  /\ item[k][t] = "verify"
  /\ IF PreCheckPasses(t)
     THEN msgCache' \in Cached(msgCache, t) /\ item' = [item EXCEPT ![k][t] = "ready"]
     ELSE UNCHANGED msgCache /\ item' = [item EXCEPT ![k][t] = "idle"]
  /\ UNCHANGED <<disk, tree, lru, check, deliver, phase, checking, log, reading>>

\* CheckTx of a transaction that is cached: no second verification.
CheckTxAfterPre(t) ==
  /\ item["check"][t] = "ready" /\ Exclusive /\ t \in msgCache
  /\ LET r == RunTx(check, t, FALSE) IN
     /\ check' = r.state
     /\ msgCache' = IF r.ok THEN msgCache ELSE msgCache \ {t}
  /\ lru' \in Filled(GetInvolvedAddresses(t))
  /\ item' = [item EXCEPT !["check"][t] = "idle"]
  /\ UNCHANGED <<disk, tree, deliver, phase, checking, log, reading>>

\* CheckTx of another one: it is cached before it runs ("for recheck") ...
CheckTxAdd(t) ==
  /\ item["check"][t] = "ready" /\ Exclusive /\ t \notin msgCache
  /\ msgCache' \in Cached(msgCache, t)
  /\ checking' = t
  /\ UNCHANGED <<disk, tree, lru, check, deliver, phase, item, log, reading>>

\* What the cache keeps after a CheckTx.
KeptAfterCheck(t, ok) == IF ok THEN msgCache ELSE msgCache \ {t}

\* ... and is removed when the run fails ("not usable by DeliverTx").
CheckTxRun(t) ==
  /\ checking = t
  /\ LET r == RunTx(check, t, TRUE) IN
     /\ check' = r.state
     /\ msgCache' = KeptAfterCheck(t, r.ok)
  /\ lru' \in Filled(GetInvolvedAddresses(t))
  /\ checking' = None
  /\ item' = [item EXCEPT !["check"][t] = "idle"]
  /\ UNCHANGED <<disk, tree, deliver, phase, log, reading>>

\* After Commit the mempool reruns what it holds on the new check state.
ReCheckTx(t) ==
  /\ phase = "wait" /\ disk.height > 0 /\ Exclusive
  /\ check' = RunTx(check, t, FALSE).state
  /\ lru' \in Filled(GetInvolvedAddresses(t))
  /\ UNCHANGED <<disk, tree, deliver, phase, item, msgCache, checking, log, reading>>

\* A custom query reads an account through a cache of its own: a miss in the
\* LRU cache reads the tree ...
QueryRead(q, a) ==
  /\ reading[q] = None /\ checking = None
  /\ a \notin DOMAIN lru /\ tree.acct[a] # NoAcc
  /\ reading' = [reading EXCEPT ![q] = [addr |-> a, acc |-> tree.acct[a]]]
  /\ UNCHANGED <<disk, tree, lru, check, deliver, phase, item, msgCache, checking, log>>

\* ... and then fills the LRU cache.
QueryFill(q) ==
  /\ reading[q] # None
  /\ lru' \in Evicted(Over([a \in {reading[q].addr} |-> reading[q].acc], lru), AccCacheSize)
  /\ reading' = [reading EXCEPT ![q] = None]
  /\ UNCHANGED <<disk, tree, check, deliver, phase, item, msgCache, checking, log>>
-----------------------------------------------------------------------------
\* The process dies and is started again: only the multistore's last version
\* survives.
Crash ==
  /\ tree' = disk.st /\ lru' = <<>>
  /\ check' = NewState(disk.height) /\ deliver' = None
  /\ phase' = IF disk.height = 0 THEN "boot" ELSE "wait"
  /\ item' = [k \in Kinds |-> [t \in Txs |-> "idle"]]
  /\ msgCache' = {} /\ checking' = None /\ log' = <<>>
  /\ reading' = [q \in Queriers |-> None]
  /\ UNCHANGED disk

Next ==
  \/ InitChain \/ BeginBlock \/ EndBlock \/ Commit \/ Crash
  \/ \E t \in Txs : DeliverTx(t) \/ CheckTxAfterPre(t) \/ CheckTxAdd(t)
                    \/ CheckTxRun(t) \/ ReCheckTx(t)
  \/ \E k \in Kinds, t \in Txs : PreCheck(k, t) \/ PreChecked(k, t)
  \/ \E q \in Queriers : QueryFill(q) \/ \E a \in Accts : QueryRead(q, a)

Spec == Init /\ [][Next]_vars
-----------------------------------------------------------------------------
\* No cache serves an account of an older block: the LRU cache, which queries
\* fill in two steps and Commit writes beside the tree, agrees with the tree, and
\* so does every account the check state has read and not changed.
CachesFresh ==
  /\ \A a \in DOMAIN lru : lru[a] = tree.acct[a]
  /\ \A a \in DOMAIN check.acc : ~check.acc[a].dirty => check.acc[a].acc = tree.acct[a]

\* A transaction is executed in a block at most once, whatever mix of checks,
\* crashes and rejected blocks came before.
NoReplay ==
  LET all == disk.log \o log IN \A i, j \in DOMAIN all : all[i] = all[j] => i = j

\* The application is the ledger it promises to be.
TheLedger == INSTANCE Ledger WITH
  committed <- disk.st, pending <- IF deliver = None THEN disk.st ELSE View(deliver)

\* Every step of the application is a step of the ledger or changes neither the
\* committed state nor the open block.
RefinesLedger == TheLedger!Spec
=============================================================================
