# Verification of bnc-cosmos-sdk

TLA+ specifications of the parts of this SDK fork whose correctness depends on
interleavings, on crashes between two writes or on long sequences of calls,
together with the TLC instances that check them and the proofs TLAPS checks.
Line numbers are those of the sources under `src/`.

To check a run: `tlc -config <cfg> <module>`; to check the proofs: `tlapm` on each
of the six `...Proofs.tla` modules.
`PROJECT.json` lists the runs, the source lines of every definition, a mutated
definition for every property, and the hazards of the code.

## The system and what is modelled

| part | source | module | state |
|---|---|---|---|
| ABCI client | `server/concurrent` | `AsyncLocalClient` | modelled, safety proved |
| application, accounts, payments | `baseapp`, `x/auth`, `x/bank` | `BaseApp`, `StdTx`, `Ledger` | partly, refinement and safety proved |
| root multistore, IAVL and transient stores | `store` | `MultiStore` | partly, safety proved |
| state sync | `store/statesync_helper.go` | `StateSync` | partly |
| cache layers, merge iterator | `store` | `CacheKV`, `NestedMap` | modelled, refinement and iterator proved |
| IAVL iterator | `store/iavlstore.go` | `IavlIterator` | modelled, safety proved |
| governance | `x/gov` | `Gov` | modelled |
| execution of proposals | `x/paramHub`, `x/sidechain` | `ParamHub` | partly |
| cross-chain channels and packages | `x/sidechain`, `x/ibc` | `Channels` | partly |
| oracle | `x/oracle` | `Oracle` | modelled |
| staking for the side chain, cross-chain staking, migration | `x/stake` | `Staking` | partly |
| slashing for the side chain | `x/slashing`, `x/stake/keeper` | `SideSlashing` | partly |
| rewards | `x/stake/keeper/distribute.go` | `RewardDistribution` | modelled |
| publish/subscribe | `pubsub` | `Pubsub` | partly, safety proved |
| integers, decimals, reward division | `types`, `x/stake/keeper/reward.go` | `Numbers`, `Arithmetic` | partly |
| coins and bank | `types/coin.go`, `x/bank` | `Coins` | partly |
| upgrades, parameters, fees, wrappers of stores, proofs, RLP, keys, clients, commands, mocks | several | none | see the end |

How they fit together: Tendermint calls the application through the client,
which decides the order and the overlap of calls.  `BaseApp` runs transactions on
cache layers (`CacheKV`) over the multistore, whose trees are read through the
iterator.  Governance decides proposals at the end of blocks, the parameter hub
executes those that passed, and a change for the side chain leaves through
`Channels`.  What the side chain sends comes in as claims of the oracle, which
carries out packages and answers through the same channels.  Staking elects the
validators of the side chain in breathe blocks, slashing acts on what it stores, and
the rewards of those elected are paid in the blocks after.  A new node gets its
stores from the chunks of a snapshot and then commits like any other.  `ParamHub`
extends `Gov`, `Oracle` extends `Channels`, `SideSlashing` extends `Staking`,
`StateSync` extends `MultiStore`, and `Coins`, `Arithmetic` and `RewardDistribution`
extend `Numbers`.

## The runs

| run | instance | distinct states | shows |
|---|---|---|---|
| `async_client` | 3 `CheckTx` callers, or 2 beside a delivered transaction and `OnStop` at any time, or 1 beside 2 delivered transactions and another exclusive caller, each with a query connection; 1 block, channels of 1, a check pool of 1 goroutine | 324,768 | the wait group is exact (`WaitGroupExact`), `EndBlock` and `Commit` run alone (`CommitIsolated`), a block is executed in its order (`BlockExecutedInOrder`), every call returns (`EveryCallFinishes`) |
| `base_app` | 3 accounts, 3 transactions, 2 blocks, a query, caches of 1 entry, crashes at any step | 213,319 | implements the ledger (`RefinesLedger`), no replay (`NoReplay`), no stale account in a cache (`CachesFresh`) |
| `multi_store` | start from one of 3 snapshots or from nothing, 4 trees of which one joins at an upgrade, up to 6 blocks, 2 crashes, 2 broken-off recoveries | 198,319 | a recovery has the stores of the snapshot (`SyncedWhole`), crashes are recovered from (`RecoversCommitted`, `ReachesLastBlock`), exact pruning (`PrunedExactly`) |
| `cache_kv` | 2 layers, 2 keys, 2 values | 119,210 | a stack of maps (`RefinesNestedMap`); iterators show a snapshot (`IteratesSnapshot`) |
| `gov` | 1 proposal on each of 2 chains, 2 accounts, 2 validators that hold shares of each other, a share of one worth 2 tokens | 209,745 | escrow and totals exact (`DepositsHeld`), each share counted once (`TallyPerShare`), an accepted proposal costs its depositors nothing (`AcceptedCostsNothing`), `EveryProposalDecided` |
| `param_hub` | 2 proposals of 2 kinds on a side chain, voting periods 1 and 2, the governance channel closed at any block | 2,805,772 | settlement in time (`SettledOnTime`), each change once (`ExecutedOnce`) and the newest in force (`NewestInForce`) |
| `bridge` | 3 channels and a mirror, 2 packages a channel, 2 changes a block; or 3 batches, 4 relayers of which 2 are faulty, 2 sets of powers | 52,716 | no gaps in sequences (`NoHoles`), both chains agree on permissions, closed ones included (`PermissionsAgree`), only true packages in order, with their answers and fees (`TrueApplied`), all of them (`AllRelayed`) |
| `batch_rest` | the batches of `bridge` | violated | the packages behind one that fails get no chance to execute (`RestGetsChance`, which is what `x/oracle/handler.go:64` says) |
| `pubsub` | 2 subscribers, 2 topics, 3 events, channel of 1 | 201,788 | order and no panic (`HandledInOrder`), `WaitSeesHandled`, `CallsReturn` |
| `money` | 5-bit integers, 3 denominations, 2 accounts, up to 4 delegations; 3 validators and 5 days of rewards in batches of 1 | 57,694 | exact, nearest or rejected results (`OperationsExact`), supply kept and found (`CoinsConserved`), rewards divided exactly (`AllocationExact`) and paid exactly once (`RewardsOwed`) |
| `iterator` | 2 callers, 3 items, 3 calls each | 21,349 | order (`InOrder`), calls return and goroutines end (`CallsReturn`) |
| `staking` | 2 validators for 1 place, their self-delegators and a delegator of the side chain, 4 messages, packages, infractions or changes of the channel, 2 kinds of evidence, both sunset forks, 1 tolerated failure a block | 732,557 | the pool backs every stake (`StakeBacked`), the power index is exact (`PowerIndexExact`), the bonded set agrees everywhere (`BondedSetAgrees`), no coin is lost (`SupplyKept`), the stake evidence is about stays in the pool while it is fresh (`SelfStakeHeld`), what no failed payment holds up is returned after the last fork (`StakesReturned`) |

Each takes at most about two and a half minutes with two workers.

### ABCI client

`CheckTxAsync` and `DeliverTxAsync` push a work item on a channel, count it in a
wait group and hand a pre-check to a goroutine pool (`server/concurrent/pool`).
One worker goroutine per channel waits for the item's own mutex, which the
pre-check holds, takes `rwLock` and runs the transaction.  `EndBlock` and `Commit`
take `checkTxMidLock` and `commitLock`, wait for the wait group and then take
`rwLock`.  `Query` and `Info` share `rwLock`; every other call takes it alone.

`stage[i]` is the place of item `i` between its call and its response, `queue` and
`work` are the channels, `sem` the started goroutines of a pool, `wpc` and `witem`
the program counter and the item of a worker, `phase` and `pc` those of the
consensus thread, `xpc` those of another caller of an exclusive method.  Every
acquisition of a lock, every send and receive on a channel and every return of an
application call is an action.  The clients of the three connections share the
locks and the wait group and each connection uses one of the queues, so the model
has one client.  `Loads` bounds which callers are active together.  With three
`CheckTx` callers one waits in the send on the full channel with `commitLock` and
`checkTxLowLock` held and another behind it for `checkTxLowLock`, while `EndBlock` or
`Commit` holds `checkTxMidLock`; or one finds the pool's goroutine and its queue taken
in `Schedule`, while another waits in the send or the barrier for the wait group.  The
other two loads have `OnStop`, and every lock taken by each kind of caller.  `MayFail`
says which transactions the pre-checks may reject.  That more callers and more blocks
change nothing for the safety properties is what the proofs add.

### Application

`BaseApp` has the committed version (`disk`), the working trees (`tree`), the
account LRU cache (`lru`), the check and deliver states with their account caches,
the transaction cache (`msgCache`) and, for every pre-check and query, how far it
has got.  Both steps of a query that misses the LRU cache, and both of a `CheckTx`
that caches a transaction before it has verified it, are separate, since other
calls run in between; which calls exclude each other is what the client's locks
say (`Exclusive`, `Alone`).  `StdTx` has the ante handler and the payment.
`Ledger` is what the application promises: a committed state and an open block on
which whole transactions take effect; what a transaction does is a parameter of it
(`Execute`), the same one `BaseApp` runs.  A crash returns to the committed version at
any step.  The transactions are one that creates an account, one that fails in its
second input after the ante handler has succeeded, and one that is not signed.  An
account that is named by several inputs signs once, at the place of its first one
(`Signers`, `Place`), as `GetSigners` has it.

### Stores

In `MultiStore` a commit is one write per store and one root batch, as in
`commitStores`, and a crash may fall between any two of them.  The contents of a
store are the heights executed on it, which tells hashes apart exactly as far as
the properties need.  One recent version and every third are kept, so that pruning
happens, waypoints survive and a crash meets both.  `CacheKV` has the layers with
clean and dirty entries; a step of its merge iterator is one skipped or handed out
item, so writes fall in between.  `IavlIterator` has the two goroutines of an
iterator, its channels and its mutex.

`StateSync` cuts the nodes of all stores, one sequence of sizes, into chunks as
`takeSnapshotImpl` does, and lets a recovery take them in any order: whole nodes are
written at once, parts of a large node wait for the others, every second chunk
flushes the batch, and the last one puts the large nodes together and writes the
commit info of the height.  A crash or a second `StartRecovery` may come after any chunk.  The layouts
have a large node within a chunk, at the end of a store and before another large
one, and chunks that span two stores.  What follows a finished recovery is
`MultiStore`, with its own crashes.

### Governance and execution

`Gov` has proposals, deposits and votes of each chain and the one escrow account
they share; `EndBlocker` settles one proposal per step, chain after chain.  The
power of n shares of a validator (`PowerOf`) is what they are worth in tokens (`Rate`,
which a slash on the beacon chain lowers) as long as it is bonded, and nothing
otherwise.  A validator's shares are held by the validators themselves (`Delegated`)
and by others (`Outside`); the bonded set, and the last set that decides who may vote,
may change between blocks, also so that a jailed validator is in the one and not in
the other.  `ParamHub` adds the two ways in which passed proposals are carried
out: collected and sent at once (`Collected`), or the latest one applied at a
breathe block (`Latest`).  The package of a collected proposal is lost, with no more
than a line in the log, once the governance channel is closed (`open`); `ExecutedOnce`
says that nothing is lost before.

### Cross-chain

`Channels` has permissions, send sequences and packages of one side chain and, as
an external part, the side chain that takes the packages of the governance channel
later.  `Oracle` has claims and prophecies, and carries out a batch as one
transaction: an application's outcome is part of its package, a panic or an error
drops what it wrote, and an answer is sent.  Faulty relayers claim any payload of a
small set at any time; power changes between claims.  The run `bridge` has both
directions: a behaviour is either one of the channels, with permission changes and the
final fork, or one of the relayers (`part`), since their product shows no more.  In
its second batch a package whose fee is paid comes before one that finds the peg
account empty.

### Staking, slashing and rewards

`Staking` has the stores of `x/stake` in one record (`chain`): validators, the power
index (of equal powers the lower address comes first), the last powers, delegations, what unbonds or redelegates, the queues, the
accounts and the pool account.  Due times are kept as the time left, which the end of
a block lowers, so no clock is needed.  Each message and each package of the side
chain is an action, `EndBlocker` and `EndBreatheBlock` are one each, with every order
of the entries of a queue that are due together, and the two forks that wind staking
down are steps (`era`).  `SideSlashing` adds evidence of an infraction, which ages
and may arrive late, the slash, the jail and the way out of it.  The slots (one),
the amounts (1 and 2 with a minimum of 2) and the times (unbonding 2, evidence 1) are
chosen so that elections change, self-delegations fall below the minimum, evidence
meets bonded, unbonding and removed validators, and refunds need several blocks.
The cross-stake channel may be closed and opened again (`open`); a payment across it
that cannot be sent, for that or for its fee of 2, has been made and leaves its record
behind (`LeftBehind`).  After `Deadline` quiet blocks (`StakesReturned`) the refunds must
be over: it is the two unbonding times and a block for each stake.  One failure in a
block is tolerated (200 in the code), so that the limit is met by stakes that unbond
for the time being, which must not matter in the end, and by records left behind,
which starve every stake after them (`Starved`); the instance reaches both.  Four inputs
are enough for a delegation in two parts, a part of it that is left behind, and one
more message or infraction.

`RewardDistribution` has the distribution accounts, the snapshots of past elections,
the batches and the cross-chain account.  A breathe block computes a day's batches,
each block pays one, fees come in at any time, and the channel and its relay fee
change.  `due` is the history of what was allotted.  Batches of one and two days of
batches waiting at once are where an index could be overwritten or skipped.

### Publish/subscribe, numbers and coins

`Pubsub` has the server's loop, a goroutine per subscriber and the two wait groups.
`Numbers` gives machine integers their width and wraps them; the run takes five
bits, at which every overflow path is taken and every pair of operands is tried.
`Coins` merges sorted lists as `Coins.Plus` does and moves them through the bank
keeper, in messages that are rolled back and in end blockers that are not.

## Fairness

Only what a scheduler or a running chain gives is assumed.

- Client: the goroutines with work begun (`Progress`) are not all left aside for ever
  while one of them keeps becoming able to move, and whoever holds `rwLock` for a
  query or another exclusive call gives it back.  The first is strong fairness of the
  steps together, less than each of them apart: a mutex in starvation mode goes to
  its oldest waiter, and a waiting writer of an `RWMutex` stops new readers.  The
  items and blocks of the instance are finite, so this is enough.  No caller has to
  call, and `OnStop` need not happen.
- Iterator: the same; `select` takes a closed channel that is there each time.
- Publish/subscribe: weak fairness of every goroutine and of calls already begun.
- Multistore and state sync: a process that can go on does, and the chunks keep
  coming; crashes and broken-off recoveries are bounded.
- Governance: blocks go on and their end blockers finish; nobody has to vote.
- Oracle: an honest relayer that can go on claiming a batch does (weak fairness); the
  faulty ones need not do anything.  `AllRelayed` assumes that the peg account is filled
  in the end.

## What is proved

| module | theorem | for |
|---|---|---|
| `AsyncLocalClientProofs` | `TypeCorrect`, `WaitGroupIsExact`, `CommitRunsAlone`, `DeliverStaysInBlock`, `BarrierHasPriority`, `CallersSurviveClose`, `BlocksExecuteInOrder` | any callers and loads, capacities, pools, blocks |
| `BaseAppProofs` | `AccountCachesFresh`, `ImplementsLedger`, `NeverReplayed` | any accounts, transactions, queries, cache sizes, blocks, crashes |
| `MultiStoreProofs` | `CommitInvariant`, `CrashRecovered`, `RetainedExactly` | any stores, upgrade heights, blocks, crashes and pruning with `KeepsLast`, from a first version on (`Started`) |
| `CacheKVProofs` | `CachesRefineMaps`, `IteratorsFaithful` | any keys (finitely many), values, depth of the stack |
| `PubsubProofs` | `Invariance`, `WaitSees`, `OrderKept` | any threads, calls, subscribers, topics, capacity |
| | `NothingPanics` | the same, with `WaiterPublishes`, `OneSubscribes`, `OneTopic`, `NoneAgain` |
| `IavlIteratorProofs` | `TypeCorrect`, `RangeInOrder`, `NeverGoesBack` | any callers, length of the range |

`AsyncLocalClientProofs` proves the type invariant, that the wait group counts exactly
the items between their `Add` and their `Done`, that `EndBlock` and `Commit` run
alone, that transactions are delivered only in an open block, that no caller gets
ahead of the barrier once it holds `checkTxMidLock` and that `OnStop` closes no
channel a caller under `commitLock` is about to send on (the last three are covered
by the proof only).  None of them is inductive.  The inductive invariant `IInv`
adds who holds which lock at which program counter (`LockInv`), that channels and
workers hold items of their own kind in the right stage (`WorkInv`, `QueueInv`,
`WorkerInv`), that delivered transactions are on their way only inside an open block
(`DeliverInv`), and that nothing is outstanding once the barrier has passed the wait
(`BarrierInv`).  One lemma per conjunct goes through the actions.  The exact count
needs the cardinality lemmas of `FiniteSetTheorems`.

`BlocksExecuteInOrder` builds on it: the block delivered so far is what was executed,
followed by what the worker holds, the queue and what `DeliverTxAsync` has not sent
(`OrderInv`); what is held is on its way, and no transaction is in the block twice
(`HeldInv`).  When `EndBlock` runs, `IInv` says that nothing is outstanding, so the
last three are empty.

`BaseAppProofs` proves that neither the LRU cache of accounts nor what `CheckState`
has read is ever older than the tree.  The invariant `FreshInv` adds that what a
query has read and not yet put into the cache is current (the lock keeps `Commit` out
meanwhile), that the deliver state exists while a block is open, and that the cache
is empty before `InitChain` changes the tree below it.  `ImplementsLedger` is the
refinement: the open block of the ledger is what the deliver state shows through its
caches.  `LedgerInv` adds to `FreshInv` that the deliver state's clean entries agree
with the tree, so that `Commit` may write the dirty ones alone, that there is a deliver
state while a block is open, and that a cached transaction whose signatures a block
does not verify again was verified when it was cached.  What a transaction does is a
recursive function over its inputs and outputs (`Moves`); that such a function exists
and keeps the types is proved by least counterexample (`Least`).  `NeverReplayed`
rests on `ReplayInv`: everything executed has used up a sequence number of its first
signer, in the durable state and in the open block, and the log and the state are
always lost and kept together.  Nothing is assumed of a transaction that `ValidateBasic`
does not check: inputs may repeat an account, whose signature is then that of its first
input (`SignsFirst`).

`MultiStoreProofs` proves that `LoadLatestVersion` finds the stores of the last
committed block wherever a crash fell (`CrashRecovered`), and that pruning leaves
exactly what it should (`RetainedExactly`).  While `s/latest` names version v the
database of a store is in one of three states (`MayHold`): as the commit of v left it,
with v + 1 saved beside it, or pruned for v + 1 (`DiskOK`); executing the block again
takes each of them to the third.  `MemoryOK` says which of them each tree has been
loaded from or committed to at every point of the commit.  Two hypotheses are needed
and both are limits of the code, described below: the pruning strategy keeps the
version that `s/latest` names (`KeepsLast`, not `PruneEverything`), and the first
commit of all is behind (`Started`).  The theorems are about `Spec`; a start from a
snapshot (`SyncSpec`) is model-checked.

`CacheKVProofs` proves that a stack of cache layers implements the stack of maps of
`NestedMap`: reads see the topmost write, `Write` moves exactly the top layer's
changes down, a dropped layer leaves no trace.  The invariant (`CacheInv`) says that
every clean entry of a layer agrees with the view below it (`Faithful`); the lemmas
`ViewLayer` and `HolderIs` compute a view layer by layer without recursion.
`IteratorsFaithful` is about the merge iterator: what it has handed out, and then the
merge of what the parent's and the cache's sides still hold, is what the layer held when
the iterator was created, in its order (`IterInv`), and each turn of
`skipUntilExistsOrInvalid` or `Next` keeps that (`TurnKeeps`).

`PubsubProofs` proves that subscribers handle the events pushed to them once and in
order (`OrderKept`) and that `Wait` returns only when those pushed before it have been
handled (`WaitSees`), for any threads making any calls.  The invariant `IInv` follows
each event from the publisher through the server's loop and the subscriber's channel to
its handlers (`InTransit`) and says that the wait groups count exactly those under way
(`ServerCounts`, `SubCounts`).  That nothing panics (`NothingPanics`) needs how the
application uses the server, as the code does panic otherwise (see below): only a thread
that waits publishes, one thread subscribes and unsubscribes, and what is unsubscribed
has one topic and is not subscribed again.

`IavlIteratorProofs` proves, for every set of callers and length of the range, that
until `Close` the iterator shows the range in order (`RangeInOrder`) and that it
never goes back, `Close` at any moment included (`NeverGoesBack`), besides the types
(`TypeCorrect`).  The invariant
says that at most one item is on its way from the channel to the cursor
(`Exclusive`) and that the items handed over are those shown and that one
(`Accounted`, until `Close`).

The proofs assume of the constants what the modules assume (`ASSUME`) and the
hypotheses named above, no more.  Each inductive invariant was checked with TLC on the
run's instance first.
Only model-checked: liveness, since fairness and `ENABLED` are beyond the prover;
what is defined by a fold over a sequence or a set, since that needs induction over
data (the sums of `Gov`, `Staking`, `Coins` and `RewardDistribution`, `NoHoles`); and
the other modules.

## Where the code and its texts differ

Met while modelling.  The run `batch_rest` shows one of them; for the others the passing
runs keep to instances in which the property holds, and the exceptions are these.

- `baseapp.go:672` says a failed transaction still deducts fees and increments the
  sequence; `RunTx` (`:865`) writes nothing unless the result is OK.
- `baseapp.go:558` says `CheckTx` does not run handlers; `runMsgs` (`:855`) does.
- With `PruneEverything` a store deletes the version `s/latest` names before the
  root batch is written (`iavlstore.go:99`).  The run keeps one recent version.
- A crash in the very first commit, or in the commit at which a store joins, loads
  stores one block ahead (`rootmultistore.go:115`, `:143`), while `types/store.go:118`
  asks for an idempotent commit.  The run starts at version 1, and `JoinTorn` excepts
  the second case.
- `types/store.go:19` says "last 100 + every 10000th"; `iavlstore.go:129` sets both to
  100000.
- `x/gov/msgs.go:45` says the initial deposit must be positive; `:84` accepts none.
- `docs/spec/governance/README.md:13` says deposits of a proposal that never entered
  its voting period can be recovered; `x/gov/handler.go:167` gives them to the
  proposer of the block.  `docs/spec/governance/overview.md:42-45` says they are
  refunded in one instance, when the proposal is accepted; the code also refunds those of
  a vote without quorum or with abstentions only.  `AcceptedCostsNothing` is the part
  the texts and the code agree on.
- `x/paramHub/keeper/cscParams.go:36` says proposals are found within the tolerated
  period; the scan (`:40`, and `x/sidechain/chanManage.go:21`) stops at a newer one
  that has not begun to vote.
- `x/oracle/handler.go:64` says the rest of a batch gets its chance; the first failure
  undoes the batch (`:66`).  The run `batch_rest` checks the sentence (`RestGetsChance`)
  and finds it violated.  The payload carried out is the last claimer's (`:55`),
  also when a change of power completed earlier claims; the instance has powers for
  which the honest relayers are always needed.
- `types/coin.go`: `Plus` may return zero coins (`:151`, against `:140`), `IsValid`
  skips the first coin (`:125`, against `:116`), `IsLT` is not what `:202` says.
- `store/queue.go`: a broken-off `Flush` leaves the front on a deleted element (`:90`),
  and `Pop` on an empty queue moves the front instead of panicking (`:56`, against
  `:44`).
- State sync: `WriteRecoveryChunk` (`baseapp.go:986`) leaves the account cache on the
  old tree; `types/cache.go:7` says `ClearCache` is used there, and nothing calls it.
  A node larger than a chunk that comes first, or right after another such node,
  makes `takeSnapshotImpl` write a chunk without nodes, which `WriteRecoveryChunk`
  refuses; the comment there says "we at most waste one chunk".  `SyncedWhole` excepts
  this case.
- Slashing: `x/stake/keeper/slash_sidechain.go:23-25` takes it that what unbonds from a
  validator that is gone was slashed completely; one can also be removed in a breathe
  block while its own stake still unbonds and evidence against it is fresh, and then
  loses nothing.  `SelfStakeHeld` states, for these validators too, that the stake is
  still in the delegation account, not that `SlashSideChain` takes it.
  `slashingSideMaliciousVote` (`x/slashing/keeper.go:440-452`) pays out the amount of
  the parameter, also when less was slashed (`SupplyKept` allows for it).
- Staking: `keeper/validator.go:520` says "unbonding validators that have finished
  their unbonding period"; one that was bonded again and unbonds a second time is
  also found through its first queue entry, and is done earlier; `SlashSideChain` then
  refuses it while evidence may be fresh.  `CompleteUnbonding` of a stake of the side
  chain pays it out and leaves the record (`LeftBehind`) when the channel is closed
  and, before `SecondSunsetFork`, when it does not cover the relay fee.
  `handleRefundStake` begins with the first delegation in each block, so as many such
  records as it tolerates failures keep it from the stakes behind (`Starved`).
- Rewards: a closed channel, or a relay fee that reaches the threshold, makes the
  payment panic in the end blocker (`distribute.go:374`, `:447`); `RewardsOwed` states
  that nothing else does.
- `pubsub`: `Wait` beside another publisher may panic, `Unsubscribe` from a second
  topic closes a channel twice, `UnsubscribeAll` releases a lock it does not hold
  (`sub.go:131`).  A subscriber that subscribes again after its `Unsubscribe` gets no
  goroutine: its channel fills, and the loop and `Wait` block on it.  The run keeps to
  one publishing and waiting thread, to one topic for a subscriber that unsubscribes and
  to none that comes back (`Again`).

## What is not modelled

`PROJECT.json` gives the reason for each part.  In short:

- Encodings, hashes and cryptography: proofs of the multistore, RLP and headers, keys,
  addresses, codecs.  Nothing in them depends on an order of steps.
- Input and output around one call: clients, commands, configuration, the mock and
  example applications, events and their publication, and the third-party scripts of
  the REST documentation page (`client/lcd/swagger-ui`), which are no part of the node.
- Thin wrappers and tables: prefix, trace and gas stores, parameter subspaces, the fee
  pool and its calculators.  The upgrade manager appears through what it decides: which
  stores are committed (`MultiStore`) and which era of staking it is (`Staking`).
- Code the chain does not use: `x/distribution`, `x/mint`, the list and queue of
  `store`, `Pool.ScheduleTimeout`, `Distribute` before its replacement.

Left out of parts that are modelled:

- Application: begin and end blockers as part of `BaseApp`, simulations, and the
  reload after a state sync together with the account cache.
- State sync: the choice and wait for a height, deletion of snapshots, equal hashes of
  chunks, chunks delivered twice (the reactor asks for each once), a start from
  genesis after a broken-off recovery.
- Staking: editing a validator, the election of the beacon chain's own validators,
  changes of parameters while stakes are held, acknowledgements of failed cross-chain
  packages, the pool's loose tokens, clocks that run backwards.
- Slashing: the beacon chain's signing windows and slashing periods, and the package
  that tells the side chain of a jailed validator, which is not sent when the channel
  is closed.
- Rewards: a beacon chain without validators.
- Exchange rates other than one are out of reach of the side chain's staking
  (`StakeBacked` shows it); in `Gov`, which also counts the beacon chain's validators,
  the rate is a constant and does not change between a vote and its tally.
- Oracle: a prophecy that fails and starts over, and a change of power that completes
  earlier claims, are steps of the model that the powers of the instance do not reach.
