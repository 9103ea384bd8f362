------------------------- MODULE RewardDistribution -------------------------
(***************************************************************************)
(* The rewards of the validators of a side chain and of the beacon chain   *)
(* (x/stake/keeper/distribute.go), from the distribution account of a      *)
(* validator to its delegators.  A breathe block, once a day, takes the    *)
(* set of validators that was elected some days before, splits the fees of *)
(* the side chain with the beacon chain, pays the commissions and saves    *)
(* what each delegator is to get in batches.  The blocks that follow pay   *)
(* one batch each; rewards of delegators on the side chain gather on an    *)
(* account of their own and leave through the cross-chain channel once     *)
(* they reach a threshold.  Meanwhile the distribution accounts go on      *)
(* earning.  A panic ends a block without its effects and stops the node.  *)
(***************************************************************************)
EXTENDS Numbers

CONSTANTS
    Elected,           \* for each chain, the lists of validators an election may give
    Incomes,           \* fees, and amounts slashed, that may come in
    FeeRatio,          \* feeFromBscToBcRatio
    BatchSize,         \* RewardDistributionBatchSize
    BlockBound,        \* boundOfRewardDistributionBlockCount
    CrossThreshold,    \* MinRewardThreshold
    RelayFees,         \* what CrossDistributeRewardRelayFee may be
    MaxDays,           \* bound: breathe blocks
    MaxIncomes         \* bound: incomes

VARIABLES
    pay,         \* snapshots, batches and accounts
    relay,       \* whether the cross-stake channel is open, and its relay fee
    income,      \* what came in so far, and how often
    stopped      \* a panic stopped the node

payout == <<pay, relay, income, stopped>>

Side == "side"
Beacon == "beacon"
Chains == {Side, Beacon}

Entries == UNION {Range(list) : list \in UNION {Elected[c] : c \in Chains}}
Validators == {e.val : e \in Entries}
Accounts == {e.fee : e \in Entries} \union UNION {{d.acc : d \in Range(e.dels)} : e \in Entries}

ASSUME DistributionAssumption ==
    /\ Incomes \subseteq Nat /\ RelayFees \subseteq Nat /\ FeeRatio \in 0..Precision
    /\ BatchSize \in Nat \ {0} /\ BlockBound \in Nat \ {0, 1} /\ CrossThreshold \in Nat
    /\ \A e \in Entries : e.dels # <<>> /\ e.rate \in 0..Precision
    /\ <<>> \notin Elected[Beacon]

-----------------------------------------------------------------------------
(* A batch, the one of the lowest number, is paid to the delegators, or to *)
(* the accounts that gather their cross-chain rewards, and taken from the  *)
(* distribution accounts of its validators.                                *)
PaidTo(batch, acct, cross) ==
    RewardsSum(SelectSeq(batch, LAMBDA w : w.acc = acct /\ w.cross = cross))

TakenFrom(batch, v) == RewardsSum(SelectSeq(batch, LAMBDA w : w.val = v))

(* crossDistributeReward fails on a closed channel and on a balance that   *)
(* does not cover the relay fee.                                           *)
Sendable(balance) == relay.open /\ relay.fee < balance

NextBatch(p, c) == Min(DOMAIN p.batches[c])

(* The mapping goes with the last batch.                                   *)
MappedAfter(p, c) == IF DOMAIN p.batches[c] = {NextBatch(p, c)} THEN {} ELSE p.mapped[c]

distributeSingleBatch(p, c) ==
    LET batch == p.batches[c][NextBatch(p, c)]
        gathered == [x \in Accounts |-> p.gathered[x] + PaidTo(batch, x, TRUE)]
        out == {x \in Accounts : /\ \E i \in DOMAIN batch : batch[i].acc = x /\ batch[i].cross
                                 /\ gathered[x] >= CrossThreshold}
        short == \E i \in DOMAIN batch :
                    \/ batch[i].val \notin p.mapped[c]
                    \/ p.dist[batch[i].val] < TakenFrom(batch, batch[i].val)
    IN  IF short \/ \E x \in out : ~Sendable(gathered[x]) THEN [p EXCEPT !.panic = TRUE]
        ELSE [p EXCEPT
                !.got = [x \in Accounts |-> @[x] + PaidTo(batch, x, FALSE)],
                !.dist = [v \in Validators |-> @[v] - TakenFrom(batch, v)],
                !.gathered = [x \in Accounts |-> IF x \in out THEN 0 ELSE gathered[x]],
                !.sent = [x \in Accounts |-> IF x \in out THEN @[x] + gathered[x] ELSE @[x]],
                !.batches[c] = [n \in DOMAIN @ \ {NextBatch(p, c)} |-> @[n]],
                !.mapped[c] = MappedAfter(p, c)]

DistributeInBlock(p, c) ==
    IF p.batches[c] = <<>> \/ p.panic THEN p ELSE distributeSingleBatch(p, c)

-----------------------------------------------------------------------------
(* A validator of the chosen set in a breathe block: the part of the       *)
(* beacon chain is sent away or received, then the commission is paid and  *)
(* the rest is divided among the delegations of the set.                   *)
Shared(p, e, c, average) ==
    IF c = Side THEN -DecMul(p.dist[e.val], FeeRatio) ELSE average

IsCross(e, acct) == \E d \in Range(e.dels) : d.acc = acct /\ d.cross

Commission(total, e) == DecMul(total, e.rate)

RewardsOf(e, split) ==
    [i \in DOMAIN split |->
        [val |-> e.val, acc |-> split[i].acc, amount |-> split[i].amount,
         cross |-> IsCross(e, split[i].acc)]]

DueTo(rewards, x) == RewardsSum(SelectSeq(rewards, LAMBDA w : w.acc = x))

Move(s, e, shared) ==
    [s EXCEPT !.p.pool = @ - shared, !.p.dist[e.val] = @ + shared]

Allot(s, e, commission, rewards) ==
    [p |-> [s.p EXCEPT
              !.dist[e.val] = @ - commission,
              !.got[e.fee] = @ + commission,
              !.due = [x \in Accounts |->
                        @[x] + DueTo(rewards, x) + IF x = e.fee THEN commission ELSE 0]],
     saved |-> s.saved \o rewards,
     vals |-> s.vals \union {e.val}]

RewardOut(s, e, total, commission) ==
    IF total = 0 THEN s
    ELSE Allot(s, e, commission, RewardsOf(e, Allocate(e.dels, total - commission)))

RewardFrom(s, e, total) == RewardOut(s, e, total, Commission(total, e))

RewardMoved(s, e) == RewardFrom(s, e, s.p.dist[e.val])

RewardValidator(s, e, c, average) == RewardMoved(Move(s, e, Shared(s.p, e, c, average)), e)

(* getDistributionBatchSize, and the batches that are saved by number.     *)
DistributionBatchSize(n) ==
    IF n \div BlockBound >= BatchSize THEN n \div (BlockBound \div 2) ELSE BatchSize

Batches(saved) ==
    LET size == DistributionBatchSize(Len(saved))
        count == (Len(saved) + size - 1) \div size
        Upto(n) == IF n = count - 1 THEN Len(saved) ELSE (n + 1) * size
    IN  [n \in 0..(count - 1) |-> SubSeq(saved, n * size + 1, Upto(n))]

DaysBackward(c) == IF c = Side THEN 3 ELSE 2

(* What is left of the day before is paid first.                           *)
LeftOverKept(p, c) == p

LeftOverPaid(p, c) ==
    FoldLeft(LAMBDA q, n : DistributeInBlock(q, c), p, SetToSeq(DOMAIN p.batches[c]))

Average(p, c, vals) == IF c = Beacon THEN p.pool \div Len(vals) ELSE 0

RewardAll(p, c, vals, average) ==
    FoldLeft(LAMBDA s, e : RewardValidator(s, e, c, average),
             [p |-> p, saved |-> <<>>, vals |-> {}], vals)

Save(s, c) ==
    IF s.saved = <<>> THEN s.p
    ELSE [s.p EXCEPT !.batches[c] = Batches(s.saved) @@ @, !.mapped[c] = s.vals]

DistributeSet(p, c, at) ==
    IF p.panic \/ at < 1 THEN p
    ELSE Save(RewardAll([p EXCEPT !.snaps[c] = RemoveAt(@, at)], c, p.snaps[c][at],
                        Average(p, c, p.snaps[c][at])), c)

DistributeInBreathBlock(p, c) ==
    DistributeSet(LeftOverPaid(p, c), c, Len(p.snaps[c]) - DaysBackward(c) + 1)

storeValidatorsWithHeight(p, c, list) == [p EXCEPT !.snaps[c] = Append(@, list)]

-----------------------------------------------------------------------------
None == [x \in Accounts |-> 0]

PayoutInit ==
    /\ pay = [snaps |-> [c \in Chains |-> <<>>], batches |-> [c \in Chains |-> <<>>],
              mapped |-> [c \in Chains |-> {}], dist |-> [v \in Validators |-> 0],
              pool |-> 0, got |-> None, gathered |-> None, sent |-> None, due |-> None,
              panic |-> FALSE]
    /\ relay = [open |-> TRUE, fee |-> Min(RelayFees)]
    /\ income = [sum |-> 0, times |-> 0, days |-> 0]
    /\ stopped = FALSE

(* The node commits the block, or stops at a panic with the last one.      *)
Block(p) ==
    /\ IF p.panic THEN stopped' = TRUE /\ UNCHANGED pay ELSE pay' = p /\ UNCHANGED stopped
    /\ UNCHANGED relay

PayoutEndBlocker ==
    /\ \E c \in Chains : pay.batches[c] # <<>>
    /\ \E p \in {DistributeInBlock(DistributeInBlock(pay, Beacon), Side)} : Block(p)
    /\ UNCHANGED income

PayoutBreatheBlock ==
    /\ income.days < MaxDays
    /\ \E b \in Elected[Beacon], s \in Elected[Side] :
        \E stored \in {storeValidatorsWithHeight(storeValidatorsWithHeight(pay, Beacon, b), Side, s)} :
        \E side \in {DistributeInBreathBlock(stored, Side)} :
        \E p \in {DistributeInBreathBlock(side, Beacon)} : Block(p)
    /\ income' = [income EXCEPT !.days = @ + 1]

(* Block fees, or fees the side chain sends to a distribution account.     *)
Earn ==
    /\ income.times < MaxIncomes
    /\ \E v \in Validators, n \in Incomes :
        /\ pay' = [pay EXCEPT !.dist[v] = @ + n]
        /\ income' = [income EXCEPT !.sum = @ + n, !.times = @ + 1]
    /\ UNCHANGED <<relay, stopped>>

(* A slashed amount is divided, by shares, among the other validators of   *)
(* the earliest set: the ones that are paid next.                          *)
AllocateSlashAmtToValidators ==
    /\ income.times < MaxIncomes /\ pay.snaps[Side] # <<>>
    /\ \E v \in Validators, n \in Incomes :
        LET others == SelectSeq(Head(pay.snaps[Side]), LAMBDA e : e.val # v)
            parts == Allocate([i \in DOMAIN others |->
                                [acc |-> others[i].val, shares |-> others[i].shares]], n)
            Part(w) == RewardsSum(SelectSeq(parts, LAMBDA x : x.acc = w))
        IN  /\ others # <<>>
            /\ pay' = [pay EXCEPT !.dist = [w \in Validators |-> @[w] + Part(w)]]
            /\ income' = [income EXCEPT !.sum = @ + n, !.times = @ + 1]
    /\ UNCHANGED <<relay, stopped>>

(* Governance closes the channel, or changes the relay fee.                *)
Govern ==
    /\ relay.open
    /\ \/ relay' = [relay EXCEPT !.open = FALSE]
       \/ \E n \in RelayFees \ {relay.fee} : relay' = [relay EXCEPT !.fee = n]
    /\ UNCHANGED <<pay, income, stopped>>

PayoutNext ==
    /\ ~stopped
    /\ \/ PayoutEndBlocker \/ PayoutBreatheBlock
       \/ Earn \/ AllocateSlashAmtToValidators \/ Govern

-----------------------------------------------------------------------------
Pending(c, Of(_)) ==
    MapThenSumSet(LAMBDA n : RewardsSum(SelectSeq(pay.batches[c][n], Of)), DOMAIN pay.batches[c])

SumOver(f) == MapThenSumSet(LAMBDA x : f[x], DOMAIN f)

(* Between the breathe block that computes the rewards and the blocks that *)
(* pay them, across the next breathe block and whatever the accounts earn  *)
(* meanwhile: every account has got, or will get from the batches that     *)
(* wait, exactly what was allotted to it, on its own account or through    *)
(* the channel, so no batch is overwritten, skipped, cut short or paid     *)
(* twice; the distribution account of a validator holds what is still to   *)
(* be paid out of it; no coin appears or is lost; a day's rewards fit the  *)
(* blocks of a day; and the payment panics only because the channel is     *)
(* closed or its relay fee is not below the threshold.                     *)
RewardsOwed ==
    /\ \A x \in Accounts :
        pay.due[x] = pay.got[x] + pay.gathered[x] + pay.sent[x]
                       + Pending(Side, LAMBDA w : w.acc = x) + Pending(Beacon, LAMBDA w : w.acc = x)
    /\ \A c \in Chains, v \in Validators : Pending(c, LAMBDA w : w.val = v) <= pay.dist[v]
    /\ income.sum = SumOver(pay.dist) + SumOver(pay.got) + SumOver(pay.gathered)
                      + SumOver(pay.sent) + pay.pool
    /\ \A c \in Chains : Cardinality(DOMAIN pay.batches[c]) <= BlockBound
    /\ stopped => ~relay.open \/ relay.fee >= CrossThreshold
=============================================================================
