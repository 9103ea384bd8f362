------------------------------ MODULE Staking ------------------------------
(***************************************************************************)
(* Staking for the side chain (x/stake): validators, delegations, their    *)
(* unbonding and redelegation, the election in breathe blocks, and the two *)
(* forks that wind staking down.  Delegators of the side chain stake       *)
(* through cross-chain packages and are paid back across the bridge.       *)
(*                                                                         *)
(* chain is the state in the stores.  A message or a package that fails    *)
(* leaves it as it was, so an action is one that succeeds.  Instead of a   *)
(* clock and due times, chain holds the time left until each due time, and *)
(* the end of a block lets one unit of time pass.                          *)
(***************************************************************************)
EXTENDS Integers, Sequences, FiniteSets, TLC, FiniteSetsExt, SequencesExt

CONSTANTS
    Validators, Delegators,   \* numbers, in the order of the addresses
    Cross,               \* the delegators that stake from the side chain
    FeeAddr,             \* the self-delegator of each validator
    MaxValidators, MinSelfDelegation, MinDelegationChange, UnbondingTime,
    TooLowDelUnbondDuration,             \* jail for too low a self-delegation
    MaxEvidenceAge,      \* evidence of an infraction expires
    RelayFee,            \* fee to carry undelegated coins across the bridge
    MigrationFee,        \* fee to carry a migrated stake across the bridge
    MaxRefunds, MaxFailedRefunds,        \* limits of a block's refunds
    Amounts,             \* amounts the messages ask for
    Start,               \* coins of each account (for Cross: pegged for it)
    MaxInputs            \* bound: messages, packages, infractions, changes of open

Pairs == Delegators \X Validators

SelfPair(v) == <<FeeAddr[v], v>>

None == -1

ASSUME StakingAssumption ==
    /\ Validators \subseteq Nat /\ Delegators \subseteq Nat /\ Cross \subseteq Delegators
    /\ FeeAddr \in [Validators -> Delegators \ Cross]
    /\ {MaxValidators, MinSelfDelegation, MinDelegationChange, UnbondingTime,
        TooLowDelUnbondDuration, MaxEvidenceAge, RelayFee, MigrationFee,
        MaxInputs} \subseteq Nat
    /\ MinSelfDelegation > 0 /\ MinDelegationChange > 0
    /\ MaxRefunds \in Nat \ {0} /\ MaxFailedRefunds \in Nat \ {0}
    /\ Amounts \subseteq Nat \ {0} /\ Start \in [Delegators -> Nat]
    /\ \A v \in Validators : Start[FeeAddr[v]] >= MinSelfDelegation

VARIABLES
    chain,      \* the stores, see Genesis
    era,        \* 0, 1 from FirstSunsetFork on, 2 from SecondSunsetFork on
    inputs,     \* messages, packages, infractions and changes of open so far
    quiet       \* blocks of the last era since the last message, up to Deadline

NoValidator ==
    [status |-> "none", tokens |-> 0, shares |-> 0, jailed |-> FALSE, left |-> 0]

Genesis ==
    [val |-> [v \in Validators |-> NoValidator],
     power |-> {},                              \* ValidatorsByPowerIndex
     last |-> [v \in Validators |-> 0],         \* LastValidatorPower
     queue |-> {},                              \* validators that unbond
     bonded |-> 0,                              \* Pool.BondedTokens
     info |-> {},                               \* validators with a signing info
     until |-> [v \in Validators |-> -MaxEvidenceAge],   \* its JailedUntil
     del |-> [p \in Pairs |-> 0],
     ubd |-> [p \in Pairs |-> None],            \* balance that unbonds
     ubq |-> {},                                \* the unbonding queue
     red |-> {},                                \* redelegations and their queue
     auto |-> {},                               \* SetAutoUnDelegate
     acc |-> [d \in Delegators |-> IF d \in Cross THEN 0 ELSE Start[d]],
     pool |-> 0,                                \* DelegationAccAddr
     peg |-> MapThenSumSet(LAMBDA d : Start[d], Cross),
     awarded |-> 0,                             \* slashed coins paid out
     open |-> TRUE,                             \* the cross-stake channel may send
     panicked |-> FALSE]

-----------------------------------------------------------------------------
(* The power index: the key holds the tokens and the operator.  A jailed   *)
(* validator is not entered.                                               *)
PowerKey(s, v) == <<s.val[v].tokens, v>>

DeleteValidatorByPowerIndex(s, v) == [s EXCEPT !.power = @ \ {PowerKey(s, v)}]

SetValidatorByPowerIndex(s, v) ==
    IF s.val[v].jailed THEN s ELSE [s EXCEPT !.power = @ \cup {PowerKey(s, v)}]

Exists(s, v) == s.val[v].status # "none"

TokensFromShares(w, shares) ==
    IF w.shares = 0 THEN 0 ELSE (shares * w.tokens) \div w.shares

SharesFromTokens(w, tokens) ==
    IF w.tokens = 0 THEN 0 ELSE (w.shares * tokens) \div w.tokens

IssuedShares(w, amount) ==
    IF w.shares = 0 THEN amount ELSE SharesFromTokens(w, amount)

IssuedTokens(w, shares) ==
    IF shares = w.shares THEN w.tokens ELSE TokensFromShares(w, shares)

AddValidatorTokensAndShares(s, v, amount) ==
    LET w == s.val[v] IN
    SetValidatorByPowerIndex(
        [DeleteValidatorByPowerIndex(s, v) EXCEPT
            !.val[v].tokens = @ + amount,
            !.val[v].shares = @ + IssuedShares(w, amount),
            !.bonded = IF w.status = "bonded" THEN @ + amount ELSE @], v)

RemoveValidatorTokensAndShares(s, v, shares) ==
    LET w == s.val[v]
        removed == IssuedTokens(w, shares) IN
    SetValidatorByPowerIndex(
        [DeleteValidatorByPowerIndex(s, v) EXCEPT
            !.val[v].tokens = @ - removed,
            !.val[v].shares = @ - shares,
            !.bonded = IF w.status = "bonded" THEN @ - removed ELSE @], v)

(* The record and the key go; the signing info and LastValidatorPower stay *)
RemoveValidator(s, v) ==
    [DeleteValidatorByPowerIndex(s, v) EXCEPT !.val[v] = NoValidator]

jailValidator(s, v) ==
    [DeleteValidatorByPowerIndex(s, v) EXCEPT !.val[v].jailed = TRUE]

unjailValidator(s, v) ==
    SetValidatorByPowerIndex([s EXCEPT !.val[v].jailed = FALSE], v)

-----------------------------------------------------------------------------
(* Delegating, without and with the transfer of the coins.                 *)
Delegate(s, d, v, amount) ==
    [AddValidatorTokensAndShares(s, v, amount) EXCEPT
        !.del[<<d, v>>] = @ + IssuedShares(s.val[v], amount)]

DelegateCoins(s, d, v, amount) ==
    Delegate([s EXCEPT !.acc[d] = @ - amount, !.pool = @ + amount], d, v, amount)

(* unbond: a self-delegation that drops below the minimum jails the        *)
(* validator, and an unbonded validator without shares is removed.         *)
DropsBelowMin(s, d, v, shares) ==
    /\ d = FeeAddr[v] /\ ~s.val[v].jailed
    /\ TokensFromShares(s.val[v], s.del[<<d, v>>] - shares) < MinSelfDelegation

NoShares(w) == w.shares = 0

Removable(w) == w.shares = 0 /\ w.status = "unbonded"

unbond(s, d, v, shares) ==
    LET s1 == IF DropsBelowMin(s, d, v, shares)
              THEN [jailValidator(s, v) EXCEPT !.info = @ \cup {v},
                                               !.until[v] = TooLowDelUnbondDuration]
              ELSE s
        s2 == RemoveValidatorTokensAndShares(
                [s1 EXCEPT !.del[<<d, v>>] = @ - shares], v, shares) IN
    IF Removable(s2.val[v]) THEN RemoveValidator(s2, v) ELSE s2

(* ValidateUnbondAmount, and the shares it returns.                        *)
UnbondAmountValid(s, d, v, amount) ==
    LET remaining == TokensFromShares(s.val[v], s.del[<<d, v>>]) IN
    /\ Exists(s, v) /\ s.del[<<d, v>>] > 0
    /\ amount >= MinDelegationChange \/ amount = remaining
    /\ amount <= remaining

(* BeginUnbonding with a completion time ahead, or with enqueue = false.   *)
MayBeginUnbonding(s, d, v) == s.ubd[<<d, v>>] = None

BeginUnbonding(s, d, v, amount, enqueue) ==
    LET shares == SharesFromTokens(s.val[v], amount) IN
    [unbond(s, d, v, shares) EXCEPT
        !.ubd[<<d, v>>] = IssuedTokens(s.val[v], shares),
        !.ubq = IF enqueue THEN @ \cup {<<UnbondingTime, d, v>>} ELSE @]

(* crossDistributeUndelegated sends the account's whole balance unless the *)
(* fee eats it up.                                                         *)
UndelegatedFee(s, d, v) == IF era = 2 /\ <<d, v>> \in s.auto THEN 0 ELSE RelayFee

crossDistributeUndelegated(s, d) ==
    [s EXCEPT !.acc[d] = 0, !.peg = @ + s.acc[d]]

(* CompleteUnbonding: when the package cannot be sent the coins have been  *)
(* paid and the record stays, unless it is for the fee, which is tolerated *)
(* from SecondSunsetFork on.  The fee is looked at before the channel.     *)
FailsToSend(s, covered) == IF covered THEN ~s.open ELSE era < 2

CompleteUnbonding(s, d, v) ==
    LET s1 == [s EXCEPT !.acc[d] = @ + s.ubd[<<d, v>>],
                        !.pool = @ - s.ubd[<<d, v>>]]
        covered == UndelegatedFee(s1, d, v) < s1.acc[d] IN
    IF s.ubd[<<d, v>>] = None THEN s
    ELSE IF d \in Cross /\ FailsToSend(s, covered) THEN s1
    ELSE [IF d \in Cross /\ covered THEN crossDistributeUndelegated(s1, d) ELSE s1
            EXCEPT !.ubd[<<d, v>>] = None]

-----------------------------------------------------------------------------
(* BeginRedelegation and getBeginInfo.                                     *)
AnyDelegator(d, src) == TRUE

ValidRedelegator(d, src) == d # FeeAddr[src]

MayRedelegate(s, d, src, dst) ==
    /\ Exists(s, src) /\ Exists(s, dst) /\ src # dst
    /\ ValidRedelegator(d, src)
    /\ \A r \in s.red : ~(r[2] = d /\ (r[4] = src \/ (r[3] = src /\ r[4] = dst)))

BeginRedelegation(s, d, src, dst, amount) ==
    LET shares == SharesFromTokens(s.val[src], amount)
        s1 == Delegate(unbond(s, d, src, shares), d, dst,
                       IssuedTokens(s.val[src], shares))
        status == s1.val[src].status
        left == IF status = "unbonding" THEN s1.val[src].left ELSE UnbondingTime IN
    IF status = "unbonded" THEN s1
    ELSE [s1 EXCEPT !.red = @ \cup {<<left, d, src, dst>>}]

-----------------------------------------------------------------------------
(* ApplyAndReturnValidatorSetUpdates: the first MaxValidators entries of   *)
(* the power index that have tokens are bonded; of equal tokens the lower  *)
(* address comes first, whose bytes the key holds inverted.  A missing or  *)
(* jailed validator in the index stops the node.                           *)
Above(e, f) == e[1] > f[1] \/ (e[1] = f[1] /\ e[2] < f[2])

TopEntries(s) ==
    {e \in s.power : Cardinality({f \in s.power : Above(f, e)}) < MaxValidators}

bondValidator(s, v) ==
    [s.val[v] EXCEPT !.status = "bonded", !.left = 0]

beginUnbondingValidator(s, v) ==
    [s.val[v] EXCEPT !.status = "unbonding", !.left = UnbondingTime]

TokensOf(s, S) == MapThenSumSet(LAMBDA v : s.val[v].tokens, S)

ApplyAndReturnValidatorSetUpdates(s) ==
    LET top == TopEntries(s)
        elected == {v \in Validators : \E e \in top : e[2] = v /\ s.val[v].tokens > 0}
        entering == {v \in elected : s.val[v].status # "bonded"}
        noLongerBonded == {v \in Validators : s.last[v] > 0} \ elected
        emptied == {v \in noLongerBonded : s.val[v].tokens = 0} IN
    [s EXCEPT
        !.panicked = \/ @
                     \/ \E e \in top : ~Exists(s, e[2]) \/ s.val[e[2]].jailed
                     \/ \E v \in noLongerBonded : s.val[v].status # "bonded",
        !.val = [v \in Validators |->
            IF v \in elected THEN bondValidator(s, v)
            ELSE IF v \in emptied THEN NoValidator
            ELSE IF v \in noLongerBonded THEN beginUnbondingValidator(s, v)
            ELSE s.val[v]],
        !.power = @ \ {<<0, v>> : v \in emptied},
        !.last = [v \in Validators |-> IF v \in elected THEN s.val[v].tokens
                                       ELSE IF v \in noLongerBonded THEN 0 ELSE @[v]],
        !.queue = @ \cup {<<UnbondingTime, v>> : v \in noLongerBonded},
        !.bonded = @ + TokensOf(s, entering) - TokensOf(s, noLongerBonded),
        !.info = @ \cup entering]

(* UnbondAllMatureValidatorQueue: any validator that is still unbonding    *)
(* and has an entry that is due.                                           *)
MatureValidator(s, v) == <<0, v>> \in s.queue /\ s.val[v].status = "unbonding"

UnbondAllMatureValidatorQueue(s) ==
    LET due == {v \in Validators : MatureValidator(s, v)} IN
    [s EXCEPT
        !.val = [v \in Validators |->
            IF v \notin due THEN @[v]
            ELSE IF @[v].shares = 0 THEN NoValidator
            ELSE [@[v] EXCEPT !.status = "unbonded", !.left = 0]],
        !.power = @ \ {PowerKey(s, v) : v \in {u \in due : s.val[u].shares = 0}},
        !.queue = {q \in @ : q[1] > 0}]

(* handleMatureUnbondingDelegations, in the queue's order: the order of    *)
(* the entries that are due is not kept in chain, so it is any order.      *)
MatureUnbondings(s) == {<<q[2], q[3]>> : q \in {r \in s.ubq : r[1] = 0}}

handleMatureUnbondingDelegations(s, order) ==
    FoldLeft(LAMBDA t, p : CompleteUnbonding(t, p[1], p[2]),
             [s EXCEPT !.ubq = {q \in @ : q[1] > 0}], order)

handleMatureRedelegations(s) == [s EXCEPT !.red = {r \in @ : r[1] > 0}]

-----------------------------------------------------------------------------
(* handleRefundStake undelegates the stakes in the order of their keys. A  *)
(* stake that is still unbonding in part fails and is skipped; the limits  *)
(* end the block's share of the work.                                      *)
Before(p, q) == p[1] < q[1] \/ (p[1] = q[1] /\ p[2] < q[2])

Ahead(p, S) == Cardinality({q \in S : Before(q, p)})

FailuresShortByOne(n) == n + 1 < MaxFailedRefunds

WithinFailures(n) == n < MaxFailedRefunds

Refundable(s) ==
    LET stakes == {p \in Pairs : s.del[p] > 0}
        failing == {p \in stakes : ~MayBeginUnbonding(s, p[1], p[2])} IN
    {p \in stakes \ failing : Ahead(p, stakes \ failing) < MaxRefunds
                              /\ WithinFailures(Ahead(p, failing))}

Refund(s, p) ==
    [BeginUnbonding(s, p[1], p[2], s.del[p], TRUE) EXCEPT
        !.auto = IF p[1] \in Cross THEN @ \cup {p} ELSE @]

handleRefundStake(s) == FoldLeft(Refund, s, SetToSortSeq(Refundable(s), Before))

(* One unit of time passes between two blocks.  How long ago a jail ended  *)
(* matters up to the age at which evidence expires.                        *)
Less(n) == IF n > 0 THEN n - 1 ELSE n

NextTime(s) ==
    [s EXCEPT !.val = [v \in Validators |-> [@[v] EXCEPT !.left = Less(@)]],
              !.queue = {<<Less(q[1]), q[2]>> : q \in @},
              !.until = [v \in Validators |-> IF @[v] > -MaxEvidenceAge THEN @[v] - 1 ELSE @[v]],
              !.ubq = {<<Less(q[1]), q[2], q[3]>> : q \in @},
              !.red = {<<Less(r[1]), r[2], r[3], r[4]>> : r \in @}]

-----------------------------------------------------------------------------
(* The messages of the beacon chain.                                       *)
Input ==
    /\ inputs < MaxInputs /\ inputs' = inputs + 1
    /\ quiet' = 0 /\ UNCHANGED era

Created(s, v, amount) ==
    DelegateCoins(SetValidatorByPowerIndex([s EXCEPT !.val[v].status = "unbonded"], v),
                  FeeAddr[v], v, amount)

CreateSideChainValidator(v, amount) ==
    /\ era = 0 /\ Input
    /\ ~Exists(chain, v)
    /\ amount >= MinSelfDelegation /\ chain.acc[FeeAddr[v]] >= amount
    /\ chain' = Created(chain, v, amount)

SideChainDelegate(d, v, amount) ==
    /\ d \notin Cross /\ era = 0 /\ Input
    /\ amount >= MinDelegationChange
    /\ Exists(chain, v)
    /\ chain.val[v].jailed => d = FeeAddr[v]
    /\ chain.acc[d] >= amount
    /\ chain' = DelegateCoins(chain, d, v, amount)

SideChainRedelegate(d, src, dst, amount) ==
    /\ d \notin Cross /\ era = 0 /\ Input
    /\ UnbondAmountValid(chain, d, src, amount)
    /\ MayRedelegate(chain, d, src, dst)
    /\ chain' = BeginRedelegation(chain, d, src, dst, amount)

SideChainUndelegate(d, v, amount) ==
    /\ d \notin Cross /\ era < 2 /\ Input
    /\ UnbondAmountValid(chain, d, v, amount)
    /\ MayBeginUnbonding(chain, d, v)
    /\ chain' = BeginUnbonding(chain, d, v, amount, TRUE)

(* UnboundDelegation, and the stake and the fee go to the other chain.     *)
SideChainStakeMigration(d, v, amount) ==
    /\ d \notin Cross /\ era = 1 /\ Input
    /\ UnbondAmountValid(chain, d, v, amount)
    /\ MayBeginUnbonding(chain, d, v)
    /\ LET s == CompleteUnbonding(BeginUnbonding(chain, d, v, amount, FALSE), d, v)
           sum == s.acc[d] - chain.acc[d] + MigrationFee IN
       /\ s.acc[d] >= sum
       /\ chain' = [s EXCEPT !.acc[d] = @ - sum, !.peg = @ + sum]

(* The packages of the cross-stake channel.                                *)
CrossDelegate(d, v, amount) ==
    /\ d \in Cross /\ Input
    /\ Exists(chain, v) /\ ~chain.val[v].jailed
    /\ chain.peg >= amount
    /\ chain' = DelegateCoins(
            [chain EXCEPT !.peg = @ - amount, !.acc[d] = @ + amount], d, v, amount)

CrossUndelegate(d, v, amount) ==
    /\ d \in Cross /\ Input
    /\ UnbondAmountValid(chain, d, v, amount)
    /\ MayBeginUnbonding(chain, d, v)
    /\ chain' = BeginUnbonding(chain, d, v, amount, TRUE)

CrossRedelegate(d, src, dst, amount) ==
    /\ d \in Cross /\ Input
    /\ UnbondAmountValid(chain, d, src, amount)
    /\ MayRedelegate(chain, d, src, dst) /\ ~chain.val[dst].jailed
    /\ chain' = BeginRedelegation(chain, d, src, dst, amount)

(* Governance opens and closes the cross-stake channel.                    *)
SetChannelPermission ==
    /\ Input
    /\ chain' = [chain EXCEPT !.open = ~@]

(* The ends of blocks.  Which blocks are breathe blocks is up to the       *)
(* application: the first block of a day.                                  *)
Deadline == 2 * UnbondingTime + Cardinality(Pairs) + 1

EndBlocker ==
    /\ quiet' = IF era = 2 /\ quiet < Deadline THEN quiet + 1 ELSE quiet
    /\ \E s \in {IF era = 2 THEN handleRefundStake(chain) ELSE chain} :
       \E order \in SetToSeqs(MatureUnbondings(s)) :
          chain' = NextTime(IF era >= 1 THEN handleMatureUnbondingDelegations(s, order)
                                        ELSE s)
    /\ UNCHANGED <<era, inputs>>

handleValidators(s) == UnbondAllMatureValidatorQueue(ApplyAndReturnValidatorSetUpdates(s))

EndBreatheBlock ==
    /\ \E s \in {handleValidators(chain)} :
       \E order \in SetToSeqs(MatureUnbondings(s)) :
          chain' = NextTime(handleMatureRedelegations(
                                handleMatureUnbondingDelegations(s, order)))
    /\ UNCHANGED <<era, inputs, quiet>>

SunsetFork ==
    /\ era < 2
    /\ era' = era + 1
    /\ UNCHANGED <<chain, inputs, quiet>>

(* The first messages have created the validators.                         *)
StakingInit ==
    /\ chain = FoldLeft(LAMBDA s, v : Created(s, v, MinSelfDelegation),
                        Genesis, SetToSortSeq(Validators, <))
    /\ era = 0 /\ inputs = 0 /\ quiet = 0

StakingMessage ==
    \/ \E d \in Delegators, v \in Validators, amount \in Amounts :
        \/ SideChainDelegate(d, v, amount)
        \/ SideChainUndelegate(d, v, amount)
        \/ SideChainStakeMigration(d, v, amount)
        \/ CrossDelegate(d, v, amount)
        \/ CrossUndelegate(d, v, amount)
        \/ \E dst \in Validators : SideChainRedelegate(d, v, dst, amount)
        \/ \E dst \in Validators : CrossRedelegate(d, v, dst, amount)
    \/ \E v \in Validators, amount \in Amounts : CreateSideChainValidator(v, amount)
    \/ SetChannelPermission
    \/ SunsetFork

-----------------------------------------------------------------------------
SumOver(f, S) == MapThenSumSet(LAMBDA p : f[p], S)

(* The delegation account holds exactly the tokens of the validators and   *)
(* the balances that are queued to unbond: what a delegator undelegates, a *)
(* slash takes or a refund returns leaves it once.  A validator's tokens   *)
(* are its shares and those of its delegations, so that the exchange rate  *)
(* stays one, which BeginUnbonding and BeginRedelegation rely on.          *)
StakeBacked ==
    /\ chain.pool = TokensOf(chain, Validators)
                    + SumOver(chain.ubd, {<<q[2], q[3]>> : q \in chain.ubq})
    /\ \A v \in Validators :
          /\ chain.val[v].tokens = chain.val[v].shares
          /\ chain.val[v].shares = SumOver(chain.del, Delegators \X {v})

(* The power index holds exactly the validators that are not jailed, each  *)
(* at its current tokens; otherwise the election would stop the node or    *)
(* pick the wrong validators.  Each of them has the minimal self-          *)
(* delegation: undelegating, slashing and unjailing see to that.           *)
PowerIndexExact ==
    LET electable == {v \in Validators : Exists(chain, v) /\ ~chain.val[v].jailed} IN
    /\ chain.power = {PowerKey(chain, v) : v \in electable}
    /\ \A v \in electable : chain.del[SelfPair(v)] >= MinSelfDelegation

(* LastValidatorPower lists the bonded validators, the pool's bonded       *)
(* tokens are theirs, and the election finds no validator in a state it    *)
(* does not expect (mustGetValidator, bondedToUnbonding panic).            *)
BondedSetAgrees ==
    /\ ~chain.panicked
    /\ \A v \in Validators : chain.last[v] > 0 <=> chain.val[v].status = "bonded"
    /\ chain.bonded = TokensOf(chain,
                        {v \in Validators : chain.val[v].status = "bonded"})

LeftBehind(p) == chain.ubd[p] # None /\ \A q \in chain.ubq : <<q[2], q[3]>> # p

(* So many such records lie ahead of p that every block stops before it.   *)
Starved(p) ==
    Cardinality({q \in Pairs : chain.del[q] > 0 /\ LeftBehind(q) /\ Before(q, p)})
        >= MaxFailedRefunds

(* Once both sunset forks are reached every stake is paid back within two  *)
(* unbonding times and the blocks that it takes to refund each stake,      *)
(* whatever was unbonding at the time and although a block stops at a      *)
(* limit of failures.  There are two exceptions, both because of a record  *)
(* that CompleteUnbonding paid and left behind: the rest of that stake,    *)
(* and every stake after as many of them as handleRefundStake puts up with *)
(* in a block (maxProcessedRefundFailed), for it starts from the first     *)
(* delegation again in each block.                                         *)
StakesReturned ==
    quiet = Deadline =>
        /\ chain.ubq = {}
        /\ \A p \in Pairs : chain.del[p] > 0 => LeftBehind(p) \/ Starved(p)

=============================================================================
