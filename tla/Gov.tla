--------------------------------- MODULE Gov ---------------------------------
(***************************************************************************)
(* Governance (x/gov): proposals, their deposits and votes on the native   *)
(* chain and on every side chain, and the settlement at the end of a       *)
(* block.  All chains share the escrow account DepositedCoinsAccAddr; the  *)
(* rest of the state sits under a store prefix per chain.  A message whose *)
(* handler returns an error is rolled back by BaseApp and is not a step.   *)
(* Each turn of the loops of settleProposals is one step; pc keeps         *)
(* messages out until the block is settled.                                *)
(***************************************************************************)
EXTENDS Integers, Sequences, FiniteSets, TLC, SequencesExt, FiniteSetsExt, Functions

CONSTANTS ChainIDs,          \* sequence of chains in the order of EndBlocker
          Accounts,          \* depositers; FeeAccount is one of them
          FeeAccount,        \* fee address of the block's proposer
          Escrow,            \* DepositedCoinsAccAddr
          Validators,        \* operators, who are the only voters
          Supply,            \* coins of each account at the start
          Amounts,           \* deposits tried; 0 is a message without coins
          MinDeposit, MaxDepositPeriod,
          VotingPeriods, Kinds, Options,
          Delegated,         \* [operator -> [validator -> shares]]
          Outside,           \* shares of a validator held by non-operators
          Rate,              \* [validator -> tokens of a share], less once slashed
          StakeStates,       \* per chain: pairs of (status Bonded, in the last power index)
          Quorum, Veto, Threshold,   \* each <<numerator, denominator>>
          MaxProposals, MaxTime, BlockSteps

Yes == "Yes"
No == "No"
Abstain == "Abstain"
NoWithVeto == "NoWithVeto"

Chains == Range(ChainIDs)
Settled == Len(ChainIDs) + 1

ASSUME GovAssumption ==
    /\ Len(ChainIDs) > 0 /\ FeeAccount \in Accounts /\ Escrow \notin Accounts
    /\ MinDeposit \in Nat \ {0} /\ MaxDepositPeriod \in Nat
    /\ VotingPeriods \subseteq Nat \ {0} /\ Amounts \subseteq Nat
    /\ Options \subseteq {Yes, No, Abstain, NoWithVeto}

VARIABLES nextID, proposals, inactive, active,   \* per chain
          deposits, votes,                       \* per chain, by <<id, account>>
          stake,                                 \* per chain, [bonded, last]
          balance, now,
          pc        \* 0 delivering, i settling chain i, Settled, -1 panicked

vars == <<nextID, proposals, inactive, active, deposits, votes, stake, balance, now, pc>>

NoTime == -1

Without(f, keys) == Restrict(f, DOMAIN f \ keys)

Of(f, id) == {k \in DOMAIN f : k[1] = id}

SumOver(f, keys) == MapThenSumSet(LAMBDA k : f[k], keys)

Expiry(p) == p.start + p.period

Init ==
    /\ nextID = [c \in Chains |-> 1]
    /\ proposals = [c \in Chains |-> <<>>]
    /\ inactive = [c \in Chains |-> <<>>]
    /\ active = [c \in Chains |-> <<>>]
    /\ deposits = [c \in Chains |-> <<>>]
    /\ votes = [c \in Chains |-> <<>>]
    /\ stake = [c \in Chains |-> CHOOSE s \in StakeStates[c] : TRUE]
    /\ balance = [a \in Accounts \cup {Escrow} |-> IF a = Escrow THEN 0 ELSE Supply]
    /\ now = 0
    /\ pc = 0

-----------------------------------------------------------------------------
(* Messages *)

NewTextProposal(kind, period) ==
    [kind |-> kind, status |-> "DepositPeriod", submit |-> now, start |-> NoTime,
     period |-> period, total |-> 0]

Depositable(p) == p.status \in {"DepositPeriod", "VotingPeriod"}

Tips(p, amount) == p.status = "DepositPeriod" /\ p.total + amount >= MinDeposit

TotalDeposit(p, amount) == p.total + amount

(* The proposal after a deposit: ActivateVotingPeriod when it tips. *)
Deposited(p, amount) ==
    IF Tips(p, amount)
    THEN [p EXCEPT !.total = TotalDeposit(p, amount), !.status = "VotingPeriod", !.start = now]
    ELSE [p EXCEPT !.total = TotalDeposit(p, amount)]

ActiveProposalQueuePushLost(c, ps, id) == active[c]
ActiveProposalQueuePushBack(c, ps, id) == Append(active[c], id)

(* Insertion before the first proposal that expires strictly later. *)
ActiveProposalQueuePush(c, ps, id) ==
    LET later == {i \in DOMAIN active[c] : Expiry(ps[active[c][i]]) > Expiry(ps[id])}
    IN  InsertAt(active[c], Min(later \cup {Len(active[c]) + 1}), id)

SendCoins(from, to, amount) ==
    [balance EXCEPT ![from] = @ - amount, ![to] = @ + amount]

DepositReplaced(c, id, who, amount) == (<<id, who>> :> amount) @@ deposits[c]
DepositUpdated(c, id, who, amount) ==
    LET old == IF <<id, who>> \in DOMAIN deposits[c] THEN deposits[c][<<id, who>>] ELSE 0
    IN  (<<id, who>> :> old + amount) @@ deposits[c]

(* AddDeposit on proposal id, which reads p before the call. *)
AddDeposit(c, id, p, who, amount) ==
    LET ps == (id :> Deposited(p, amount)) @@ proposals[c] IN
    /\ Depositable(p)
    /\ balance[who] >= amount
    /\ balance' = SendCoins(who, Escrow, amount)
    /\ proposals' = [proposals EXCEPT ![c] = ps]
    /\ active' = IF Tips(p, amount)
                 THEN [active EXCEPT ![c] = ActiveProposalQueuePush(c, ps, id)]
                 ELSE active
    /\ deposits' = [deposits EXCEPT ![c] = DepositUpdated(c, id, who, amount)]

(* Rejected by the hooks of its kind, a submission leaves nothing behind. *)
SubmitProposal(c, who, kind, period, amount) ==
    /\ pc = 0 /\ nextID[c] <= MaxProposals
    /\ AddDeposit(c, nextID[c], NewTextProposal(kind, period), who, amount)
    /\ nextID' = [nextID EXCEPT ![c] = @ + 1]
    /\ inactive' = [inactive EXCEPT ![c] = Append(@, nextID[c])]
    /\ UNCHANGED <<votes, stake, now, pc>>

Deposit(c, id, who, amount) ==
    /\ pc = 0 /\ id \in DOMAIN proposals[c]
    /\ AddDeposit(c, id, proposals[c][id], who, amount)
    /\ UNCHANGED <<nextID, inactive, votes, stake, now, pc>>

MayVote(c, v) == v \in stake[c].bonded

Votable(p) == p.status = "VotingPeriod"

Vote(c, id, v, option) ==
    /\ pc = 0 /\ id \in DOMAIN proposals[c]
    /\ MayVote(c, v) /\ Votable(proposals[c][id])
    /\ votes' = [votes EXCEPT ![c] = (<<id, v>> :> option) @@ @]
    /\ UNCHANGED <<nextID, proposals, inactive, active, deposits, stake, balance, now, pc>>

(* Elections, jailing and unbonding of x/stake, as far as Tally sees them. *)
StakeChange(c, s) ==
    /\ pc = 0 /\ s # stake[c]
    /\ stake' = [stake EXCEPT ![c] = s]
    /\ UNCHANGED <<nextID, proposals, inactive, active, deposits, votes, balance, now, pc>>

-----------------------------------------------------------------------------
(* Tally *)

Shares(v) == Outside[v] + MapThenSumSet(LAMBDA d : Delegated[d][v], Validators)

(* The power of n shares of v: val.Power.Mul(n / DelegatorShares), where Power
   is the validator's tokens while its status is Bonded. *)
PowerOf(c, v, n) == IF v \in stake[c].bonded THEN n * Rate[v] ELSE 0

(* BondedTokens of the pool, which counts a jailed validator until it unbonds. *)
TotalPower(c) == MapThenSumSet(LAMBDA v : PowerOf(c, v, Shares(v)), Validators)

VotersOn(c, id) == {k[2] : k \in Of(votes[c], id)}

DeductionsNone(c, id, v) == 0
(* Shares of v whose operators vote for themselves: those not in the last set. *)
Deductions(c, id, v) ==
    MapThenSumSet(LAMBDA d : Delegated[d][v], VotersOn(c, id) \ stake[c].last)

(* What the direct votes and then the validators' votes give to an option. *)
Result(c, id, option) ==
    LET cast == {d \in VotersOn(c, id) : votes[c][<<id, d>>] = option}
        direct == (cast \ stake[c].last) \X stake[c].last
    IN  MapThenSumSet(LAMBDA e : PowerOf(c, e[2], Delegated[e[1]][e[2]]), direct)
        + MapThenSumSet(LAMBDA v : PowerOf(c, v, Shares(v) - Deductions(c, id, v)),
                        cast \cap stake[c].last)

TotalVotingPower(c, id) == MapThenSumSet(LAMBDA o : Result(c, id, o), Options)

(* a / b < r and a / b > r for the fraction r. *)
Below(a, b, r) == a * r[2] < r[1] * b
Above(a, b, r) == a * r[2] > r[1] * b

Opinions(c, id) == TotalVotingPower(c, id) - Result(c, id, Abstain)

NoQuorum(c, id) ==
    \/ TotalPower(c) = 0
    \/ Below(TotalVotingPower(c, id), TotalPower(c), Quorum)
    \/ Opinions(c, id) = 0

Vetoed(c, id) == Above(Result(c, id, NoWithVeto), TotalVotingPower(c, id), Veto)

Passes(c, id) ==
    /\ ~NoQuorum(c, id) /\ ~Vetoed(c, id)
    /\ Above(Result(c, id, Yes), Opinions(c, id), Threshold)

RefundsDeposits(c, id) == Passes(c, id) \/ NoQuorum(c, id)

-----------------------------------------------------------------------------
(* EndBlocker *)

DepositsOf(c, id) == SumOver(deposits[c], Of(deposits[c], id))

RefundFirst(c, id) ==
    LET k == CHOOSE e \in Of(deposits[c], id) : TRUE IN SendCoins(Escrow, k[2], DepositsOf(c, id))
RefundDeposits(c, id) ==
    [a \in DOMAIN balance |->
        CASE a = Escrow -> balance[a] - DepositsOf(c, id)
          [] <<id, a>> \in DOMAIN deposits[c] -> balance[a] + deposits[c][<<id, a>>]
          [] OTHER -> balance[a]]

DistributeDeposits(c, id) == SendCoins(Escrow, FeeAccount, DepositsOf(c, id))

(* The payments above panic when the escrow account does not cover them. *)
PcAfterPaying(c, id) == IF balance[Escrow] >= DepositsOf(c, id) THEN pc ELSE -1

Settling(c) == pc \in DOMAIN ChainIDs /\ ChainIDs[pc] = c

Due(p) == now >= p.submit + MaxDepositPeriod

(* The peeks of the queues find nothing when the front has been deleted. *)
Peek(c, queue) == queue # <<>> /\ Head(queue) \in DOMAIN proposals[c]

ShouldPopInactive(c) ==
    /\ Peek(c, inactive[c])
    /\ LET p == proposals[c][Head(inactive[c])] IN p.status # "DepositPeriod" \/ Due(p)

ShouldPopActive(c) ==
    /\ Peek(c, active[c])
    /\ now >= Expiry(proposals[c][Head(active[c])])

Droppable(p) == p.status = "DepositPeriod"

(* A proposal that reached its minimum deposit just leaves the queue. *)
SkipInactive(c) ==
    LET id == Head(inactive[c]) IN
    /\ Settling(c) /\ ShouldPopInactive(c) /\ ~Droppable(proposals[c][id])
    /\ inactive' = [inactive EXCEPT ![c] = Tail(@)]
    /\ UNCHANGED <<nextID, proposals, active, deposits, votes, stake, balance, now, pc>>

DropInactive(c) ==
    LET id == Head(inactive[c]) IN
    /\ Settling(c) /\ ShouldPopInactive(c) /\ Droppable(proposals[c][id])
    /\ inactive' = [inactive EXCEPT ![c] = Tail(@)]
    /\ balance' = DistributeDeposits(c, id)
    /\ pc' = PcAfterPaying(c, id)
    /\ deposits' = [deposits EXCEPT ![c] = Without(@, Of(@, id))]
    /\ proposals' = [proposals EXCEPT ![c] = Without(@, {id})]
    /\ UNCHANGED <<nextID, active, votes, stake, now>>

VotesAfterTally(c, id) == Without(votes[c], Of(votes[c], id))

SettleActive(c) ==
    LET id == Head(active[c]) IN
    /\ Settling(c) /\ ~ShouldPopInactive(c) /\ ShouldPopActive(c)
    /\ active' = [active EXCEPT ![c] = Tail(@)]
    /\ balance' = IF RefundsDeposits(c, id) THEN RefundDeposits(c, id) ELSE DistributeDeposits(c, id)
    /\ pc' = PcAfterPaying(c, id)
    /\ deposits' = [deposits EXCEPT ![c] = Without(@, Of(@, id))]
    /\ votes' = [votes EXCEPT ![c] = VotesAfterTally(c, id)]
    /\ proposals' = [proposals EXCEPT ![c][id].status = IF Passes(c, id) THEN "Passed" ELSE "Rejected"]
    /\ UNCHANGED <<nextID, inactive, stake, now>>

EndBlocker ==
    /\ pc = 0
    /\ pc' = 1
    /\ UNCHANGED <<nextID, proposals, inactive, active, deposits, votes, stake, balance, now>>

NextChain(c) ==
    /\ Settling(c) /\ ~ShouldPopInactive(c) /\ ~ShouldPopActive(c)
    /\ pc' = pc + 1
    /\ UNCHANGED <<nextID, proposals, inactive, active, deposits, votes, stake, balance, now>>

(* The next block, with a later header time until the bound is reached. *)
BeginBlock(dt) ==
    /\ pc = Settled
    /\ now' = Min({now + dt, MaxTime})
    /\ pc' = 0
    /\ UNCHANGED <<nextID, proposals, inactive, active, deposits, votes, stake, balance>>

Message(c) ==
    \/ \E who \in Accounts, amount \in Amounts :
          \/ \E kind \in Kinds, period \in VotingPeriods : SubmitProposal(c, who, kind, period, amount)
          \/ \E id \in DOMAIN proposals[c] : Deposit(c, id, who, amount)
    \/ \E id \in DOMAIN proposals[c], v \in Validators, option \in Options : Vote(c, id, v, option)

Settle(c) == SkipInactive(c) \/ DropInactive(c) \/ SettleActive(c) \/ NextChain(c)

Next ==
    \/ \E c \in Chains : Message(c) \/ Settle(c)
    \/ \E c \in Chains : \E s \in StakeStates[c] : StakeChange(c, s)
    \/ EndBlocker
    \/ \E dt \in BlockSteps : BeginBlock(dt)

Spec == Init /\ [][Next]_vars

(* Blocks go on: consensus proposes them and EndBlock runs to its end. *)
FairSpec ==
    /\ Spec
    /\ WF_vars(EndBlocker)
    /\ WF_vars(\E c \in Chains : Settle(c))
    /\ WF_vars(\E dt \in BlockSteps : BeginBlock(dt))

-----------------------------------------------------------------------------
(* Properties *)

(* The escrow account holds exactly the deposits recorded on all chains
   together ("Will hold deposit of both BC chain and side chain"), and the
   total of an open proposal, which decides whether it votes, is the sum of the
   deposits recorded for it. *)
DepositsHeld ==
    /\ balance[Escrow] =
         MapThenSumSet(LAMBDA c : SumOver(deposits[c], DOMAIN deposits[c]), Chains)
    /\ \A c \in Chains : \A id \in DOMAIN proposals[c] :
         LET p == proposals[c][id] IN
         Depositable(p) => /\ p.total = DepositsOf(c, id)
                           /\ (p.status = "VotingPeriod") <=> (p.total >= MinDeposit)

(* When a block is settled no proposal is overdue on any chain, although only
   the fronts of the queues are looked at. *)
SettledOnTime ==
    pc = Settled => \A c \in Chains : \A id \in DOMAIN proposals[c] :
        LET p == proposals[c][id] IN
        /\ p.status = "DepositPeriod" => now < p.submit + MaxDepositPeriod
        /\ p.status = "VotingPeriod" => now < Expiry(p)

(* The option that the shares of v held by d count for: the holder's own vote
   when the holder votes and is not itself in the last set, else v's vote. *)
CountsFor(c, id, d, v) ==
    LET voter == IF d \in VotersOn(c, id) \ stake[c].last THEN d ELSE v
    IN  IF voter \in VotersOn(c, id) THEN votes[c][<<id, voter>>] ELSE "none"

(* Tally counts every share of the last validator set at most once, with the
   tokens it stands for, for its holder's vote or else for its validator's, so
   that no more power votes than there is (the subtractions of
   DelegatorDeductions exist for this). *)
TallyPerShare ==
    \A c \in Chains : \A id \in Range(active[c]) :
        /\ \A o \in Options :
              Result(c, id, o) =
                MapThenSumSet(LAMBDA e : IF CountsFor(c, id, e[1], e[2]) = o
                                         THEN Delegated[e[1]][e[2]] * Rate[e[2]] ELSE 0,
                              Validators \X stake[c].last)
                + MapThenSumSet(LAMBDA v : IF CountsFor(c, id, FeeAccount, v) = o
                                           THEN Outside[v] * Rate[v] ELSE 0,
                                stake[c].last)
        /\ TotalVotingPower(c, id) <= TotalPower(c)

(* What an account owns, deposits on every chain included. *)
Wealth(a) ==
    balance[a] + MapThenSumSet(LAMBDA c : SumOver(deposits[c], {k \in DOMAIN deposits[c] : k[2] = a}), Chains)

(* A proposal that passes costs nobody anything: in the step that settles it
   every account gets back exactly what it deposited on it, whoever else
   deposited on this or another proposal, of this or another chain.  (Who loses
   a deposit to a proposal that does not pass is left open here: the code keeps
   the deposits of a dropped, vetoed or rejected one and returns those of one
   without quorum.) *)
AcceptedCostsNothing ==
    [][\A c \in Chains : \A id \in DOMAIN proposals[c] \cap DOMAIN proposals'[c] :
        (proposals[c][id].status # "Passed" /\ proposals'[c][id].status = "Passed") =>
            \A a \in Accounts : Wealth(a)' = Wealth(a)]_vars

Open(c, id) == id \in DOMAIN proposals[c] /\ Depositable(proposals[c][id])

(* Every proposal is in the end dropped or decided, on every chain. *)
EveryProposalDecided ==
    \A c \in Chains : \A id \in 1 .. MaxProposals :
        (Open(c, id) /\ now + MaxDepositPeriod + proposals[c][id].period <= MaxTime) ~> ~Open(c, id)
=============================================================================
