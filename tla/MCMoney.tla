------------------------------ MODULE MCMoney ------------------------------
(* Coins with three denominations and two accounts, and beside them the    *)
(* operations on numbers and the distribution of rewards.  The three share *)
(* no state: each takes its steps while the others are in an initial       *)
(* state.                                                                  *)
EXTENDS Coins, Arithmetic, RewardDistribution

CONSTANTS a, b

Coin(d, n) == [denom |-> d, amount |-> n]

TwoAccounts ==
    [x \in {a, b} |-> IF x = a THEN <<Coin(1, 3), Coin(2, 14), Coin(3, 1)>>
                      ELSE <<Coin(1, 2), Coin(2, 12)>>]

(* A zero coin is what a completed unbonding pays whose balance was        *)
(* slashed to zero.                                                        *)
SomeAmounts ==
    {<<Coin(1, 1)>>, <<Coin(2, 3)>>, <<Coin(1, 2), Coin(3, 1)>>, <<Coin(2, 2), Coin(3, 1)>>,
     <<Coin(3, 1)>>, <<Coin(1, 0)>>}

(* Two validators of the side chain, which share a delegator there, and    *)
(* one of the beacon chain.  The side chain may elect one, both or none.   *)
Stake(acct, n, far) == [acc |-> acct, shares |-> n, cross |-> far]

First == [val |-> "v1", fee |-> "f1", shares |-> 3, rate |-> 2,
          dels |-> <<Stake("f1", 1, FALSE), Stake("x", 2, TRUE)>>]
Second == [val |-> "v2", fee |-> "f2", shares |-> 2, rate |-> 0,
           dels |-> <<Stake("f2", 2, FALSE), Stake("d", 1, FALSE), Stake("x", 1, TRUE)>>]
Third == [val |-> "w", fee |-> "d", shares |-> 1, rate |-> 1, dels |-> <<Stake("d", 1, FALSE)>>]

SomeElected == [side |-> {<<First, Second>>, <<Second>>, <<>>}, beacon |-> {<<Third>>}]

MoneyInit == Init /\ NumbersInit /\ PayoutInit

MoneyNext ==
    \/ NumbersInit /\ PayoutInit /\ Next /\ UNCHANGED <<numbers, payout>>
    \/ Init /\ PayoutInit /\ NumbersNext /\ UNCHANGED <<vars, payout>>
    \/ Init /\ NumbersInit /\ PayoutNext /\ UNCHANGED <<vars, numbers>>

MoneySpec == MoneyInit /\ [][MoneyNext]_<<vars, numbers, payout>>
=============================================================================
