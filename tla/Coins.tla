------------------------------- MODULE Coins -------------------------------
(***************************************************************************)
(* Lists of coins, sorted by denomination (types/coin.go), and the bank    *)
(* that moves them between accounts (x/bank).  Denominations are numbers   *)
(* in the order of their names.                                            *)
(*                                                                         *)
(* A transaction that fails or panics leaves no trace.  The keepers of     *)
(* other modules call SendCoins at the end of a block too, where an error  *)
(* is not rolled back and a panic stops the node.                          *)
(***************************************************************************)
EXTENDS Numbers

CONSTANTS
    Denoms,       \* denominations, 1..n
    Addresses,
    Genesis,      \* coins of every account at the start
    Amounts,      \* lists of coins a message or another module may name
    MaxMoves      \* bound: inputs, and outputs, of a message

ASSUME CoinsAssumption ==
    /\ Denoms \subseteq Nat
    /\ Genesis \in [Addresses -> Seq([denom : Denoms, amount : Ints])]
    /\ Amounts \subseteq Seq([denom : Denoms, amount : Ints])
    /\ MaxMoves \in Nat

-----------------------------------------------------------------------------
(* Coins.IsValid: the first coin of several is not compared with zero.     *)
IsValid(coins) ==
    /\ Len(coins) = 1 => coins[1].amount # 0
    /\ \A i \in 2..Len(coins) :
        coins[i].denom > coins[i - 1].denom /\ coins[i].amount # 0

(* Coins.Plus merges two sorted lists, from the coins i and j on.          *)
SumOf(c, d) == <<[denom |-> c.denom, amount |-> SafePlus(c.amount, d.amount)]>>

NonZero(sum) == SelectSeq(sum, LAMBDA c : c.amount # 0)

Plus(a, b) ==
    LET merge[i \in 1..(Len(a) + 1), j \in 1..(Len(b) + 1)] ==
            IF i > Len(a) THEN SubSeq(b, j, Len(b))
            ELSE IF j > Len(b) THEN SubSeq(a, i, Len(a))
            ELSE IF a[i].denom < b[j].denom THEN <<a[i]>> \o merge[i + 1, j]
            ELSE IF a[i].denom > b[j].denom THEN <<b[j]>> \o merge[i, j + 1]
            ELSE NonZero(SumOf(a[i], b[j])) \o merge[i + 1, j + 1]
    IN  merge[1, 1]

Negative(coins) == [i \in DOMAIN coins |-> [coins[i] EXCEPT !.amount = Wrap(-@)]]

Minus(a, b) == Plus(a, Negative(b))

Panics(coins) == \E i \in DOMAIN coins : coins[i].amount = Panic

IsNotNegative(coins) == \A i \in DOMAIN coins : coins[i].amount >= 0

IsPositive(coins) == coins # <<>> /\ \A i \in DOMAIN coins : coins[i].amount > 0

IsGTE(a, b) == IsNotNegative(Minus(a, b))

(* Coins.AmountOf searches the list by halves.                             *)
UpperHalf(mid, high) == <<mid + 1, high>>

AmountOf(coins, denom) ==
    LET n == Len(coins)
        find[low \in 1..(n + 2), high \in 0..n] ==
            LET mid == low + (high - low + 1) \div 2
            IN  IF low > high THEN 0
                ELSE IF low = high THEN IF coins[low].denom = denom THEN coins[low].amount ELSE 0
                ELSE IF denom < coins[mid].denom THEN find[low, mid - 1]
                ELSE IF denom = coins[mid].denom THEN coins[mid].amount
                ELSE find[UpperHalf(mid, high)]
    IN  find[1, n]

-----------------------------------------------------------------------------
VARIABLES
    balances,    \* the coins of every account
    halted       \* whether a panic at the end of a block stopped the node

vars == <<balances, halted>>

Init == balances = Genesis /\ halted = FALSE

(* subtractCoins and addCoins: the new balances, or an error or a panic.   *)
Ok(bals) == [bals |-> bals, err |-> FALSE, panic |-> FALSE]

SetCoins(bals, addr, coins) ==
    [bals |-> IF Panics(coins) \/ ~IsNotNegative(coins) THEN bals
              ELSE [bals EXCEPT ![addr] = coins],
     err |-> ~Panics(coins) /\ ~IsNotNegative(coins),
     panic |-> Panics(coins)]

SubtractCoins(bals, addr, amt) == SetCoins(bals, addr, Minus(bals[addr], amt))

AddCoins(bals, addr, amt) == SetCoins(bals, addr, Plus(bals[addr], amt))

Failed(r) == r.err \/ r.panic

(* sendCoins: the payer first, and the payee with what that left.          *)
PayeeStale(paid, bals, to, amt) == [paid EXCEPT !.bals[to] = Plus(bals[to], amt)]

Payee(paid, bals, to, amt) == AddCoins(paid.bals, to, amt)

SendCoins(bals, from, to, amt) ==
    LET paid == SubtractCoins(bals, from, amt)
    IN  IF Failed(paid) THEN paid ELSE Payee(paid, bals, to, amt)

(* inputOutputCoins: every input, then every output, up to a failure.      *)
InputOutputCoins(bals, inputs, outputs) ==
    LET In(r, m) == IF Failed(r) THEN r ELSE SubtractCoins(r.bals, m.addr, m.coins)
        Out(r, m) == IF Failed(r) THEN r ELSE AddCoins(r.bals, m.addr, m.coins)
    IN  FoldLeft(Out, FoldLeft(In, Ok(bals), inputs), outputs)

(* MsgSend.ValidateBasic: valid positive coins, and as much in as out.     *)
Total(moves) == FoldLeft(LAMBDA t, m : Plus(t, m.coins), <<>>, moves)

Balanced(inputs, outputs) == Total(inputs) = Total(outputs)

ValidateBasic(inputs, outputs) ==
    /\ inputs # <<>> /\ outputs # <<>>
    /\ \A m \in ToSet(inputs \o outputs) : IsValid(m.coins) /\ IsPositive(m.coins)
    /\ ~Panics(Total(inputs)) /\ ~Panics(Total(outputs))
    /\ Balanced(inputs, outputs)

Moves == BoundedSeq([addr : Addresses, coins : Amounts], MaxMoves)

(* handleMsgSend in a transaction, which is rolled back when it fails.     *)
HandleMsgSend ==
    \E inputs, outputs \in Moves :
        /\ ValidateBasic(inputs, outputs)
        /\ LET r == InputOutputCoins(balances, inputs, outputs)
           IN  balances' = IF Failed(r) THEN balances ELSE r.bals
        /\ UNCHANGED halted

(* SendCoins by a keeper at the end of a block: the caller goes on after   *)
(* an error with whatever was written.                                     *)
KeeperSends ==
    \E from, to \in Addresses, amt \in Amounts :
        /\ IsNotNegative(amt)
        /\ LET r == SendCoins(balances, from, to, amt)
           IN  /\ balances' = IF r.panic THEN balances ELSE r.bals
               /\ halted' = r.panic

Next == ~halted /\ (HandleMsgSend \/ KeeperSends)

Spec == Init /\ [][Next]_vars

-----------------------------------------------------------------------------
HeldBy(coins, d) ==
    FoldLeft(LAMBDA s, c : IF c.denom = d THEN s + c.amount ELSE s, 0, coins)

Supply(bals, d) == MapThenSumSet(LAMBDA a : HeldBy(bals[a], d), Addresses)

(* Messages and keepers move coins and neither make nor lose any, and no   *)
(* account is overdrawn, when one pays itself and when they fail half way  *)
(* included.  Moves keep the lists sorted, so that the binary search of    *)
(* AmountOf finds what an account holds of every denomination, and whether *)
(* it can pay an amount (HasCoins) is whether the payment succeeds.        *)
CoinsConserved ==
    /\ \A d \in Denoms : Supply(balances, d) = Supply(Genesis, d)
    /\ \A a \in Addresses :
        /\ IsNotNegative(balances[a])
        /\ \A d \in Denoms : AmountOf(balances[a], d) = HeldBy(balances[a], d)
        /\ \A amt \in Amounts :
            IsGTE(balances[a], amt) <=> ~Failed(SubtractCoins(balances, a, amt))
=============================================================================
