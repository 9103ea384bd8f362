----------------------------- MODULE Arithmetic -----------------------------
(***************************************************************************)
(* Numbers at work: a register that is loaded with any integer and on      *)
(* which the operations are applied with any operand, and a reward of that *)
(* many units that is divided among the delegations of a validator, which  *)
(* come one after the other (allocate in x/stake/keeper/reward.go).  An    *)
(* operation that panics leaves the register as it was.                    *)
(***************************************************************************)
EXTENDS Numbers

CONSTANTS
    Shares,         \* shares a delegation may have
    Rewards,        \* rewards to divide
    MaxSharers      \* bound: delegations of a validator

ASSUME ArithmeticAssumption ==
    Shares \subseteq Nat \ {0} /\ Rewards \subseteq Nat /\ MaxSharers \in Nat

VARIABLES
    register,    \* an integer, or Panic before the first
    sharers      \* the delegations that share a reward of register units

numbers == <<register, sharers>>

NumbersInit == register = Panic /\ sharers = <<>>

Become(r) == r # Panic /\ register' = r

Load == register = Panic /\ register' \in Ints /\ UNCHANGED sharers

Operate ==
    /\ register # Panic /\ sharers = <<>>
    /\ \E b \in Ints :
        \/ Become(SafePlus(register, b))
        \/ Become(SafeMinus(register, b))
        \/ Become(DecMul(register, b))
        \/ Become(DecQuo(register, b))
    /\ UNCHANGED sharers

Delegate ==
    /\ register \in Rewards /\ Len(sharers) < MaxSharers
    /\ \E s \in Shares :
        sharers' = Append(sharers, [acc |-> Len(sharers) + 1, shares |-> s])
    /\ UNCHANGED register

NumbersNext == Load \/ Operate \/ Delegate

-----------------------------------------------------------------------------
(* A sum or a difference is exact, or it panics (safePlus, safeMinus and   *)
(* Dec.Add, Dec.Sub), Mul64 says ok exactly of the products that fit       *)
(* (types/numbers.go), and a share of a product (MulQuoDec, by positive    *)
(* shares) is the exact one rounded towards zero, or an error, on the      *)
(* machine and on the big path.  The product of two decimals is the        *)
(* nearest decimal, and the even one of two that are equally near; their   *)
(* quotient is off by at most half a unit and the unit of the places       *)
(* Dec.Quo cuts off before it rounds.                                      *)
OperationsExact ==
    register # Panic => \A b \in Ints :
        /\ SafePlus(register, b) = Checked(register + b)
        /\ SafeMinus(register, b) = Checked(register - b)
        /\ Mul64(register, b).ok <=> register * b \in Ints
        /\ Mul64(register, b).ok => Mul64(register, b).c = register * b
        /\ \A c \in 1..MaxInt :
            MulQuoDec(register, b, c) = Checked(Quotient(register * b, c))
        /\ LET r == DecMul(register, b)
               off == 2 * Abs(r * Precision - register * b)
           IN  r # Panic => off < Precision \/ (off = Precision /\ r % 2 = 0)
        /\ b # 0 =>
            LET r == DecQuo(register, b)
            IN  r # Panic =>
                  2 * Precision * Abs(r * b - register * Precision) <= Abs(b) * (Precision + 2)

(* allocate pays out exactly the reward, to each sharer once and at most   *)
(* one unit above its share rounded down, whether or not the products fit  *)
(* a machine integer, and a unit that is left over goes to a sharer whose  *)
(* next digit is below the threshold only when every other one has its.    *)
AllocationExact ==
    LET rewards == Allocate(sharers, register)
        all == FoldLeft(LAMBDA s, d : s + d.shares, 0, sharers)
        Share(r) == (r.shares * register) \div all
        Tenth(r) == ((r.shares * register * 10) \div all) % 10
        Extra(r) == r.amount - Share(r)
    IN  sharers # <<>> =>
        /\ RewardsSum(rewards) = register
        /\ Len(rewards) = Len(sharers)
        /\ \A i \in DOMAIN sharers : \E j \in DOMAIN rewards :
            /\ rewards[j].acc = sharers[i].acc
            /\ rewards[j].amount - Share(sharers[i]) \in {0, 1}
        /\ \A i, j \in DOMAIN rewards :
            Extra(rewards[i]) = 1 /\ Tenth(rewards[i]) < 5 /\ Tenth(rewards[j]) >= 5
                => Extra(rewards[j]) = 1
=============================================================================
