------------------------------- MODULE Oracle -------------------------------
(***************************************************************************)
(* The oracle (x/oracle): relayers claim the batch of packages that the    *)
(* side chain sent under the next sequence of the relay channel; when a    *)
(* claim has enough of the relayers' power the packages of the batch are   *)
(* handed to the applications, and replies go out on the channels.         *)
(*                                                                         *)
(* A claim is a transaction: the stores (chain) change only if it          *)
(* succeeds, the fee pool and the collector of the ibc keeper also if not. *)
(* A payload is the sequence of its packages; a package says what its      *)
(* application does with it (outcome).                                     *)
(***************************************************************************)
EXTENDS Channels, FiniteSetsExt

CONSTANTS
    Faulty,            \* relayers that may claim anything
    PowerSets,         \* the relayers and their power, as functions
    ConsensusNeeded,   \* <<numerator, denominator>>
    Truth,             \* the batches of the side chain, in order
    Forged,            \* payloads the side chain never sent
    InitialPeg,        \* coins of PegAccount
    MaxPeg,            \* bound: coins ever locked in PegAccount
    MaxFees            \* bound: fees are counted up to this sum

ASSUME OracleAssumption ==
    /\ InitialPeg \in Nat /\ MaxPeg \in Nat /\ MaxFees \in Nat /\ MaxFees > MaxPeg
    /\ ConsensusNeeded[1] \in Nat /\ ConsensusNeeded[2] \in Nat \ {0}

VARIABLES
    inbox,     \* recvSeq, relaySeq, prophecies, peg, locked, applied
    power,     \* GetOracleRelayersPower
    feePool,   \* fees.Pool: committed fees of the block
    paid       \* fees paid out at the ends of blocks

oracleVars == <<channelVars, inbox, power, feePool, paid>>

Payloads == ToSet(Truth) \cup Forged

NoClaims == [v \in {} |-> <<>>]

(* inbox is in the stores like chain: the receive sequence of each channel *)
(* and of the relay channel, the prophecies by sequence, the coins of      *)
(* PegAccount (peg, of all that were locked there), and the packages whose *)
(* effects the applications kept.                                          *)
OracleInit ==
    /\ ChannelsInit
    /\ inbox = [recvSeq |-> [ch \in Registered |-> 0],
                relaySeq |-> 0,
                prophecies |-> [s \in 0..Len(Truth) |-> NoClaims],
                peg |-> InitialPeg,
                locked |-> InitialPeg,
                applied |-> [ch \in Registered |-> <<>>]]
    /\ power \in PowerSets
    /\ feePool = 0 /\ paid = 0

-----------------------------------------------------------------------------
(* FindHighestClaim: relayers that left the set do not count.              *)
PowerOf(S) == MapThenSumSet(LAMBDA v : power[v], S \cap DOMAIN power)

TotalPower == PowerOf(DOMAIN power)

ClaimPower(claims, payload) == PowerOf({v \in DOMAIN claims : claims[v] = payload})

HighestPower(claims) == Max({ClaimPower(claims, p) : p \in Range(claims)})

(* processCompletion *)
Enough(p) == p * ConsensusNeeded[2] >= ConsensusNeeded[1] * TotalPower

RemainingPowerNone(claims) == 0

RemainingPower(claims) == TotalPower - PowerOf(DOMAIN claims)

Status(claims) ==
    LET highest == HighestPower(claims)
    IN  IF Enough(highest) THEN "success"
        ELSE IF ~Enough(highest + RemainingPower(claims)) THEN "failed"
        ELSE "pending"

(* AddClaim: a relayer's later claim replaces its earlier one.             *)
AddClaim(claims, v, payload) == (v :> payload) @@ claims

-----------------------------------------------------------------------------
(* handlePackage, on the state of the transaction so far: [ok, chain,      *)
(* inbox, fees].  The checks come first; the fee leaves PegAccount and     *)
(* enters the fee pool whatever the application does, and the              *)
(* application's writes are kept only if it succeeds.                      *)
Valid(t, pack) ==
    /\ pack.channel \in Registered
    /\ pack.sequence = t.inbox.recvSeq[pack.channel]
    /\ pack.type \in {"Syn", "Ack", "FailAck"}
    /\ pack.fee <= t.inbox.peg

Succeeds(pack) == pack.outcome \in {"ok", "reply"}

WrittenAlways(i, pack) == [i EXCEPT !.applied[pack.channel] = Append(@, pack)]

Written(i, pack) ==
    IF Succeeds(pack) THEN [i EXCEPT !.applied[pack.channel] = Append(@, pack)] ELSE i

SubtractFee(i, pack) == [i EXCEPT !.peg = @ - pack.fee]

FeeToPool(pack) == pack.fee

(* The answer to a Syn package: a FailAck if the application crashed, an   *)
(* Ack if it returned a payload, successful or not.                        *)
Answer(pack) ==
    IF pack.type # "Syn" THEN "none"
    ELSE CASE pack.outcome = "crash" -> "FailAck"
           [] pack.outcome \in {"reply", "errorReply"} -> "Ack"
           [] OTHER -> "none"

Answered(c, pack) ==
    IF Answer(pack) = "none" THEN c
    ELSE CreatePackage(c, pack.channel, Answer(pack), <<pack.sequence>>)

IncrReceiveSequence(i, ch) == [i EXCEPT !.recvSeq[ch] = @ + 1]

HandlePackage(t, pack) ==
    IF ~t.ok \/ ~Valid(t, pack) THEN [t EXCEPT !.ok = FALSE]
    ELSE [ok |-> Answer(pack) # "none" => MayCreate(t.chain, pack.channel, Answer(pack)),
          chain |-> Answered(t.chain, pack),
          inbox |-> IncrReceiveSequence(Written(SubtractFee(t.inbox, pack), pack), pack.channel),
          fees |-> t.fees + FeeToPool(pack)]

(* The loop over the packages stops at the first error, which fails the    *)
(* transaction.  (The bound u has TLC evaluate the state so far once.)     *)
HandlePackages(payload) ==
    FoldLeft(LAMBDA t, pack : CHOOSE r \in {HandlePackage(u, pack) : u \in {t}} : TRUE,
             [ok |-> TRUE, chain |-> chain, inbox |-> inbox, fees |-> 0], payload)

-----------------------------------------------------------------------------
(* handleClaimMsg *)
Current(seq) == seq = inbox.relaySeq

SetProphecy(i, seq, claims) == [i EXCEPT !.prophecies[seq] = claims]

Finish(i, seq) == [SetProphecy(i, seq, NoClaims) EXCEPT !.relaySeq = @ + 1]

Record(seq, claims, status) ==
    /\ status # "success"
    /\ inbox' = SetProphecy(inbox, seq, IF status = "failed" THEN NoClaims ELSE claims)
    /\ UNCHANGED <<channelVars, feePool>>

Execute(seq, status, payload) ==
    /\ status = "success"
    /\ \E t \in {HandlePackages(payload)} :
        /\ feePool' = Min({feePool + t.fees, MaxFees - paid})
        /\ collected' = collected \cup Created(chain, t.chain)
        /\ chain' = IF t.ok THEN t.chain ELSE chain
        /\ inbox' = IF t.ok THEN Finish(t.inbox, seq) ELSE inbox
    /\ UNCHANGED <<fork, remote>>

Claim(v, seq, payload) ==
    /\ v \in DOMAIN power
    /\ Current(seq)
    /\ \E claims \in {AddClaim(inbox.prophecies[seq], v, payload)} : \E status \in {Status(claims)} :
        Record(seq, claims, status) \/ Execute(seq, status, payload)
    /\ UNCHANGED <<power, paid>>

(* A relayer that is not faulty claims what the side chain sent.           *)
HonestClaim(v, seq) ==
    /\ v \notin Faulty /\ seq < Len(Truth)
    /\ Claim(v, seq, Truth[seq + 1])

FaultyClaim(v, seq, payload) == v \in Faulty /\ Claim(v, seq, payload)

(* The bonded validators, and so the relayers, change.                     *)
RelayersChange ==
    /\ power' \in PowerSets \ {power}
    /\ UNCHANGED <<channelVars, inbox, feePool, paid>>

(* A transfer to the side chain locks coins in PegAccount.                 *)
LockCoins ==
    /\ inbox.locked < MaxPeg
    /\ inbox' = [inbox EXCEPT !.peg = @ + 1, !.locked = @ + 1]
    /\ UNCHANGED <<channelVars, power, feePool, paid>>

(* The end of the block: the collector is emptied and the fees are paid.   *)
FinishBlock ==
    /\ collected' = {}
    /\ feePool' = 0 /\ paid' = paid + feePool
    /\ UNCHANGED <<chain, fork, remote, inbox, power>>

OracleNext ==
    \/ \E v \in DOMAIN power, seq \in 0..(Len(Truth) - 1) : HonestClaim(v, seq)
    \/ \E v \in DOMAIN power, seq \in 0..(Len(Truth) - 1), p \in Payloads : FaultyClaim(v, seq, p)
    \/ RelayersChange
    \/ LockCoins
    \/ FinishBlock

OracleSpec == OracleInit /\ [][OracleNext]_oracleVars

(* A relayer that is not faulty submits its claim until the sequence moves *)
(* on.                                                                     *)
RelayersFair ==
    \A v \in UNION {DOMAIN f : f \in PowerSets} \ Faulty :
        WF_oracleVars(\E seq \in 0..(Len(Truth) - 1) : HonestClaim(v, seq))

FairOracleSpec == OracleSpec /\ RelayersFair

-----------------------------------------------------------------------------
(* The packages of the first n batches on a channel, in their order.       *)
Log ==
    [n \in 0..Len(Truth), ch \in Registered |->
        SelectSeq(FlattenSeq(SubSeq(Truth, 1, n)), LAMBDA pack : pack.channel = ch)]

Handled(ch) == SubSeq(Log[Len(Truth), ch], 1, inbox.recvSeq[ch])

(* The sequences of the answers that went out on a channel, in order.      *)
Answers(ch) ==
    SetToSortSeq({k[2] : k \in {p \in DOMAIN chain.packages :
                                   p[1] = ch /\ chain.packages[p].type # "Syn"}}, <)

(* Every package of the side chain is carried out once and in its order on *)
(* its channel, with the effects of those that succeed and no others,      *)
(* whatever the faulty relayers claim and however transactions fail; each  *)
(* Syn package that crashed or whose application returned a payload is     *)
(* answered once, in the order the packages came in; and every fee that    *)
(* was taken from PegAccount is in the fee pool or paid out.               *)
TrueApplied ==
    /\ \A ch \in Registered :
        LET asked == SelectSeq(Handled(ch), LAMBDA pack :
                        pack.type = "Syn" /\ pack.outcome \in {"crash", "reply", "errorReply"})
        IN  /\ inbox.applied[ch] = SelectSeq(Handled(ch), Succeeds)
            /\ Len(Answers(ch)) = Len(asked)
            /\ \A n \in DOMAIN asked :
                  LET answer == chain.packages[<<ch, Answers(ch)[n]>>]
                  IN  /\ answer.load = <<asked[n].sequence>>
                      /\ (answer.type = "FailAck") = (asked[n].outcome = "crash")
    /\ inbox.locked - inbox.peg <= feePool + paid

(* "only do log, but let reset package get chance to execute", says the    *)
(* loop of handleClaimMsg of a package that fails: a package of the batch  *)
(* agreed on that passes its own checks is executed, also if another one   *)
(* of the batch does not.                                                  *)
RestGetsChance ==
    [][\A v \in DOMAIN power, seq \in 0..(Len(Truth) - 1), payload \in Payloads :
        /\ Claim(v, seq, payload)
        /\ Status(AddClaim(inbox.prophecies[seq], v, payload)) = "success"
        => \A n \in DOMAIN payload :
              Valid([inbox |-> inbox], payload[n])
                  => inbox'.recvSeq[payload[n].channel] > payload[n].sequence]_oracleVars

(* Every batch of the side chain is carried out in the end, once the fees  *)
(* of its packages are covered, as long as the relayers that are not       *)
(* faulty have enough power: failed attempts and forged claims delay it.   *)
AllRelayed == <>(inbox.locked = MaxPeg) => <>(inbox.relaySeq = Len(Truth))
=============================================================================
