---------------------------- MODULE SideSlashing ----------------------------
(***************************************************************************)
(* Slashing for the side chain (x/slashing): evidence that a validator was *)
(* down, signed twice or voted maliciously is handled once, while it is    *)
(* fresh; the self-delegation and what unbonds of it are slashed, the      *)
(* validator is jailed, and may leave the jail later.  It composes with    *)
(* Staking, whose stores it changes.                                       *)
(***************************************************************************)
EXTENDS Staking

CONSTANTS
    Evidence,            \* records [v, type]: one infraction each
    DowntimeSlashAmount, DoubleSignSlashAmount,
    DowntimeUnbondDuration, DoubleSignUnbondDuration

ASSUME SlashingAssumption ==
    /\ \A e \in Evidence : /\ e.v \in Validators
                           /\ e.type \in {"Downtime", "DoubleSign", "MaliciousVote"}
    /\ {DowntimeSlashAmount, DoubleSignSlashAmount,
        DowntimeUnbondDuration, DoubleSignUnbondDuration} \subseteq Nat
    /\ MaxEvidenceAge <= UnbondingTime

VARIABLES
    evidence    \* for each: open, handled, time left, self-delegation at stake

vars == <<chain, era, inputs, quiet, evidence>>

NoInfraction == [open |-> FALSE, handled |-> FALSE, left |-> 0, stake |-> 0]

(* External: a bonded validator commits the infraction on the side chain.  *)
Infraction(e) ==
    /\ Input
    /\ chain.val[e.v].status = "bonded"
    /\ evidence[e] = NoInfraction
    /\ evidence' = [evidence EXCEPT ![e] =
            [open |-> TRUE, handled |-> FALSE, left |-> MaxEvidenceAge,
             stake |-> chain.del[SelfPair(e.v)]]]
    /\ UNCHANGED chain

-----------------------------------------------------------------------------
LowerOf(a, b) == IF a < b THEN a ELSE b

(* SlashSideChain: from the self-delegation first, then from what unbonds  *)
(* of it.  A validator that is gone loses nothing; one that is unbonded is *)
(* an error.                                                               *)
SlashedSelf(s, v, amount) ==
    LowerOf(SharesFromTokens(s.val[v], amount), s.del[SelfPair(v)])

SlashedUbd(s, v, amount) ==
    IF s.ubd[SelfPair(v)] = None THEN 0
    ELSE LowerOf(amount - SlashedSelf(s, v, amount), s.ubd[SelfPair(v)])

Slashed(s, v, amount) ==
    IF Exists(s, v) THEN SlashedSelf(s, v, amount) + SlashedUbd(s, v, amount) ELSE 0

UbdUntouched(s, v, amount) == s.ubd[SelfPair(v)]

UbdAfterSlash(s, v, amount) ==
    IF s.ubd[SelfPair(v)] = None THEN None
    ELSE s.ubd[SelfPair(v)] - SlashedUbd(s, v, amount)

SlashSideChain(s, v, amount) ==
    LET shares == SlashedSelf(s, v, amount)
        s1 == IF s.val[v].jailed THEN s ELSE jailValidator(s, v)
        s2 == IF shares > 0 THEN unbond(s1, FeeAddr[v], v, shares) ELSE s1 IN
    IF ~Exists(s, v) THEN s
    ELSE [s2 EXCEPT !.ubd[SelfPair(v)] = UbdAfterSlash(s, v, amount),
                    !.pool = @ - Slashed(s, v, amount)]

(* The claim on a down validator, the evidence of a double sign and the    *)
(* claim on a malicious vote.  Expired evidence, and evidence that has a   *)
(* slash record, are refused, and so is a malicious vote during the jail   *)
(* for an earlier one.  Without a signing info the message fails.          *)
SlashAmount(e) ==
    IF e.type = "Downtime" THEN DowntimeSlashAmount ELSE DoubleSignSlashAmount

JailTime(e) ==
    IF e.type = "Downtime" THEN DowntimeUnbondDuration ELSE DoubleSignUnbondDuration

Fresh(e) == evidence[e].open /\ evidence[e].left >= 0

(* The claim's time lies before JailedUntil, relative to now.              *)
InMaliciousVoteJail(e) ==
    /\ \E f \in Evidence : f.v = e.v /\ f.type = "MaliciousVote" /\ evidence[f].handled
    /\ evidence[e].left - MaxEvidenceAge < chain.until[e.v]

MayPunish(e) ==
    /\ Fresh(e) /\ ~evidence[e].handled
    /\ chain.val[e.v].status # "unbonded"
    /\ e.v \in chain.info
    /\ e.type = "MaliciousVote" => Exists(chain, e.v) /\ ~InMaliciousVoteJail(e)

AwardedNominal(e) == SlashAmount(e)

(* What is paid out to the submitter, the other validators and the fee     *)
(* pool.  For a malicious vote it is the nominal amount.                   *)
Awarded(e) ==
    IF e.type = "MaliciousVote" THEN SlashAmount(e)
    ELSE Slashed(chain, e.v, SlashAmount(e))

NewJailedUntil(e) ==
    IF e.type = "MaliciousVote" /\ chain.until[e.v] > JailTime(e)
    THEN chain.until[e.v] ELSE JailTime(e)

Punish(e) ==
    /\ MayPunish(e)
    /\ chain' = [SlashSideChain(chain, e.v, SlashAmount(e)) EXCEPT
                    !.awarded = @ + Awarded(e), !.until[e.v] = NewJailedUntil(e)]
    /\ evidence' = [f \in Evidence |->
            IF f = e THEN [evidence[f] EXCEPT !.handled = TRUE, !.stake = 0]
            ELSE IF f.v = e.v /\ evidence[f].stake > 0
            THEN [evidence[f] EXCEPT !.stake = @ - Slashed(chain, e.v, SlashAmount(e))]
            ELSE evidence[f]]
    /\ UNCHANGED <<era, inputs, quiet>>

SomeSelfDelegation(v) == chain.del[SelfPair(v)] > 0

EnoughSelfDelegation(v) ==
    TokensFromShares(chain.val[v], chain.del[SelfPair(v)]) >= MinSelfDelegation

Unjail(v) ==
    /\ Exists(chain, v) /\ chain.val[v].jailed
    /\ EnoughSelfDelegation(v)
    /\ v \in chain.info /\ chain.until[v] <= 0
    /\ chain' = unjailValidator(chain, v)
    /\ UNCHANGED <<era, inputs, quiet, evidence>>

-----------------------------------------------------------------------------
(* At the end of a block the evidence ages, until it expires.              *)
Age ==
    evidence' = [e \in Evidence |->
        IF evidence[e].left > 0 THEN [evidence[e] EXCEPT !.left = @ - 1]
        ELSE [NoInfraction EXCEPT !.handled = evidence[e].handled]]

Init == StakingInit /\ evidence = [e \in Evidence |-> NoInfraction]

Next ==
    \/ StakingMessage /\ UNCHANGED evidence
    \/ EndBlocker /\ Age
    \/ EndBreatheBlock /\ Age
    \/ \E e \in Evidence : Infraction(e) \/ Punish(e)
    \/ \E v \in Validators : Unjail(v)

Spec == Init /\ [][Next]_vars

-----------------------------------------------------------------------------
(* No coin is lost, and none is made but for a malicious vote: what the    *)
(* stores and the bridge hold and what slashes paid out is what was there. *)
(* slashingSideMaliciousVote pays out the amount of the parameter, also    *)
(* when the validator had less to lose.                                    *)
SupplyKept ==
    LET supply == SumOver(chain.acc, Delegators) + chain.pool + chain.peg + chain.awarded IN
    /\ supply >= SumOver(Start, Delegators)
    /\ \/ supply = SumOver(Start, Delegators)
       \/ \E e \in Evidence : e.type = "MaliciousVote" /\ evidence[e].handled

(* Before the stake can be migrated away (FirstSunsetFork), the stake a    *)
(* validator had in its own hands at an infraction stays in the delegation *)
(* account while the evidence is fresh, less what other slashes took,      *)
(* whatever became of the validator since: the self-delegator cannot       *)
(* redelegate it, and what is undelegated unbonds longer than the evidence *)
(* lasts.  SlashSideChain itself reaches it only while the validator is    *)
(* bonded or unbonding: of one that was emptied and removed, or unbonded   *)
(* by an older entry of the queue, it takes nothing and the stake is paid  *)
(* back in the end.                                                        *)
SelfStakeHeld ==
    era = 0 => \A e \in Evidence :
        Fresh(e) /\ ~evidence[e].handled =>
            evidence[e].stake <= chain.del[SelfPair(e.v)] + Max({0, chain.ubd[SelfPair(e.v)]})

=============================================================================
