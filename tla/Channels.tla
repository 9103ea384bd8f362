------------------------------ MODULE Channels ------------------------------
(***************************************************************************)
(* The cross-chain channels of one side chain: the sequences and the send  *)
(* permissions of x/sidechain, the outgoing packages of x/ibc, and the end *)
(* blockers that change permissions (by governance) and that close every   *)
(* channel once the chain reaches its final fork.                          *)
(*                                                                         *)
(* chain is the state in the stores, which a failed transaction leaves as  *)
(* it was; collected is kept in memory by the ibc keeper and is not rolled *)
(* back.  The side chain takes the packages of the governance channel in   *)
(* their order and keeps its own switch for each channel.                  *)
(***************************************************************************)
EXTENDS Integers, Sequences, FiniteSets, TLC, SequencesExt

CONSTANTS
    RegisteredIDs,    \* channels in the order of RegisterChannel
    GovChannelId,     \* the channel that carries changes of the side chain
    MirrorChannels,   \* channels that only the side chain knows
    Enabled,          \* channels whose permission is allowed at the start
    MaxSequence,      \* bound: packages sent on a channel
    MaxChanges        \* bound: permission changes that pass in one block

Registered == ToSet(RegisteredIDs)
AllChannels == Registered \cup ToSet(MirrorChannels)

ASSUME ChannelsAssumption ==
    /\ GovChannelId \in Enabled /\ Enabled \subseteq Registered
    /\ MaxSequence \in Nat /\ MaxChanges \in Nat

VARIABLES
    chain,       \* sendSeq, packages, permission, closed
    collected,   \* packageCollector.collectedPackages
    fork,        \* whether FinalSunsetFork is reached
    remote       \* next package of the governance channel, switches

channelVars == <<chain, collected, fork, remote>>

Permissions == {"allow", "forbidden"}

ChannelsInit ==
    /\ chain = [sendSeq |-> [ch \in AllChannels |-> 0],
                packages |-> <<>>,
                permission |-> [ch \in Enabled |-> "allow"],
                closed |-> FALSE]
    /\ collected = {}
    /\ fork = FALSE
    /\ remote = [next |-> 0,
                 switch |-> [ch \in AllChannels |->
                    IF ch \in Enabled \cup ToSet(MirrorChannels) THEN "allow" ELSE "forbidden"]]

-----------------------------------------------------------------------------
(* A channel without an entry is forbidden.                                *)
GetChannelSendPermission(c, ch) ==
    IF ch \in DOMAIN c.permission THEN c.permission[ch] ELSE "forbidden"

SetChannelSendPermission(c, ch, p) == [c EXCEPT !.permission = (ch :> p) @@ @]

(* CreateRawIBCPackageByIdWithFee: the checks, and the package written     *)
(* under the channel's next sequence.                                      *)
MayCreate(c, ch, type) ==
    /\ type = "Syn" => GetChannelSendPermission(c, ch) = "allow"
    /\ <<ch, c.sendSeq[ch]>> \notin DOMAIN c.packages

IncrSendSequence(c, ch) == [c EXCEPT !.sendSeq[ch] = @ + 1]

CreatePackage(c, ch, type, load) ==
    IncrSendSequence(
        [c EXCEPT !.packages = (<<ch, c.sendSeq[ch]>> :> [type |-> type, load |-> load]) @@ @], ch)

(* Packages created between two states of the stores, as the collector     *)
(* records them; their order is left out.                                  *)
Created(c, d) ==
    UNION {{ch} \X (c.sendSeq[ch]..(d.sendSeq[ch] - 1)) : ch \in AllChannels}

(* SaveChannelSettingChangeToIbc: a Syn package on the governance channel. *)
SaveChannelSettingChangeToIbc(c, ch, p) ==
    IF MayCreate(c, GovChannelId, "Syn")
    THEN CreatePackage(c, GovChannelId, "Syn", <<ch, p>>)
    ELSE c

-----------------------------------------------------------------------------
(* EndBlock of x/sidechain: the changes that passed, oldest first.  The    *)
(* local permission is set even if the package cannot be written.          *)
ApplyChangeOnce(c, s) ==
    IF GetChannelSendPermission(c, s.channel) = "allow" THEN SetChannelSendPermission(c, s.channel, s.permission)
    ELSE SaveChannelSettingChangeToIbc(
            SetChannelSendPermission(c, s.channel, s.permission), s.channel, s.permission)

ApplyChange(c, s) ==
    SaveChannelSettingChangeToIbc(
        SetChannelSendPermission(c, s.channel, s.permission), s.channel, s.permission)

InOrder(changes) == changes

SidechainEndBlock(c, changes) == FoldLeft(ApplyChange, c, InOrder(changes))

(* closeChannelOnSideChanAndKeeper: the permission only changes when the   *)
(* package was written.                                                    *)
CloseChannel(c, ch) ==
    IF MayCreate(c, GovChannelId, "Syn")
    THEN SetChannelSendPermission(
            SaveChannelSettingChangeToIbc(c, ch, "forbidden"), ch, "forbidden")
    ELSE c

(* closeSideChainChannels: every registered or mirror channel that is not  *)
(* forbidden, then the governance channel.                                 *)
ToClose(c) ==
    SelectSeq(RegisteredIDs, LAMBDA ch : ch # GovChannelId /\ GetChannelSendPermission(c, ch) = "allow")
        \o SelectSeq(MirrorChannels, LAMBDA ch : ch \notin DOMAIN c.permission)
        \o (IF GetChannelSendPermission(c, GovChannelId) = "allow" THEN <<GovChannelId>> ELSE <<>>)

CloseSideChainChannels(c) == [FoldLeft(CloseChannel, c, ToClose(c)) EXCEPT !.closed = TRUE]

(* EndBlocker of x/ibc: nothing is done in a block without packages.       *)
Closing(c, records) == records # {} /\ fork /\ ~c.closed

IbcEndBlock(c, records) == IF Closing(c, records) THEN CloseSideChainChannels(c) ELSE c

(* The collector is emptied before the channels are closed, so it starts   *)
(* the next block with the packages that close them.                       *)
EndBlock(changes) ==
    LET c == SidechainEndBlock(chain, changes)
        records == collected \cup Created(chain, c)
        d == IbcEndBlock(c, records)
    IN  /\ changes = <<>> \/ chain.sendSeq[GovChannelId] + Len(changes) <= MaxSequence
        /\ chain' = d
        /\ collected' = Created(c, d)
        /\ UNCHANGED <<fork, remote>>

-----------------------------------------------------------------------------
(* A transaction that sends a Syn package; if it fails later the stores    *)
(* are as before and the record stays with the collector.                  *)
SendSyn(ch, succeeds) ==
    LET c == CreatePackage(chain, ch, "Syn", <<>>)
    IN  /\ chain.sendSeq[ch] < MaxSequence
        /\ MayCreate(chain, ch, "Syn")
        /\ chain' = IF succeeds THEN c ELSE chain
        /\ collected' = collected \cup Created(chain, c)
        /\ UNCHANGED <<fork, remote>>

(* CleanupIBCPackage: the packages up to a sequence the side chain has     *)
(* confirmed are deleted.                                                  *)
CleanedFrom(ch, confirmed) == {k \in DOMAIN chain.packages : k[1] = ch /\ k[2] >= confirmed}

Cleaned(ch, confirmed) == {k \in DOMAIN chain.packages : k[1] = ch /\ k[2] <= confirmed}

CleanupIBCPackage(ch, confirmed) ==
    /\ ch = GovChannelId => confirmed < remote.next
    /\ Cleaned(ch, confirmed) # {}
    /\ chain' = [chain EXCEPT !.packages =
                    [k \in DOMAIN @ \ Cleaned(ch, confirmed) |-> @[k]]]
    /\ UNCHANGED <<collected, fork, remote>>

(* The height of FinalSunsetFork.                                          *)
ReachFork ==
    /\ ~fork /\ fork' = TRUE
    /\ UNCHANGED <<chain, collected, remote>>

(* The side chain takes the next package of the governance channel.        *)
Relay ==
    LET k == <<GovChannelId, remote.next>>
    IN  /\ k \in DOMAIN chain.packages
        /\ remote.switch[GovChannelId] = "allow"
        /\ remote' = [next |-> remote.next + 1,
                      switch |-> LET load == chain.packages[k].load
                                 IN  IF load = <<>> THEN remote.switch
                                     ELSE [remote.switch EXCEPT ![load[1]] = load[2]]]
        /\ UNCHANGED <<chain, collected, fork>>

(* Settings that pass governance: never of the governance channel itself,  *)
(* and none is left to pass when the fork comes, since no proposal can be  *)
(* submitted from the fork before it on.                                   *)
Check(s) == s.channel # GovChannelId

Settings == {s \in [channel : Registered, permission : Permissions] : Check(s)}

ChangesInBlock == IF fork THEN {<<>>} ELSE SeqOf(Settings, MaxChanges)

Next ==
    \/ \E changes \in ChangesInBlock : EndBlock(changes)
    \/ \E ch \in Registered, succeeds \in BOOLEAN : SendSyn(ch, succeeds)
    \/ \E ch \in Registered, confirmed \in 0..MaxSequence : CleanupIBCPackage(ch, confirmed)
    \/ ReachFork
    \/ Relay

Spec == ChannelsInit /\ [][Next]_channelVars

-----------------------------------------------------------------------------
(* What the other chain has not confirmed can be relayed in order: the     *)
(* packages kept for a channel have the sequences just below its next one, *)
(* without a hole, so that a new package never meets an old one.           *)
NoHoles ==
    \A ch \in AllChannels :
        LET kept == {k[2] : k \in {p \in DOMAIN chain.packages : p[1] = ch}}
        IN  kept # {} => kept = (chain.sendSeq[ch] - Cardinality(kept))..(chain.sendSeq[ch] - 1)

CaughtUp == remote.next = chain.sendSeq[GovChannelId]

(* Once the side chain has taken every package of the governance channel,  *)
(* both chains have the same permission for every registered channel.      *)
(* After the channels are closed none is open on this chain, and none on   *)
(* the side chain when it has taken the packages that close them: the      *)
(* governance channel outlives all those it has to close.                  *)
PermissionsAgree ==
    /\ CaughtUp => \A ch \in Registered : remote.switch[ch] = GetChannelSendPermission(chain, ch)
    /\ chain.closed =>
        /\ \A ch \in AllChannels : GetChannelSendPermission(chain, ch) = "forbidden"
        /\ CaughtUp => \A ch \in AllChannels : remote.switch[ch] = "forbidden"
=============================================================================
