------------------------------ MODULE ParamHub ------------------------------
(***************************************************************************)
(* What becomes of passed proposals (x/paramHub, x/sidechain): at the end   *)
(* of each block, after x/gov has settled it, parameter changes for the     *)
(* side chain's contracts and channel permissions are collected and sent;   *)
(* at the end of a breathe block the latest change of the chain's own       *)
(* parameters is applied.  The hooks of x/gov have checked the content of   *)
(* a proposal when it was submitted, so it is valid here.                   *)
(***************************************************************************)
EXTENDS Gov

CONSTANTS BackPeriod,   \* SafeToleratePeriod + MaxVotingPeriod
          Collected,    \* kinds collected every block (csc, chan)
          Latest        \* kinds of which the latest is applied (sc, bc)

ASSUME HubAssumption ==
    /\ Kinds = Collected \cup Latest
    /\ \A period \in VotingPeriods : BackPeriod >= period

VARIABLES sent,     \* [chain -> [kind -> ids sent, in order]]
          applied,  \* [chain -> [kind -> ids applied, in order]]
          lastID,   \* [chain -> [kind -> Last...ParamChangeProposalId]]
          open,     \* [chain -> the governance channel may send]
          done      \* the hub has run at the end of this block

hubVars == <<sent, applied, lastID, open, done>>

HubInit ==
    /\ Init
    /\ sent = [c \in Chains |-> [k \in Collected |-> <<>>]]
    /\ applied = [c \in Chains |-> [k \in Latest |-> <<>>]]
    /\ lastID = [c \in Chains |-> [k \in Latest |-> 0]]
    /\ open = [c \in Chains |-> TRUE]
    /\ done = FALSE

OfKind(c, kind) == {id \in DOMAIN proposals[c] : proposals[c][id].kind = kind}

PassedOf(c, kind) == {id \in OfKind(c, kind) : proposals[c][id].status = "Passed"}

(* The scan stops at a proposal that began to vote too long ago.  A proposal
   in its deposit period has the zero voting start time. *)
StopsScan(p) == p.start = NoTime \/ now - p.start > BackPeriod

(* From the newest proposal of its kind down to where the scan stops. *)
Found(c, kind) ==
    {id \in PassedOf(c, kind) : \A j \in OfKind(c, kind) : j >= id => ~StopsScan(proposals[c][j])}

StatusKept(p) == p
StatusExecuted(p) == [p EXCEPT !.status = "Executed"]

(* Collected newest first, written in reverse order. *)
SendOrder(ids) == SetToSortSeq(ids, LAMBDA i, j : i < j)

LastSet(old, id) == id

Newer(c, kind) == {id \in PassedOf(c, kind) : id > lastID[c][kind]}

OldestOf(ids) == Min(ids)
LatestOf(ids) == Max(ids)

(* SaveParamChangeToIbc refuses to write on a closed channel; the error is
   logged and no more. *)
Written(c, ids) == IF open[c] THEN SendOrder(ids) ELSE <<>>

EndBlock ==
    /\ proposals' = [c \in Chains |-> [id \in DOMAIN proposals[c] |->
          IF \E k \in Collected : id \in Found(c, k)
          THEN StatusExecuted(proposals[c][id]) ELSE proposals[c][id]]]
    /\ sent' = [c \in Chains |-> [k \in Collected |-> sent[c][k] \o Written(c, Found(c, k))]]

EndBreatheBlock ==
    /\ applied' = [c \in Chains |-> [k \in Latest |->
          IF Newer(c, k) = {} THEN applied[c][k] ELSE Append(applied[c][k], LatestOf(Newer(c, k)))]]
    /\ lastID' = [c \in Chains |-> [k \in Latest |->
          IF Newer(c, k) = {} THEN lastID[c][k] ELSE LastSet(lastID[c][k], LatestOf(Newer(c, k)))]]

HubEndBlock ==
    /\ pc = Settled /\ ~done
    /\ EndBlock
    /\ EndBreatheBlock \/ UNCHANGED <<applied, lastID>>
    /\ done' = TRUE
    /\ UNCHANGED <<nextID, inactive, active, deposits, votes, stake, balance, now, pc, open>>

(* After the final fork the end blocker of x/ibc closes the channels. *)
CloseChannel(c) ==
    /\ done /\ open[c]
    /\ open' = [open EXCEPT ![c] = FALSE]
    /\ UNCHANGED <<vars, sent, applied, lastID, done>>

HubBeginBlock(dt) ==
    /\ done
    /\ BeginBlock(dt)
    /\ done' = FALSE
    /\ UNCHANGED <<sent, applied, lastID, open>>

HubNext ==
    \/ \E c \in Chains : (Message(c) \/ Settle(c)) /\ UNCHANGED hubVars
    \/ EndBlocker /\ UNCHANGED hubVars
    \/ HubEndBlock
    \/ \E c \in Chains : CloseChannel(c)
    \/ \E dt \in BlockSteps : HubBeginBlock(dt)

HubSpec == HubInit /\ [][HubNext]_<<vars, hubVars>>

-----------------------------------------------------------------------------
(* Properties *)

(* A collected proposal is sent at most once, however many blocks scan it, and
   only when it passed.  As long as the governance channel is open every
   executed proposal has been sent; one that is executed after the channel was
   closed is marked executed and lost, for the error of updateCSCParams is only
   logged.  A change of the chain's own parameters is applied once and never
   after a newer one, even if its vote ends later. *)
ExecutedOnce ==
    \A c \in Chains :
        /\ \A k \in Collected :
              LET executed == {id \in OfKind(c, k) : proposals[c][id].status = "Executed"} IN
              /\ IsInjective(sent[c][k])
              /\ Range(sent[c][k]) \subseteq executed
              /\ open[c] => Range(sent[c][k]) = executed
        /\ \A k \in Latest : \A i, j \in DOMAIN applied[c][k] :
              i < j => applied[c][k][i] < applied[c][k][j]

(* The changes sent by one block go out in the order in which they were
   proposed, so that of two changes of one parameter the newer one wins, and
   after a breathe block no passed proposal is newer than the one applied. *)
NewestInForce ==
    [][\A c \in Chains :
        /\ \A k \in Collected : \A i, j \in (Len(sent[c][k]) + 1) .. Len(sent'[c][k]) :
              i < j => sent'[c][k][i] < sent'[c][k][j]
        /\ \A k \in Latest : lastID' # lastID =>
              /\ \A id \in PassedOf(c, k) : id <= lastID'[c][k]
              /\ applied'[c][k] # <<>> => Last(applied'[c][k]) = lastID'[c][k]]_<<vars, hubVars>>
=============================================================================
