------------------------------ MODULE MCBridge ------------------------------
(* An instance of Channels and Oracle: two relayers that claim what the    *)
(* side chain sent and two that claim anything.  The channels run either   *)
(* with permission changes, syn packages and the final fork, or with the   *)
(* claims of the relayers.                                                 *)
EXTENDS Oracle

CONSTANTS transfer, stake, gov, mirror, r1, r2, r3, r4

Channels3 == <<transfer, gov, stake>>
Mirrors == <<mirror>>

Pack(ch, seq, type, fee, outcome) ==
    [channel |-> ch, sequence |-> seq, type |-> type, fee |-> fee, outcome |-> outcome]

(* Three batches of the side chain with every outcome of an application.   *)
Batches ==
    << <<Pack(transfer, 0, "Syn", 1, "reply"), Pack(stake, 0, "Ack", 0, "ok")>>,
       <<Pack(transfer, 1, "Syn", 1, "crash"), Pack(transfer, 2, "Syn", 1, "errorReply"),
         Pack(stake, 1, "FailAck", 0, "ok")>>,
       <<Pack(stake, 2, "Syn", 0, "reply"), Pack(stake, 3, "Syn", 0, "error")>> >>

(* A batch never sent that would be carried out, and a package whose       *)
(* header does not decode, after one that is fine.                         *)
Made == <<Pack(transfer, 0, "Syn", 1, "ok")>>
Broken == <<Pack(stake, 0, "Ack", 1, "ok"), Pack(transfer, 0, "none", 0, "ok")>>
Forgeries == {Made, Broken}

TwoThirds == <<2, 3>>

(* The relayers of small power come and go; r1 and r2 are needed, and are  *)
(* enough, in every set.                                                   *)
Relayers == {r1 :> 2 @@ r2 :> 2 @@ r3 :> 1, r1 :> 3 @@ r2 :> 3 @@ r3 :> 1 @@ r4 :> 1}

VARIABLE part    \* "channels" or "oracle"

BridgeInit ==
    /\ OracleInit
    /\ part \in {"channels", "oracle"}
    /\ part = "channels" => power = CHOOSE f \in PowerSets : TRUE

BridgeNext ==
    /\ \/ part = "channels" /\ Next /\ UNCHANGED <<inbox, power, feePool, paid>>
       \/ part = "oracle" /\ OracleNext
    /\ UNCHANGED part

BridgeSpec == BridgeInit /\ [][BridgeNext]_<<oracleVars, part>> /\ RelayersFair
=============================================================================
