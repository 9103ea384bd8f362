----------------------------- MODULE MCStaking -----------------------------
(* Two validators for one place, their self-delegators and one delegator   *)
(* of the side chain.                                                      *)
EXTENDS SideSlashing

FeeAddrs == <<2, 3>>

Holdings == <<3, 3, 2>>

Infractions == [v : {1}, type : {"Downtime", "MaliciousVote"}]

=============================================================================
