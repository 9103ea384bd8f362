------------------------------- MODULE Ledger -------------------------------
(***************************************************************************)
(* What the application promises to consensus.  The transactions of a      *)
(* block are executed one after the other on the committed state, each has  *)
(* its whole effect or none, no unsigned transaction has an effect, the     *)
(* block becomes durable as a whole and a crash loses exactly the open      *)
(* block.                                                                   *)
(***************************************************************************)
CONSTANTS
  Txs,
  Execute(_, _, _, _),  \* of a transaction on a state: [ok, st]
  Genesis, Empty        \* the state InitChain makes, the state before it

VARIABLES
  committed,    \* the durable state
  pending       \* the state the open block has reached

Init == committed = Empty /\ pending = Empty

InitChain == committed = Empty /\ pending = Empty /\ pending' = Genesis /\ UNCHANGED committed

Deliver(t) ==
  /\ pending # Empty
  /\ LET r == Execute(pending, t, TRUE, 1) IN r.ok /\ pending' = r.st
  /\ UNCHANGED committed

Commit == committed' = pending /\ UNCHANGED pending

Crash == pending' = committed /\ UNCHANGED committed

Next == InitChain \/ (\E t \in Txs : Deliver(t)) \/ Commit \/ Crash

Spec == Init /\ [][Next]_<<committed, pending>>
=============================================================================
