---------------------------- MODULE MCMultiStore ----------------------------
(* An instance of StateSync, and of MultiStore within it, for TLC.         *)
EXTENDS StateSync

CONSTANTS acc, gov, main, lock, tparams

(* lock joins at height 3.                                                 *)
LockUpgrade == [s \in Stores |-> IF s = lock THEN 3 ELSE 0]

ByName == <<acc, gov, lock, main>>

(* A large node in the middle of a chunk's nodes and one across stores; a  *)
(* large node before another.                                              *)
SomeLayouts ==
    {[s \in Iavl |-> CASE s = acc -> <<1, 5, 1>> [] s = main -> <<1, 1>> [] OTHER -> <<>>],
     [s \in Iavl |-> CASE s = acc -> <<1>> [] s = gov -> <<1, 2>> [] s = main -> <<1, 3>> [] OTHER -> <<>>],
     [s \in Iavl |-> CASE s = acc -> <<1, 3, 3>> [] s = main -> <<1>> [] OTHER -> <<>>]}
=============================================================================
