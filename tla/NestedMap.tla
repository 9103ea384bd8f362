------------------------------ MODULE NestedMap ------------------------------
(***************************************************************************)
(* What a stack of cache-wrapped stores promises: every layer is a map of  *)
(* its own, a copy of the one below when it is wrapped; writing a layer    *)
(* makes the one below equal to it, and dropping it changes nothing below. *)
(***************************************************************************)
EXTENDS Integers, Sequences

CONSTANTS Keys, Values, Nil

VARIABLE stack   \* the maps, the bottom store first

Map == [Keys -> Values \cup {Nil}]

Top == Len(stack)

Init == stack \in [1..1 -> Map]

Set(k, v) == stack' = [stack EXCEPT ![Top][k] = v]

CacheWrap == stack' = Append(stack, stack[Top])

Write ==
    /\ Top > 1
    /\ stack' = [stack EXCEPT ![Top - 1] = stack[Top]]

Discard ==
    /\ Top > 1
    /\ stack' = SubSeq(stack, 1, Top - 1)

Next ==
    \/ \E k \in Keys, v \in Values \cup {Nil} : Set(k, v)
    \/ CacheWrap \/ Write \/ Discard

Spec == Init /\ [][Next]_stack
=============================================================================
