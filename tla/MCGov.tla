-------------------------------- MODULE MCGov --------------------------------
(* An instance of Gov: two chains that share the escrow account.           *)
EXTENDS Gov

CONSTANTS native, side, a, b, v, w

TwoChains == <<native, side>>

Half == <<1, 2>>
Third == <<1, 3>>

(* Validator v holds shares of w, and w of v, beside those of others. *)
Crossed == (v :> (v :> 2 @@ w :> 1)) @@ (w :> (v :> 1 @@ w :> 1))
Others == v :> 0 @@ w :> 2

(* Half of w's tokens have been slashed, in units of half a token. *)
Slashed == v :> 2 @@ w :> 1

(* On the native chain w may be jailed, which takes it out of the last set at
   the next election and leaves it bonded, or leave, and come back; the side
   chain has one validator. *)
Churn ==
    native :> {[bonded |-> {v, w}, last |-> {v, w}], [bonded |-> {v, w}, last |-> {v}],
               [bonded |-> {v}, last |-> {v}]}
    @@ side :> {[bonded |-> {v}, last |-> {v}]}
=============================================================================
