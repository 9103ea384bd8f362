----------------------------- MODULE MCParamHub -----------------------------
(* An instance of ParamHub: one chain and one validator.                   *)
EXTENDS ParamHub

CONSTANTS side, b, v

OneChain == <<side>>
Half == <<1, 2>>
Third == <<1, 3>>
Sole == v :> (v :> 2)
None == v :> 0
Unslashed == v :> 1
Bonded == side :> {[bonded |-> {v}, last |-> {v}]}
=============================================================================
