------------------------------ MODULE MCBaseApp ------------------------------
(* An instance of BaseApp: three accounts, of which two exist at genesis. *)
EXTENDS BaseApp

CONSTANTS a, b, c

Acc(num, seq, coins) == [num |-> num, seq |-> seq, coins |-> coins]

Tx(in, out, sigs, signed) == [inputs |-> in, outputs |-> out, sigs |-> sigs, signed |-> signed]
Amt(addr, coins) == [addr |-> addr, coins |-> coins]
Sig(num, seq) == [num |-> num, seq |-> seq]

\* a pays b, who has no account yet, from two inputs and with one signature; a
\* joint payment of a and b of which b cannot afford the second input; a
\* transaction of a without valid signatures.
PayB == Tx(<<Amt(a, 1), Amt(a, 1)>>, <<Amt(b, 2)>>, <<Sig(0, 0)>>, TRUE)
Forged == Tx(<<Amt(a, 2)>>, <<Amt(c, 2)>>, <<Sig(0, 0)>>, FALSE)
Joint == Tx(<<Amt(a, 1), Amt(b, 1), Amt(b, 2)>>, <<Amt(c, 4)>>, <<Sig(0, 1), Sig(2, 0)>>, TRUE)

SomeTxs == {PayB, Joint, Forged}

NoAccounts == [acct |-> [x \in {a, b, c} |-> NoAcc], next |-> 0]
GenesisState == [acct |-> [NoAccounts.acct EXCEPT ![a] = Acc(0, 0, 4), ![c] = Acc(1, 0, 1)],
                 next |-> 2]
=============================================================================
