-------------------------------- MODULE StdTx --------------------------------
(***************************************************************************)
(* The transaction the application executes: the ante handler of x/auth     *)
(* followed by the MsgSend handler of x/bank, on a state                    *)
(* [acct |-> account of each address or NoAcc, next |-> globalAccountNumber].*)
(* A transaction is                                                        *)
(* [inputs, outputs |-> sequences of [addr, coins],                         *)
(*  sigs |-> sequence of [num, seq], signed |-> are the signatures valid].  *)
(***************************************************************************)
EXTENDS Naturals, Sequences, FiniteSets, Functions

CONSTANTS
  Accts,     \* addresses
  Txs,       \* transactions
  NoAcc      \* no account at this address

\* The addresses that must sign, once each however often they pay.
Signers(t) == {e.addr : e \in Range(t.inputs)}

\* What MsgSend.ValidateBasic and validateBasic reject statelessly.
ASSUME TxAssumption ==
  \A t \in Txs :
    /\ t.inputs \in Seq([addr : Accts, coins : Nat \ {0}]) \ {<<>>}
    /\ t.outputs \in Seq([addr : Accts, coins : Nat \ {0}]) \ {<<>>}
    /\ t.sigs \in Seq([num : Nat, seq : Nat]) \ {<<>>} /\ Len(t.sigs) = Cardinality(Signers(t))
    /\ t.signed \in BOOLEAN
    /\ SumFunction([i \in DOMAIN t.inputs |-> t.inputs[i].coins]) =
         SumFunction([i \in DOMAIN t.outputs |-> t.outputs[i].coins])

Accounts == [num : Nat, seq : Nat, coins : Nat]

States == [acct : [Accts -> {NoAcc} \cup Accounts], next : Nat]

GetInvolvedAddresses(t) == {e.addr : e \in Range(t.inputs) \cup Range(t.outputs)}

GetCoins(st, a) == IF st.acct[a] = NoAcc THEN 0 ELSE st.acct[a].coins

\* An address without an account gets one, with the next account number.
SetCoins(st, a, n) ==
  IF st.acct[a] = NoAcc
  THEN [acct |-> [st.acct EXCEPT ![a] = [num |-> st.next, seq |-> 0, coins |-> n]],
        next |-> st.next + 1]
  ELSE [st EXCEPT !.acct[a].coins = n]

\* On [ok, st]: the first error ends the handler, with the writes made so far.
SubtractCoins(r, in) ==
  IF r.ok /\ GetCoins(r.st, in.addr) >= in.coins
  THEN [r EXCEPT !.st = SetCoins(@, in.addr, GetCoins(@, in.addr) - in.coins)]
  ELSE [r EXCEPT !.ok = FALSE]

AddCoins(r, out) ==
  IF r.ok THEN [r EXCEPT !.st = SetCoins(@, out.addr, GetCoins(@, out.addr) + out.coins)]
          ELSE r

\* The n-th move of t: its inputs, and then its outputs.
Move(r, t, n) ==
  IF n <= Len(t.inputs) THEN SubtractCoins(r, t.inputs[n])
                        ELSE AddCoins(r, t.outputs[n - Len(t.inputs)])

Moves(st, t) ==
  LET moved[n \in 0..(Len(t.inputs) + Len(t.outputs))] ==
        IF n = 0 THEN [ok |-> TRUE, st |-> st] ELSE Move(moved[n - 1], t, n)
  IN  moved

InputOutputCoins(st, t) == Moves(st, t)[Len(t.inputs) + Len(t.outputs)]

\* GetSigners: the signers in the order of their first inputs, and the place of
\* one among them.
FirstInput(t, a) ==
  CHOOSE i \in DOMAIN t.inputs : t.inputs[i].addr = a /\ \A j \in 1..(i - 1) : t.inputs[j].addr # a

Place(t, a) == Cardinality({t.inputs[j].addr : j \in 1..FirstInput(t, a)})

ValidateAccNumAndSequence(st, t, height) ==
  \A a \in Signers(t) :
    LET acc == st.acct[a]
        sig == t.sigs[Place(t, a)] IN
    /\ acc # NoAcc
    /\ sig.num = IF height = 0 THEN 0 ELSE acc.num
    /\ sig.seq = acc.seq

\* The signer's account after processSig.
\* Mutant: the sequence is not incremented.
ProcessSigKeepsSequence(acc) == acc
ProcessSig(acc) == [acc EXCEPT !.seq = @ + 1]

AnteHandler(st, t, verify, height) ==
  IF ValidateAccNumAndSequence(st, t, height) /\ (verify => t.signed)
  THEN [ok |-> TRUE,
        st |-> [st EXCEPT !.acct = [a \in Accts |->
                  IF a \in Signers(t) THEN ProcessSig(st.acct[a]) ELSE st.acct[a]]]]
  ELSE [ok |-> FALSE, st |-> st]

\* The ante handler, then the message handler; the state is the one of the
\* transaction's own caches, whatever the outcome.
Execute(st, t, verify, height) ==
  LET ante == AnteHandler(st, t, verify, height) IN
  IF ante.ok THEN InputOutputCoins(ante.st, t) ELSE ante
=============================================================================
