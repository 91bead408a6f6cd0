--------------------------- MODULE MCTxnValidator ---------------------------
(***************************************************************************)
(* Instances of TxnValidator.  Family: p spends a coin of the chain, c and *)
(* x both spend the output of p.  Line: q spends a coin, p spends q, and o *)
(* and x both spend p.                                                     *)
(***************************************************************************)
EXTENDS TxnValidator, TLC

CONSTANTS p, c, x, q, o, k, A

Family == {p, c, x}
FamilyInputs == p :> {<<k, 1>>} @@ c :> {<<p, 1>>} @@ x :> {<<p, 1>>}

Line == {q, p, o, x}
LineInputs == q :> {<<k, 1>>} @@ p :> {<<q, 1>>} @@ o :> {<<p, 1>>} @@ x :> {<<p, 1>>}

OnePeer == [t \in Txs |-> A]
OneOutput == [t \in Txs |-> 1]
ChainCoins == {<<k, 1>>}
=============================================================================
