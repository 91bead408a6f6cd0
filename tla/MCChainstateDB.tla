--------------------------- MODULE MCChainstateDB ---------------------------
(* A fork whose branches share transactions, for ChainstateDB.             *)
EXTENDS ChainstateDB, TLC

CONSTANTS g, a1, a2, b1, x, y, c

Fork == {g, a1, a2, b1}
ForkParent == (a1 :> g) @@ (a2 :> a1) @@ (b1 :> g)
ForkChain == (g :> {g}) @@ (a1 :> {g, a1}) @@ (a2 :> {g, a1, a2}) @@ (b1 :> {g, b1})
ForkWork == (g :> 1) @@ (a1 :> 2) @@ (a2 :> 3) @@ (b1 :> 2)
ForkAddr == (g :> 0) @@ (a1 :> 1) @@ (a2 :> 2) @@ (b1 :> 3)

(* The transaction that creates x is in a1 and in b1; the one that spends  *)
(* x for y is in a2, and in b1 behind the first; c is a coinbase of a1.    *)
ForkOutpoints == {x, y, c}
ForkCoinbase == {c}
ForkSpends == (g :> {}) @@ (a1 :> {}) @@ (a2 :> {x}) @@ (b1 :> {x})
ForkCreates == (g :> {}) @@ (a1 :> {x, c}) @@ (a2 :> {y}) @@ (b1 :> {x, y})

ForkUtxo[b \in Fork] ==
  [o \in ForkOutpoints |->
    IF b = g \/ o \in ForkSpends[b] THEN Spent
    ELSE IF o \in ForkCreates[b] THEN b
    ELSE ForkUtxo[ForkParent[b]][o]]
=============================================================================
