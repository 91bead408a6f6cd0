----------------------------- MODULE MCCoinsDB -----------------------------
(* A fork whose branches share transactions, for CoinsDB.                  *)
EXTENDS CoinsDB, TLC

CONSTANTS g, a1, a2, b1, x, y

Fork == {g, a1, a2, b1}
ForkParent == (a1 :> g) @@ (a2 :> a1) @@ (b1 :> g)
ForkChain == (g :> {g}) @@ (a1 :> {g, a1}) @@ (a2 :> {g, a1, a2}) @@ (b1 :> {g, b1})
ForkWork == (g :> 1) @@ (a1 :> 2) @@ (a2 :> 3) @@ (b1 :> 2)
ForkAddr == (g :> 0) @@ (a1 :> 1) @@ (a2 :> 2) @@ (b1 :> 3)

(* The transaction that creates x is in a1 and in b1; the one that spends  *)
(* x for y is in a2.                                                       *)
ForkOutpoints == {x, y}
ForkSpends == (g :> {}) @@ (a1 :> {}) @@ (a2 :> {x}) @@ (b1 :> {})
ForkCreates == (g :> {}) @@ (a1 :> {x}) @@ (a2 :> {y}) @@ (b1 :> {x})

ForkUtxo[b \in Fork] ==
  [o \in ForkOutpoints |->
    IF b = g \/ o \in ForkSpends[b] THEN Spent
    ELSE IF o \in ForkCreates[b] THEN b
    ELSE ForkUtxo[ForkParent[b]][o]]
=============================================================================
