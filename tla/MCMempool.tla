----------------------------- MODULE MCMempool -----------------------------
(* Small families of transactions for Mempool.                             *)
EXTENDS Mempool

CONSTANTS a, b, c, d, x

(* a does not pay for itself; its child b pays for both, its child c and   *)
(* its grandchild d only for themselves; x spends the same coin as b.      *)
Family == {a, b, c, d, x}
FamilyParents == (a :> {}) @@ (b :> {a}) @@ (c :> {a}) @@ (d :> {b}) @@ (x :> {})
FamilyConflicts == (a :> {}) @@ (b :> {x}) @@ (c :> {}) @@ (d :> {}) @@ (x :> {b})
FamilySurplus == (a :> -1) @@ (b :> 1) @@ (c :> 0) @@ (d :> 0) @@ (x :> 0)
(* Every block of up to three of them; ConnectTip takes the legal ones.    *)
FamilyBlocks == {s \in UNION {[1 .. n -> Family] : n \in 1 .. 3} : IsInjective(s)}

(* The same family, where d spends outputs of both children.               *)
DiamondParents == (a :> {}) @@ (b :> {a}) @@ (c :> {a}) @@ (d :> {b, c}) @@ (x :> {})
=============================================================================
