---------------------------- MODULE MCChainState ----------------------------
(* Small block trees for model checking ChainState.                        *)
EXTENDS ChainState, TLC

CONSTANTS g, a1, a2, b1, b2, c1

(* Threads are interchangeable.                                            *)
Symmetry == Permutations(Threads)

(* Two branches of two blocks.                                             *)
TwoBranches == {g, a1, a2, b1, b2}
TwoParent == (a1 :> g) @@ (a2 :> a1) @@ (b1 :> g) @@ (b2 :> b1)
TwoChain == (g :> {g}) @@ (a1 :> {g, a1}) @@ (a2 :> {g, a1, a2})
            @@ (b1 :> {g, b1}) @@ (b2 :> {g, b1, b2})
TwoWork == (g :> 1) @@ (a1 :> 2) @@ (a2 :> 3) @@ (b1 :> 2) @@ (b2 :> 3)
(* The same tree where the second branch is the better one.                *)
HeavyWork == (g :> 1) @@ (a1 :> 2) @@ (a2 :> 3) @@ (b1 :> 2) @@ (b2 :> 4)
TwoAddr == (g :> 0) @@ (a1 :> 1) @@ (a2 :> 2) @@ (b1 :> 3) @@ (b2 :> 4)

(* A branch of two blocks and a branch of one.                             *)
Fork == {g, a1, a2, b1}
ForkParent == (a1 :> g) @@ (a2 :> a1) @@ (b1 :> g)
ForkChain == (g :> {g}) @@ (a1 :> {g, a1}) @@ (a2 :> {g, a1, a2}) @@ (b1 :> {g, b1})
ForkWork == (g :> 1) @@ (a1 :> 2) @@ (a2 :> 3) @@ (b1 :> 2)
ForkAddr == (g :> 0) @@ (a1 :> 1) @@ (a2 :> 2) @@ (b1 :> 3)

(* A block with two children.                                              *)
Split == {g, a1, a2, b2}
SplitParent == (a1 :> g) @@ (a2 :> a1) @@ (b2 :> a1)
SplitChain == (g :> {g}) @@ (a1 :> {g, a1}) @@ (a2 :> {g, a1, a2}) @@ (b2 :> {g, a1, b2})
SplitWork == (g :> 1) @@ (a1 :> 2) @@ (a2 :> 3) @@ (b2 :> 3)
SplitAddr == (g :> 0) @@ (a1 :> 1) @@ (a2 :> 2) @@ (b2 :> 3)

(* A single branch of three blocks.                                        *)
Line == {g, a1, a2, b2}
LineParent == (a1 :> g) @@ (a2 :> a1) @@ (b2 :> a2)
LineChain == (g :> {g}) @@ (a1 :> {g, a1}) @@ (a2 :> {g, a1, a2}) @@ (b2 :> {g, a1, a2, b2})
LineWork == (g :> 1) @@ (a1 :> 2) @@ (a2 :> 3) @@ (b2 :> 4)
LineAddr == (g :> 0) @@ (a1 :> 1) @@ (a2 :> 2) @@ (b2 :> 3)

(* The same branch and a competitor of its first block.                    *)
Tall == {g, a1, a2, b1, b2}
TallParent == LineParent @@ (b1 :> g)
TallChain == LineChain @@ (b1 :> {g, b1})
TallWork == LineWork @@ (b1 :> 2)
TallAddr == LineAddr @@ (b1 :> 4)

(* A branch of two blocks with two ends, and a competitor of its first.    *)
Crown == {g, a1, a2, b1, b2, c1}
CrownParent == (a1 :> g) @@ (a2 :> a1) @@ (b1 :> a2) @@ (b2 :> a2) @@ (c1 :> g)
CrownChain == (g :> {g}) @@ (a1 :> {g, a1}) @@ (a2 :> {g, a1, a2}) @@ (c1 :> {g, c1})
              @@ (b1 :> {g, a1, a2, b1}) @@ (b2 :> {g, a1, a2, b2})
CrownWork == (g :> 1) @@ (a1 :> 2) @@ (a2 :> 3) @@ (b1 :> 4) @@ (b2 :> 5) @@ (c1 :> 2)
CrownAddr == (g :> 0) @@ (a1 :> 1) @@ (a2 :> 2) @@ (b1 :> 3) @@ (b2 :> 4) @@ (c1 :> 5)
=============================================================================
