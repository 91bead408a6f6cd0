------------------------------ MODULE BlockTree ------------------------------
(***************************************************************************)
(* The tree of block headers.  A block never changes its parent, so the    *)
(* tree of all blocks a behaviour may meet is a constant; which of them    *)
(* the node knows is state (module BlockIndex).                            *)
(***************************************************************************)
EXTENDS Integers, FiniteSets

CONSTANTS
  Blocks,    \* every block of the behaviour, by hash
  Genesis,   \* the block without a parent
  Parent,    \* CBlockIndex::pprev of the other blocks
  Chain,     \* the block and all of its ancestors (GetAncestor at every height)
  Work,      \* CBlockIndex::nChainWork: total work of Chain
  Addr       \* addresses of the CBlockIndex objects, the last tie breaker

ASSUME TreeAssumption ==
  /\ IsFiniteSet(Blocks)
  /\ Genesis \in Blocks
  /\ Parent \in [Blocks \ {Genesis} -> Blocks]
  /\ Chain \in [Blocks -> SUBSET Blocks]
  /\ Chain[Genesis] = {Genesis}
  /\ \A b \in Blocks \ {Genesis} : Chain[b] = Chain[Parent[b]] \union {b}
  /\ \A b \in Blocks \ {Genesis} : b \notin Chain[Parent[b]]

ASSUME WorkAssumption ==
  /\ Work \in [Blocks -> Nat]
  /\ \A b \in Blocks \ {Genesis} : Work[b] > Work[Parent[b]]
  /\ Addr \in [Blocks -> Nat]
  /\ \A a, b \in Blocks : Addr[a] = Addr[b] => a = b

NonGenesis == Blocks \ {Genesis}

Height(b) == Cardinality(Chain[b]) - 1

(* Blocks that have x as an ancestor.                                      *)
Descendants(x) == {b \in Blocks \ {x} : x \in Chain[b]}

(* The highest of the blocks of a chain that are not in S.                 *)
Rewind(b, S) ==
  CHOOSE a \in Chain[b] \ S : \A c \in Chain[b] \ S : c \in Chain[a]

(* The lowest block of chain b above block a.                              *)
ChildToward(a, b) == CHOOSE c \in Chain[b] \ {Genesis} : Parent[c] = a
=============================================================================
