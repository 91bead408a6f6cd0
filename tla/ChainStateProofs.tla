-------------------------- MODULE ChainStateProofs --------------------------
(***************************************************************************)
(* For every block tree, any number of threads and any number of script    *)
(* check queues: the tip moves only along the tree, and no block is        *)
(* validated by two threads at once.  ChainTipProofs builds on this.       *)
(***************************************************************************)
EXTENDS ChainState, WellFoundedInduction, FiniteSetTheorems, TLAPS

-----------------------------------------------------------------------------
(* The tree of blocks: chains are closed under ancestors and linearly      *)
(* ordered, and what the code's loops over chains and candidates find      *)
(* exists.  Induction is by the least counterexample.                      *)

(* A non-empty set of natural numbers has a least element.                 *)
LEMMA LeastNatural ==
  ASSUME NEW T, T \subseteq Nat, T # {}
  PROVE  \E m \in T : \A k \in T : m <= k
<1> DEFINE R == OpToRel(<, Nat)
<1>1. IsWellFoundedOn(R, Nat)
  BY NatLessThanWellFounded, Zenon
<1>2. PICK m \in T : \A k \in T : ~(<<k, m>> \in R)
  <2> HIDE DEF R
  <2> QED BY <1>1, WFMin, Zenon
<1>3. \A k \in T : ~(k < m)
  BY <1>2, Zenon DEF OpToRel
<1> QED BY <1>3

(* A non-empty set of blocks has a block whose parent is not in it: the    *)
(* induction principle for the tree.                                       *)
LEMMA TreeLeast ==
  ASSUME NEW S \in SUBSET Blocks, S # {}
  PROVE  \E b \in S : b = Genesis \/ Parent[b] \notin S
<1>1. \A b \in Blocks : IsFiniteSet(Chain[b]) /\ Cardinality(Chain[b]) \in Nat
  BY FS_Subset, FS_CardinalityType, TreeAssumption
<1>2. \A b \in Blocks \ {Genesis} : Cardinality(Chain[Parent[b]]) < Cardinality(Chain[b])
  <2> TAKE b \in Blocks \ {Genesis}
  <2>1. /\ Parent[b] \in Blocks /\ IsFiniteSet(Chain[Parent[b]])
        /\ Cardinality(Chain[Parent[b]]) \in Nat
        /\ Chain[b] = Chain[Parent[b]] \union {b} /\ b \notin Chain[Parent[b]]
    BY <1>1, TreeAssumption
  <2>2. Cardinality(Chain[Parent[b]] \union {b}) = Cardinality(Chain[Parent[b]]) + 1
    BY <2>1, FS_AddElement, Zenon
  <2> QED BY <2>1, <2>2
<1> DEFINE T == {Cardinality(Chain[b]) : b \in S}
<1>3. T \subseteq Nat /\ T # {}
  BY <1>1
<1>4. PICK m \in T : \A k \in T : m <= k
  <2> HIDE DEF T
  <2> QED BY <1>3, LeastNatural, Zenon
<1>5. PICK b \in S : m = Cardinality(Chain[b])
  OBVIOUS
<1>6. \A c \in S : Cardinality(Chain[b]) <= Cardinality(Chain[c])
  BY <1>4, <1>5
<1>7. ASSUME b # Genesis, Parent[b] \in S
      PROVE  FALSE
  <2>1. Cardinality(Chain[b]) <= Cardinality(Chain[Parent[b]])
    BY <1>6, <1>7
  <2>2. Cardinality(Chain[Parent[b]]) < Cardinality(Chain[b])
    BY <1>2, <1>7
  <2>3. Cardinality(Chain[b]) \in Nat /\ Cardinality(Chain[Parent[b]]) \in Nat
    BY <1>1, <1>7
  <2> QED BY <2>1, <2>2, <2>3
<1> QED BY <1>7

(* Heights are natural numbers.                                            *)
LEMMA HeightNat == \A b \in Blocks : Height(b) \in Int
<1>1. \A b \in Blocks : IsFiniteSet(Chain[b]) /\ Cardinality(Chain[b]) \in Nat
  BY FS_Subset, FS_CardinalityType, TreeAssumption
<1> QED BY <1>1 DEF Height

(* A block is on its own chain, and so is its parent.                      *)
LEMMA ChainSelf ==
  /\ \A b \in Blocks : b \in Chain[b]
  /\ \A b \in Blocks \ {Genesis} : Parent[b] \in Chain[b] /\ Parent[b] \in Blocks
<1>1. \A b \in Blocks : b \in Chain[b]
  BY TreeAssumption
<1> QED BY <1>1, TreeAssumption

(* Every chain starts at the genesis block.                                *)
LEMMA ChainGenesis == \A b \in Blocks : Genesis \in Chain[b]
<1> DEFINE S == {b \in Blocks : Genesis \notin Chain[b]}
<1>1. ASSUME S # {}
      PROVE  FALSE
  <2>1. PICK b \in S : b = Genesis \/ Parent[b] \notin S
    BY <1>1, TreeLeast, Zenon
  <2> QED BY <2>1, TreeAssumption
<1> QED BY <1>1

(* The ancestors of an ancestor are ancestors.                             *)
LEMMA ChainTransitive == \A b \in Blocks : \A a \in Chain[b] : Chain[a] \subseteq Chain[b]
<1> DEFINE S == {b \in Blocks : \E a \in Chain[b] : ~(Chain[a] \subseteq Chain[b])}
<1>1. ASSUME S # {}
      PROVE  FALSE
  <2>1. PICK b \in S : b = Genesis \/ Parent[b] \notin S
    BY <1>1, TreeLeast, Zenon
  <2>2. PICK a \in Chain[b] : ~(Chain[a] \subseteq Chain[b])
    OBVIOUS
  <2>3. b # Genesis
    BY <2>2, TreeAssumption
  <2>4. Parent[b] \in Blocks /\ Parent[b] \notin S /\ Chain[b] = Chain[Parent[b]] \union {b}
    BY <2>1, <2>3, TreeAssumption
  <2>5. a \in Chain[Parent[b]]
    BY <2>2, <2>4
  <2> QED BY <2>2, <2>4, <2>5
<1> QED BY <1>1

(* Two blocks of a chain are ancestors of one another, one way or the      *)
(* other.                                                                  *)
LEMMA ChainLinear ==
  \A b \in Blocks : \A a, c \in Chain[b] : a \in Chain[c] \/ c \in Chain[a]
<1> DEFINE S == {b \in Blocks : \E a, c \in Chain[b] : ~(a \in Chain[c] \/ c \in Chain[a])}
<1>1. ASSUME S # {}
      PROVE  FALSE
  <2>1. PICK b \in S : b = Genesis \/ Parent[b] \notin S
    BY <1>1, TreeLeast, Zenon
  <2>2. PICK a \in Chain[b], c \in Chain[b] : ~(a \in Chain[c] \/ c \in Chain[a])
    OBVIOUS
  <2>3. a # b /\ c # b /\ b # Genesis
    BY <2>2, TreeAssumption
  <2>4. Parent[b] \in Blocks /\ Parent[b] \notin S /\ Chain[b] = Chain[Parent[b]] \union {b}
    BY <2>1, <2>3, TreeAssumption
  <2> QED BY <2>2, <2>3, <2>4
<1> QED BY <1>1

(* A block below the end of a chain has a child on it: ChildToward exists. *)
LEMMA ChildTowardType ==
  ASSUME NEW b \in Blocks, NEW a \in Chain[b], a # b
  PROVE  /\ ChildToward(a, b) \in Chain[b] \ {Genesis}
         /\ Parent[ChildToward(a, b)] = a
<1> DEFINE S == {x \in Blocks : \E y \in Chain[x] \ {x} :
                   \A c \in Chain[x] \ {Genesis} : Parent[c] # y}
<1>1. ASSUME S # {}
      PROVE  FALSE
  <2>1. PICK x \in S : x = Genesis \/ Parent[x] \notin S
    BY <1>1, TreeLeast, Zenon
  <2>2. PICK y \in Chain[x] \ {x} : \A c \in Chain[x] \ {Genesis} : Parent[c] # y
    OBVIOUS
  <2>3. x # Genesis
    BY <2>2, TreeAssumption
  <2>4. Parent[x] \in Blocks /\ Parent[x] \notin S /\ Chain[x] = Chain[Parent[x]] \union {x}
    BY <2>1, <2>3, TreeAssumption
  <2>5. Parent[x] # y
    BY <2>2, <2>3, <2>4
  <2>6. y \in Chain[Parent[x]] \ {Parent[x]}
    BY <2>2, <2>4, <2>5
  <2> QED BY <2>2, <2>4, <2>6
<1>2. \E c \in Chain[b] \ {Genesis} : Parent[c] = a
  BY <1>1
<1> QED BY <1>2 DEF ChildToward

-----------------------------------------------------------------------------
(* The greatest element of a finite set.                                   *)

(* A relation that orders a finite set linearly has a greatest element in  *)
(* every non-empty subset.                                                 *)
LEMMA FiniteMax ==
  ASSUME NEW D, IsFiniteSet(D), NEW R,
         \A x, y \in D : x # y => <<x, y>> \in R \/ <<y, x>> \in R,
         \A x, y, z \in D : <<x, y>> \in R /\ <<y, z>> \in R => <<x, z>> \in R,
         D # {}
  PROVE  \E m \in D : \A x \in D \ {m} : <<x, m>> \in R
<1> DEFINE Max(E) == \E m \in E : \A x \in E \ {m} : <<x, m>> \in R
           B == {E \in SUBSET D : E # {} /\ ~Max(E)}
           T == {Cardinality(E) : E \in B}
<1>1. \A E \in SUBSET D : IsFiniteSet(E) /\ Cardinality(E) \in Nat
  BY FS_Subset, FS_CardinalityType
<1>2. ASSUME B # {}
      PROVE  FALSE
  <2>1. T \subseteq Nat /\ T # {}
    BY <1>1, <1>2
  <2>2. PICK k \in T : \A j \in T : k <= j
    <3> HIDE DEF T
    <3> QED BY <2>1, LeastNatural, Zenon
  <2>3. PICK E \in B : k = Cardinality(E)
    OBVIOUS
  <2>4. PICK x \in E : TRUE
    OBVIOUS
  <2>5. IsFiniteSet(E) /\ Cardinality(E) \in Nat
    BY <1>1
  <2>6. Cardinality(E \ {x}) = Cardinality(E) - 1
    <3> HIDE DEF B, T, Max
    <3> QED BY <2>5, FS_RemoveElement, Zenon
  <2>7. E \ {x} \notin B
    <3>1. SUFFICES ASSUME E \ {x} \in B PROVE FALSE
      BY Zenon
    <3>2. Cardinality(E \ {x}) \in T
      BY <3>1, Zenon
    <3>3. Cardinality(E) <= Cardinality(E \ {x})
      BY <3>2, <2>2, <2>3, Zenon
    <3> QED BY <3>3, <2>5, <2>6
  <2>8. CASE E \ {x} = {}
    BY <2>4, <2>8
  <2>9. CASE E \ {x} # {}
    <3>1. Max(E \ {x})
      BY <2>7, <2>9, Zenon
    <3>2. PICK m \in E \ {x} : \A y \in (E \ {x}) \ {m} : <<y, m>> \in R
      BY <3>1
    <3>3. CASE <<x, m>> \in R
      BY <3>2, <3>3, Zenon
    <3>4. CASE <<m, x>> \in R
      <4>1. \A y \in E \ {x} : <<y, x>> \in R
        BY <3>2, <3>4, Zenon
      <4> QED BY <4>1, <2>4, Zenon
    <3> QED BY <3>2, <3>3, <3>4, <2>4
  <2> QED BY <2>8, <2>9
<1>3. D \notin B
  BY <1>2
<1> QED BY <1>3

(* The highest block of a part of a chain.                                 *)
LEMMA ChainMax ==
  ASSUME NEW b \in Blocks, NEW D \in SUBSET Chain[b], D # {}
  PROVE  \E m \in D : D \subseteq Chain[m]
<1> DEFINE R == {p \in Blocks \X Blocks : p[1] \in Chain[p[2]]}
<1>1. Chain[b] \in SUBSET Blocks /\ IsFiniteSet(D)
  BY FS_Subset, TreeAssumption
<1>2. \A x, y \in D : <<x, y>> \in R <=> x \in Chain[y]
  BY <1>1
<1>3. \A x, y \in D : x # y => <<x, y>> \in R \/ <<y, x>> \in R
  <2> HIDE DEF R
  <2> QED BY <1>1, <1>2, ChainLinear, Zenon
<1>4. \A x, y, z \in D : <<x, y>> \in R /\ <<y, z>> \in R => <<x, z>> \in R
  <2> HIDE DEF R
  <2> QED BY <1>1, <1>2, ChainTransitive, Zenon
<1>5. PICK m \in D : \A x \in D \ {m} : <<x, m>> \in R
  <2> HIDE DEF R
  <2> QED BY <1>1, <1>3, <1>4, FiniteMax, Zenon
<1>6. m \in Chain[m]
  BY <1>1, ChainSelf
<1> QED BY <1>2, <1>5, <1>6, Zenon

(* Rewinding a chain ends on it, outside the blocks to leave.              *)
LEMMA RewindType ==
  ASSUME NEW b \in Blocks, NEW S, Genesis \notin S
  PROVE  Rewind(b, S) \in Chain[b] \ S
<1> DEFINE D == Chain[b] \ S
<1>1. D # {} /\ D \in SUBSET Chain[b]
  BY ChainGenesis
<1>2. PICK m \in D : D \subseteq Chain[m]
  <2> HIDE DEF D
  <2> QED BY <1>1, ChainMax
<1>3. \E a \in Chain[b] \ S : \A c \in Chain[b] \ S : c \in Chain[a]
  BY <1>2
<1> QED BY <1>3 DEF Rewind

-----------------------------------------------------------------------------
(* The inductive invariant.                                                *)

(* The index holds the ancestors of every block it holds.                  *)
KnownClosed == \A b \in known : Chain[b] \subseteq known

(* The genesis block is never soft rejected or frozen.                     *)
GenesisFree == softRejected[Genesis] = -1 /\ freeze[Genesis] = -1

IndexInv == IndexTypeOK /\ KnownClosed /\ GenesisFree

(* The walks down a chain past soft rejected blocks end at the latest at   *)
(* the genesis block.                                                      *)
LEMMA GenesisNotRejected == GenesisFree => Genesis \notin SoftRejectedBlocks(softRejected)
BY DEF GenesisFree, SoftRejectedBlocks

(* What a thread that received a block found before it took cs_main.       *)
AcceptInv(t) ==
  pc[t] = "accept" => pblock[t] \in NonGenesis /\ Parent[pblock[t]] \in known

(* A thread holds cs_main except where the code releases it.               *)
InSection(t) == pc[t] \in {"find", "check", "step"} \/ (t \in Validating /\ t \notin parallel)

LockInv(t) ==
  /\ InSection(t) => csMain = t
  /\ t \in parallel => t \in Validating

(* The local variables of an activation.                                   *)
StepInv(t) ==
  /\ pc[t] \in {"check", "step"} \/ t \in Validating => mostWork[t] # None
  /\ pc[t] = "step" \/ t \in Validating => oldTip[t] \in Blocks
  /\ t \in Validating =>
       /\ connecting[t] \in Chain[mostWork[t]] \ {Genesis}
       /\ base[t] = Parent[connecting[t]]
       /\ t \in parallel => Work[base[t]] = Work[oldTip[t]]
       /\ t \notin parallel => tip = base[t]

ThreadInv == \A t \in Threads : AcceptInv(t) /\ LockInv(t) /\ StepInv(t)

(* While a thread goes towards a block with cs_main held, nobody else      *)
(* validates a block on its way.                                           *)
WayClear ==
  \A t \in Threads : pc[t] = "step" \/ (t \in Validating /\ t \notin parallel) =>
    \A u \in Validating \ {t} : connecting[u] \notin Chain[mostWork[t]]

Inv ==
  /\ IndexInv /\ ChainTypeOK /\ ThreadTypeOK /\ ThreadInv
  /\ WayClear /\ NoDoubleValidation

-----------------------------------------------------------------------------
(* What the choices of the model return.                                   *)

(* FindMostWorkChain finds a best candidate: the comparator orders blocks  *)
(* linearly.                                                               *)
LEMMA BestCandidateBest ==
  ASSUME IndexTypeOK, candidates \subseteq known, Selectable # {}
  PROVE  /\ BestCandidate \in Selectable
         /\ \A d \in Selectable \ {BestCandidate} : WorkLess(d, BestCandidate, valTime, seqId)
<1> DEFINE R == {p \in Blocks \X Blocks : WorkLess(p[1], p[2], valTime, seqId)}
<1>1. Selectable \in SUBSET Blocks /\ IsFiniteSet(Selectable)
  BY FS_Subset, TreeAssumption DEF Selectable, IndexTypeOK
<1>2. \A x, y \in Blocks : <<x, y>> \in R <=> WorkLess(x, y, valTime, seqId)
  OBVIOUS
<1>3. \A x \in Blocks : Work[x] \in Int /\ valTime[x] \in Int /\ seqId[x] \in Int /\ Addr[x] \in Int
  <2>1. MinTime .. MaxTime \subseteq Int
    OBVIOUS
  <2> QED BY <2>1, WorkAssumption DEF IndexTypeOK
<1>4. \A x, y \in Selectable : x # y => <<x, y>> \in R \/ <<y, x>> \in R
  <2> HIDE DEF R
  <2> QED BY <1>1, <1>2, <1>3, WorkAssumption DEF WorkLess
<1>5. \A x, y, z \in Selectable : <<x, y>> \in R /\ <<y, z>> \in R => <<x, z>> \in R
  <2> HIDE DEF R
  <2> QED BY <1>1, <1>2, <1>3 DEF WorkLess
<1>6. PICK m \in Selectable : \A x \in Selectable \ {m} : <<x, m>> \in R
  <2> HIDE DEF R
  <2> QED BY <1>1, <1>4, <1>5, FiniteMax, Zenon
<1>7. \E c \in Selectable : \A d \in Selectable \ {c} : WorkLess(d, c, valTime, seqId)
  <2> HIDE DEF R
  <2> QED BY Zenon, <1>1, <1>2, <1>6
<1> QED BY Zenon, <1>7 DEF BestCandidate

(* It is one of the candidates.                                            *)
LEMMA BestCandidateType ==
  ASSUME IndexTypeOK, candidates \subseteq known, Selectable # {}
  PROVE  BestCandidate \in Selectable
BY BestCandidateBest, Zenon

(* The walk down from a candidate meets a highest obstacle if there is one.*)
LEMMA TopObstacleType ==
  ASSUME NEW c \in Blocks, Obstacles(c) # {}
  PROVE  TopObstacle(c) \in Obstacles(c) /\ TopObstacle(c) \in Chain[c]
<1>1. Obstacles(c) \in SUBSET Chain[c]
  BY DEF Obstacles
<1>2. \E m \in Obstacles(c) : Obstacles(c) \subseteq Chain[m]
  BY <1>1, ChainMax
<1>3. TopObstacle(c) \in Obstacles(c)
  BY <1>2 DEF TopObstacle
<1> QED BY <1>1, <1>3

(* Leaving the frozen blocks stays on the chain.                           *)
LEMMA RemoveFrozenType ==
  ASSUME IndexInv, NEW x \in Blocks
  PROVE  RemoveFrozen(x) \in Chain[x]
<1>1. Genesis \notin Frozen(freeze)
  BY TreeAssumption DEF Frozen, InSoftConsensusFreeze, IndexInv, GenesisFree
<1> QED BY <1>1, RewindType, Zenon DEF RemoveFrozen

-----------------------------------------------------------------------------
(* A step of thread t leaves the other threads alone.                      *)

OthersSame(t) ==
  \A u \in Threads \ {t} :
    /\ pc'[u] = pc[u] /\ mostWork'[u] = mostWork[u] /\ pblock'[u] = pblock[u]
    /\ oldTip'[u] = oldTip[u] /\ connecting'[u] = connecting[u] /\ base'[u] = base[u]
    /\ u \in parallel' <=> u \in parallel

(* cs_main changes hands, and the tip moves, only if nobody else has it.   *)
LockUse(t) ==
  /\ csMain \in {None, t} \/ (csMain' = csMain /\ tip' = tip)
  /\ csMain' \in {None, t, csMain}

(* The thread starts to validate with cs_main held, a block nobody         *)
(* validates.                                                              *)
NewValidation(t) ==
  t \in Validating' =>
    \/ t \in Validating /\ connecting'[t] = connecting[t]
    \/ csMain = t /\ \A u \in Validating \ {t} : connecting[u] # connecting'[t]

(* The thread goes on towards a block nobody is on the way of.             *)
NewWay(t) ==
  pc'[t] = "step" \/ (t \in Validating' /\ t \notin parallel') =>
    \A u \in Validating \ {t} : connecting[u] \notin Chain[mostWork'[t]]

(* The obligations of a step of thread t.                                  *)
ThreadStep(t) ==
  /\ OthersSame(t) /\ LockUse(t)
  /\ t \in Threads => /\ AcceptInv(t)' /\ LockInv(t)' /\ StepInv(t)'
                      /\ NewValidation(t) /\ NewWay(t)

(* They are enough for the invariant.                                      *)
LEMMA Frame ==
  ASSUME Inv, NEW t, t \in Threads \/ t = None,
         known \subseteq known', IndexInv', ChainTypeOK', ThreadTypeOK', ThreadStep(t)
  PROVE  Inv'
<1> USE DEF Inv
<1>1. \A u \in Threads \ {t} : u \in Validating' <=> u \in Validating
  BY DEF ThreadStep, OthersSame, Validating
<1>2. ASSUME NEW u \in Threads \ {t}
      PROVE  AcceptInv(u)' /\ LockInv(u)' /\ StepInv(u)'
  <2>0. u # None /\ u # t
    BY ChainAssumption, Zenon
  <2>1. AcceptInv(u)'
    BY Zenon DEF ThreadStep, OthersSame, AcceptInv, ThreadInv
  <2>2. InSection(u)' <=> InSection(u)
    BY <1>1, Zenon DEF ThreadStep, OthersSame, InSection
  <2>3. InSection(u) => csMain = u /\ csMain' = u /\ tip' = tip
    BY <2>0 DEF ThreadInv, LockInv, ThreadStep, LockUse
  <2>4. LockInv(u)'
    BY Zenon, <1>1, <2>2, <2>3 DEF ThreadStep, OthersSame, ThreadInv, LockInv
  <2>5. StepInv(u)'
    BY <1>1, <2>3 DEF ThreadStep, OthersSame, ThreadInv, StepInv, InSection
  <2> QED BY <2>1, <2>4, <2>5, Zenon
<1>3. ThreadInv'
  BY <1>2, Zenon DEF ThreadInv, ThreadStep
<1>4. WayClear'
  <2> SUFFICES ASSUME NEW u \in Threads, NEW v \in Threads, v \in Validating', v # u,
                      pc'[u] = "step" \/ (u \in Validating' /\ u \notin parallel')
               PROVE  connecting'[v] \notin Chain[mostWork'[u]]
    BY Zenon DEF WayClear, Validating
  <2>1. CASE u = t
    BY <2>1, <1>1, Zenon DEF ThreadStep, OthersSame, NewWay
  <2>2. CASE u # t /\ v # t
    BY <2>2, <1>1, Zenon DEF ThreadStep, OthersSame, WayClear
  <2>3. CASE u # t /\ v = t
    <3>1. InSection(u) /\ csMain = u
      BY <2>3, <1>1, Zenon DEF ThreadStep, OthersSame, InSection, ThreadInv, LockInv
    <3>2. t \in Validating /\ connecting'[t] = connecting[t]
      BY <2>3, <3>1, Zenon DEF ThreadStep, NewValidation
    <3> QED BY <2>3, <3>2, <1>1, Zenon DEF ThreadStep, OthersSame, WayClear
  <2> QED BY <2>1, <2>2, <2>3, Zenon
<1>5. NoDoubleValidation'
  <2> SUFFICES ASSUME NEW u \in Threads, NEW v \in Threads, u \in Validating',
                      v \in Validating', u # v
               PROVE  connecting'[u] # connecting'[v]
    BY Zenon DEF NoDoubleValidation, Validating
  <2>1. CASE u # t /\ v # t
    BY <2>1, <1>1, Zenon DEF ThreadStep, OthersSame, NoDoubleValidation
  <2>2. CASE u = t \/ v = t
    BY <2>2, <1>1 DEF ThreadStep, OthersSame, NewValidation, NoDoubleValidation
  <2> QED BY <2>1, <2>2, Zenon
<1> QED BY <1>3, <1>4, <1>5, Zenon

-----------------------------------------------------------------------------
(* Steps that leave the index alone.                                       *)

(* A step that leaves the index alone keeps what the invariant says of it. *)
LEMMA IndexUnchanged ==
  ASSUME Inv, UNCHANGED indexVars
  PROVE  known \subseteq known' /\ IndexInv'
BY DEF Inv, IndexInv, IndexTypeOK, KnownClosed, GenesisFree, indexVars

(* A step that leaves chain and index alone keeps their types.             *)
LEMMA ChainUnchanged ==
  ASSUME Inv, UNCHANGED <<known, chainVars, preciousVars>>
  PROVE  ChainTypeOK'
BY Zenon DEF Inv, ChainTypeOK, chainVars, preciousVars

(* An activation that ends releases everything.                            *)
LEMMA LeaveActivationStep ==
  ASSUME Inv, NEW t \in Threads, csMain = t, t \notin Validating, LeaveActivation(t),
         UNCHANGED <<indexVars, chainVars, preciousVars, stepVars>>
  PROVE  Inv'
<1> USE DEF Inv
<1>1. known \subseteq known' /\ IndexInv' /\ ChainTypeOK'
  BY IndexUnchanged, ChainUnchanged, Zenon DEF indexVars
<1>2. ThreadTypeOK'
  BY DEF LeaveActivation, ThreadTypeOK, PCs, stepVars, indexVars
<1>3. t \notin parallel
  BY DEF ThreadInv, LockInv
<1>4. ThreadStep(t)
  BY Zenon, <1>3 DEF LeaveActivation, ThreadTypeOK, stepVars, ThreadStep, OthersSame, LockUse, AcceptInv,
       LockInv, StepInv, InSection, Validating, NewValidation, NewWay
<1> QED BY <1>1, <1>2, <1>4, Frame, Zenon

(* Entering the loop of ActivateBestChain keeps the invariant.             *)
LEMMA EnterLoopStep ==
  ASSUME Inv, NEW t \in Threads, EnterLoop(t)
  PROVE  Inv'
<1> USE DEF Inv, EnterLoop
<1>1. known \subseteq known' /\ IndexInv' /\ ChainTypeOK'
  BY IndexUnchanged, ChainUnchanged DEF indexVars
<1>2. ThreadTypeOK'
  BY Zenon DEF ThreadTypeOK, PCs, stepVars, callVars, indexVars
<1>3. t \notin parallel
  BY Zenon DEF ThreadInv, LockInv, Validating
<1>4. ThreadStep(t)
  BY <1>3 DEF ThreadTypeOK, stepVars, callVars, ThreadStep, OthersSame, LockUse, AcceptInv,
       LockInv, StepInv, InSection, Validating, NewValidation, NewWay
<1> QED BY <1>1, <1>2, <1>4, Frame, Zenon

(* Ending an activation without a candidate keeps the invariant.           *)
LEMMA NoCandidateStep ==
  ASSUME Inv, NEW t \in Threads, NoCandidate(t)
  PROVE  Inv'
BY Zenon, LeaveActivationStep DEF NoCandidate, Validating

(* Giving up for ancestors or siblings in validation keeps the invariant.  *)
LEMMA GiveUpStep ==
  ASSUME Inv, NEW t \in Threads, GiveUp(t)
  PROVE  Inv'
BY LeaveActivationStep, Zenon DEF GiveUp, Validating

(* The selection of the best candidate keeps the invariant.                *)
LEMMA FindMostWorkChainStep ==
  ASSUME Inv, NEW t \in Threads, FindMostWorkChain(t)
  PROVE  Inv'
<1> USE DEF Inv
<1> DEFINE most == ConsiderBlockForMostWorkChain(BestCandidate, pblock[t])
<1>1. CASE most = tip /\ LeaveActivation(t)
  BY <1>1, LeaveActivationStep, Zenon DEF FindMostWorkChain, Validating
<1>2. CASE /\ most # tip
           /\ mostWork' = [mostWork EXCEPT ![t] = most]
           /\ pc' = [pc EXCEPT ![t] = "check"]
           /\ UNCHANGED <<csMain, nested, pblock, newTip>>
  <2>1. pc[t] = "find" /\ csMain = t /\ UNCHANGED <<indexVars, chainVars, preciousVars, stepVars>>
    BY Zenon DEF FindMostWorkChain
  <2>2. known \subseteq known' /\ IndexInv' /\ ChainTypeOK'
    BY <2>1, IndexUnchanged, ChainUnchanged, Zenon DEF indexVars
  <2>3. BestCandidate \in known
    BY Zenon, BestCandidateType DEF FindMostWorkChain, IndexInv, ChainTypeOK, Selectable
  <2>4. most \in known
    BY <2>3 DEF ConsiderBlockForMostWorkChain, IndexInv, IndexTypeOK
  <2>5. most # None
    BY Zenon, <2>4, ChainAssumption DEF IndexInv, IndexTypeOK
  <2> HIDE DEF most
  <2>6. ThreadTypeOK'
    BY <1>2, <2>1, <2>4, Zenon DEF ThreadTypeOK, PCs, stepVars, indexVars
  <2>7. t \notin parallel
    BY Zenon, <2>1 DEF ThreadInv, LockInv, Validating
  <2>8. ThreadStep(t)
    BY <1>2, <2>1, <2>5, <2>7, Zenon DEF ThreadTypeOK, stepVars, ThreadStep, OthersSame, LockUse,
         AcceptInv, LockInv, StepInv, InSection, Validating, NewValidation, NewWay
  <2> QED BY <2>2, <2>6, <2>8, Frame, Zenon
<1> QED BY <1>1, <1>2, Zenon DEF FindMostWorkChain

(* The guard of a step makes its way clear.                                *)
LEMMA StartStepStep ==
  ASSUME Inv, NEW t \in Threads, StartStep(t)
  PROVE  Inv'
<1> USE DEF Inv, StartStep
<1>1. known \subseteq known' /\ IndexInv' /\ ChainTypeOK'
  BY IndexUnchanged, ChainUnchanged, Zenon DEF indexVars
<1>2. tip \in Blocks
  BY Zenon DEF ChainTypeOK, IndexInv, IndexTypeOK
<1>3. ThreadTypeOK'
  BY <1>2 DEF ThreadTypeOK, PCs, callVars, indexVars
<1>4. t \notin parallel
  BY Zenon DEF ThreadInv, LockInv, Validating
<1>5. AcceptInv(t)' /\ LockInv(t)' /\ StepInv(t)'
  BY Zenon, <1>2, <1>4 DEF ThreadTypeOK, callVars, AcceptInv, LockInv, StepInv, InSection, Validating,
       ThreadInv
<1>6. NewWay(t)
  BY Zenon DEF NewWay, IsAncestorInValidation, callVars
<1>7. ThreadStep(t)
  BY <1>5, <1>6, Zenon DEF ThreadTypeOK, callVars, ThreadStep, OthersSame, LockUse, Validating,
       NewValidation, chainVars
<1> QED BY <1>1, <1>3, <1>7, Frame, Zenon

(* The end of an iteration, whatever it does to the index and the tip.     *)
EndsStep(t, w, y) ==
  /\ csMain \in {None, t} /\ known' = known
  /\ EndStep(t, w, y) /\ w \in known \union {None} /\ y \in Blocks \union {None}

(* It keeps the invariant of the thread.                                   *)
LEMMA EndStepThread ==
  ASSUME Inv, NEW t \in Threads, NEW w, NEW y, EndsStep(t, w, y)
  PROVE  ThreadTypeOK' /\ ThreadStep(t)
<1> USE DEF Inv, EndsStep
<1>1. ThreadTypeOK'
  BY DEF EndStep, ThreadTypeOK, PCs
<1>2. pc'[t] = "activate" /\ t \notin parallel' /\ t \notin Validating'
  BY Zenon DEF EndStep, ThreadTypeOK, Validating
<1>3. AcceptInv(t)' /\ LockInv(t)' /\ StepInv(t)' /\ NewValidation(t) /\ NewWay(t)
  BY <1>2, Zenon DEF AcceptInv, LockInv, StepInv, InSection, NewValidation, NewWay
<1>4. OthersSame(t) /\ LockUse(t)
  BY DEF EndStep, ThreadTypeOK, OthersSame, LockUse
<1> QED BY Zenon, <1>1, <1>3, <1>4 DEF ThreadStep

(* A step whose goal is already connected keeps the invariant.             *)
LEMMA NothingToConnectStep ==
  ASSUME Inv, NEW t \in Threads, NothingToConnect(t)
  PROVE  Inv'
<1>1. known \subseteq known' /\ known' = known /\ IndexInv' /\ ChainTypeOK'
  BY IndexUnchanged, ChainUnchanged, Zenon DEF NothingToConnect, indexVars
<1>2. tip \in Blocks
  BY Zenon DEF Inv, ChainTypeOK, IndexInv, IndexTypeOK
<1>3. EndsStep(t, None, tip)
  BY <1>1, <1>2, Zenon DEF NothingToConnect, EndsStep
<1>4. ThreadTypeOK' /\ ThreadStep(t)
  BY <1>3, EndStepThread, Zenon
<1> QED BY <1>1, <1>4, Frame, Zenon

(* Disconnecting stops at the fork, above the genesis block at the latest. *)
LEMMA DisconnectTipMove ==
  ASSUME Inv, NEW t \in Threads, DisconnectTip(t)
  PROVE  tip # Genesis /\ Parent[tip] \in Chain[tip] /\ Parent[tip] \in known
<1>1. tip \in known /\ tip \in Blocks
  BY Zenon DEF Inv, ChainTypeOK, IndexInv, IndexTypeOK
<1>2. mostWork[t] \in Blocks
  BY DEF DisconnectTip, Inv, ThreadInv, StepInv, ThreadTypeOK, IndexInv, IndexTypeOK
<1>3. tip # Genesis
  BY Zenon, <1>2, ChainGenesis DEF DisconnectTip
<1> QED BY <1>1, <1>3, ChainSelf, Zenon DEF Inv, IndexInv, KnownClosed

(* Disconnecting the tip keeps the invariant.                              *)
LEMMA DisconnectTipStep ==
  ASSUME Inv, NEW t \in Threads, DisconnectTip(t)
  PROVE  Inv'
<1> USE DEF Inv, DisconnectTip
<1>1. known \subseteq known' /\ IndexInv'
  BY Zenon, IndexUnchanged
<1>2. ChainTypeOK'
  BY Zenon, DisconnectTipMove DEF ChainTypeOK, indexVars, preciousVars
<1>3. ThreadTypeOK'
  BY Zenon DEF ThreadTypeOK, stepVars, callVars, indexVars
<1>4. t \notin Validating /\ t \notin Validating'
  BY Zenon DEF Validating
<1>5. AcceptInv(t)' /\ LockInv(t)' /\ StepInv(t)'
  BY Zenon, <1>4 DEF AcceptInv, LockInv, StepInv, InSection, ThreadInv, stepVars, callVars
<1>6. ThreadStep(t)
  BY <1>4, <1>5 DEF ThreadStep, OthersSame, LockUse, NewValidation, NewWay, WayClear, stepVars, callVars
<1> QED BY Zenon, <1>1, <1>2, <1>3, <1>6, Frame

(* The block to connect is a child of the tip on the way to the best block.*)
LEMMA StartConnectTipStep ==
  ASSUME Inv, NEW t \in Threads, StartConnectTip(t)
  PROVE  Inv'
<1> USE DEF Inv
<1> DEFINE c == ChildToward(tip, mostWork[t])
<1>1. known \subseteq known' /\ IndexInv' /\ ChainTypeOK'
  BY ZenonT(30), IndexUnchanged, ChainUnchanged DEF indexVars, StartConnectTip
<1>2. /\ mostWork[t] \in Blocks /\ tip \in Blocks /\ oldTip[t] \in Blocks
      /\ pc[t] = "step" /\ csMain = t /\ t \notin parallel /\ t \notin Validating
  BY DEF StartConnectTip, ThreadInv, StepInv, LockInv, ThreadTypeOK, ChainTypeOK, IndexInv,
       IndexTypeOK, Validating
<1>3. c \in Chain[mostWork[t]] \ {Genesis} /\ Parent[c] = tip
  BY Zenon, <1>2, ChildTowardType DEF StartConnectTip
<1>4. c \in Blocks
  BY Zenon, <1>2, <1>3, TreeAssumption
<1>5. \A u \in Validating \ {t} : connecting[u] \notin Chain[mostWork[t]]
  BY Zenon, <1>2 DEF WayClear
<1> HIDE DEF c
<1>6. /\ connecting' = [connecting EXCEPT ![t] = c] /\ base' = [base EXCEPT ![t] = tip]
      /\ pc' = [pc EXCEPT ![t] = "getChecker"]
      /\ csMain' \in {None, t}
      /\ UNCHANGED <<indexVars, chainVars, callVars, oldTip, cancelled, outcome>>
      /\ \/ parallel' = parallel \union {t} /\ Work[tip] = Work[oldTip[t]]
         \/ parallel' = parallel /\ csMain' = t
  BY Zenon DEF StartConnectTip, c
<1>7. ThreadTypeOK'
  BY Zenon, <1>2, <1>4, <1>6 DEF ThreadTypeOK, PCs, callVars, indexVars
<1>8. /\ connecting'[t] = c /\ base'[t] = tip /\ pc'[t] = "getChecker" /\ t \in Validating'
      /\ mostWork'[t] = mostWork[t] /\ oldTip'[t] = oldTip[t] /\ tip' = tip
  BY <1>6 DEF ThreadTypeOK, Validating, callVars, chainVars
<1>9. AcceptInv(t)' /\ LockInv(t)'
  BY Zenon, <1>6, <1>8 DEF AcceptInv, LockInv, InSection
<1>10. StepInv(t)'
  BY Zenon, <1>2, <1>3, <1>6, <1>8, ChainAssumption DEF StepInv, IndexInv, IndexTypeOK
<1>11. NewValidation(t) /\ NewWay(t)
  BY Zenon, <1>2, <1>3, <1>5, <1>8 DEF NewValidation, NewWay
<1>12. OthersSame(t) /\ LockUse(t)
  BY <1>2, <1>6, Zenon DEF ThreadTypeOK, OthersSame, LockUse, callVars
<1> QED BY Zenon, <1>1, <1>7, <1>9, <1>10, <1>11, <1>12, Frame DEF ThreadStep

(* A step of a validating thread that keeps validating the same block.     *)
LEMMA ValidationThread ==
  ASSUME Inv, NEW t \in Threads, t \in Validating, t \in Validating', ThreadTypeOK',
         known' = known, OthersSame(t), UNCHANGED <<connecting, base, oldTip, mostWork, parallel>>,
         UNCHANGED <<csMain, tip>>
  PROVE  ThreadStep(t)
<1> USE DEF Inv
<1>1. pc'[t] \in {"getChecker", "waitChecker", "scripts", "relock"}
  BY Zenon DEF Validating
<1>2. AcceptInv(t)' /\ LockInv(t)' /\ StepInv(t)'
  BY Zenon, <1>1 DEF AcceptInv, LockInv, StepInv, InSection, ThreadInv
<1>3. LockUse(t) /\ NewValidation(t) /\ NewWay(t)
  BY Zenon, <1>1 DEF LockUse, NewValidation, NewWay, WayClear
<1> QED BY <1>2, <1>3 DEF ThreadStep

(* Asking the pool for a script check queue keeps the invariant.           *)
LEMMA GetCheckerStep ==
  ASSUME Inv, NEW t \in Threads, GetChecker(t)
  PROVE  Inv'
<1> USE DEF Inv
<1>1. known \subseteq known' /\ IndexInv' /\ ChainTypeOK'
  BY Zenon, IndexUnchanged, ChainUnchanged DEF indexVars, GetChecker
<1>2. /\ pc[t] = "getChecker"
      /\ \E q \in {"scripts", "waitChecker"} : pc' = [pc EXCEPT ![t] = q]
      /\ cancelled' \subseteq Threads
      /\ UNCHANGED <<indexVars, chainVars, callVars, csMain, oldTip, connecting, base, parallel,
                     outcome>>
  BY Zenon DEF GetChecker, ThreadTypeOK, WorstChecking, Checking
<1>3. ThreadTypeOK'
  BY <1>2 DEF ThreadTypeOK, PCs, callVars, indexVars
<1>4. t \in Validating /\ t \in Validating' /\ OthersSame(t)
  BY Zenon, <1>2 DEF ThreadTypeOK, Validating, OthersSame, callVars
<1>5. ThreadStep(t)
  BY Zenon, <1>2, <1>3, <1>4, ValidationThread DEF callVars, chainVars, indexVars
<1> QED BY <1>1, <1>3, <1>5, Frame

(* Waking up with a script check queue keeps the invariant.                *)
LEMMA ObtainCheckerStep ==
  ASSUME Inv, NEW t \in Threads, ObtainChecker(t)
  PROVE  Inv'
<1> USE DEF Inv
<1>1. known \subseteq known' /\ IndexInv' /\ ChainTypeOK'
  BY Zenon, IndexUnchanged, ChainUnchanged DEF indexVars, ObtainChecker
<1>2. ThreadTypeOK'
  BY Zenon DEF ObtainChecker, ThreadTypeOK, PCs, callVars, stepVars, indexVars
<1>3. t \in Validating /\ t \in Validating' /\ OthersSame(t)
  BY Zenon DEF ObtainChecker, ThreadTypeOK, Validating, OthersSame, callVars, stepVars
<1>4. ThreadStep(t)
  BY Zenon, <1>2, <1>3, ValidationThread DEF ObtainChecker, callVars, stepVars, chainVars, indexVars
<1> QED BY <1>1, <1>2, <1>4, Frame

(* A block is frozen without cs_main; it is never the genesis block.       *)
LEMMA CheckScriptsStep ==
  ASSUME Inv, NEW t \in Threads, CheckScripts(t)
  PROVE  Inv'
<1> USE DEF Inv
<1> DEFINE c == connecting[t]
<1>1. /\ pc[t] = "scripts" /\ pc' = [pc EXCEPT ![t] = "relock"]
      /\ \E o \in {"ok", "invalid", "frozen", "cancelled"} : outcome' = [outcome EXCEPT ![t] = o]
      /\ \/ freeze' = [freeze EXCEPT ![c] = FreezeDuration]
         \/ UNCHANGED freeze
      /\ UNCHANGED <<known, failed, failedParent, validity, haveData, haveUndo, linked, seqId,
                     valTime, softRejected, chainVars, preciousVars, callVars, csMain, oldTip,
                     connecting, base, parallel, cancelled>>
  BY Zenon DEF CheckScripts
<1>2. c # Genesis
  BY Zenon, <1>1 DEF ThreadInv, StepInv, Validating
<1>3. freeze' \in [Blocks -> {-1, FreezeDuration}] /\ freeze'[Genesis] = freeze[Genesis]
  BY Zenon, <1>1, <1>2, TreeAssumption DEF IndexInv, IndexTypeOK
<1>4. IndexInv'
  BY Zenon, <1>1, <1>3 DEF IndexInv, IndexTypeOK, KnownClosed, GenesisFree
<1>5. ChainTypeOK'
  BY Zenon, <1>1, ChainUnchanged
<1>6. ThreadTypeOK'
  BY <1>1 DEF ThreadTypeOK, PCs, callVars
<1>7. t \in Validating /\ t \in Validating' /\ OthersSame(t)
  BY Zenon, <1>1 DEF ThreadTypeOK, Validating, OthersSame, callVars
<1>8. ThreadStep(t)
  BY Zenon, <1>1, <1>6, <1>7, ValidationThread DEF callVars, chainVars
<1> QED BY Zenon, <1>1, <1>4, <1>5, <1>6, <1>8, Frame

-----------------------------------------------------------------------------
(* The ends of ConnectTip.                                                 *)

(* The block in validation is known, and its parent is the base.           *)
LEMMA ConnectingKnown ==
  ASSUME Inv, NEW t \in Validating
  PROVE  /\ connecting[t] \in known /\ connecting[t] \in Blocks \ {Genesis}
         /\ base[t] = Parent[connecting[t]] /\ base[t] \in Blocks
         /\ mostWork[t] \in known
<1>1. t \in Threads
  BY DEF Validating
<1>2. mostWork[t] \in known /\ known \subseteq Blocks
  <2>1. mostWork[t] # None
    BY Zenon, <1>1 DEF Inv, ThreadInv, StepInv
  <2>2. mostWork \in [Threads -> known \union {None}] /\ known \subseteq Blocks
    BY DEF Inv, ThreadTypeOK, IndexInv, IndexTypeOK
  <2> QED BY <1>1, <2>1, <2>2, Zenon
<1>3. /\ connecting[t] \in Chain[mostWork[t]] \ {Genesis} /\ base[t] = Parent[connecting[t]]
      /\ Chain[mostWork[t]] \subseteq known
  BY Zenon, <1>1, <1>2 DEF Inv, ThreadInv, StepInv, IndexInv, KnownClosed
<1> QED BY <1>2, <1>3, TreeAssumption, Zenon

(* The undo data and validity of a connected block.                        *)
LEMMA WriteUndoToDiskType ==
  ASSUME Inv, NEW c \in known, WriteUndoToDisk(c),
         UNCHANGED <<known, failed, failedParent, haveData, linked, seqId, softRejected, freeze>>
  PROVE  IndexInv'
<1> USE DEF Inv
<1> DEFINE S == {b \in Blocks : validity[b] = SCRIPTS}
           now == 1 + Cardinality(S)
<1>1. S \in SUBSET Blocks
  BY Zenon
<1>2. IsFiniteSet(Blocks)
  BY TreeAssumption, Zenon
<1>3. IsFiniteSet(S) /\ Cardinality(S) <= Cardinality(Blocks)
  <2> HIDE DEF S
  <2> QED BY <1>1, <1>2, FS_Subset, Zenon
<1>4. Cardinality(S) \in Nat /\ Cardinality(Blocks) \in Nat
  <2> HIDE DEF S
  <2> QED BY <1>2, <1>3, FS_CardinalityType, Zenon
<1>5. now \in MinTime .. MaxTime
  <2> HIDE DEF S
  <2> QED BY <1>3, <1>4 DEF MinTime, MaxTime
<1>6. /\ haveUndo' = haveUndo \union {c}
      /\ validity' \in [Blocks -> {TREE, TRANSACTIONS, SCRIPTS}]
  BY Zenon DEF WriteUndoToDisk, IndexInv, IndexTypeOK
<1>7. valTime' \in [Blocks -> MinTime .. MaxTime]
  <2>1. \/ valTime' = [valTime EXCEPT ![c] = now]
        \/ valTime' = [valTime EXCEPT ![c] = valTime[c]]
    BY Zenon DEF WriteUndoToDisk
  <2>2. valTime \in [Blocks -> MinTime .. MaxTime] /\ c \in Blocks
    BY Zenon DEF IndexInv, IndexTypeOK
  <2> HIDE DEF now
  <2> QED BY <1>5, <2>1, <2>2
<1> QED BY <1>6, <1>7, Zenon DEF IndexInv, IndexTypeOK, KnownClosed, GenesisFree

(* A block connected in parallel mode ends the step: it has more work than *)
(* the tip the step started from.                                          *)
LEMMA ParallelEndsStep ==
  ASSUME Inv, NEW t \in Validating, t \in parallel
  PROVE  Work[connecting[t]] > Work[oldTip[t]]
<1>1. t \in Threads
  BY Zenon DEF Validating
<1>2. Work[base[t]] = Work[oldTip[t]]
  BY <1>1 DEF Inv, ThreadInv, StepInv
<1> QED BY <1>2, ConnectingKnown, WorkAssumption

(* Connecting a validated block keeps the invariant.                       *)
LEMMA ConnectTipStep ==
  ASSUME Inv, NEW t \in Threads, ConnectTip(t)
  PROVE  Inv'
<1> USE DEF Inv
<1> DEFINE c == connecting[t]
<1>1. /\ t \in Validating /\ csMain \in {None, t}
      /\ WriteUndoToDisk(c) /\ tip' = c
      /\ candidates' \subseteq candidates \union {c}
      /\ UNCHANGED <<known, failed, failedParent, haveData, linked, seqId, softRejected, freeze,
                     unlinked, nextSeqId, preciousVars>>
  BY Zenon DEF ConnectTip, Relock, Validating, PruneBlockIndexCandidates
<1>2. c \in known /\ c \in Blocks /\ mostWork[t] \in known
  BY Zenon, <1>1, ConnectingKnown
<1>3. known \subseteq known' /\ known' = known /\ IndexInv'
  BY Zenon, <1>1, <1>2, WriteUndoToDiskType
<1>4. ChainTypeOK'
  BY Zenon, <1>1, <1>2 DEF ChainTypeOK, preciousVars
<1>5. CASE /\ c = mostWork[t] \/ Work[c] > Work[oldTip[t]]
           /\ EndStep(t, IF c = mostWork[t] THEN None ELSE mostWork[t], c)
  <2> DEFINE w == IF c = mostWork[t] THEN None ELSE mostWork[t]
  <2>1. w \in known \union {None} /\ EndStep(t, w, c)
    BY <1>2, <1>5, Zenon
  <2>2. ThreadTypeOK' /\ ThreadStep(t)
    <3> HIDE DEF w, c, Inv
    <3>1. EndsStep(t, w, c)
      BY <1>1, <1>2, <1>3, <2>1, Zenon DEF EndsStep
    <3> QED BY <3>1, EndStepThread, Zenon
  <2> QED BY Zenon, <1>3, <1>4, <2>2, Frame
<1>6. CASE /\ ~(c = mostWork[t] \/ Work[c] > Work[oldTip[t]])
           /\ csMain' = t
           /\ pc' = [pc EXCEPT ![t] = "step"]
           /\ connecting' = [connecting EXCEPT ![t] = None]
           /\ base' = [base EXCEPT ![t] = None]
           /\ parallel' = parallel \ {t}
           /\ cancelled' = cancelled \ {t}
           /\ UNCHANGED <<callVars, oldTip, outcome>>
  <2>1. t \notin parallel
    BY Zenon, <1>1, <1>6, ParallelEndsStep
  <2>2. ThreadTypeOK'
    BY Zenon, <1>3, <1>6 DEF ThreadTypeOK, PCs, callVars
  <2>3. pc'[t] = "step" /\ t \notin Validating' /\ t \notin parallel'
    BY <1>6 DEF ThreadTypeOK, Validating
  <2>4. AcceptInv(t)' /\ LockInv(t)' /\ StepInv(t)'
    BY Zenon, <1>1, <1>6, <2>3 DEF AcceptInv, LockInv, StepInv, InSection, ThreadInv, callVars
  <2>5. NewValidation(t) /\ NewWay(t)
    BY Zenon, <1>1, <1>6, <2>1, <2>3 DEF NewValidation, NewWay, WayClear, callVars
  <2>6. OthersSame(t) /\ LockUse(t)
    BY <1>1, <1>6 DEF ThreadTypeOK, OthersSame, LockUse, callVars
  <2> QED BY Zenon, <1>3, <1>4, <2>2, <2>4, <2>5, <2>6, Frame DEF ThreadStep
<1> QED BY Zenon, <1>5, <1>6 DEF ConnectTip

(* The steps that end ConnectTip without a new tip.                        *)
LEMMA ConnectTipEndsStep ==
  ASSUME Inv, NEW t \in Threads,
         AttachmentCancelled(t) \/ ValidationCancelled(t) \/ ConnectTipFailed(t)
  PROVE  Inv' /\ tip' \in Chain[tip]
<1> USE DEF Inv
<1> DEFINE c == connecting[t]
<1>1. /\ t \in Validating /\ csMain \in {None, t} /\ tip' = RemoveFrozen(tip)
      /\ candidates' \subseteq candidates \union {c}
      /\ UNCHANGED <<known, unlinked, nextSeqId, preciousVars>>
      /\ \E y \in {newTip[t], tip'} : EndStep(t, None, y)
  BY Zenon DEF AttachmentCancelled, ValidationCancelled, ConnectTipFailed, Relock, Validating, indexVars
<1>2. c \in known /\ tip \in known /\ tip \in Blocks
  BY Zenon, <1>1, ConnectingKnown DEF ChainTypeOK, IndexInv, IndexTypeOK
<1>3. tip' \in Chain[tip] /\ tip' \in known /\ tip' \in Blocks
  BY Zenon, <1>1, <1>2, RemoveFrozenType DEF IndexInv, KnownClosed, IndexTypeOK
<1>4. IndexInv'
  <2>1. CASE AttachmentCancelled(t)
    BY Zenon, <1>2, <2>1, WriteUndoToDiskType DEF AttachmentCancelled
  <2>2. CASE ValidationCancelled(t)
    BY Zenon, <2>2, IndexUnchanged DEF ValidationCancelled
  <2>3. CASE ConnectTipFailed(t)
    <3>1. /\ failed' \subseteq failed \union {c}
          /\ UNCHANGED <<known, failedParent, validity, haveData, haveUndo, linked, seqId,
                         valTime, softRejected, freeze>>
      BY Zenon, <2>3 DEF ConnectTipFailed, InvalidBlockFound
    <3> QED BY Zenon, <1>2, <3>1 DEF IndexInv, IndexTypeOK, KnownClosed, GenesisFree
  <2> QED BY <2>1, <2>2, <2>3
<1>5. ChainTypeOK'
  BY Zenon, <1>1, <1>2, <1>3 DEF ChainTypeOK, preciousVars
<1>6. PICK y \in {newTip[t], tip'} : EndStep(t, None, y)
  BY Zenon, <1>1
<1>7. y \in Blocks \union {None}
  BY ZenonT(30), <1>3 DEF ThreadTypeOK
<1>8. ThreadTypeOK' /\ ThreadStep(t)
  <2> HIDE DEF Inv, c
  <2>1. EndsStep(t, None, y)
    BY <1>1, <1>6, <1>7, Zenon DEF EndsStep
  <2> QED BY <2>1, EndStepThread, Zenon
<1>9. known \subseteq known'
  BY Zenon, <1>1
<1> QED BY Zenon, <1>3, <1>4, <1>5, <1>8, <1>9, Frame

-----------------------------------------------------------------------------
(* FindMostWorkChain drops what it cannot use.                             *)

(* Dropping a candidate that is invalid or lacks data keeps the invariant. *)
LEMMA FindMostWorkDropsStep ==
  ASSUME Inv, NEW t \in Threads, FindMostWorkInvalid(t) \/ FindMostWorkMissing(t)
  PROVE  Inv'
<1> USE DEF Inv
<1> DEFINE best == BestCandidate
           top == TopObstacle(best)
<1>1. best \in known /\ best \in Blocks /\ Obstacles(best) # {}
  BY Zenon, BestCandidateType DEF FindMostWorkInvalid, FindMostWorkMissing, IndexInv, IndexTypeOK,
       ChainTypeOK, Selectable
<1>2. top \in Chain[best]
  <2> HIDE DEF best
  <2> QED BY Zenon, <1>1, TopObstacleType
<1>3. Chain[best] \subseteq known
  BY Zenon, <1>1 DEF IndexInv, KnownClosed
<1>4. Genesis \in Chain[top]
  BY <1>1, <1>2, ChainGenesis, TreeAssumption, Zenon
<1> HIDE DEF best, top
<1>5. /\ failedParent' \subseteq failedParent \union known
      /\ candidates' \subseteq candidates
      /\ unlinked' \subseteq unlinked \union (Chain[best] \ Chain[top])
      /\ UNCHANGED <<known, failed, validity, haveData, haveUndo, linked, seqId, valTime,
                     softRejected, freeze, tip, nextSeqId, preciousVars, stepVars, callVars,
                     csMain, pc>>
  BY Zenon DEF FindMostWorkInvalid, FindMostWorkMissing, InvalidateChain, indexVars, best, top
<1>6. IndexInv'
  BY Zenon, <1>5 DEF IndexInv, IndexTypeOK, KnownClosed, GenesisFree
<1>7. ChainTypeOK'
  BY Zenon, <1>3, <1>4, <1>5 DEF ChainTypeOK, preciousVars
<1>8. ThreadTypeOK'
  BY Zenon, <1>5 DEF ThreadTypeOK, stepVars, callVars
<1>9. pc[t] = "find"
  BY Zenon DEF FindMostWorkInvalid, FindMostWorkMissing
<1>10. ThreadStep(t)
  BY Zenon, <1>5, <1>9 DEF ThreadStep, OthersSame, LockUse, NewValidation, NewWay, AcceptInv, LockInv,
       StepInv, InSection, Validating, ThreadInv, stepVars, callVars
<1> QED BY Zenon, <1>5, <1>6, <1>7, <1>8, <1>10, Frame

-----------------------------------------------------------------------------
(* Reception of headers and blocks, and the RPCs.                          *)

(* A thread outside of an activation returns or starts one.                *)
LEMMA OutsideThread ==
  ASSUME Inv, NEW t \in Threads, pc[t] \in {"idle", "accept"}, csMain = None,
         csMain' \in {None, t}, known \subseteq known', nested' \subseteq Threads,
         NEW q \in {"idle", "activate"}, pc' = [pc EXCEPT ![t] = q],
         NEW p \in Blocks \union {None}, pblock' = [pblock EXCEPT ![t] = p],
         UNCHANGED <<mostWork, newTip, stepVars>>
  PROVE  ThreadTypeOK' /\ ThreadStep(t)
<1> USE DEF Inv
<1>1. ThreadTypeOK'
  BY Zenon DEF ThreadTypeOK, PCs, stepVars
<1>2. t \notin parallel /\ t \notin Validating' /\ t \notin Validating
  BY Zenon DEF ThreadInv, LockInv, ThreadTypeOK, Validating
<1>3. AcceptInv(t)' /\ LockInv(t)' /\ StepInv(t)' /\ NewValidation(t) /\ NewWay(t)
  BY Zenon, <1>2 DEF AcceptInv, LockInv, StepInv, InSection, NewValidation, NewWay, stepVars, ThreadTypeOK
<1>4. OthersSame(t) /\ LockUse(t)
  BY DEF OthersSame, LockUse, stepVars, ThreadTypeOK
<1> QED BY Zenon, <1>1, <1>3, <1>4 DEF ThreadStep

(* A step of no thread.                                                    *)
LEMMA NoThread ==
  ASSUME Inv, known \subseteq known', csMain = None, IndexInv', ChainTypeOK',
         UNCHANGED <<stepVars, callVars, csMain, pc>>
  PROVE  Inv'
<1>1. ThreadTypeOK'
  BY DEF Inv, ThreadTypeOK, stepVars, callVars
<1>2. ThreadStep(None)
  BY Zenon, ChainAssumption DEF ThreadStep, OthersSame, LockUse, stepVars, callVars
<1> QED BY Zenon, <1>1, <1>2, Frame

(* A header enters the index after its parent.                             *)
LEMMA InsertHeaderType ==
  ASSUME Inv, NEW b \in NonGenesis, Parent[b] \in known,
         AddToBlockIndex(b) \/ InsertHeader(b)
  PROVE  /\ known' = known \union {b} /\ known' \subseteq Blocks /\ KnownClosed'
         /\ softRejected' \in [Blocks -> Int] /\ softRejected'[Genesis] = -1
<1>1. CASE b \in known /\ UNCHANGED <<known, softRejected>>
  BY Zenon, <1>1 DEF Inv, IndexInv, IndexTypeOK, KnownClosed, GenesisFree
<1>2. CASE InsertHeader(b)
  <2>1. known' = known \union {b} /\ b \in Blocks /\ b # Genesis /\ Parent[b] \in Blocks
    BY Zenon, <1>2 DEF InsertHeader, NonGenesis, Inv, IndexInv, IndexTypeOK
  <2>2. Chain[b] = Chain[Parent[b]] \union {b} /\ Chain[Parent[b]] \subseteq known
    BY Zenon, <2>1, TreeAssumption DEF Inv, IndexInv, KnownClosed
  <2>3. KnownClosed'
    BY Zenon, <2>1, <2>2 DEF Inv, IndexInv, KnownClosed
  <2>4. softRejected' \in [Blocks -> Int] /\ softRejected'[Genesis] = -1
    BY <1>2, <2>1, TreeAssumption DEF InsertHeader, Inv, IndexInv, IndexTypeOK, GenesisFree
  <2> QED BY Zenon, <2>1, <2>3, <2>4 DEF Inv, IndexInv, IndexTypeOK
<1> QED BY Zenon, <1>1, <1>2 DEF AddToBlockIndex

(* A new header keeps the invariant.                                       *)
LEMMA AcceptBlockHeaderStep ==
  ASSUME Inv, NEW b \in NonGenesis, AcceptBlockHeader(b)
  PROVE  Inv'
<1> USE DEF Inv
<1>1. /\ known' = known \union {b} /\ known' \subseteq Blocks /\ KnownClosed'
      /\ softRejected' \in [Blocks -> Int] /\ softRejected'[Genesis] = -1
  BY InsertHeaderType, Zenon DEF AcceptBlockHeader
<1>2. IndexInv'
  BY Zenon, <1>1 DEF AcceptBlockHeader, IndexInv, IndexTypeOK, GenesisFree
<1>3. ChainTypeOK'
  BY Zenon, <1>1 DEF AcceptBlockHeader, ChainTypeOK, chainVars, preciousVars
<1> QED BY Zenon, <1>1, <1>2, <1>3, NoThread DEF AcceptBlockHeader

(* The arrival of a block keeps the invariant.                             *)
LEMMA ReceiveBlockStep ==
  ASSUME Inv, NEW t \in Threads, NEW b \in NonGenesis, ReceiveBlock(t, b)
  PROVE  Inv'
<1> USE DEF Inv, ReceiveBlock
<1>1. known \subseteq known' /\ IndexInv' /\ ChainTypeOK'
  BY ZenonT(30), IndexUnchanged, ChainUnchanged DEF indexVars
<1>2. ThreadTypeOK'
  BY DEF ThreadTypeOK, PCs, stepVars, NonGenesis, indexVars
<1>3. t \notin parallel /\ t \notin Validating' /\ pc'[t] = "accept" /\ pblock'[t] = b
  BY Zenon DEF ThreadInv, LockInv, ThreadTypeOK, Validating
<1>4. AcceptInv(t)' /\ LockInv(t)' /\ StepInv(t)' /\ NewValidation(t) /\ NewWay(t)
  BY ZenonT(30), <1>1, <1>3 DEF AcceptInv, LockInv, StepInv, InSection, NewValidation, NewWay, stepVars
<1>5. OthersSame(t) /\ LockUse(t)
  BY DEF OthersSame, LockUse, stepVars, chainVars, ThreadTypeOK
<1> QED BY Zenon, <1>1, <1>2, <1>4, <1>5, Frame DEF ThreadStep

(* Refusing a block whose header is not accepted keeps the invariant.      *)
LEMMA AcceptBlockRefusedStep ==
  ASSUME Inv, NEW t \in Threads, AcceptBlockRefused(t)
  PROVE  Inv'
<1>1. known \subseteq known' /\ IndexInv' /\ ChainTypeOK'
  BY Zenon, IndexUnchanged, ChainUnchanged DEF indexVars, AcceptBlockRefused
<1>2. ThreadTypeOK' /\ ThreadStep(t)
  BY Zenon, <1>1, OutsideThread DEF AcceptBlockRefused, Reject, Inv, ThreadTypeOK
<1> QED BY ZenonT(30), <1>1, <1>2, Frame

(* An early return of AcceptBlock keeps the invariant.                     *)
LEMMA AcceptBlockNotStoredStep ==
  ASSUME Inv, NEW t \in Threads, NEW r \in BOOLEAN, AcceptBlockNotStored(t, r)
  PROVE  Inv'
<1> USE DEF Inv
<1> DEFINE b == pblock[t]
<1>1. b \in NonGenesis /\ Parent[b] \in known /\ b \in Blocks
  BY Zenon DEF AcceptBlockNotStored, ThreadInv, AcceptInv, NonGenesis
<1>2. /\ known' = known \union {b} /\ known' \subseteq Blocks /\ KnownClosed'
      /\ softRejected' \in [Blocks -> Int] /\ softRejected'[Genesis] = -1
  BY Zenon, <1>1, InsertHeaderType DEF AcceptBlockNotStored
<1>3. IndexInv'
  BY Zenon, <1>2 DEF AcceptBlockNotStored, IndexInv, IndexTypeOK, GenesisFree
<1>4. ChainTypeOK'
  BY Zenon, <1>2 DEF AcceptBlockNotStored, ChainTypeOK, chainVars, preciousVars
<1>5. ThreadTypeOK' /\ ThreadStep(t)
  BY Zenon, <1>1, <1>2, OutsideThread DEF AcceptBlockNotStored, StartActivation, ThreadTypeOK
<1> QED BY ZenonT(30), <1>2, <1>3, <1>4, <1>5, Frame

(* Marking a block of bad context keeps the invariant.                     *)
LEMMA AcceptBlockInvalidStep ==
  ASSUME Inv, NEW t \in Threads, NEW r \in BOOLEAN, AcceptBlockInvalid(t, r)
  PROVE  Inv'
<1> USE DEF Inv
<1> DEFINE b == pblock[t]
<1>1. b \in NonGenesis /\ Parent[b] \in known /\ b \in Blocks
  BY Zenon DEF AcceptBlockInvalid, ThreadInv, AcceptInv, NonGenesis
<1>2. /\ known' = known \union {b} /\ known' \subseteq Blocks /\ KnownClosed'
      /\ softRejected' \in [Blocks -> Int] /\ softRejected'[Genesis] = -1
  BY Zenon, <1>1, InsertHeaderType DEF AcceptBlockInvalid
<1>3. /\ failed' = failed \union {b} /\ failedParent' \subseteq failedParent \union known
      /\ candidates' \subseteq candidates
      /\ UNCHANGED <<validity, haveData, haveUndo, linked, seqId, valTime, freeze, unlinked,
                     tip, nextSeqId, preciousVars, stepVars, nested, mostWork, newTip, csMain>>
  BY Zenon DEF AcceptBlockInvalid, InvalidateChain
<1>4. IndexInv'
  BY <1>2, <1>3 DEF IndexInv, IndexTypeOK, GenesisFree
<1>5. ChainTypeOK'
  BY Zenon, <1>2, <1>3 DEF ChainTypeOK, preciousVars
<1>6. ThreadTypeOK' /\ ThreadStep(t)
  BY Zenon, <1>2, <1>3, OutsideThread DEF AcceptBlockInvalid, Reject, ThreadTypeOK
<1> QED BY <1>2, <1>4, <1>5, <1>6, Frame, Zenon

(* A block and what waited for it are linked, or the block waits.          *)
LEMMA ReceivedBlockTransactionsType ==
  ASSUME Inv, NEW b \in NonGenesis, known' = known \union {b}, ReceivedBlockTransactions(b)
  PROVE  /\ haveData' \subseteq known' /\ linked' \subseteq known'
         /\ validity' \in [Blocks -> {TREE, TRANSACTIONS, SCRIPTS}]
         /\ seqId' \in [Blocks -> Int] /\ nextSeqId' \in Nat
         /\ candidates' \subseteq known' /\ unlinked' \subseteq known' \ {Genesis}
<1> USE DEF Inv
<1> DEFINE new == LinkedWith(b)
<1>1. b \in Blocks /\ b # Genesis
  BY Zenon DEF NonGenesis
<1>2. new \in SUBSET Blocks /\ new \subseteq known'
  BY Zenon, <1>1 DEF LinkedWith, ChainTypeOK, IndexInv, IndexTypeOK
<1>3. IsFiniteSet(new) /\ Cardinality(new) \in Nat
  <2> HIDE DEF new
  <2> QED BY Zenon, <1>2, FS_Subset, FS_CardinalityType, TreeAssumption
<1>4. haveData' \subseteq known' /\ validity' \in [Blocks -> {TREE, TRANSACTIONS, SCRIPTS}]
  BY Zenon, <1>1 DEF ReceivedBlockTransactions, SetDiskBlockData, IndexInv, IndexTypeOK
<1> HIDE DEF new
<1>5. CASE /\ linked' = linked \union new
           /\ \E f \in LinkOrders(new) :
                seqId' = [c \in Blocks |-> IF c \in new THEN f[c] ELSE seqId[c]]
           /\ nextSeqId' = nextSeqId + Cardinality(new)
           /\ candidates' = candidates \union
                {c \in new : ~WorkLess(c, tip, valTime, seqId')}
           /\ unlinked' = unlinked \ new
  <2>1. PICK f \in LinkOrders(new) :
          seqId' = [c \in Blocks |-> IF c \in new THEN f[c] ELSE seqId[c]]
    BY Zenon, <1>5
  <2>2. \A c \in new : f[c] \in Int
    <3>1. f \in [new -> nextSeqId .. nextSeqId + Cardinality(new) - 1]
      BY DEF LinkOrders
    <3> QED BY <3>1, <1>3 DEF ChainTypeOK
  <2>3. seqId' \in [Blocks -> Int]
    BY Zenon, <2>1, <2>2 DEF IndexInv, IndexTypeOK
  <2> QED BY <1>2, <1>3, <1>4, <1>5, <2>3 DEF ChainTypeOK, IndexInv, IndexTypeOK
<1>6. CASE /\ linked' = linked \ {b}
           /\ unlinked' = IF Parent[b] \in Invalid THEN unlinked ELSE unlinked \union {b}
           /\ UNCHANGED <<seqId, nextSeqId, candidates>>
  BY Zenon, <1>1, <1>4, <1>6 DEF ChainTypeOK, IndexInv, IndexTypeOK
<1> QED BY Zenon, <1>5, <1>6 DEF ReceivedBlockTransactions, new

(* Storing and linking a block keeps the invariant.                        *)
LEMMA AcceptBlockStep ==
  ASSUME Inv, NEW t \in Threads, NEW r \in BOOLEAN, AcceptBlock(t, r)
  PROVE  Inv'
<1> USE DEF Inv
<1> DEFINE b == pblock[t]
<1>1. b \in NonGenesis /\ Parent[b] \in known /\ b \in Blocks
  BY Zenon DEF AcceptBlock, ThreadInv, AcceptInv, NonGenesis
<1>2. /\ known' = known \union {b} /\ known' \subseteq Blocks /\ KnownClosed'
      /\ softRejected' \in [Blocks -> Int] /\ softRejected'[Genesis] = -1
  BY Zenon, <1>1, InsertHeaderType DEF AcceptBlock
<1>3. /\ haveData' \subseteq known' /\ linked' \subseteq known'
      /\ validity' \in [Blocks -> {TREE, TRANSACTIONS, SCRIPTS}]
      /\ seqId' \in [Blocks -> Int] /\ nextSeqId' \in Nat
      /\ candidates' \subseteq known' /\ unlinked' \subseteq known' \ {Genesis}
  BY Zenon, <1>1, <1>2, ReceivedBlockTransactionsType DEF AcceptBlock
<1>4. UNCHANGED <<failed, failedParent, haveUndo, valTime, freeze, tip, preciousVars, stepVars,
                  nested, csMain>>
  BY Zenon DEF AcceptBlock
<1>5. IndexInv'
  BY <1>2, <1>3, <1>4, Zenon DEF IndexInv, IndexTypeOK, GenesisFree
<1>6. ChainTypeOK'
  BY Zenon, <1>2, <1>3, <1>4 DEF ChainTypeOK, preciousVars
<1>7. ThreadTypeOK' /\ ThreadStep(t)
  BY Zenon, <1>1, <1>2, <1>4, OutsideThread DEF AcceptBlock, StartActivation, ThreadTypeOK
<1> QED BY <1>2, <1>5, <1>6, <1>7, Frame

(* The tip invalidateblock leaves is an ancestor of the old one.           *)
LEMMA InvalidateBlockTip ==
  ASSUME Inv, NEW t \in Threads, NEW b \in Invalidatable, InvalidateBlock(t, b)
  PROVE  tip' \in Chain[tip] /\ tip' \in known
<1> USE DEF Inv
<1>1. tip \in known /\ tip \in Blocks /\ b \in Blocks \ {Genesis} /\ tip \in Chain[tip]
  BY Zenon, ChainAssumption, ChainSelf DEF ChainTypeOK, IndexInv, IndexTypeOK, NonGenesis
<1>2. Chain[tip] \subseteq known
  BY <1>1 DEF IndexInv, KnownClosed
<1>3. CASE b \notin Chain[tip]
  BY Zenon, <1>1, <1>3 DEF InvalidateBlock
<1>4. CASE b \in Chain[tip]
  <2> DEFINE r == Rewind(Parent[b], SoftRejectedBlocks(softRejected))
  <2>1. tip' = RemoveFrozen(r)
    BY Zenon, <1>4 DEF InvalidateBlock
  <2>2. Parent[b] \in Blocks /\ Parent[b] \in Chain[b] /\ Chain[b] \subseteq Chain[tip]
    BY Zenon, <1>1, <1>4, ChainSelf, ChainTransitive
  <2>3. Genesis \notin SoftRejectedBlocks(softRejected)
    BY GenesisNotRejected, Zenon DEF IndexInv
  <2>4. r \in Chain[Parent[b]]
    BY Zenon, <2>2, <2>3, RewindType
  <2>5. r \in Blocks /\ Chain[r] \subseteq Chain[Parent[b]]
    BY Zenon, <2>2, <2>4, ChainTransitive, TreeAssumption
  <2>6. Chain[Parent[b]] \subseteq Chain[b]
    BY Zenon, <1>1, <2>2, ChainTransitive
  <2> HIDE DEF r
  <2>7. RemoveFrozen(r) \in Chain[r]
    BY Zenon, <2>5, RemoveFrozenType
  <2> QED BY Zenon, <1>2, <2>1, <2>2, <2>5, <2>6, <2>7
<1> QED BY Zenon, <1>3, <1>4

(* invalidateblock keeps the invariant.                                    *)
LEMMA InvalidateBlockStep ==
  ASSUME Inv, NEW t \in Threads, NEW b \in Invalidatable, InvalidateBlock(t, b)
  PROVE  Inv'
<1> USE DEF Inv
<1>1. tip' \in known /\ Chain[tip] \subseteq known
  BY InvalidateBlockTip DEF ChainTypeOK, IndexInv, KnownClosed
<1>2. /\ failed' = failed \union {b} /\ b \in known /\ failedParent' \subseteq failedParent \union known
      /\ candidates' \subseteq candidates \union linked
      /\ UNCHANGED <<known, validity, haveData, haveUndo, linked, seqId, valTime, softRejected,
                     freeze, unlinked, nextSeqId, preciousVars, stepVars>>
  BY Zenon, <1>1 DEF InvalidateBlock, NotWorseThan, InvalidateChain
<1>3. IndexInv'
  BY Zenon, <1>2 DEF IndexInv, IndexTypeOK, KnownClosed, GenesisFree
<1>4. ChainTypeOK'
  BY Zenon, <1>1, <1>2 DEF ChainTypeOK, preciousVars, IndexInv, IndexTypeOK
<1>5. ThreadTypeOK' /\ ThreadStep(t)
  BY Zenon, <1>2, OutsideThread DEF InvalidateBlock, StartActivation, ThreadTypeOK
<1> QED BY ZenonT(30), <1>2, <1>3, <1>4, <1>5, Frame

(* reconsiderblock keeps the invariant.                                    *)
LEMMA ReconsiderBlockStep ==
  ASSUME Inv, NEW t \in Threads, NEW b \in Invalidatable, ReconsiderBlock(t, b)
  PROVE  Inv'
<1> USE DEF Inv
<1>1. /\ failed' \subseteq failed /\ failedParent' \subseteq failedParent
      /\ candidates' \subseteq candidates \union linked
      /\ UNCHANGED <<known, validity, haveData, haveUndo, linked, seqId, valTime, softRejected,
                     freeze, unlinked, tip, nextSeqId, preciousVars, stepVars, nested, csMain>>
  BY Zenon DEF ReconsiderBlock
<1>2. IndexInv'
  BY Zenon, <1>1 DEF IndexInv, IndexTypeOK, KnownClosed, GenesisFree
<1>3. ChainTypeOK'
  BY Zenon, <1>1 DEF ChainTypeOK, preciousVars, IndexInv, IndexTypeOK
<1>4. ThreadTypeOK' /\ ThreadStep(t)
  BY Zenon, <1>1, OutsideThread DEF ReconsiderBlock, StartActivation, ThreadTypeOK
<1> QED BY Zenon, <1>1, <1>2, <1>3, <1>4, Frame

(* Soft rejection does not reach the genesis block.                        *)
LEMMA SetSoftRejectedForType ==
  ASSUME Inv, NEW x \in NonGenesis, NEW n \in Int, NEW h, SetSoftRejectedFor(x, n, h)
  PROVE  softRejected' \in [Blocks -> Int] /\ softRejected'[Genesis] = -1
<1>1. Genesis \in Blocks /\ x \in Blocks /\ x # Genesis /\ Genesis \notin Descendants(x)
  BY Zenon, TreeAssumption DEF NonGenesis, Descendants
<1>2. \A b \in Blocks : n - (Height(b) - Height(x)) \in Int
  BY <1>1, HeightNat
<1>3. softRejected' \in [Blocks -> Int]
  BY <1>2 DEF SetSoftRejectedFor, Inv, IndexInv, IndexTypeOK
<1>4. softRejected'[Genesis] = softRejected[Genesis]
  BY Zenon, <1>1 DEF SetSoftRejectedFor
<1> QED BY Zenon, <1>3, <1>4 DEF Inv, IndexInv, GenesisFree

(* softrejectblock keeps the invariant and only moves the tip down.        *)
LEMMA SoftRejectBlockStep ==
  ASSUME Inv, NEW t \in Threads, NEW b \in SoftRejectable, NEW n \in SoftRejectFor,
         SoftRejectBlock(t, b, n)
  PROVE  Inv' /\ tip' \in Chain[tip]
<1> USE DEF Inv
<1>1. b \in NonGenesis /\ n \in Int
  BY ChainAssumption
<1>2. softRejected' \in [Blocks -> Int] /\ softRejected'[Genesis] = -1
  BY ZenonT(30), <1>1, SetSoftRejectedForType DEF SoftRejectBlock
<1>3. tip \in known /\ tip \in Blocks /\ Chain[tip] \subseteq known
  BY Zenon DEF ChainTypeOK, IndexInv, IndexTypeOK, KnownClosed
<1>4. Genesis \notin SoftRejectedBlocks(softRejected')
  BY <1>2 DEF SoftRejectedBlocks
<1>5. tip' \in Chain[tip] /\ tip' \in known
  BY Zenon, <1>3, <1>4, RewindType DEF SoftRejectBlock
<1>6. /\ candidates' \subseteq candidates \union linked
      /\ UNCHANGED <<known, failed, failedParent, validity, haveData, haveUndo, linked, seqId,
                     valTime, freeze, unlinked, nextSeqId, preciousVars, stepVars>>
  BY Zenon DEF SoftRejectBlock, NotWorseThan
<1>7. IndexInv'
  BY Zenon, <1>2, <1>6 DEF IndexInv, IndexTypeOK, KnownClosed, GenesisFree
<1>8. ChainTypeOK'
  BY Zenon, <1>5, <1>6 DEF ChainTypeOK, preciousVars, IndexInv, IndexTypeOK
<1>9. CASE /\ csMain' = t /\ nested' = nested \union {t}
           /\ StartActivation(t, None)
  <2>1. ThreadTypeOK' /\ ThreadStep(t)
    BY Zenon, <1>6, <1>9, OutsideThread DEF SoftRejectBlock, StartActivation, ThreadTypeOK
  <2> QED BY Zenon, <1>5, <1>6, <1>7, <1>8, <2>1, Frame
<1>10. CASE UNCHANGED <<candidates, csMain, pc, callVars>>
  BY Zenon, <1>5, <1>6, <1>7, <1>8, <1>10, NoThread DEF SoftRejectBlock
<1> QED BY Zenon, <1>9, <1>10 DEF SoftRejectBlock

(* acceptblock keeps the invariant.                                        *)
LEMMA AcceptSoftRejectedBlockStep ==
  ASSUME Inv, NEW t \in Threads, NEW b \in SoftRejectable, NEW n \in SoftRejectFor \union {-1},
         AcceptSoftRejectedBlock(t, b, n)
  PROVE  Inv'
<1> USE DEF Inv
<1>1. b \in NonGenesis /\ n \in Int
  BY ChainAssumption
<1>2. softRejected' \in [Blocks -> Int] /\ softRejected'[Genesis] = -1
  BY Zenon, <1>1, SetSoftRejectedForType DEF AcceptSoftRejectedBlock
<1>3. UNCHANGED <<known, failed, failedParent, validity, haveData, haveUndo, linked, seqId,
                  valTime, freeze, chainVars, preciousVars, stepVars, nested, csMain>>
  BY Zenon DEF AcceptSoftRejectedBlock
<1>4. IndexInv'
  BY Zenon, <1>2, <1>3 DEF IndexInv, IndexTypeOK, KnownClosed, GenesisFree
<1>5. ChainTypeOK'
  BY Zenon, <1>3, ChainUnchanged
<1>6. ThreadTypeOK' /\ ThreadStep(t)
  BY Zenon, <1>3, OutsideThread DEF AcceptSoftRejectedBlock, StartActivation, ThreadTypeOK
<1> QED BY Zenon, <1>3, <1>4, <1>5, <1>6, Frame

(* preciousblock keeps the invariant.                                      *)
LEMMA PreciousBlockStep ==
  ASSUME Inv, NEW t \in Threads, NEW b \in NonGenesis, PreciousBlock(t, b)
  PROVE  Inv'
<1> USE DEF Inv
<1>1. MinTime \in MinTime .. MaxTime
  BY FS_CardinalityType, TreeAssumption DEF MinTime, MaxTime
<1>2. b \in known /\ b \in Blocks /\ tip \in Blocks
  BY Zenon DEF PreciousBlock, ChainTypeOK, IndexInv, IndexTypeOK
<1> DEFINE id == IF Work[tip] > preciousWork THEN -1 ELSE reverseSeqId
<1>3. id \in Int
  BY DEF ChainTypeOK
<1> HIDE DEF id
<1>4. /\ reverseSeqId' = id - 1 /\ preciousWork' = Work[tip]
      /\ valTime' = [valTime EXCEPT ![b] = MinTime] /\ seqId' = [seqId EXCEPT ![b] = id]
      /\ candidates' \subseteq candidates \union {b}
      /\ UNCHANGED <<known, failed, failedParent, validity, haveData, haveUndo, linked,
                     softRejected, freeze, unlinked, tip, nextSeqId, stepVars, nested, csMain>>
  BY DEF PreciousBlock, PruneBlockIndexCandidates, id
<1>5. valTime' \in [Blocks -> MinTime .. MaxTime] /\ seqId' \in [Blocks -> Int]
  BY Zenon, <1>1, <1>3, <1>4 DEF IndexInv, IndexTypeOK
<1>6. IndexInv'
  BY Zenon, <1>4, <1>5 DEF IndexInv, IndexTypeOK, KnownClosed, GenesisFree
<1>7. ChainTypeOK'
  <2>1. reverseSeqId' \in Int /\ preciousWork' \in Nat
    <3>1. reverseSeqId' = id - 1 /\ preciousWork' = Work[tip] /\ Work[tip] \in Nat
      BY Zenon, <1>2, <1>4, WorkAssumption
    <3> HIDE DEF Inv
    <3> QED BY <1>3, <3>1, SMTT(20)
  <2> QED BY Zenon, <1>2, <1>4, <2>1 DEF ChainTypeOK
<1>8. ThreadTypeOK' /\ ThreadStep(t)
  BY Zenon, <1>4, OutsideThread DEF PreciousBlock, StartActivation, ThreadTypeOK
<1> QED BY Zenon, <1>4, <1>6, <1>7, <1>8, Frame

(* Pruning keeps the invariant.                                            *)
LEMMA PruneBlockFilesStep ==
  ASSUME Inv, NEW S, PruneBlockFiles(S)
  PROVE  Inv'
<1> USE DEF Inv, PruneBlockFiles
<1>1. known \subseteq known' /\ IndexInv'
  BY Zenon DEF IndexInv, IndexTypeOK, KnownClosed, GenesisFree
<1>2. ChainTypeOK'
  BY Zenon DEF ChainTypeOK, preciousVars
<1> QED BY <1>1, <1>2, NoThread, Zenon

-----------------------------------------------------------------------------
(* The theorems.                                                           *)

(* The invariant holds when the genesis block is connected.                *)
LEMMA InitInv == Init => Inv
<1> SUFFICES ASSUME Init PROVE Inv
  BY Zenon
<1> USE DEF Init, IndexInit
<1>1. Cardinality(Blocks) \in Nat
  BY Zenon, FS_CardinalityType, TreeAssumption
<1>2. MaxTime \in MinTime .. MaxTime
  BY <1>1 DEF MinTime, MaxTime
<1>3. IndexInv
  BY <1>2, TreeAssumption DEF IndexInv, IndexTypeOK, KnownClosed, GenesisFree, TREE, TRANSACTIONS, SCRIPTS
<1>4. ChainTypeOK /\ ThreadTypeOK
  BY TreeAssumption, ChainAssumption DEF ChainTypeOK, ThreadTypeOK, PCs
<1>5. Validating = {}
  BY Zenon DEF Validating
<1>6. ThreadInv
  BY Zenon, <1>5 DEF ThreadInv, AcceptInv, LockInv, StepInv, InSection
<1>7. WayClear /\ NoDoubleValidation
  BY Zenon, <1>5 DEF WayClear, NoDoubleValidation
<1> QED BY <1>3, <1>4, <1>6, <1>7, Zenon DEF Inv

(* Every action preserves the invariant.                                   *)
LEMMA NextInv == Inv /\ [Next]_vars => Inv'
<1> SUFFICES ASSUME Inv, [Next]_vars PROVE Inv'
  BY Zenon
<1>1. CASE UNCHANGED vars
  <2>1. Validating' = Validating
    BY Zenon, <1>1 DEF vars, Validating
  <2>2. IndexInv' /\ ChainTypeOK'
    BY ZenonT(30), <1>1, IndexUnchanged, ChainUnchanged DEF vars, indexVars
  <2>3. ThreadTypeOK'
    BY <1>1, Zenon DEF vars, indexVars, stepVars, callVars, Inv, ThreadTypeOK
  <2>4. ThreadInv'
    BY Zenon, <1>1, <2>1 DEF vars, indexVars, chainVars, stepVars, callVars, Inv, ThreadInv, AcceptInv,
         LockInv, InSection, StepInv
  <2>5. WayClear' /\ NoDoubleValidation'
    BY Zenon, <1>1, <2>1 DEF vars, stepVars, callVars, Inv, WayClear, NoDoubleValidation
  <2> QED BY Zenon, <2>2, <2>3, <2>4, <2>5 DEF Inv
<1>2. CASE \E b \in NonGenesis : AcceptBlockHeader(b)
  BY <1>2, AcceptBlockHeaderStep
<1>3. CASE \E t \in Threads, b \in NonGenesis : ReceiveBlock(t, b)
  BY Zenon, <1>3, ReceiveBlockStep
<1>4. ASSUME NEW t \in Threads, Accept(t) PROVE Inv'
  BY <1>4, AcceptBlockRefusedStep, AcceptBlockNotStoredStep, AcceptBlockInvalidStep,
     AcceptBlockStep, Zenon DEF Accept
<1>5. ASSUME NEW t \in Threads, Rpc(t) PROVE Inv'
  BY Zenon, <1>5, InvalidateBlockStep, ReconsiderBlockStep, SoftRejectBlockStep,
     AcceptSoftRejectedBlockStep, PreciousBlockStep DEF Rpc
<1>6. ASSUME NEW t \in Threads, Activation(t) PROVE Inv'
  BY Zenon, <1>6, EnterLoopStep, NoCandidateStep, FindMostWorkDropsStep, FindMostWorkChainStep,
     GiveUpStep, StartStepStep, DisconnectTipStep, NothingToConnectStep, StartConnectTipStep,
     GetCheckerStep, ObtainCheckerStep, CheckScriptsStep, ConnectTipStep, ConnectTipEndsStep
     DEF Activation
<1>7. CASE \E S \in SUBSET (Prunable \cap haveData) : PruneBlockFiles(S)
  BY <1>7, PruneBlockFilesStep
<1> QED BY Zenon, <1>1, <1>2, <1>3, <1>4, <1>5, <1>6, <1>7 DEF Next

(* The inductive invariant of block acceptance and activation holds.       *)
THEOREM ChainInvariance == Spec => []Inv
BY InitInv, NextInv, PTL DEF Spec

(* The state of the block index, the candidates and the threads keeps its  *)
(* type, whatever the tree, the blocks' faults and the interleaving.       *)
THEOREM ChainTypeCorrect == Spec => []TypeOK
<1>1. Inv => TypeOK
  BY DEF Inv, IndexInv, TypeOK
<1> QED BY <1>1, ChainInvariance, PTL

(* No two threads ever validate the same block: the exception CScopeGuard  *)
(* of CBlockValidationStatus throws is unreachable.                        *)
THEOREM ChainNoDoubleValidation == Spec => []NoDoubleValidation
<1>1. Inv => NoDoubleValidation
  BY DEF Inv
<1> QED BY <1>1, ChainInvariance, PTL

(* Where an action moves the tip.                                          *)
LEMMA TipMoves ==
  ASSUME Inv, [Next]_vars, ~(tip' = tip)
  PROVE  tip' \in Chain[tip] \/ (tip' # Genesis /\ Parent[tip'] = tip)
<1>1. ASSUME NEW t \in Threads, ConnectTip(t)
      PROVE  tip' # Genesis /\ Parent[tip'] = tip
  <2>1. t \in Validating /\ tip' = connecting[t] /\ (t \in parallel => tip = base[t])
    BY Zenon, <1>1 DEF ConnectTip, Relock, Validating, TryReattach
  <2>2. tip = base[t]
    BY Zenon, <2>1 DEF Inv, ThreadInv, StepInv
  <2> QED BY Zenon, <2>1, <2>2, ConnectingKnown
<1>2. ASSUME NEW t \in Threads, Activation(t)
      PROVE  tip' \in Chain[tip] \/ (tip' # Genesis /\ Parent[tip'] = tip)
  <2>1. CASE ConnectTip(t)
    BY Zenon, <1>1, <2>1
  <2>2. CASE AttachmentCancelled(t) \/ ValidationCancelled(t) \/ ConnectTipFailed(t)
    BY Zenon, <2>2, ConnectTipEndsStep
  <2>3. CASE DisconnectTip(t)
    BY Zenon, <2>3, DisconnectTipMove DEF DisconnectTip
  <2> QED BY Zenon, <1>2, <2>1, <2>2, <2>3 DEF Activation, EnterLoop, NoCandidate, FindMostWorkInvalid,
               FindMostWorkMissing, FindMostWorkChain, GiveUp, StartStep, NothingToConnect,
               StartConnectTip, GetChecker, ObtainChecker, CheckScripts, chainVars
<1>3. ASSUME NEW t \in Threads, Rpc(t)
      PROVE  tip' \in Chain[tip]
  BY Zenon, <1>3, InvalidateBlockTip, SoftRejectBlockStep DEF Rpc, ReconsiderBlock,
     AcceptSoftRejectedBlock, PreciousBlock, chainVars
<1>4. ASSUME NEW t \in Threads, Accept(t)
      PROVE  FALSE
  BY Zenon, <1>4 DEF Accept, AcceptBlockRefused, AcceptBlockNotStored, AcceptBlockInvalid, AcceptBlock,
     chainVars
<1> QED BY Zenon, <1>2, <1>3, <1>4 DEF Next, AcceptBlockHeader, ReceiveBlock, PruneBlockFiles, vars, chainVars

(* The active chain only grows by a child of its tip or shrinks: no block  *)
(* is attached to a tip that changed while its scripts were checked.       *)
THEOREM ChainConnectExtendsTip == Spec => ConnectExtendsTip
<1>1. Inv /\ Inv' /\ [Next]_vars =>
        [tip' \in Chain[tip] \/ (tip' # Genesis /\ Parent[tip'] = tip)]_vars
  <2> SUFFICES ASSUME Inv, [Next]_vars
               PROVE  tip' \in Chain[tip] \/ (tip' # Genesis /\ Parent[tip'] = tip)
    BY Zenon
  <2>1. tip \in Chain[tip]
    BY ChainSelf, Zenon DEF Inv, ChainTypeOK, IndexInv, IndexTypeOK
  <2> QED BY Zenon, <2>1, TipMoves
<1> QED BY <1>1, ChainInvariance, PTL DEF Spec, ConnectExtendsTip

=============================================================================
