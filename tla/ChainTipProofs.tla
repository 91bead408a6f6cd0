--------------------------- MODULE ChainTipProofs ---------------------------
(***************************************************************************)
(* What the block index and the candidates say, for every block tree and   *)
(* any number of threads and script check queues: soft rejection is        *)
(* inherited, exactly the blocks all of whose chain was received are       *)
(* linked, and the active chain comes to rest at the best block and in no  *)
(* frozen one.                                                             *)
(***************************************************************************)
EXTENDS ChainStateProofs

-----------------------------------------------------------------------------
(* Soft rejection.                                                         *)

(* A block is one higher than its parent.                                  *)
LEMMA HeightChild == \A b \in NonGenesis : Height(b) = Height(Parent[b]) + 1
<1> TAKE b \in NonGenesis
<1>1. /\ IsFiniteSet(Chain[Parent[b]]) /\ Cardinality(Chain[Parent[b]]) \in Nat
      /\ Chain[b] = Chain[Parent[b]] \union {b} /\ b \notin Chain[Parent[b]]
  BY FS_Subset, FS_CardinalityType, TreeAssumption, Zenon DEF NonGenesis
<1>2. Cardinality(Chain[b]) = Cardinality(Chain[Parent[b]]) + 1
  BY <1>1, FS_AddElement, Zenon
<1> QED BY <1>1, <1>2 DEF Height

(* The descendants of a block are its children and theirs.                 *)
LEMMA DescendantsChild ==
  \A x \in Blocks : \A b \in NonGenesis \ {x} :
    b \in Descendants(x) <=> Parent[b] = x \/ Parent[b] \in Descendants(x)
BY ChainSelf, TreeAssumption DEF Descendants, NonGenesis

(* A new header inherits the soft rejection of its parent.                 *)
LEMMA InsertHeaderSoft ==
  ASSUME Inv, SoftRejectInherited, NEW b \in NonGenesis, b \notin known, Parent[b] \in known,
         InsertHeader(b)
  PROVE  SoftRejectInherited'
<1> SUFFICES ASSUME NEW c \in known' \ {Genesis}, softRejected'[Parent[c]] > 0
             PROVE  softRejected'[c] = softRejected'[Parent[c]] - 1
  BY Zenon DEF SoftRejectInherited
<1>1. c \in Blocks /\ softRejected \in [Blocks -> Int] /\ b # Genesis
  BY Zenon DEF InsertHeader, Inv, IndexInv, IndexTypeOK, NonGenesis
<1>2. Parent[c] \in known
  BY <1>1, ChainSelf, Zenon DEF InsertHeader, Inv, IndexInv, KnownClosed
<1>3. softRejected'[Parent[c]] = softRejected[Parent[c]]
  BY <1>1, <1>2 DEF InsertHeader
<1>4. CASE c = b
  BY <1>1, <1>3, <1>4, Zenon DEF InsertHeader, SoftRejectedBecauseOfParent
<1>5. CASE c # b
  BY <1>1, <1>3, <1>5, Zenon DEF InsertHeader, SoftRejectInherited
<1> QED BY <1>4, <1>5

(* SetRootSoftRejectedForNL on a block that is not rejected for the sake   *)
(* of its parent, with a range that covers the blocks it counts.           *)
LEMMA SetSoftRejectedForInherited ==
  ASSUME Inv, SoftRejectInherited, NEW x \in known \ {Genesis}, ~SoftRejectedBecauseOfParent(x),
         NEW n \in Int, NEW m \in Int, Height(x) + n <= m,
         known' = known, SetSoftRejectedFor(x, n, m)
  PROVE  SoftRejectInherited'
<1> SUFFICES ASSUME NEW b \in known \ {Genesis}, softRejected'[Parent[b]] > 0
             PROVE  softRejected'[b] = softRejected'[Parent[b]] - 1
  BY Zenon DEF SoftRejectInherited
<1> DEFINE p == Parent[b]
<1>1. /\ known \subseteq Blocks /\ b \in NonGenesis /\ x \in NonGenesis /\ p \in Blocks
      /\ softRejected \in [Blocks -> Int]
  BY TreeAssumption, Zenon DEF Inv, IndexInv, IndexTypeOK, NonGenesis
<1>2. p \in known
  BY <1>1, ChainSelf, Zenon DEF Inv, IndexInv, KnownClosed
<1>3. /\ Height(b) = Height(p) + 1 /\ Height(p) \in Int /\ Height(b) \in Int /\ Height(x) \in Int
  BY <1>1, HeightChild, HeightNat, Zenon DEF NonGenesis
<1>4. b # x => (b \in Descendants(x) <=> p = x \/ p \in Descendants(x))
  BY <1>1, DescendantsChild, Zenon DEF NonGenesis
<1>5. p # b
  BY <1>1, ChainSelf, TreeAssumption, Zenon DEF NonGenesis
<1> DEFINE new(c) == IF c = x THEN n
                     ELSE IF c \in known \cap Descendants(x) /\ Height(c) <= m
                       THEN IF n - (Height(c) - Height(x)) >= 0
                            THEN n - (Height(c) - Height(x)) ELSE -1
                     ELSE softRejected[c]
<1>6. softRejected'[b] = new(b) /\ softRejected'[p] = new(p)
  BY <1>1, Zenon DEF SetSoftRejectedFor, NonGenesis
<1>7. softRejected[p] > 0 => softRejected[b] = softRejected[p] - 1
  BY Zenon DEF SoftRejectInherited
<1>8. CASE b = x
  <2>1. p \notin Descendants(x)
    BY <1>1, <1>8, TreeAssumption, Zenon DEF Descendants, NonGenesis
  <2> QED BY <1>1, <1>5, <1>6, <1>8, <2>1, Zenon DEF SoftRejectedBecauseOfParent
<1>9. CASE b # x /\ p = x
  <2>1. Height(x) + 1 = Height(b) /\ new(p) = n /\ n > 0
    BY <1>3, <1>6, <1>9, Zenon
  <2> QED BY <1>2, <1>3, <1>4, <1>6, <1>9, <2>1
<1>10. CASE b # x /\ p # x /\ p \in Descendants(x)
  <2>1. CASE Height(p) <= m
    <3>1. new(p) = n - (Height(p) - Height(x)) /\ new(p) > 0
      BY <1>2, <1>3, <1>6, <1>10, <2>1
    <3>2. Height(b) <= m /\ n - (Height(b) - Height(x)) = new(p) - 1
      BY <1>3, <3>1
    <3>3. new(b) = n - (Height(b) - Height(x))
      BY <1>3, <1>4, <1>10, <3>1, <3>2
    <3> QED BY <1>6, <3>2, <3>3, Zenon
  <2>2. CASE ~(Height(p) <= m)
    BY <1>3, <1>6, <1>7, <1>10, <2>2
  <2> QED BY <2>1, <2>2, Zenon
<1>11. CASE b # x /\ p # x /\ p \notin Descendants(x)
  BY <1>4, <1>6, <1>7, <1>11, Zenon
<1> QED BY <1>8, <1>9, <1>10, <1>11, Zenon

(* softrejectblock and acceptblock refuse a block that is rejected for the *)
(* sake of its parent.                                                     *)
LEMMA SoftRpcInherited ==
  ASSUME Inv, SoftRejectInherited, NEW t \in Threads, NEW x \in SoftRejectable,
         \/ \E n \in SoftRejectFor : SoftRejectBlock(t, x, n)
         \/ \E n \in SoftRejectFor \union {-1} : AcceptSoftRejectedBlock(t, x, n)
  PROVE  SoftRejectInherited'
<1>1. x \in known \ {Genesis} /\ known' = known /\ Height(x) \in Int /\ softRejected[x] \in Int
      /\ softRejected[Parent[x]] \in Int
  BY HeightNat, ChainAssumption, TreeAssumption, Zenon
     DEF SoftRejectBlock, AcceptSoftRejectedBlock, NonGenesis, Inv, IndexInv, IndexTypeOK
<1>2. SoftRejectedBecauseOfParent(x) => IsSoftRejected(x)
  BY <1>1 DEF SoftRejectInherited, SoftRejectedBecauseOfParent, IsSoftRejected
<1>3. ASSUME NEW n \in SoftRejectFor, SoftRejectBlock(t, x, n)
      PROVE  SoftRejectInherited'
  <2>1. n \in Int /\ ~SoftRejectedBecauseOfParent(x) /\ SetSoftRejectedFor(x, n, Height(x) + n)
    BY <1>2, <1>3, ChainAssumption DEF SoftRejectBlock
  <2> QED BY <1>1, <2>1, SetSoftRejectedForInherited
<1>4. ASSUME NEW n \in SoftRejectFor \union {-1}, AcceptSoftRejectedBlock(t, x, n)
      PROVE  SoftRejectInherited'
  <2>1. /\ n \in Int /\ ~SoftRejectedBecauseOfParent(x) /\ n < softRejected[x]
        /\ SetSoftRejectedFor(x, n, Height(x) + softRejected[x])
    BY <1>4, ChainAssumption DEF AcceptSoftRejectedBlock
  <2>2. Height(x) + n <= Height(x) + softRejected[x] /\ Height(x) + softRejected[x] \in Int
    BY <1>1, <2>1
  <2> QED BY <1>1, <2>1, <2>2, SetSoftRejectedForInherited, Zenon
<1> QED BY <1>3, <1>4, Zenon

(* Every other action leaves soft rejection alone or enters a header.      *)
LEMMA NextSoft == Inv /\ SoftRejectInherited /\ [Next]_vars => SoftRejectInherited'
<1> SUFFICES ASSUME Inv, SoftRejectInherited, [Next]_vars PROVE SoftRejectInherited'
  BY Zenon
<1>1. CASE UNCHANGED <<known, softRejected>>
  BY <1>1, Zenon DEF SoftRejectInherited
<1>2. ASSUME NEW b \in NonGenesis, AcceptBlockHeader(b)
      PROVE  SoftRejectInherited'
  BY <1>2, InsertHeaderSoft, Zenon DEF AcceptBlockHeader
<1>3. ASSUME NEW t \in Threads, Accept(t)
      PROVE  SoftRejectInherited'
  <2>1. /\ pc[t] = "accept"
        /\ AddToBlockIndex(pblock[t]) \/ UNCHANGED <<known, softRejected>>
    BY <1>3, Zenon DEF Accept, AcceptBlockRefused, AcceptBlockNotStored, AcceptBlockInvalid, AcceptBlock,
                indexVars
  <2>2. pblock[t] \in NonGenesis /\ Parent[pblock[t]] \in known
    BY <2>1, Zenon DEF Inv, ThreadInv, AcceptInv
  <2>3. CASE pblock[t] \notin known /\ InsertHeader(pblock[t])
    BY <2>2, <2>3, InsertHeaderSoft, Zenon
  <2> QED BY <1>1, <2>1, <2>3, Zenon DEF AddToBlockIndex
<1>4. ASSUME NEW t \in Threads, Rpc(t)
      PROVE  SoftRejectInherited'
  <2>1. CASE \E b \in SoftRejectable : \/ \E n \in SoftRejectFor : SoftRejectBlock(t, b, n)
                                       \/ \E n \in SoftRejectFor \union {-1} :
                                            AcceptSoftRejectedBlock(t, b, n)
    BY <2>1, SoftRpcInherited, Zenon
  <2>2. CASE \/ \E b \in Invalidatable : InvalidateBlock(t, b) \/ ReconsiderBlock(t, b)
             \/ \E b \in NonGenesis : PreciousBlock(t, b)
    BY <1>1, <2>2, Zenon DEF InvalidateBlock, ReconsiderBlock, PreciousBlock
  <2> QED BY <1>4, <2>1, <2>2, Zenon DEF Rpc
<1>5. ASSUME NEW t \in Threads, Activation(t)
      PROVE  UNCHANGED <<known, softRejected>>
  BY <1>5, Zenon DEF Activation, EnterLoop, NoCandidate, FindMostWorkInvalid, FindMostWorkMissing,
       FindMostWorkChain, GiveUp, StartStep, DisconnectTip, NothingToConnect, StartConnectTip,
       GetChecker, ObtainChecker, CheckScripts, ConnectTip, AttachmentCancelled,
       ValidationCancelled, ConnectTipFailed, indexVars
<1>6. (\E t \in Threads, b \in NonGenesis : ReceiveBlock(t, b)) \/ UNCHANGED vars
        \/ (\E S \in SUBSET (Prunable \cap haveData) : PruneBlockFiles(S))
      => UNCHANGED <<known, softRejected>>
  BY DEF ReceiveBlock, PruneBlockFiles, vars, indexVars
<1> QED BY <1>1, <1>2, <1>3, <1>4, <1>5, <1>6, Zenon DEF Next

(* Soft rejection always reaches exactly the descendants that              *)
(* softrejectblock counts, however headers, softrejectblock and            *)
(* acceptblock interleave.                                                 *)
THEOREM ChainSoftRejectInherited == Spec => []SoftRejectInherited
<1>1. Init => SoftRejectInherited
  BY TreeAssumption, Zenon DEF Init, IndexInit, SoftRejectInherited
<1> QED BY <1>1, NextSoft, ChainInvariance, PTL DEF Spec

-----------------------------------------------------------------------------
(* Links.  The blocks waiting for their ancestors are exactly the received *)
(* ones that can still be linked, as long as no RPC clears or sets failure *)
(* flags and no block data is pruned.                                      *)

NeitherInvalidatedNorPruned == Invalidatable = {} /\ Prunable = {}

(* A block that has an ancestor which failed and whose data never came: it *)
(* will not be accepted any more.                                          *)
Barred(b) == \E a \in Chain[b] : a \in Invalid \ haveData

LinkInv ==
  /\ haveData = {b \in Blocks : validity[b] >= TRANSACTIONS}
  /\ linked = {b \in Blocks : Chain[b] \subseteq haveData}
  /\ \A b \in haveData \ linked : b \in unlinked \/ Barred(b)
  /\ unlinked \subseteq haveData \ linked
  /\ \A b \in Invalid \ linked : Barred(b)
  /\ FailureHasSource
  /\ candidates \subseteq linked
  /\ \A t \in Threads : mostWork[t] \in linked \union {None}

(* A step that links nothing and marks the blocks of F.                    *)
LEMMA LinkMarks ==
  ASSUME LinkInv, NEW F, Invalid' = Invalid \union F, failed \subseteq failed',
         UNCHANGED <<haveData, linked, unlinked>>,
         haveData = {b \in Blocks : validity'[b] >= TRANSACTIONS},
         \A b \in F \ linked : \E a \in Chain[b] : a \in (Invalid \union F) \ haveData,
         \A b \in F : Chain[b] \cap failed' # {},
         candidates' \subseteq linked,
         \A t \in Threads : mostWork'[t] \in linked \union {None, mostWork[t]}
  PROVE  LinkInv'
<1>1. \A b : Barred(b) => Barred(b)'
  BY Zenon DEF Barred
<1>2. \A b \in Invalid' \ linked' : Barred(b)'
  BY <1>1, Zenon DEF LinkInv, Barred
<1>3. FailureHasSource'
  <2> SUFFICES ASSUME NEW b \in Invalid' PROVE Chain[b] \cap failed' # {}
    BY Zenon DEF FailureHasSource
  <2>1. CASE b \in F
    BY <2>1, Zenon
  <2>2. CASE b \in Invalid
    <3>1. FailureHasSource
      BY Zenon DEF LinkInv
    <3>2. Chain[b] \cap failed # {}
      BY <2>2, <3>1, Zenon DEF FailureHasSource
    <3> QED BY <3>2
  <2> QED BY <2>1, <2>2, Zenon
<1>4. \A t \in Threads : mostWork'[t] \in linked' \union {None}
  BY Zenon DEF LinkInv
<1> QED BY <1>1, <1>2, <1>3, <1>4, Zenon DEF LinkInv

(* A step that neither links nor marks anything.                           *)
LEMMA LinkSame ==
  ASSUME LinkInv, UNCHANGED <<failed, failedParent, validity, haveData, linked, unlinked>>,
         candidates' \subseteq linked,
         \A t \in Threads : mostWork'[t] \in linked \union {None, mostWork[t]}
  PROVE  LinkInv'
<1>1. Invalid' = Invalid \union {} /\ failed \subseteq failed'
  BY Zenon DEF Invalid
<1>2. haveData = {b \in Blocks : validity'[b] >= TRANSACTIONS}
  BY DEF LinkInv
<1> QED BY <1>1, <1>2, LinkMarks, Zenon

(* The ancestors of a linked block are linked.                             *)
LEMMA LinkedClosed ==
  ASSUME LinkInv, NEW b \in linked
  PROVE  b \in Blocks /\ Chain[b] \subseteq linked /\ Chain[b] \subseteq haveData
BY ChainTransitive, TreeAssumption, Zenon DEF LinkInv

(* The block in validation is linked.                                      *)
LEMMA ConnectingLinked ==
  ASSUME Inv, LinkInv, NEW t \in Validating
  PROVE  connecting[t] \in linked /\ connecting[t] \in haveData /\ connecting[t] \in Blocks
<1>1. t \in Threads /\ mostWork[t] \in linked \union {None}
  BY Zenon DEF Validating, LinkInv
<1>2. mostWork[t] \in linked
  BY <1>1, Zenon DEF Inv, ThreadInv, StepInv
<1>3. connecting[t] \in Chain[mostWork[t]]
  BY <1>1, Zenon DEF Inv, ThreadInv, StepInv
<1> QED BY <1>2, <1>3, LinkedClosed, TreeAssumption, Zenon

(* The best candidate is linked, so it has no obstacle but invalid blocks. *)
LEMMA BestCandidateLinked ==
  ASSUME Inv, LinkInv, Selectable # {}
  PROVE  /\ BestCandidate \in Selectable /\ BestCandidate \in linked
         /\ Obstacles(BestCandidate) # {} =>
              /\ TopObstacle(BestCandidate) \in Obstacles(BestCandidate)
              /\ TopObstacle(BestCandidate) \in Invalid \cap linked
<1> DEFINE best == BestCandidate
<1>1. best \in Selectable /\ best \in linked
  BY BestCandidateType, Zenon DEF Inv, IndexInv, ChainTypeOK, Selectable, LinkInv
<1> HIDE DEF best
<1>2. best \in Blocks /\ Chain[best] \subseteq linked /\ Chain[best] \subseteq haveData
  BY <1>1, LinkedClosed, Zenon
<1>3. Obstacles(best) # {} => TopObstacle(best) \in Obstacles(best)
  BY <1>2, TopObstacleType, Zenon
<1>4. Obstacles(best) \subseteq Invalid \cap linked
  BY <1>2, Zenon DEF Obstacles
<1>5. Obstacles(best) # {} => /\ TopObstacle(best) \in Obstacles(best)
                              /\ TopObstacle(best) \in Invalid \cap linked
  BY <1>3, <1>4, Zenon
<1> QED BY <1>1, <1>5, Zenon DEF best

(* The known descendants of an invalid linked block that are not linked    *)
(* have an ancestor among them without data.                               *)
LEMMA DescendantsBarred ==
  ASSUME Inv, LinkInv, NEW top \in linked, NEW d \in known \cap Descendants(top), d \notin linked
  PROVE  \E a \in Chain[d] : a \in (known \cap Descendants(top)) \ haveData
<1> DEFINE S == {y \in Chain[d] : top \in Chain[y] /\ y \notin linked}
<1>1. d \in Blocks /\ Chain[d] \subseteq Blocks /\ top \in Chain[d] /\ Chain[d] \subseteq known
  BY TreeAssumption, Zenon DEF Descendants, Inv, IndexInv, KnownClosed
<1>2. d \in S /\ S \in SUBSET Blocks
  BY <1>1, ChainSelf, Zenon
<1>3. PICK y \in S : y = Genesis \/ Parent[y] \notin S
  <2> HIDE DEF S
  <2> QED BY <1>2, TreeLeast, Zenon
<1>4. y \in Blocks /\ y # top /\ y # Genesis
  BY <1>2, TreeAssumption, Zenon
<1>5. Parent[y] \in Blocks /\ Chain[y] = Chain[Parent[y]] \union {y} /\ Parent[y] \in Chain[y]
  BY <1>4, ChainSelf, TreeAssumption, Zenon
<1>6. Parent[y] \in Chain[d] /\ top \in Chain[Parent[y]]
  BY <1>1, <1>4, <1>5, ChainTransitive, Zenon
<1>7. Parent[y] \in linked
  BY <1>3, <1>4, <1>6, Zenon
<1>8. y \notin haveData
  BY <1>4, <1>5, <1>7 DEF LinkInv
<1> QED BY <1>1, <1>4, <1>8, Zenon DEF Descendants

(* FindMostWorkChain marks the descendants of an invalid block.            *)
LEMMA FindMostWorkLink ==
  ASSUME Inv, LinkInv, NEW t \in Threads, FindMostWorkInvalid(t) \/ FindMostWorkMissing(t)
  PROVE  LinkInv' /\ FindMostWorkInvalid(t)
<1> DEFINE top == TopObstacle(BestCandidate)
           F == InvalidateChain(top)
<1>1. top \in Invalid \cap linked
  BY BestCandidateLinked, Zenon DEF FindMostWorkInvalid, FindMostWorkMissing
<1>2. FindMostWorkInvalid(t)
  BY <1>1, Zenon DEF FindMostWorkMissing
<1>3. /\ failedParent' = failedParent \union F /\ candidates' \subseteq candidates
      /\ UNCHANGED <<failed, validity, haveData, linked, unlinked, mostWork>>
  BY <1>2, Zenon DEF FindMostWorkInvalid, callVars
<1> HIDE DEF top
<1>4. Invalid' = Invalid \union F /\ failed \subseteq failed'
  BY <1>3, Zenon DEF Invalid
<1>5. \A b \in F \ linked : \E a \in Chain[b] : a \in (Invalid \union F) \ haveData
  BY <1>1, DescendantsBarred, Zenon DEF InvalidateChain
<1>6. \A b \in F : Chain[b] \cap failed' # {}
  <2> TAKE b \in F
  <2>1. b \in Blocks /\ top \in Chain[b]
    BY Zenon DEF InvalidateChain, Descendants
  <2>2. Chain[top] \cap failed # {}
    BY <1>1, Zenon DEF LinkInv, FailureHasSource
  <2> QED BY <1>3, <2>1, <2>2, ChainTransitive, Zenon
<1>7. haveData = {b \in Blocks : validity'[b] >= TRANSACTIONS} /\ candidates' \subseteq linked
  BY <1>3, Zenon DEF LinkInv
<1> HIDE DEF F
<1>8. LinkInv'
  BY <1>3, <1>4, <1>5, <1>6, <1>7, LinkMarks, Zenon
<1> QED BY <1>2, <1>8, Zenon

(* The ends of ConnectTip.                                                 *)
LEMMA ConnectTipLink ==
  ASSUME Inv, LinkInv, NEW t \in Threads,
         ConnectTip(t) \/ AttachmentCancelled(t) \/ ValidationCancelled(t) \/ ConnectTipFailed(t)
  PROVE  LinkInv'
<1> DEFINE c == connecting[t]
           F == IF ConnectTipFailed(t) THEN InvalidBlockFound(t) ELSE {}
<1>1. t \in Validating
  BY Zenon DEF ConnectTip, AttachmentCancelled, ValidationCancelled, ConnectTipFailed, Relock,
               Validating
<1>2. c \in linked /\ c \in haveData /\ c \in Blocks
  BY <1>1, ConnectingLinked, Zenon
<1>3. /\ candidates' \subseteq candidates \union {c}
      /\ UNCHANGED <<haveData, linked, unlinked>>
      /\ validity' = validity \/ WriteUndoToDisk(c)
      /\ failed' = failed \union F /\ failedParent' = failedParent
      /\ F \subseteq {c}
  <2>1. CASE ConnectTipFailed(t)
    BY <2>1, Zenon DEF ConnectTipFailed, InvalidBlockFound
  <2>2. CASE ~ConnectTipFailed(t)
    <3>1. F = {}
      BY <2>2, Zenon
    <3>2. /\ candidates' \subseteq candidates \union {c}
          /\ UNCHANGED <<haveData, linked, unlinked, failed, failedParent>>
          /\ validity' = validity \/ WriteUndoToDisk(c)
      BY <2>2, Zenon DEF ConnectTip, AttachmentCancelled, ValidationCancelled,
                         PruneBlockIndexCandidates, indexVars
    <3> HIDE DEF F
    <3> QED BY <3>1, <3>2, Zenon
  <2> QED BY <2>1, <2>2, Zenon
<1>4. \A u \in Threads : mostWork'[u] \in linked \union {None, mostWork[u]}
  <2>1. mostWork \in [Threads -> known \union {None}]
    BY DEF Inv, ThreadTypeOK
  <2>2. \/ \E w \in {None, mostWork[t]} : mostWork' = [mostWork EXCEPT ![t] = w]
        \/ mostWork' = mostWork
    BY Zenon DEF ConnectTip, AttachmentCancelled, ValidationCancelled, ConnectTipFailed, EndStep,
                 callVars
  <2> QED BY <2>1, <2>2, Zenon
<1> HIDE DEF F
<1>5. Invalid' = Invalid \union F /\ failed \subseteq failed'
  BY <1>3, Zenon DEF Invalid
<1>6. haveData = {b \in Blocks : validity'[b] >= TRANSACTIONS}
  <2>1. haveData = {b \in Blocks : validity[b] >= TRANSACTIONS}
    BY Zenon DEF LinkInv
  <2>2. CASE validity' = validity
    BY <2>1, <2>2, Zenon
  <2>3. CASE WriteUndoToDisk(c)
    <3>1. /\ validity[c] >= TRANSACTIONS /\ validity \in [Blocks -> {TREE, TRANSACTIONS, SCRIPTS}]
      BY <1>2, <2>1, Zenon DEF Inv, IndexInv, IndexTypeOK
    <3>2. validity' = [validity EXCEPT ![c] = SCRIPTS] \/ validity' = validity
      BY <2>3, <3>1, Zenon DEF WriteUndoToDisk
    <3>3. CASE validity' = [validity EXCEPT ![c] = SCRIPTS]
      <4>1. \A b \in Blocks \ {c} : validity'[b] = validity[b]
        BY <3>1, <3>3, Zenon
      <4>2. validity'[c] >= TRANSACTIONS
        BY <1>2, <3>1, <3>3 DEF TRANSACTIONS, SCRIPTS
      <4> HIDE DEF c
      <4> QED BY <1>2, <2>1, <3>1, <4>1, <4>2, Zenon
    <3> QED BY <2>2, <3>2, <3>3, Zenon
  <2> QED BY <1>3, <2>2, <2>3, Zenon
<1>7. /\ \A b \in F \ linked : \E a \in Chain[b] : a \in (Invalid \union F) \ haveData
      /\ \A b \in F : Chain[b] \cap failed' # {}
      /\ candidates' \subseteq linked
  BY <1>2, <1>3, ChainSelf DEF LinkInv
<1> QED BY <1>3, <1>4, <1>5, <1>6, <1>7, LinkMarks, Zenon

(* A block that is rejected by AcceptBlock bars its descendants.           *)
LEMMA AcceptBlockInvalidLink ==
  ASSUME Inv, LinkInv, NEW t \in Threads, NEW requested, AcceptBlockInvalid(t, requested)
  PROVE  LinkInv'
<1> DEFINE b == pblock[t]
           F == {b} \union IF b \in BadContext THEN {} ELSE InvalidateChain(b)
<1>1. b \in Blocks /\ b \notin haveData /\ b \in Chain[b]
  BY ChainSelf, Zenon DEF AcceptBlockInvalid, NotStored, Inv, ThreadInv, AcceptInv, NonGenesis
<1>2. /\ failed' = failed \union {b} /\ Invalid' = Invalid \union F
      /\ candidates' \subseteq candidates
      /\ UNCHANGED <<validity, haveData, linked, unlinked, mostWork>>
  BY Zenon DEF AcceptBlockInvalid, Invalid
<1>3. \A d \in F : b \in Chain[d]
  BY <1>1, Zenon DEF InvalidateChain, Descendants
<1>4. b \in F /\ candidates' \subseteq linked
      /\ haveData = {d \in Blocks : validity'[d] >= TRANSACTIONS}
  BY <1>2, Zenon DEF LinkInv
<1> HIDE DEF b, F
<1>5. /\ \A d \in F \ linked : \E a \in Chain[d] : a \in (Invalid \union F) \ haveData
      /\ \A d \in F : Chain[d] \cap failed' # {}
  BY <1>1, <1>2, <1>3, <1>4, Zenon
<1> QED BY <1>2, <1>4, <1>5, LinkMarks, Zenon

(* A block whose parent is linked links all the blocks that waited for it, *)
(* and no other block becomes complete.                                    *)
LEMMA LinkedWithExact ==
  ASSUME Inv, LinkInv, NEW b \in NonGenesis, b \notin Invalid, b \notin haveData,
         Parent[b] \in linked
  PROVE  /\ linked \union LinkedWith(b) = {c \in Blocks : Chain[c] \subseteq haveData \union {b}}
         /\ LinkedWith(b) \cap Invalid = {} /\ LinkedWith(b) \cap linked = {}
<1>1. /\ b \in Blocks /\ Parent[b] \in Blocks /\ Chain[b] = Chain[Parent[b]] \union {b}
      /\ b \in Chain[b] /\ b \notin linked /\ unlinked \subseteq Blocks
  BY TreeAssumption, ChainSelf, Zenon DEF NonGenesis, LinkInv
<1>2. Chain[b] \subseteq haveData \union {b}
  BY <1>1, LinkedClosed, Zenon
<1>3. ASSUME NEW c \in LinkedWith(b)
      PROVE  c \in Blocks /\ Chain[c] \subseteq haveData \union {b} /\ b \in Chain[c]
  BY <1>1, <1>2, Zenon DEF LinkedWith, LinkInv
<1>4. ASSUME NEW c \in Blocks, Chain[c] \subseteq haveData \union {b}, c \notin linked
      PROVE  c \in LinkedWith(b)
  <2>1. b \in Chain[c] /\ Chain[c] \subseteq Blocks /\ c \in Chain[c]
    BY <1>4, ChainSelf, TreeAssumption DEF LinkInv
  <2>2. ASSUME NEW d \in Chain[c], d \notin Chain[b]
        PROVE  d \in unlinked
    <3>1. d \in Blocks /\ d # b /\ d \in haveData
      BY <1>1, <1>4, <2>1, <2>2, Zenon
    <3>2. b \in Chain[d]
      BY <2>1, <2>2, ChainLinear, Zenon
    <3>3. d \notin linked
      BY <1>1, <3>2, LinkedClosed, Zenon
    <3>4. ~Barred(d)
      <4>1. Chain[d] \subseteq haveData \union {b}
        BY <1>4, ChainTransitive, Zenon
      <4> QED BY <4>1, Zenon DEF Barred
    <3> QED BY <3>1, <3>3, <3>4, Zenon DEF LinkInv
  <2>3. CASE c = b
    BY <2>3, Zenon DEF LinkedWith
  <2>4. CASE c # b
    <3>1. c \notin Chain[b]
      <4>1. c \in Chain[b] => c \in Chain[Parent[b]]
        BY <1>1, <2>4, Zenon
      <4> QED BY <1>1, <1>4, <4>1, LinkedClosed, Zenon
    <3> QED BY <2>1, <2>2, <3>1, Zenon DEF LinkedWith
  <2> QED BY <2>3, <2>4, Zenon
<1>5. ASSUME NEW c \in linked
      PROVE  c \in Blocks /\ Chain[c] \subseteq haveData
  BY LinkedClosed, Zenon
<1>6. ASSUME NEW c \in LinkedWith(b)
      PROVE  c \notin linked /\ c \notin Invalid
  <2>1. c \notin linked
    BY <1>1, <1>3, <1>5, Zenon
  <2>2. ~Barred(c)
    BY <1>3, Zenon DEF Barred
  <2> QED BY <2>1, <2>2, Zenon DEF LinkInv
<1>7. linked \union LinkedWith(b) = {c \in Blocks : Chain[c] \subseteq haveData \union {b}}
  BY <1>3, <1>4, <1>5, Zenon
<1> QED BY <1>6, <1>7, Zenon

(* A stored block whose parent is not linked completes no chain.           *)
LEMMA StoredUnlinked ==
  ASSUME LinkInv, NEW b \in NonGenesis, b \notin haveData, Parent[b] \notin linked
  PROVE  linked = {c \in Blocks : Chain[c] \subseteq haveData \union {b}} /\ b \notin linked
<1>1. /\ b \in Blocks /\ Parent[b] \in Blocks /\ Chain[b] = Chain[Parent[b]] \union {b}
      /\ b \in Chain[b] /\ b \notin Chain[Parent[b]] /\ b \notin linked
  BY TreeAssumption, ChainSelf, Zenon DEF NonGenesis, LinkInv
<1>2. ASSUME NEW c \in Blocks, Chain[c] \subseteq haveData \union {b}
      PROVE  b \notin Chain[c]
  <2>1. SUFFICES ASSUME b \in Chain[c] PROVE FALSE
    BY Zenon
  <2>2. Chain[Parent[b]] \subseteq haveData
    BY <1>1, <1>2, <2>1, ChainTransitive, Zenon
  <2> QED BY <1>1, <2>2, Zenon DEF LinkInv
<1> QED BY <1>1, <1>2 DEF LinkInv

(* Storing a block keeps the links right.                                  *)
LEMMA AcceptBlockLink ==
  ASSUME Inv, LinkInv, NEW t \in Threads, NEW requested, AcceptBlock(t, requested)
  PROVE  LinkInv' /\ linked \subseteq linked' /\ (linked' \ linked) \cap Invalid = {}
<1> PICK b : b = pblock[t]
  BY Zenon
<1>1. b \in NonGenesis /\ b \in Blocks /\ b \notin haveData /\ b \notin Invalid /\ b \in Chain[b]
  BY ChainSelf, Zenon DEF AcceptBlock, NotStored, HeaderRefused, Inv, ThreadInv, AcceptInv, NonGenesis
<1>2. /\ UNCHANGED <<failed, failedParent, mostWork>>
      /\ SetDiskBlockData(b) /\ ReceivedBlockTransactions(b)
  BY DEF AcceptBlock, ReceivedBlockTransactions, StartActivation
<1>3. haveData' = haveData \union {b} /\ Invalid' = Invalid
  BY <1>2, Zenon DEF SetDiskBlockData, Invalid
<1>4. haveData' = {c \in Blocks : validity'[c] >= TRANSACTIONS}
  <2>1. validity \in [Blocks -> {TREE, TRANSACTIONS, SCRIPTS}]
    BY Zenon DEF Inv, IndexInv, IndexTypeOK
  <2>2. ~(validity[b] >= TRANSACTIONS)
    BY <1>1 DEF LinkInv
  <2>3. validity' = [validity EXCEPT ![b] = TRANSACTIONS]
    BY <1>1, <1>2, <2>2, Zenon DEF SetDiskBlockData
  <2>4. \A c \in Blocks \ {b} : validity'[c] = validity[c]
    BY <2>1, <2>3, Zenon
  <2>5. validity'[b] >= TRANSACTIONS
    BY <1>1, <2>1, <2>3 DEF TRANSACTIONS
  <2>6. \A c \in Blocks \ {b} : c \in haveData' <=> validity'[c] >= TRANSACTIONS
    BY <1>3, <2>4, Zenon DEF LinkInv
  <2>7. haveData' \subseteq Blocks /\ b \in haveData'
    BY <1>1, <1>3, Zenon DEF LinkInv
  <2> QED BY <2>5, <2>6, <2>7, Zenon
<1>5. \A c : Barred(c) => Barred(c)'
  BY <1>1, <1>3, Zenon DEF Barred
<1>6. CASE /\ Parent[b] \in linked
           /\ linked' = linked \union LinkedWith(b)
           /\ candidates' = candidates \union
                {c \in LinkedWith(b) : ~WorkLess(c, tip, valTime, seqId')}
           /\ unlinked' = unlinked \ LinkedWith(b)
  <2>1. /\ linked' = {c \in Blocks : Chain[c] \subseteq haveData'}
        /\ LinkedWith(b) \cap Invalid = {} /\ LinkedWith(b) \cap linked = {}
    BY <1>1, <1>3, <1>6, LinkedWithExact, Zenon
  <2>2. b \in LinkedWith(b)
    BY Zenon DEF LinkedWith
  <2>3. \A c \in haveData' \ linked' : c \in unlinked' \/ Barred(c)'
    BY <1>3, <1>5, <1>6, <2>2, Zenon DEF LinkInv
  <2>4. unlinked' \subseteq haveData' \ linked'
    BY <1>3, <1>6, Zenon DEF LinkInv
  <2>5. \A c \in Invalid' \ linked' : Barred(c)'
    BY <1>3, <1>5, <1>6, Zenon DEF LinkInv
  <2>6. FailureHasSource' /\ candidates' \subseteq linked'
        /\ \A u \in Threads : mostWork'[u] \in linked' \union {None}
    BY <1>2, <1>3, <1>6, Zenon DEF LinkInv, FailureHasSource
  <2>7. LinkInv'
    BY <1>4, <2>1, <2>3, <2>4, <2>5, <2>6, Zenon DEF LinkInv
  <2> QED BY <1>6, <2>1, <2>7, Zenon
<1>7. CASE /\ Parent[b] \notin linked
           /\ linked' = linked \ {b}
           /\ unlinked' = IF Parent[b] \in Invalid THEN unlinked ELSE unlinked \union {b}
           /\ UNCHANGED <<seqId, nextSeqId, candidates>>
  <2>1. linked' = {c \in Blocks : Chain[c] \subseteq haveData'} /\ linked' = linked /\ b \notin linked
    BY <1>1, <1>3, <1>7, StoredUnlinked
  <2>2. \A c \in haveData' \ linked' : c \in unlinked' \/ Barred(c)'
    <3>1. Parent[b] \in Invalid => Barred(b)'
      <4>1. Chain[Parent[b]] \subseteq Chain[b]
        BY <1>1, TreeAssumption DEF NonGenesis
      <4>2. Parent[b] \in Invalid => Barred(Parent[b])'
        BY <1>5, <1>7, Zenon DEF LinkInv
      <4> QED BY <4>1, <4>2, Zenon DEF Barred
    <3> QED BY <1>3, <1>5, <1>7, <2>1, <3>1 DEF LinkInv
  <2>3. unlinked' \subseteq haveData' \ linked'
    BY <1>3, <1>7, <2>1, Zenon DEF LinkInv
  <2>4. \A c \in Invalid' \ linked' : Barred(c)'
    BY <1>3, <1>5, <2>1, Zenon DEF LinkInv
  <2>5. FailureHasSource' /\ candidates' \subseteq linked'
        /\ \A u \in Threads : mostWork'[u] \in linked' \union {None}
    BY <1>2, <1>3, <1>7, <2>1, Zenon DEF LinkInv, FailureHasSource
  <2>6. LinkInv'
    BY <1>4, <2>1, <2>2, <2>3, <2>4, <2>5, Zenon DEF LinkInv
  <2> QED BY <2>1, <2>6, Zenon
<1> QED BY <1>2, <1>6, <1>7, Zenon DEF ReceivedBlockTransactions

(* The activation steps that mark and link nothing.                        *)
LEMMA ActivationLink ==
  ASSUME Inv, LinkInv, NEW t \in Threads, Activation(t)
  PROVE  LinkInv'
<1>1. mostWork \in [Threads -> known \union {None}]
  BY Zenon DEF Inv, ThreadTypeOK
<1>2. candidates \subseteq linked
  BY Zenon DEF LinkInv
<1>3. CASE ConnectTip(t) \/ AttachmentCancelled(t) \/ ValidationCancelled(t) \/ ConnectTipFailed(t)
  BY <1>3, ConnectTipLink, Zenon
<1>4. CASE FindMostWorkInvalid(t) \/ FindMostWorkMissing(t)
  BY <1>4, FindMostWorkLink, Zenon
<1>5. CASE \/ EnterLoop(t) \/ StartStep(t) \/ DisconnectTip(t) \/ StartConnectTip(t) \/ GetChecker(t)
           \/ ObtainChecker(t) \/ CheckScripts(t)
  <2>1. UNCHANGED <<failed, failedParent, validity, haveData, linked, unlinked, candidates, mostWork>>
    BY <1>5, Zenon DEF EnterLoop, StartStep, DisconnectTip, StartConnectTip, GetChecker, ObtainChecker,
                       CheckScripts, indexVars, chainVars, callVars
  <2> QED BY <1>2, <2>1, LinkSame, Zenon
<1>6. CASE NoCandidate(t) \/ GiveUp(t) \/ NothingToConnect(t)
  <2>1. /\ UNCHANGED <<failed, failedParent, validity, haveData, linked, unlinked, candidates>>
        /\ mostWork' = [mostWork EXCEPT ![t] = None]
    BY <1>6, Zenon DEF NoCandidate, GiveUp, NothingToConnect, LeaveActivation, EndStep, indexVars,
                       chainVars
  <2>2. \A u \in Threads : mostWork'[u] \in linked \union {None, mostWork[u]}
    BY <1>1, <2>1, Zenon
  <2> QED BY <1>2, <2>1, <2>2, LinkSame, Zenon
<1>7. CASE FindMostWorkChain(t)
  <2> DEFINE most == ConsiderBlockForMostWorkChain(BestCandidate, pblock[t])
  <2>1. /\ UNCHANGED <<failed, failedParent, validity, haveData, linked, unlinked, candidates>>
        /\ Selectable # {}
        /\ \E w \in {None, most} : mostWork' = [mostWork EXCEPT ![t] = w]
    BY <1>7, Zenon DEF FindMostWorkChain, LeaveActivation, indexVars, chainVars
  <2>2. most \in linked
    <3>1. BestCandidate \in linked
      BY <2>1, BestCandidateLinked, Zenon
    <3> QED BY <3>1, Zenon DEF ConsiderBlockForMostWorkChain
  <2> HIDE DEF most
  <2>3. \A u \in Threads : mostWork'[u] \in linked \union {None, mostWork[u]}
    BY <1>1, <2>1, <2>2, Zenon
  <2> QED BY <1>2, <2>1, <2>3, LinkSame, Zenon
<1> QED BY <1>3, <1>4, <1>5, <1>6, <1>7, Zenon DEF Activation

(* Every step keeps the links right.                                       *)
LEMMA NextLink ==
  ASSUME NeitherInvalidatedNorPruned, Inv, LinkInv, [Next]_vars
  PROVE  LinkInv'
<1>1. candidates \subseteq linked
  BY Zenon DEF LinkInv
<1>2. CASE \/ \E b \in NonGenesis : AcceptBlockHeader(b)
           \/ \E t \in Threads, b \in NonGenesis : ReceiveBlock(t, b)
           \/ UNCHANGED vars
           \/ \E S \in SUBSET (Prunable \cap haveData) : PruneBlockFiles(S)
  <2>1. UNCHANGED <<failed, failedParent, validity, haveData, linked, unlinked, candidates, mostWork>>
    <3>1. ASSUME NEW S \in SUBSET (Prunable \cap haveData), PruneBlockFiles(S)
          PROVE  UNCHANGED <<failed, failedParent, validity, haveData, linked, unlinked, candidates,
                             mostWork>>
      <4>1. S = {}
        BY Zenon DEF NeitherInvalidatedNorPruned
      <4> QED BY <3>1, <4>1, Zenon DEF PruneBlockFiles, callVars
    <3> QED BY <1>2, <3>1, Zenon DEF AcceptBlockHeader, ReceiveBlock, vars, indexVars, chainVars,
                                     callVars
  <2> QED BY <1>1, <2>1, LinkSame, Zenon
<1>3. ASSUME NEW t \in Threads, Accept(t)
      PROVE  LinkInv'
  <2>1. ASSUME NEW r \in BOOLEAN, AcceptBlockNotStored(t, r) \/ AcceptBlockRefused(t)
        PROVE  LinkInv'
    <3>1. UNCHANGED <<failed, failedParent, validity, haveData, linked, unlinked, candidates, mostWork>>
      BY <2>1, Zenon DEF AcceptBlockNotStored, AcceptBlockRefused, StartActivation, indexVars, chainVars
    <3> QED BY <1>1, <3>1, LinkSame, Zenon
  <2> QED BY <1>3, <2>1, AcceptBlockInvalidLink, AcceptBlockLink, Zenon DEF Accept
<1>4. ASSUME NEW t \in Threads, Rpc(t)
      PROVE  LinkInv'
  <2>1. /\ UNCHANGED <<failed, failedParent, validity, haveData, linked, unlinked, mostWork>>
        /\ candidates' \subseteq linked
    <3>1. ASSUME NEW b, NEW n, SoftRejectBlock(t, b, n) \/ AcceptSoftRejectedBlock(t, b, n)
          PROVE  /\ UNCHANGED <<failed, failedParent, validity, haveData, linked, unlinked, mostWork>>
                 /\ candidates' \subseteq linked
      BY <1>1, <3>1, Zenon DEF SoftRejectBlock, AcceptSoftRejectedBlock, StartActivation, NotWorseThan,
                               chainVars, callVars
    <3>2. ASSUME NEW b, PreciousBlock(t, b)
          PROVE  /\ UNCHANGED <<failed, failedParent, validity, haveData, linked, unlinked, mostWork>>
                 /\ candidates' \subseteq linked
      BY <1>1, <3>2, Zenon DEF PreciousBlock, StartActivation, PruneBlockIndexCandidates
    <3> QED BY <1>4, <3>1, <3>2, Zenon DEF Rpc, NeitherInvalidatedNorPruned
  <2> QED BY <2>1, LinkSame, Zenon
<1>5. ASSUME NEW t \in Threads, Activation(t)
      PROVE  LinkInv'
  BY <1>5, ActivationLink, Zenon
<1> QED BY <1>2, <1>3, <1>4, <1>5, Zenon DEF Next

(* A node starts with the genesis block linked.                            *)
LEMMA InitLink == Init => LinkInv
BY TreeAssumption, ChainSelf, ChainAssumption
   DEF Init, IndexInit, LinkInv, FailureHasSource, Invalid, Barred, TREE, TRANSACTIONS, NonGenesis

(* The invariant behind nChainTx and mapBlocksUnlinked.                    *)
THEOREM LinkInvariance ==
  ASSUME NeitherInvalidatedNorPruned
  PROVE  Spec => []LinkInv
<1>1. Inv /\ LinkInv /\ [Next]_vars => LinkInv'
  BY NextLink
<1> QED BY <1>1, InitLink, ChainInvariance, PTL DEF Spec

(* nChainTx is set for exactly the blocks all of whose chain was received, *)
(* in whatever order headers and blocks arrive and whichever of them fail. *)
THEOREM ChainLinkedIffReceived ==
  ASSUME NeitherInvalidatedNorPruned
  PROVE  Spec => []LinkedIffReceived
<1>1. Inv /\ LinkInv => LinkedIffReceived
  BY ChainSelf, TreeAssumption, Zenon DEF Inv, IndexInv, IndexTypeOK, LinkInv, LinkedIffReceived
<1> QED BY <1>1, LinkInvariance, ChainInvariance, PTL

(* mapBlocksUnlinked holds exactly the received blocks that still wait for *)
(* an ancestor, unless one failed.                                         *)
THEOREM ChainUnlinkedExact ==
  ASSUME NeitherInvalidatedNorPruned
  PROVE  Spec => []UnlinkedExact
<1>1. LinkInv => UnlinkedExact
  <2> SUFFICES ASSUME LinkInv PROVE UnlinkedExact
    BY Zenon
  <2>1. ASSUME NEW b \in haveData \ linked, Chain[b] \cap failed = {}
        PROVE  b \in unlinked
    <3>1. SUFFICES ASSUME Barred(b) PROVE FALSE
      BY Zenon DEF LinkInv
    <3>2. PICK a \in Chain[b] : a \in Invalid
      BY <3>1, Zenon DEF Barred
    <3>3. b \in Blocks /\ Chain[a] \subseteq Chain[b]
      BY <3>2, ChainTransitive, Zenon DEF LinkInv
    <3> QED BY <2>1, <3>2, <3>3, Zenon DEF LinkInv, FailureHasSource
  <2>2. \A b \in unlinked : b \in haveData /\ ~(Chain[b] \subseteq haveData)
    BY Zenon DEF LinkInv
  <2> QED BY <2>1, <2>2, Zenon DEF UnlinkedExact
<1> QED BY <1>1, LinkInvariance, PTL

-----------------------------------------------------------------------------
(* The rank of a block.                                                    *)

(* CBlockIndexWorkComparator orders the blocks linearly.                   *)
LEMMA WorkOrder ==
  ASSUME NEW vt, NEW sq, \A b \in Blocks : vt[b] \in Int /\ sq[b] \in Int
  PROVE  /\ \A a \in Blocks : ~WorkLess(a, a, vt, sq)
         /\ \A a, b \in Blocks : WorkLess(a, b, vt, sq) => ~WorkLess(b, a, vt, sq)
         /\ \A a, b \in Blocks : WorkLess(a, b, vt, sq) \/ WorkLess(b, a, vt, sq) \/ a = b
         /\ \A a, b, c \in Blocks :
              ~WorkLess(a, b, vt, sq) /\ ~WorkLess(b, c, vt, sq) => ~WorkLess(a, c, vt, sq)
<1>1. \A b \in Blocks : Work[b] \in Int /\ Addr[b] \in Int
  BY WorkAssumption
<1>2. \A a \in Blocks : ~WorkLess(a, a, vt, sq)
  BY <1>1 DEF WorkLess
<1>3. \A a, b \in Blocks : WorkLess(a, b, vt, sq) => ~WorkLess(b, a, vt, sq)
  BY <1>1 DEF WorkLess
<1>4. \A a, b \in Blocks : WorkLess(a, b, vt, sq) \/ WorkLess(b, a, vt, sq) \/ a = b
  BY <1>1, WorkAssumption DEF WorkLess
<1>5. \A a, b, c \in Blocks :
        ~WorkLess(a, b, vt, sq) /\ ~WorkLess(b, c, vt, sq) => ~WorkLess(a, c, vt, sq)
  BY <1>1 DEF WorkLess
<1> QED BY <1>2, <1>3, <1>4, <1>5, Zenon

(* The ranks are numbers.                                                  *)
LEMMA RankType ==
  ASSUME IndexTypeOK
  PROVE  \A b \in Blocks : valTime[b] \in Int /\ seqId[b] \in Int
<1>1. MinTime .. MaxTime \subseteq Int
  OBVIOUS
<1> QED BY <1>1, Zenon DEF IndexTypeOK

LEMMA NextRankType ==
  ASSUME IndexTypeOK'
  PROVE  \A b \in Blocks : valTime'[b] \in Int /\ seqId'[b] \in Int
<1>1. MinTime .. MaxTime \subseteq Int
  OBVIOUS
<1> QED BY <1>1, Zenon DEF IndexTypeOK

(* An ancestor has less work.                                              *)
LEMMA AncestorWork == \A b \in Blocks : \A a \in Chain[b] : a = b \/ Work[a] < Work[b]
<1> DEFINE S == {b \in Blocks : \E a \in Chain[b] : ~(a = b \/ Work[a] < Work[b])}
<1> SUFFICES ASSUME S # {} PROVE FALSE
  BY Zenon
<1>1. PICK b \in S : b = Genesis \/ Parent[b] \notin S
  <2>1. S \in SUBSET Blocks
    OBVIOUS
  <2> HIDE DEF S
  <2> QED BY <2>1, TreeLeast, Zenon
<1>2. PICK a \in Chain[b] : a # b /\ ~(Work[a] < Work[b])
  BY <1>1, Zenon
<1>3. b \in Blocks \ {Genesis} /\ Parent[b] \in Blocks /\ a \in Chain[Parent[b]]
  <2>1. b \in Blocks
    BY <1>1, Zenon
  <2> HIDE DEF S
  <2>2. b # Genesis
    BY <1>2, TreeAssumption, Zenon
  <2>3. Parent[b] \in Blocks /\ Chain[b] = Chain[Parent[b]] \union {b}
    BY <2>1, <2>2, TreeAssumption, Zenon
  <2> QED BY <1>2, <2>1, <2>2, <2>3, Zenon
<1>4. a = Parent[b] \/ Work[a] < Work[Parent[b]]
  BY <1>1, <1>3, Zenon
<1>5. Work[Parent[b]] < Work[b] /\ Work[a] \in Int /\ Work[b] \in Int /\ Work[Parent[b]] \in Int
  BY <1>3, TreeAssumption, WorkAssumption
<1> QED BY <1>2, <1>4, <1>5

(* So a block is not worse than its ancestors.                             *)
LEMMA AncestorNotBetter ==
  ASSUME NEW vt, NEW sq, \A b \in Blocks : vt[b] \in Int /\ sq[b] \in Int,
         NEW b \in Blocks, NEW a \in Chain[b]
  PROVE  a \in Blocks /\ ~WorkLess(b, a, vt, sq)
<1>1. a \in Blocks
  BY TreeAssumption, Zenon
<1>2. CASE a = b
  BY <1>1, <1>2, WorkOrder, Zenon
<1>3. CASE Work[a] < Work[b]
  BY <1>1, <1>3, WorkAssumption DEF WorkLess
<1> QED BY <1>1, <1>2, <1>3, AncestorWork, Zenon

(* A step that changes the rank of c only, for the better.                 *)
Improves(c) ==
  /\ \A b \in Blocks \ {c} : valTime'[b] = valTime[b] /\ seqId'[b] = seqId[b]
  /\ valTime'[c] <= valTime[c]
  /\ valTime'[c] = valTime[c] => seqId'[c] <= seqId[c]

(* Only c moves up.                                                        *)
LEMMA ImprovesOrder ==
  ASSUME IndexTypeOK, IndexTypeOK', NEW c \in Blocks, Improves(c)
  PROVE  /\ \A a, b \in Blocks \ {c} :
              WorkLess(a, b, valTime', seqId') <=> WorkLess(a, b, valTime, seqId)
         /\ \A b \in Blocks \ {c} :
              /\ WorkLess(c, b, valTime', seqId') => WorkLess(c, b, valTime, seqId)
              /\ WorkLess(b, c, valTime, seqId) => WorkLess(b, c, valTime', seqId')
<1>1. \A b \in Blocks : Work[b] \in Int /\ Addr[b] \in Int
  BY WorkAssumption
<1>2. \A b \in Blocks : valTime[b] \in Int /\ seqId[b] \in Int
  BY RankType, Zenon
<1>3. \A b \in Blocks : valTime'[b] \in Int /\ seqId'[b] \in Int
  BY NextRankType, Zenon
<1>4. \A a, b \in Blocks \ {c} :
        WorkLess(a, b, valTime', seqId') <=> WorkLess(a, b, valTime, seqId)
  BY <1>1, Zenon DEF WorkLess, Improves
<1>5. ASSUME NEW b \in Blocks \ {c}
      PROVE  /\ WorkLess(c, b, valTime', seqId') => WorkLess(c, b, valTime, seqId)
             /\ WorkLess(b, c, valTime, seqId) => WorkLess(b, c, valTime', seqId')
  BY <1>1, <1>2, <1>3 DEF WorkLess, Improves
<1> QED BY <1>4, <1>5, Zenon

(* What PruneBlockIndexCandidates must not drop.                           *)
LEMMA PruneKeeps ==
  ASSUME NEW cands, NEW x, NEW vt, NEW sq, NEW c \in cands,
         InSoftConsensusFreeze(x, freeze) \/ ~WorkLess(c, x, vt, sq)
  PROVE  c \in PruneBlockIndexCandidates(cands, x, vt, sq)
BY Zenon DEF PruneBlockIndexCandidates

-----------------------------------------------------------------------------
(* Marks.  A node that receives blocks and runs preciousblock no more than *)
(* once between two extensions of its chain marks exactly what its script  *)
(* checks find.                                                            *)

BlocksAndPrecious ==
  NeitherInvalidatedNorPruned /\ SoftRejectable = {} /\ MaxPrecious <= 1

(* No block of the chain is marked; none has wrong scripts; the script     *)
(* checks have frozen those that spend frozen outputs.                     *)
Clean(b) == Chain[b] \cap Invalid = {}

Connectable(b) == Chain[b] \cap BadScripts = {}

Decided(b) == \A a \in Chain[b] \cap FrozenSpend : freeze[a] # -1

NoneRejected == \A b \in Blocks : softRejected[b] = -1

FreezeRight == \A b \in Blocks : freeze[b] # -1 => b \in FrozenSpend

SequenceInv == reverseSeqId <= -1 /\ \A b \in Blocks : seqId[b] >= -1

OutcomeRight(t) ==
  pc[t] = "relock" =>
    /\ outcome[t] = "ok" =>
         connecting[t] \notin BadScripts /\ (connecting[t] \in FrozenSpend => freeze[connecting[t]] # -1)
    /\ outcome[t] = "invalid" => connecting[t] \in BadScripts

OutcomeInv == \A t \in Threads : OutcomeRight(t)

MarkedBad == \A b \in linked \cap Invalid : ~Connectable(b)

TipGood == tip \in linked /\ Connectable(tip) /\ Decided(tip)

MarkInv == NoneRejected /\ FreezeRight /\ SequenceInv /\ OutcomeInv /\ MarkedBad /\ TipGood

(* A linked block without wrong scripts is not marked.                     *)
LEMMA ConnectableClean ==
  ASSUME LinkInv, MarkedBad, NEW b \in linked, Connectable(b)
  PROVE  Clean(b)
<1>1. b \in Blocks /\ Chain[b] \subseteq linked
  BY LinkedClosed, Zenon
<1>2. \A a \in Chain[b] : Connectable(a)
  BY <1>1, ChainTransitive, Zenon DEF Connectable
<1> QED BY <1>1, <1>2, Zenon DEF MarkedBad, Clean

(* What holds of the tip holds of the active chain.                        *)
LEMMA ActiveGood ==
  ASSUME LinkInv, TipGood, NEW a \in Chain[tip]
  PROVE  a \in linked /\ a \in Blocks /\ Connectable(a) /\ Decided(a) /\ Chain[a] \subseteq Chain[tip]
<1>1. tip \in Blocks /\ Chain[tip] \subseteq linked /\ linked \subseteq Blocks
  BY LinkedClosed, Zenon DEF TipGood, LinkInv
<1>2. Chain[a] \subseteq Chain[tip]
  BY <1>1, ChainTransitive, Zenon
<1> QED BY <1>1, <1>2, Zenon DEF TipGood, Connectable, Decided

-----------------------------------------------------------------------------
(* The two kinds of steps.                                                 *)

(* Script checks freeze only blocks of chains that were not decided.       *)
FreezeSame ==
  \A b \in Blocks : Decided(b) =>
    Decided(b)' /\ (InSoftConsensusFreeze(b, freeze') <=> InSoftConsensusFreeze(b, freeze))

(* The active chain grows no block, ranks stay, only marked blocks stop to *)
(* be candidates and newly linked ones not worse than the tip become some. *)
KeepStep ==
  /\ tip' \in Chain[tip] /\ FreezeSame
  /\ linked \subseteq linked' /\ Invalid \subseteq Invalid'
  /\ \A b \in linked : valTime'[b] = valTime[b] /\ seqId'[b] = seqId[b]
  /\ \A b \in candidates : b \in candidates' \/ b \in Invalid'
  /\ \A b \in linked' \ linked : ~WorkLess(b, tip, valTime', seqId') => b \in candidates'

(* Block c moves up, perhaps to the tip, and candidates worse than the tip *)
(* are dropped unless it is frozen.                                        *)
ImproveStep(c) ==
  /\ c \in Blocks /\ Improves(c)
  /\ UNCHANGED <<failed, failedParent, linked, freeze>>
  /\ tip' \in Chain[tip] \union {c} /\ Chain[tip'] \subseteq Chain[tip] \union {c}
  /\ \A b \in candidates \union {c} :
       /\ b \in linked /\ Clean(b)
       /\ InSoftConsensusFreeze(tip', freeze) \/ ~WorkLess(b, tip', valTime', seqId')
       => b \in candidates'

(* The thread did not just check scripts.                                  *)
NoNewOutcome ==
  \A u \in Threads : pc'[u] = "relock" =>
    pc[u] = "relock" /\ connecting'[u] = connecting[u] /\ outcome'[u] = outcome[u]

LEMMA OutcomeKept ==
  ASSUME OutcomeInv, NoNewOutcome, freeze' = freeze
  PROVE  OutcomeInv'
BY Zenon DEF OutcomeInv, OutcomeRight, NoNewOutcome

LEMMA FreezeKept ==
  ASSUME freeze' = freeze
  PROVE  FreezeSame /\ (FreezeRight => FreezeRight')
BY Zenon DEF FreezeSame, FreezeRight, Decided

(* Steps that change no rank and mark no linked block, unless its chain    *)
(* has wrong scripts.                                                      *)
LEMMA MarksKeep ==
  ASSUME LinkInv, MarkInv, NoneRejected', NoNewOutcome, tip' \in Chain[tip],
         UNCHANGED <<linked, valTime, seqId, freeze, reverseSeqId>>,
         Invalid \subseteq Invalid', \A b \in linked \cap Invalid' : ~Connectable(b),
         \A b \in candidates : b \in candidates' \/ b \in Invalid'
  PROVE  MarkInv' /\ KeepStep
<1>1. FreezeSame /\ FreezeRight' /\ OutcomeInv' /\ SequenceInv'
  BY OutcomeKept, FreezeKept, Zenon DEF MarkInv, SequenceInv
<1>2. TipGood'
  <2>1. tip' \in linked /\ Connectable(tip') /\ Decided(tip')
    BY ActiveGood, Zenon DEF MarkInv
  <2> QED BY <2>1, Zenon DEF TipGood, Connectable, Decided
<1>3. MarkedBad'
  BY Zenon DEF MarkedBad, Connectable
<1>4. KeepStep
  BY <1>1, Zenon DEF KeepStep
<1> QED BY <1>1, <1>2, <1>3, <1>4, Zenon DEF MarkInv

-----------------------------------------------------------------------------
(* The steps of an activation.                                             *)

(* Only the script checks bring a result.                                  *)
LEMMA ActivationOutcome ==
  ASSUME Inv, NEW t \in Threads, Activation(t), ~CheckScripts(t)
  PROVE  NoNewOutcome
<1>1. \/ UNCHANGED <<pc, connecting, outcome>>
      \/ /\ \E q \in PCs \ {"relock"} : pc' = [pc EXCEPT ![t] = q]
         /\ connecting' = connecting \/ \E x : connecting' = [connecting EXCEPT ![t] = x]
         /\ outcome' = outcome \/ \E x : outcome' = [outcome EXCEPT ![t] = x]
  <2>1. CASE FindMostWorkInvalid(t) \/ FindMostWorkMissing(t) \/ DisconnectTip(t)
    BY <2>1, Zenon DEF FindMostWorkInvalid, FindMostWorkMissing, DisconnectTip, stepVars
  <2>2. CASE NoCandidate(t) \/ FindMostWorkChain(t) \/ GiveUp(t) \/ EnterLoop(t) \/ ObtainChecker(t)
    <3>1. /\ UNCHANGED <<connecting, outcome>>
          /\ \E q \in {"idle", "check", "find", "scripts"} : pc' = [pc EXCEPT ![t] = q]
      BY <2>2, Zenon DEF NoCandidate, FindMostWorkChain, GiveUp, EnterLoop, ObtainChecker, LeaveActivation,
                         stepVars
    <3> QED BY <3>1, Zenon DEF PCs
  <2>3. CASE \/ StartStep(t) \/ StartConnectTip(t) \/ GetChecker(t) \/ NothingToConnect(t)
             \/ ConnectTip(t) \/ AttachmentCancelled(t) \/ ValidationCancelled(t) \/ ConnectTipFailed(t)
    <3>1. /\ connecting' = connecting \/ \E x : connecting' = [connecting EXCEPT ![t] = x]
          /\ outcome' = outcome \/ \E x : outcome' = [outcome EXCEPT ![t] = x]
          /\ \E q \in {"activate", "step", "getChecker", "scripts", "waitChecker"} :
               pc' = [pc EXCEPT ![t] = q]
      BY <2>3, Zenon DEF StartStep, StartConnectTip, GetChecker, NothingToConnect, ConnectTip,
                         AttachmentCancelled, ValidationCancelled, ConnectTipFailed, EndStep
    <3> QED BY <3>1, Zenon DEF PCs
  <2> QED BY <2>1, <2>2, <2>3, Zenon DEF Activation
<1>2. CASE UNCHANGED <<pc, connecting, outcome>>
  BY <1>2, Zenon DEF NoNewOutcome
<1>3. CASE ~UNCHANGED <<pc, connecting, outcome>>
  <2>1. PICK q \in PCs \ {"relock"} : pc' = [pc EXCEPT ![t] = q]
    BY <1>1, <1>3, Zenon
  <2>2. pc'[t] # "relock"
    BY <2>1, Zenon DEF Inv, ThreadTypeOK
  <2>3. \A u \in Threads \ {t} : pc'[u] = pc[u] /\ connecting'[u] = connecting[u] /\ outcome'[u] = outcome[u]
    BY <1>1, <2>1, Zenon DEF Inv, ThreadTypeOK
  <2> QED BY <2>2, <2>3, Zenon DEF NoNewOutcome
<1> QED BY <1>2, <1>3, Zenon

(* Steps that leave the index and the candidates alone.                    *)
LEMMA QuietStep ==
  ASSUME Inv, LinkInv, MarkInv, NEW t \in Threads, Activation(t),
         \/ EnterLoop(t) \/ NoCandidate(t) \/ FindMostWorkChain(t) \/ GiveUp(t) \/ StartStep(t)
         \/ DisconnectTip(t) \/ NothingToConnect(t) \/ StartConnectTip(t)
         \/ GetChecker(t) \/ ObtainChecker(t) \/ ValidationCancelled(t)
  PROVE  MarkInv' /\ KeepStep
<1>1. /\ UNCHANGED <<failed, failedParent, linked, candidates, valTime, seqId, softRejected, freeze,
                     reverseSeqId>>
      /\ tip' \in {tip, RemoveFrozen(tip)} \/ DisconnectTip(t)
  BY Zenon DEF EnterLoop, NoCandidate, FindMostWorkChain, GiveUp, StartStep, DisconnectTip,
       NothingToConnect, StartConnectTip, GetChecker, ObtainChecker, ValidationCancelled,
       indexVars, chainVars, preciousVars
<1>2. tip' \in Chain[tip]
  <2>1. tip \in Blocks /\ IndexInv
    BY Zenon DEF Inv, IndexInv, IndexTypeOK, ChainTypeOK
  <2>2. DisconnectTip(t) => tip' = Parent[tip] /\ Parent[tip] \in Chain[tip]
    BY DisconnectTipMove, Zenon DEF DisconnectTip
  <2> QED BY <1>1, <2>1, <2>2, ChainSelf, RemoveFrozenType, Zenon
<1>3. NoNewOutcome
  <2>1. ~CheckScripts(t)
    BY Zenon DEF EnterLoop, NoCandidate, FindMostWorkChain, GiveUp, StartStep, DisconnectTip,
       NothingToConnect, StartConnectTip, GetChecker, ObtainChecker, ValidationCancelled, CheckScripts, Relock
  <2> QED BY <2>1, ActivationOutcome, Zenon
<1>4. Invalid' = Invalid /\ NoneRejected'
  BY <1>1, Zenon DEF Invalid, MarkInv, NoneRejected
<1> QED BY <1>1, <1>2, <1>3, <1>4, MarksKeep, Zenon DEF MarkInv, MarkedBad

(* FindMostWorkChain drops descendants of invalid blocks only.             *)
LEMMA FindMostWorkInvalidKeeps ==
  ASSUME Inv, LinkInv, MarkInv, NEW t \in Threads, Activation(t), FindMostWorkInvalid(t)
  PROVE  MarkInv' /\ KeepStep
<1> PICK top : top = TopObstacle(BestCandidate)
  OBVIOUS
<1>1. top \in Invalid \cap linked
  BY BestCandidateLinked, Zenon DEF FindMostWorkInvalid
<1>2. /\ failedParent' = failedParent \union InvalidateChain(top)
      /\ candidates' = candidates \ (InvalidateChain(top) \union {top})
      /\ UNCHANGED <<failed, linked, tip, valTime, seqId, softRejected, freeze, reverseSeqId>>
      /\ pc[t] = "find"
  BY Zenon DEF FindMostWorkInvalid, preciousVars
<1>3. Invalid' = Invalid \union InvalidateChain(top)
  BY <1>2, Zenon DEF Invalid
<1>4. ~Connectable(top) /\ \A b \in linked \cap Invalid : ~Connectable(b)
  BY <1>1, Zenon DEF MarkInv, MarkedBad
<1>5. \A b \in InvalidateChain(top) : ~Connectable(b)
  BY <1>4, ChainTransitive, Zenon DEF InvalidateChain, Descendants, Connectable
<1>6. tip' \in Chain[tip] /\ NoneRejected'
  BY <1>2, ChainSelf, Zenon DEF MarkInv, NoneRejected, TipGood, LinkInv
<1>7. NoNewOutcome
  BY <1>2, ActivationOutcome, Zenon DEF CheckScripts
<1> QED BY <1>1, <1>2, <1>3, <1>4, <1>5, <1>6, <1>7, MarksKeep, Zenon

(* A block that fails its script checks is marked.                         *)
LEMMA ConnectTipFailedKeeps ==
  ASSUME Inv, LinkInv, MarkInv, NEW t \in Threads, Activation(t), ConnectTipFailed(t)
  PROVE  MarkInv' /\ KeepStep
<1> PICK F : F = InvalidBlockFound(t)
  OBVIOUS
<1>1. t \in Validating /\ pc[t] = "relock"
  BY Zenon DEF ConnectTipFailed, Relock, Validating
<1>2. /\ failed' = failed \union F /\ candidates' = candidates \ F /\ tip' = RemoveFrozen(tip)
      /\ UNCHANGED <<failedParent, linked, valTime, seqId, softRejected, freeze, reverseSeqId>>
  BY Zenon DEF ConnectTipFailed, preciousVars
<1>3. tip' \in Chain[tip] /\ NoneRejected'
  BY <1>2, RemoveFrozenType, Zenon DEF Inv, IndexInv, IndexTypeOK, ChainTypeOK, MarkInv, NoneRejected
<1>4. \A b \in F : ~Connectable(b)
  <2>1. connecting[t] \in Chain[connecting[t]]
    BY <1>1, ConnectingLinked, ChainSelf, Zenon
  <2>2. outcome[t] = "invalid" => connecting[t] \in BadScripts
    BY <1>1, Zenon DEF MarkInv, OutcomeInv, OutcomeRight
  <2> QED BY <2>1, <2>2, Zenon DEF InvalidBlockFound, Connectable
<1>5. Invalid' = Invalid \union F
  BY <1>2, Zenon DEF Invalid
<1>6. \A b \in linked \cap Invalid' : ~Connectable(b)
  BY <1>4, <1>5, Zenon DEF MarkInv, MarkedBad
<1>7. NoNewOutcome
  BY <1>1, ActivationOutcome, Zenon DEF CheckScripts
<1> QED BY <1>2, <1>3, <1>5, <1>6, <1>7, MarksKeep, Zenon

(* checkScripts tells good blocks from bad ones, and freezes no block of a *)
(* decided chain.                                                          *)
LEMMA CheckScriptsKeeps ==
  ASSUME Inv, LinkInv, MarkInv, NEW t \in Threads, CheckScripts(t)
  PROVE  MarkInv' /\ KeepStep
<1> PICK c : c = connecting[t]
  OBVIOUS
<1>1. /\ UNCHANGED <<failed, failedParent, linked, candidates, tip, valTime, seqId, softRejected,
                     reverseSeqId, connecting>>
      /\ pc[t] = "scripts" /\ pc' = [pc EXCEPT ![t] = "relock"]
      /\ \E o : outcome' = [outcome EXCEPT ![t] = o]
  BY Zenon DEF CheckScripts, chainVars, preciousVars
<1>2. pc'[t] = "relock" /\ \A u \in Threads \ {t} : pc'[u] = pc[u] /\ outcome'[u] = outcome[u]
  BY <1>1, Zenon DEF Inv, ThreadTypeOK
<1>3. \/ /\ c \in FrozenSpend /\ freeze[c] = -1 /\ freeze' = [freeze EXCEPT ![c] = FreezeDuration]
         /\ outcome'[t] = "frozen"
      \/ /\ ~(c \in FrozenSpend /\ freeze[c] = -1) /\ freeze' = freeze
         /\ outcome'[t] \in {IF c \in BadScripts THEN "invalid" ELSE "ok", "cancelled"}
  BY Zenon DEF CheckScripts, Inv, ThreadTypeOK
<1>4. c \in Blocks /\ freeze \in [Blocks -> {-1, FreezeDuration}]
  <2>1. t \in Validating
    BY <1>1, Zenon DEF Validating
  <2> QED BY <2>1, ConnectingKnown, Zenon DEF Inv, IndexInv, IndexTypeOK
<1>5. /\ \A a \in Blocks : freeze[a] # -1 => freeze'[a] = freeze[a]
      /\ \A a \in Blocks : freeze'[a] # freeze[a] => a = c /\ c \in FrozenSpend /\ freeze[c] = -1
  BY <1>3, <1>4, Zenon
<1>6. FreezeSame
  <2> SUFFICES ASSUME NEW b \in Blocks, Decided(b)
               PROVE  Decided(b)' /\ (InSoftConsensusFreeze(b, freeze') <=> InSoftConsensusFreeze(b, freeze))
    BY Zenon DEF FreezeSame
  <2>1. \A a \in Chain[b] : freeze'[a] = freeze[a]
    BY <1>5, TreeAssumption, Zenon DEF Decided
  <2>2. Decided(b)'
    BY <2>1, Zenon DEF Decided
  <2>3. InSoftConsensusFreeze(b, freeze') <=> InSoftConsensusFreeze(b, freeze)
    BY <2>1, Zenon DEF InSoftConsensusFreeze
  <2> QED BY <2>2, <2>3, Zenon
<1>7. FreezeRight'
  BY <1>5, Zenon DEF FreezeRight, MarkInv
<1>8. OutcomeRight(t)'
  BY <1>1, <1>3, Zenon DEF OutcomeRight
<1>9. ASSUME NEW u \in Threads \ {t}, pc[u] = "relock"
      PROVE  connecting[u] \in FrozenSpend /\ freeze[connecting[u]] # -1 => freeze'[connecting[u]] # -1
  <2>1. connecting[u] \in Blocks
    BY <1>9, ConnectingKnown, Zenon DEF Validating
  <2> QED BY <1>5, <2>1, Zenon
<1>10. \A u \in Threads \ {t} : OutcomeRight(u)'
  BY <1>1, <1>2, <1>9, Zenon DEF OutcomeRight, MarkInv, OutcomeInv
<1>11. tip' \in Chain[tip] /\ tip \in Blocks
  BY <1>1, ChainSelf, Zenon DEF MarkInv, TipGood, LinkInv
<1>12. TipGood'
  BY <1>1, <1>6, <1>11, Zenon DEF MarkInv, TipGood, FreezeSame, Connectable
<1>13. Invalid' = Invalid
  BY <1>1, Zenon DEF Invalid
<1>14. KeepStep
  BY <1>1, <1>6, <1>11, <1>13, Zenon DEF KeepStep
<1>15. NoneRejected' /\ SequenceInv' /\ MarkedBad' /\ OutcomeInv'
  BY <1>1, <1>8, <1>10, <1>13, Zenon DEF MarkInv, NoneRejected, SequenceInv, MarkedBad, OutcomeInv, Connectable
<1> QED BY <1>7, <1>12, <1>14, <1>15, Zenon DEF MarkInv

(* A validated block moves up.                                             *)
LEMMA UndoImproves ==
  ASSUME IndexTypeOK, IndexTypeOK', NEW c \in Blocks, WriteUndoToDisk(c), seqId' = seqId
  PROVE  Improves(c)
<1> PICK now : now = 1 + Cardinality({b \in Blocks : validity[b] = SCRIPTS})
  BY Zenon
<1>1. /\ valTime \in [Blocks -> MinTime .. MaxTime] /\ valTime' \in [Blocks -> MinTime .. MaxTime]
      /\ seqId \in [Blocks -> Int] /\ MinTime .. MaxTime \subseteq Int
  BY DEF IndexTypeOK
<1>2. valTime' = valTime \/ (valTime[c] = MaxTime /\ valTime' = [valTime EXCEPT ![c] = now])
  BY <1>1, Zenon DEF WriteUndoToDisk
<1>3. valTime'[c] <= valTime[c]
  <2>1. valTime'[c] \in MinTime .. MaxTime /\ valTime[c] \in MinTime .. MaxTime
    BY <1>1
  <2> QED BY <1>1, <1>2, <2>1
<1>4. \A b \in Blocks \ {c} : valTime'[b] = valTime[b]
  BY <1>1, <1>2, Zenon
<1> QED BY <1>1, <1>3, <1>4 DEF Improves

(* The validated block becomes the tip, or the tip changed meanwhile.      *)
LEMMA ConnectTipImproves ==
  ASSUME Inv, Inv', LinkInv, MarkInv, NEW t \in Threads, Activation(t), ConnectTip(t) \/ AttachmentCancelled(t)
  PROVE  MarkInv' /\ \E c : ImproveStep(c)
<1> PICK c : c = connecting[t]
  OBVIOUS
<1>1. /\ t \in Validating /\ pc[t] = "relock" /\ outcome[t] = "ok" /\ WriteUndoToDisk(c)
      /\ UNCHANGED <<failed, failedParent, linked, seqId, softRejected, freeze, reverseSeqId>>
      /\ \/ /\ tip' = c /\ TryReattach(t)
            /\ candidates' = PruneBlockIndexCandidates(candidates \union {c}, c, valTime', seqId)
         \/ /\ tip' = RemoveFrozen(tip) /\ candidates' = candidates \union {c}
  BY Zenon DEF ConnectTip, AttachmentCancelled, Relock, Validating, preciousVars
<1>2. c \in linked /\ c \in Blocks \ {Genesis} /\ base[t] = Parent[c]
  BY <1>1, ConnectingLinked, ConnectingKnown, Zenon
<1>3. IndexTypeOK /\ IndexTypeOK' /\ tip \in Blocks /\ RemoveFrozen(tip) \in Chain[tip]
  BY RemoveFrozenType, Zenon DEF Inv, IndexInv, IndexTypeOK, ChainTypeOK
<1>4. Improves(c)
  BY <1>1, <1>2, <1>3, UndoImproves, Zenon
<1>5. TryReattach(t) => Chain[c] = Chain[tip] \union {c}
  <2>1. TryReattach(t) => tip = Parent[c]
    BY <1>1, <1>2, Zenon DEF TryReattach, Inv, ThreadInv, StepInv
  <2> QED BY <1>2, <2>1, TreeAssumption, Zenon
<1>6. c \notin BadScripts /\ (c \in FrozenSpend => freeze[c] # -1)
  BY <1>1, Zenon DEF MarkInv, OutcomeInv, OutcomeRight
<1>7. /\ tip' \in Chain[tip] \union {c} /\ Chain[tip'] \subseteq Chain[tip] \union {c}
      /\ tip' \in linked /\ Connectable(tip') /\ Decided(tip')
  <2>1. CASE tip' = c /\ TryReattach(t)
    BY <1>2, <1>5, <1>6, <2>1, Zenon DEF MarkInv, TipGood, Connectable, Decided
  <2>2. CASE tip' = RemoveFrozen(tip)
    BY <1>3, <2>2, ActiveGood, Zenon DEF MarkInv
  <2> QED BY <1>1, <2>1, <2>2, Zenon
<1>8. ASSUME NEW b \in candidates \union {c},
             InSoftConsensusFreeze(tip', freeze) \/ ~WorkLess(b, tip', valTime', seqId')
      PROVE  b \in candidates'
  <2>1. CASE /\ tip' = c
             /\ candidates' = PruneBlockIndexCandidates(candidates \union {c}, c, valTime', seqId)
    <3>1. InSoftConsensusFreeze(c, freeze) \/ ~WorkLess(b, c, valTime', seqId)
      BY <1>1, <1>8, <2>1, Zenon
    <3> QED BY <2>1, <3>1, PruneKeeps, Zenon
  <2> QED BY <1>1, <2>1, Zenon
<1>9. ImproveStep(c)
  BY <1>1, <1>2, <1>4, <1>7, <1>8, Zenon DEF ImproveStep
<1>10. NoNewOutcome
  BY <1>1, ActivationOutcome, Zenon DEF CheckScripts
<1>11. FreezeRight' /\ OutcomeInv'
  BY <1>1, <1>10, OutcomeKept, FreezeKept, Zenon DEF MarkInv
<1>12. TipGood'
  BY <1>1, <1>7, Zenon DEF TipGood, Connectable, Decided
<1>13. NoneRejected' /\ SequenceInv' /\ MarkedBad'
  BY <1>1, Zenon DEF MarkInv, NoneRejected, SequenceInv, MarkedBad, Connectable, Invalid
<1> QED BY <1>9, <1>11, <1>12, <1>13, Zenon DEF MarkInv

-----------------------------------------------------------------------------
(* The steps outside of an activation.                                     *)

(* preciousblock moves its block up: there is no better rank.              *)
LEMMA PreciousBlockImproves ==
  ASSUME BlocksAndPrecious, Inv, Inv', LinkInv, MarkInv, NEW t \in Threads, NEW b \in NonGenesis,
         PreciousBlock(t, b)
  PROVE  MarkInv' /\ ImproveStep(b)
<1>1. /\ UNCHANGED <<failed, failedParent, linked, tip, softRejected, freeze, connecting, outcome>>
      /\ pc' = [pc EXCEPT ![t] = "activate"]
      /\ valTime' = [valTime EXCEPT ![b] = MinTime]
      /\ \E id \in {-1, reverseSeqId} : /\ id >= -MaxPrecious /\ reverseSeqId' = id - 1
                                        /\ seqId' = [seqId EXCEPT ![b] = id]
      /\ candidates' = IF IsValid(b) /\ b \in linked
                       THEN PruneBlockIndexCandidates((candidates \ {b}) \union {b}, tip, valTime', seqId')
                       ELSE candidates \ {b}
  BY Zenon DEF PreciousBlock, StartActivation, stepVars
<1>2. /\ IndexTypeOK /\ IndexTypeOK' /\ b \in Blocks /\ reverseSeqId \in Int /\ MaxPrecious \in Nat
      /\ MaxPrecious <= 1 /\ reverseSeqId <= -1
  BY ChainAssumption, Zenon DEF Inv, IndexInv, ChainTypeOK, NonGenesis, MarkInv, SequenceInv, BlocksAndPrecious
<1>3. seqId' = [seqId EXCEPT ![b] = -1] /\ reverseSeqId' = -2
  <2>1. PICK id \in {-1, reverseSeqId} : /\ id >= -MaxPrecious /\ reverseSeqId' = id - 1
                                         /\ seqId' = [seqId EXCEPT ![b] = id]
    BY <1>1, Zenon
  <2>2. id = -1
    BY <1>2, <2>1
  <2> QED BY <2>1, <2>2
<1>4. Improves(b)
  <2>1. /\ valTime \in [Blocks -> MinTime .. MaxTime] /\ seqId \in [Blocks -> Int]
        /\ valTime[b] \in MinTime .. MaxTime /\ MinTime .. MaxTime \subseteq Int /\ MinTime \in Int
    BY <1>2 DEF IndexTypeOK, MinTime
  <2>2. \A x \in Blocks \ {b} : valTime'[x] = valTime[x] /\ seqId'[x] = seqId[x]
    BY <1>1, <1>3, <2>1, Zenon
  <2>3. valTime'[b] = MinTime /\ seqId'[b] = -1 /\ seqId[b] >= -1 /\ MinTime <= valTime[b]
    BY <1>1, <1>2, <1>3, <2>1 DEF MarkInv, SequenceInv
  <2> QED BY <2>1, <2>2, <2>3 DEF Improves
<1>5. ASSUME NEW x \in candidates \union {b}, x \in linked, Clean(x),
             InSoftConsensusFreeze(tip', freeze) \/ ~WorkLess(x, tip', valTime', seqId')
      PROVE  x \in candidates'
  <2>1. CASE IsValid(b) /\ b \in linked
    <3>1. InSoftConsensusFreeze(tip, freeze) \/ ~WorkLess(x, tip, valTime', seqId')
      BY <1>1, <1>5, Zenon
    <3> QED BY <1>1, <2>1, <3>1, PruneKeeps, Zenon
  <2>2. CASE ~(IsValid(b) /\ b \in linked)
    <3>1. Clean(b) /\ b \in linked => IsValid(b)
      BY <1>2, LinkedClosed, ChainSelf, Zenon DEF Clean, IsValid, LinkInv
    <3> QED BY <1>1, <1>5, <2>2, <3>1, Zenon
  <2> QED BY <2>1, <2>2, Zenon
<1>6. tip' \in Chain[tip]
  BY <1>1, ChainSelf, Zenon DEF MarkInv, TipGood, LinkInv
<1>7. ImproveStep(b)
  BY <1>1, <1>2, <1>4, <1>5, <1>6, Zenon DEF ImproveStep
<1>8. NoNewOutcome
  <2>1. \A u \in Threads : pc'[u] = "relock" => pc[u] = "relock"
    BY <1>1, Zenon DEF Inv, ThreadTypeOK
  <2> QED BY <1>1, <2>1, Zenon DEF NoNewOutcome
<1>9. FreezeRight' /\ OutcomeInv'
  BY <1>1, <1>8, OutcomeKept, FreezeKept, Zenon DEF MarkInv
<1>10. NoneRejected' /\ MarkedBad' /\ TipGood'
  BY <1>1, Zenon DEF MarkInv, NoneRejected, MarkedBad, TipGood, Connectable, Decided, Invalid
<1>11. SequenceInv'
  BY <1>1, <1>2, <1>3 DEF MarkInv, SequenceInv, IndexTypeOK
<1> QED BY <1>7, <1>9, <1>10, <1>11, Zenon DEF MarkInv

(* A header that enters the index is not soft rejected.                    *)
LEMMA HeaderNotRejected ==
  ASSUME Inv, NoneRejected, NEW b \in NonGenesis, AddToBlockIndex(b) \/ InsertHeader(b)
  PROVE  NoneRejected'
<1>1. Parent[b] \in Blocks /\ softRejected \in [Blocks -> Int]
  BY TreeAssumption, Zenon DEF NonGenesis, Inv, IndexInv, IndexTypeOK
<1>2. softRejected' = softRejected \/ softRejected' = [softRejected EXCEPT ![b] = -1]
  BY <1>1 DEF NoneRejected, AddToBlockIndex, InsertHeader, SoftRejectedBecauseOfParent
<1> QED BY <1>1, <1>2, Zenon DEF NoneRejected

(* A stored block: newly linked blocks that are not worse than the tip     *)
(* become candidates.                                                      *)
LEMMA AcceptBlockKeeps ==
  ASSUME Inv, LinkInv, LinkInv', MarkInv, NEW t \in Threads, NEW requested,
         AcceptBlock(t, requested)
  PROVE  MarkInv' /\ KeepStep
<1> PICK b : b = pblock[t]
  BY Zenon
<1>1. b \in NonGenesis /\ b \in Blocks /\ b \notin haveData /\ b \notin Invalid
  BY Zenon DEF AcceptBlock, NotStored, HeaderRefused, Inv, ThreadInv, AcceptInv, NonGenesis
<1>2. /\ UNCHANGED <<failed, failedParent, tip, valTime, freeze, reverseSeqId, connecting, outcome>>
      /\ AddToBlockIndex(b) /\ ReceivedBlockTransactions(b)
      /\ pc' = [pc EXCEPT ![t] = "activate"]
  BY Zenon DEF AcceptBlock, StartActivation, preciousVars, stepVars
<1>3. linked \subseteq linked' /\ (linked' \ linked) \cap Invalid = {} /\ linked \subseteq Blocks
  BY AcceptBlockLink, Zenon DEF LinkInv
<1>4. nextSeqId \in Nat
  BY Zenon DEF Inv, ChainTypeOK
<1>5. /\ \A c \in linked : seqId'[c] = seqId[c]
      /\ \A c \in Blocks : seqId'[c] >= -1
      /\ candidates \subseteq candidates'
      /\ \A c \in linked' \ linked : ~WorkLess(c, tip, valTime', seqId') => c \in candidates'
  <2>1. CASE Parent[b] \in linked
    <3> PICK new : new = LinkedWith(b)
      OBVIOUS
    <3>1. /\ linked' = linked \union new
          /\ candidates' = candidates \union {c \in new : ~WorkLess(c, tip, valTime, seqId')}
          /\ \E f \in LinkOrders(new) :
               seqId' = [c \in Blocks |-> IF c \in new THEN f[c] ELSE seqId[c]]
      BY <1>2, <2>1, Zenon DEF ReceivedBlockTransactions
    <3>2. PICK f \in LinkOrders(new) :
                 seqId' = [c \in Blocks |-> IF c \in new THEN f[c] ELSE seqId[c]]
      BY <3>1, Zenon
    <3>3. new \cap linked = {}
      BY <1>1, <2>1, LinkedWithExact, Zenon
    <3>4. \A c \in new : f[c] >= -1
      BY <1>4, <3>2 DEF LinkOrders
    <3>5. \A c \in Blocks : seqId'[c] >= -1
      BY <3>2, <3>4, Zenon DEF MarkInv, SequenceInv
    <3>6. \A c \in linked : seqId'[c] = seqId[c]
      BY <1>3, <3>2, <3>3, Zenon
    <3>7. \A c \in linked' \ linked : ~WorkLess(c, tip, valTime', seqId') => c \in candidates'
      BY <1>2, <3>1, Zenon
    <3> QED BY <3>1, <3>5, <3>6, <3>7, Zenon
  <2>2. CASE Parent[b] \notin linked
    <3>1. linked' = linked \ {b} /\ UNCHANGED <<seqId, candidates>>
      BY <1>2, <2>2, Zenon DEF ReceivedBlockTransactions
    <3> QED BY <3>1, Zenon DEF MarkInv, SequenceInv
  <2> QED BY <2>1, <2>2, Zenon
<1>6. Invalid' = Invalid /\ tip' \in Chain[tip]
  BY <1>2, ChainSelf, Zenon DEF Invalid, MarkInv, TipGood, LinkInv
<1>7. KeepStep
  BY <1>2, <1>3, <1>5, <1>6, FreezeKept, Zenon DEF KeepStep
<1>8. NoNewOutcome
  <2>1. \A u \in Threads : pc'[u] = "relock" => pc[u] = "relock"
    BY <1>2, Zenon DEF Inv, ThreadTypeOK
  <2> QED BY <1>2, <2>1, Zenon DEF NoNewOutcome
<1>9. FreezeRight' /\ OutcomeInv'
  BY <1>2, <1>8, OutcomeKept, FreezeKept, Zenon DEF MarkInv
<1>10. NoneRejected' /\ SequenceInv'
  BY <1>1, <1>2, <1>5, HeaderNotRejected, Zenon DEF MarkInv, SequenceInv
<1>11. MarkedBad'
  BY <1>3, <1>6, Zenon DEF MarkInv, MarkedBad, Connectable
<1>12. TipGood'
  BY <1>2, <1>3, Zenon DEF MarkInv, TipGood, Connectable, Decided
<1> QED BY <1>7, <1>9, <1>10, <1>11, <1>12, Zenon DEF MarkInv

(* A block that AcceptBlock rejects was not linked.                        *)
LEMMA AcceptBlockInvalidKeeps ==
  ASSUME Inv, LinkInv, MarkInv, NEW t \in Threads, NEW requested, AcceptBlockInvalid(t, requested)
  PROVE  MarkInv' /\ KeepStep
<1> PICK b : b = pblock[t]
  BY Zenon
<1> DEFINE D == {b} \union IF b \in BadContext THEN {} ELSE InvalidateChain(b)
<1>1. b \in NonGenesis /\ b \in Blocks /\ b \notin haveData
  BY Zenon DEF AcceptBlockInvalid, NotStored, Inv, ThreadInv, AcceptInv, NonGenesis
<1>2. /\ UNCHANGED <<linked, tip, valTime, seqId, freeze, reverseSeqId, connecting, outcome>>
      /\ AddToBlockIndex(b) /\ pc[t] = "accept" /\ pc' = [pc EXCEPT ![t] = "idle"]
      /\ candidates \ D \subseteq candidates' /\ candidates' \subseteq candidates
      /\ Invalid' = Invalid \union D
  BY Zenon DEF AcceptBlockInvalid, Reject, preciousVars, stepVars, Invalid
<1>3. \A d \in D : b \in Chain[d]
  BY <1>1, ChainSelf, Zenon DEF InvalidateChain, Descendants
<1> HIDE DEF D
<1>4. D \cap linked = {}
  BY <1>1, <1>3, LinkedClosed, Zenon
<1>5. \A c \in linked \cap Invalid' : ~Connectable(c)
  BY <1>2, <1>4, Zenon DEF MarkInv, MarkedBad
<1>6. NoNewOutcome
  <2>1. \A u \in Threads : pc'[u] = "relock" => pc[u] = "relock"
    BY <1>2, Zenon DEF Inv, ThreadTypeOK
  <2> QED BY <1>2, <2>1, Zenon DEF NoNewOutcome
<1>7. NoneRejected' /\ tip' \in Chain[tip]
  BY <1>1, <1>2, HeaderNotRejected, ChainSelf, Zenon DEF MarkInv, TipGood, LinkInv
<1>8. \A c \in candidates : c \in candidates' \/ c \in Invalid'
  BY <1>2, Zenon
<1> QED BY <1>2, <1>5, <1>6, <1>7, <1>8, MarksKeep, Zenon

(* Headers, the start of a reception, and blocks not stored or refused.    *)
LEMMA OutsideKeeps ==
  ASSUME Inv, LinkInv, MarkInv,
         \/ \E b \in NonGenesis : AcceptBlockHeader(b)
         \/ \E t \in Threads, b \in NonGenesis : ReceiveBlock(t, b)
         \/ \E t \in Threads : AcceptBlockRefused(t)
         \/ \E t \in Threads, requested \in BOOLEAN : AcceptBlockNotStored(t, requested)
         \/ \E S \in SUBSET (Prunable \cap haveData) : PruneBlockFiles(S)
         \/ UNCHANGED vars
  PROVE  MarkInv' /\ KeepStep
<1>1. /\ UNCHANGED <<failed, failedParent, linked, candidates, tip, valTime, seqId, freeze, reverseSeqId,
                     connecting, outcome>>
      /\ \/ softRejected' = softRejected \/ \E b \in NonGenesis : InsertHeader(b)
         \/ \E t \in Threads : pc[t] = "accept" /\ AddToBlockIndex(pblock[t])
      /\ pc' = pc \/ \E t \in Threads, q \in {"idle", "accept", "activate"} : pc' = [pc EXCEPT ![t] = q]
  BY Zenon DEF AcceptBlockHeader, ReceiveBlock, AcceptBlockRefused, AcceptBlockNotStored, PruneBlockFiles,
       vars, indexVars, chainVars, preciousVars, stepVars, Reject, StartActivation
<1>2. NoneRejected'
  <2>1. CASE softRejected' = softRejected
    BY <2>1, Zenon DEF MarkInv, NoneRejected
  <2>2. CASE \E b \in NonGenesis : InsertHeader(b)
    BY <2>2, HeaderNotRejected, Zenon DEF MarkInv
  <2>3. ASSUME NEW t \in Threads, pc[t] = "accept", AddToBlockIndex(pblock[t])
        PROVE  NoneRejected'
    BY <2>3, HeaderNotRejected, Zenon DEF MarkInv, Inv, ThreadInv, AcceptInv
  <2> QED BY <1>1, <2>1, <2>2, <2>3, Zenon
<1>3. NoNewOutcome
  <2>1. \A u \in Threads : pc'[u] = "relock" => pc[u] = "relock"
    BY <1>1, Zenon DEF Inv, ThreadTypeOK
  <2> QED BY <1>1, <2>1, Zenon DEF NoNewOutcome
<1>4. Invalid' = Invalid /\ tip' \in Chain[tip]
  BY <1>1, ChainSelf, Zenon DEF Invalid, MarkInv, TipGood, LinkInv
<1>5. \A b \in linked \cap Invalid' : ~Connectable(b)
  BY <1>4, Zenon DEF MarkInv, MarkedBad
<1> QED BY <1>1, <1>2, <1>3, <1>4, <1>5, MarksKeep, Zenon

-----------------------------------------------------------------------------
(* Every step is of one of the two kinds.                                  *)
LEMMA NextKinds ==
  ASSUME BlocksAndPrecious, Inv, Inv', LinkInv, LinkInv', MarkInv, [Next]_vars
  PROVE  MarkInv' /\ (KeepStep \/ \E c : ImproveStep(c))
<1>1. ASSUME NEW t \in Threads, Activation(t)
      PROVE  MarkInv' /\ (KeepStep \/ \E c : ImproveStep(c))
  <2>1. FindMostWorkMissing(t) => FindMostWorkInvalid(t)
    BY FindMostWorkLink, Zenon
  <2>2. \/ EnterLoop(t) \/ NoCandidate(t) \/ FindMostWorkChain(t) \/ GiveUp(t) \/ StartStep(t)
        \/ DisconnectTip(t) \/ NothingToConnect(t) \/ StartConnectTip(t)
        \/ GetChecker(t) \/ ObtainChecker(t) \/ ValidationCancelled(t)
        \/ FindMostWorkInvalid(t) \/ CheckScripts(t) \/ ConnectTip(t) \/ AttachmentCancelled(t)
        \/ ConnectTipFailed(t)
    BY <1>1, <2>1, Zenon DEF Activation
  <2> QED BY <1>1, <2>2, QuietStep, CheckScriptsKeeps, FindMostWorkInvalidKeeps, ConnectTipFailedKeeps,
             ConnectTipImproves, Zenon
<1>2. ASSUME NEW t \in Threads, Accept(t)
      PROVE  MarkInv' /\ KeepStep
  BY <1>2, OutsideKeeps, AcceptBlockInvalidKeeps, AcceptBlockKeeps, Zenon DEF Accept
<1>3. ASSUME NEW t \in Threads, Rpc(t)
      PROVE  MarkInv' /\ \E c : ImproveStep(c)
  <2>1. \E b \in NonGenesis : PreciousBlock(t, b)
    BY <1>3, Zenon DEF Rpc, BlocksAndPrecious, NeitherInvalidatedNorPruned
  <2> QED BY <2>1, PreciousBlockImproves, Zenon
<1> QED BY <1>1, <1>2, <1>3, OutsideKeeps, Zenon DEF Next

(* A node starts at the genesis block.                                     *)
LEMMA InitMark == Init => MarkInv
<1> SUFFICES ASSUME Init PROVE MarkInv
  BY Zenon
<1> USE DEF Init, IndexInit
<1>1. NoneRejected /\ SequenceInv /\ FreezeRight
  BY DEF NoneRejected, SequenceInv, FreezeRight
<1>2. OutcomeInv
  BY Zenon DEF OutcomeInv, OutcomeRight
<1>3. Genesis \notin BadScripts /\ Genesis \notin FrozenSpend
  BY ChainAssumption, Zenon DEF NonGenesis
<1>4. TipGood
  <2>1. \A a \in Chain[Genesis] : a = Genesis
    BY TreeAssumption, Zenon
  <2>2. Connectable(Genesis) /\ Decided(Genesis)
    BY <1>3, <2>1, Zenon DEF Connectable, Decided
  <2> QED BY <2>2, Zenon DEF TipGood
<1>5. MarkedBad
  BY Zenon DEF MarkedBad, Invalid
<1> QED BY <1>1, <1>2, <1>4, <1>5, Zenon DEF MarkInv

(* The node marks exactly what its script checks find.                     *)
THEOREM MarkInvariance ==
  ASSUME BlocksAndPrecious
  PROVE  Spec => []MarkInv
<1>1. NeitherInvalidatedNorPruned
  BY Zenon DEF BlocksAndPrecious
<1>2. Inv /\ Inv' /\ LinkInv /\ LinkInv' /\ MarkInv /\ [Next]_vars => MarkInv'
  BY NextKinds, Zenon
<1>3. Spec => []LinkInv
  BY <1>1, LinkInvariance, Zenon
<1> QED BY <1>2, <1>3, InitMark, ChainInvariance, PTL DEF Spec

-----------------------------------------------------------------------------
(* The end of the activations.                                             *)

Settled == \A t \in Threads : pc[t] \in {"idle", "accept"}

(* FindMostWorkChain finds nothing to do.                                  *)
Finishes(t) ==
  NoCandidate(t) \/ (FindMostWorkChain(t) /\ ConsiderBlockForMostWorkChain(BestCandidate, pblock[t]) = tip)

(* A thread that gives up leaves one that validates.                       *)
LEMMA GiveUpNotSettled ==
  ASSUME Inv, NEW t \in Threads, GiveUp(t)
  PROVE  ~Settled'
<1>1. pc[t] = "check" /\ pc' = [pc EXCEPT ![t] = "idle"]
  BY Zenon DEF GiveUp, LeaveActivation
<1>2. \E u \in Validating : TRUE
  <2>1. CASE IsAncestorInValidation(mostWork[t])
    BY <2>1, Zenon DEF IsAncestorInValidation
  <2>2. CASE AreNSiblingsInValidation(mostWork[t], MaxParallelBlocks)
    <3> DEFINE S == {u \in Validating : Height(connecting[u]) = Height(mostWork[t])}
    <3>1. Cardinality(S) >= MaxParallelBlocks /\ MaxParallelBlocks \in Nat \ {0}
      BY <2>2, ChainAssumption, Zenon DEF AreNSiblingsInValidation
    <3>2. S # {}
      <4>1. S = {} => Cardinality(S) = 0
        BY FS_EmptySet, Zenon
      <4> HIDE DEF S
      <4> QED BY <3>1, <4>1
    <3> QED BY <3>2, Zenon
  <2> QED BY <2>1, <2>2, Zenon DEF GiveUp
<1>3. PICK u \in Validating : TRUE
  BY <1>2, Zenon
<1>4. u \in Threads /\ u # t /\ pc[u] \in {"getChecker", "waitChecker", "scripts", "relock"}
  BY <1>1, <1>3, Zenon DEF Validating
<1>5. pc'[u] = pc[u]
  BY <1>1, <1>4, Zenon DEF Inv, ThreadTypeOK
<1> QED BY <1>4, <1>5, Zenon DEF Settled

(* Every other step of an activation leaves it in the middle.              *)
LEMMA ActivationNotSettled ==
  ASSUME Inv, NEW t \in Threads, Activation(t)
  PROVE  Finishes(t) \/ ~Settled'
<1> DEFINE Q == {"activate", "find", "check", "step", "getChecker", "waitChecker", "scripts", "relock"}
<1>1. CASE GiveUp(t)
  BY <1>1, GiveUpNotSettled, Zenon
<1>2. CASE /\ ~Finishes(t) /\ ~GiveUp(t)
  <2>1. (pc' = pc /\ pc[t] \in Q) \/ \E q \in Q : pc' = [pc EXCEPT ![t] = q]
    BY <1>2, Zenon DEF Activation, Finishes, EnterLoop, FindMostWorkInvalid, FindMostWorkMissing,
         FindMostWorkChain, StartStep, DisconnectTip, NothingToConnect, StartConnectTip, GetChecker,
         ObtainChecker, CheckScripts, ConnectTip, AttachmentCancelled, ValidationCancelled,
         ConnectTipFailed, EndStep
  <2>2. pc'[t] \in Q
    BY <2>1, Zenon DEF Inv, ThreadTypeOK
  <2> QED BY <2>2, Zenon DEF Settled
<1> QED BY <1>1, <1>2, Zenon

(* So the activations are at their end only after FindMostWorkChain found  *)
(* nothing to do, and stay there until one is started.                     *)
LEMMA SettledStep ==
  ASSUME BlocksAndPrecious, Inv, Inv', LinkInv, MarkInv, [Next]_vars, Settled'
  PROVE  \/ /\ Settled /\ UNCHANGED <<linked, tip, valTime, seqId, freeze>>
            /\ Invalid \subseteq Invalid'
         \/ /\ \E t \in Threads : Finishes(t)
            /\ UNCHANGED <<failed, failedParent, linked, tip, valTime, seqId, freeze>>
<1>1. ASSUME NEW t \in Threads, NEW b, NEW requested, 
             AcceptBlock(t, requested) \/ AcceptBlockNotStored(t, requested) \/ PreciousBlock(t, b)
      PROVE  FALSE
  <2>1. pc' = [pc EXCEPT ![t] = "activate"]
    BY <1>1, Zenon DEF AcceptBlock, AcceptBlockNotStored, PreciousBlock, StartActivation
  <2>2. pc'[t] = "activate"
    BY <2>1, Zenon DEF Inv, ThreadTypeOK
  <2> QED BY <2>2, Zenon DEF Settled
<1>2. ASSUME NEW t \in Threads, Rpc(t)
      PROVE  FALSE
  <2>1. \E b \in NonGenesis : PreciousBlock(t, b)
    BY <1>2, Zenon DEF Rpc, BlocksAndPrecious, NeitherInvalidatedNorPruned
  <2> QED BY <1>1, <2>1, Zenon
<1>3. ASSUME NEW t \in Threads, Activation(t)
      PROVE  /\ Finishes(t)
             /\ UNCHANGED <<failed, failedParent, linked, tip, valTime, seqId, freeze>>
  <2>1. Finishes(t)
    BY <1>3, ActivationNotSettled, Zenon
  <2> QED BY <2>1, Zenon DEF Finishes, NoCandidate, FindMostWorkChain, indexVars, chainVars
<1>4. CASE \/ \E b \in NonGenesis : AcceptBlockHeader(b)
           \/ \E t \in Threads, b \in NonGenesis : ReceiveBlock(t, b)
           \/ \E t \in Threads : AcceptBlockRefused(t)
           \/ \E t \in Threads, requested \in BOOLEAN : AcceptBlockInvalid(t, requested)
           \/ \E S \in SUBSET (Prunable \cap haveData) : PruneBlockFiles(S)
           \/ UNCHANGED vars
  <2>1. /\ UNCHANGED <<linked, tip, valTime, seqId, freeze>>
        /\ failed \subseteq failed' /\ failedParent \subseteq failedParent'
        /\ pc' = pc \/ \E t \in Threads : /\ pc[t] \in {"idle", "accept"}
                                          /\ \E q : pc' = [pc EXCEPT ![t] = q]
    BY <1>4, Zenon DEF AcceptBlockHeader, ReceiveBlock, AcceptBlockRefused, AcceptBlockInvalid,
         PruneBlockFiles, vars, indexVars, chainVars, Reject
  <2>2. Settled
    <3>1. \A u \in Threads : pc'[u] = pc[u] \/ pc[u] \in {"idle", "accept"}
      BY <2>1, Zenon DEF Inv, ThreadTypeOK
    <3> QED BY <3>1, Zenon DEF Settled
  <2>3. Invalid \subseteq Invalid'
    BY <2>1, Zenon DEF Invalid
  <2> QED BY <2>1, <2>2, <2>3, Zenon
<1>5. ASSUME NEW t \in Threads, Accept(t)
      PROVE  AcceptBlockRefused(t) \/ \E requested \in BOOLEAN : AcceptBlockInvalid(t, requested)
  BY <1>1, <1>5, Zenon DEF Accept
<1> QED BY <1>2, <1>3, <1>4, <1>5, Zenon DEF Next

-----------------------------------------------------------------------------
(* The best tip, for a node that meets no frozen outputs.                  *)

(* A block the node can return to: all the linked blocks that are not      *)
(* worse than it are candidates.                                           *)
Reference(r) ==
  /\ Connectable(r) /\ ~WorkLess(r, tip, valTime, seqId)
  /\ \A b \in linked : Clean(b) /\ ~WorkLess(b, r, valTime, seqId) => b \in candidates

RankInv == \E r \in candidates : Reference(r)

TipIsBest == \A b \in linked : Clean(b) => ~WorkLess(tip, b, valTime, seqId)

BestInv == RankInv /\ (Settled => TipIsBest)

(* Steps that change no rank.                                              *)
LEMMA RankKeeps ==
  ASSUME IndexTypeOK', LinkInv, LinkInv', MarkInv, MarkInv', RankInv, KeepStep
  PROVE  RankInv'
<1>1. /\ linked \subseteq Blocks /\ linked' \subseteq Blocks /\ candidates \subseteq linked
      /\ tip \in Blocks /\ tip \in linked
  BY Zenon DEF LinkInv, MarkInv, TipGood
<1>2. \A a, b \in linked : WorkLess(a, b, valTime', seqId') <=> WorkLess(a, b, valTime, seqId)
  BY Zenon DEF WorkLess, KeepStep
<1>3. \A a, b, c \in Blocks : ~WorkLess(a, b, valTime', seqId') /\ ~WorkLess(b, c, valTime', seqId')
                              => ~WorkLess(a, c, valTime', seqId')
  BY NextRankType, WorkOrder, Zenon
<1>4. PICK r \in candidates : Reference(r)
  BY Zenon DEF RankInv
<1>5. r \in linked /\ r \in Blocks /\ ~WorkLess(r, tip, valTime', seqId')
  BY <1>1, <1>2, <1>4, Zenon DEF Reference
<1>6. ~WorkLess(r, tip', valTime', seqId')
  <2>1. tip' \in Blocks /\ ~WorkLess(tip, tip', valTime', seqId')
    BY <1>1, NextRankType, AncestorNotBetter, Zenon DEF KeepStep
  <2> QED BY <1>1, <1>3, <1>5, <2>1, Zenon
<1>7. r \in candidates'
  <2>1. r \notin Invalid'
    BY <1>4, <1>5, Zenon DEF MarkInv, MarkedBad, Reference, Connectable, KeepStep
  <2> QED BY <1>4, <2>1, Zenon DEF KeepStep
<1>8. ASSUME NEW b \in linked', Clean(b)', ~WorkLess(b, r, valTime', seqId')
      PROVE  b \in candidates'
  <2>1. CASE b \in linked
    <3>1. Clean(b) /\ b \notin Invalid'
      BY <1>1, <1>8, <2>1, ChainSelf, Zenon DEF Clean, KeepStep
    <3>2. b \in candidates
      BY <1>2, <1>4, <1>5, <1>8, <2>1, <3>1, Zenon DEF Reference
    <3> QED BY <3>1, <3>2, Zenon DEF KeepStep
  <2>2. CASE b \notin linked
    <3>1. ~WorkLess(b, tip, valTime', seqId')
      BY <1>1, <1>3, <1>5, <1>8, Zenon
    <3> QED BY <2>2, <3>1, Zenon DEF KeepStep
  <2> QED BY <2>1, <2>2, Zenon
<1>9. Reference(r)'
  BY <1>4, <1>6, <1>8, Zenon DEF Reference, Connectable
<1> QED BY <1>7, <1>9, Zenon DEF RankInv

(* Steps that improve one block and may make it the tip.                   *)
LEMMA RankImproves ==
  ASSUME IndexTypeOK, IndexTypeOK', LinkInv, MarkInv, MarkInv', RankInv, NEW c, ImproveStep(c)
  PROVE  RankInv'
<1> DEFINE Less(a, b) == WorkLess(a, b, valTime, seqId)
           Worse(a, b) == WorkLess(a, b, valTime', seqId')
<1>1. Invalid' = Invalid /\ linked' = linked /\ linked \subseteq Blocks /\ candidates \subseteq linked
  BY Zenon DEF Invalid, LinkInv, ImproveStep
<1>2. \A b : Clean(b)' <=> Clean(b)
  BY <1>1, Zenon DEF Clean
<1>3. /\ \A a, b \in Blocks \ {c} : Worse(a, b) <=> Less(a, b)
      /\ \A b \in Blocks \ {c} : (Worse(c, b) => Less(c, b)) /\ (Less(b, c) => Worse(b, c))
  BY ImprovesOrder, Zenon DEF ImproveStep
<1>4. /\ \A a \in Blocks : ~Worse(a, a)
      /\ \A a, b \in Blocks : Worse(a, b) => ~Worse(b, a)
      /\ \A a, b, d \in Blocks : ~Worse(a, b) /\ ~Worse(b, d) => ~Worse(a, d)
  BY NextRankType, WorkOrder, Zenon
<1>5. PICK r \in candidates : Reference(r)
  BY Zenon DEF RankInv
<1>6. /\ r \in linked /\ r \in Blocks /\ Connectable(r) /\ Clean(r) /\ ~Less(r, tip)
      /\ \A b \in linked : Clean(b) /\ ~Less(b, r) => b \in candidates
  BY <1>1, <1>5, ConnectableClean, Zenon DEF Reference, MarkInv
<1>7. c \in Blocks /\ tip \in Blocks /\ tip' \in Blocks /\ tip' \in linked /\ Clean(tip') /\ Connectable(tip')
  <2>1. tip \in Blocks /\ tip' \in linked /\ Connectable(tip')
    BY <1>1, Zenon DEF MarkInv, TipGood, Connectable
  <2> QED BY <1>1, <2>1, ConnectableClean, Zenon DEF MarkInv, ImproveStep
<1>8. ASSUME NEW b \in candidates \union {c}, b \in linked, Clean(b), ~Worse(b, tip')
      PROVE  b \in candidates'
  BY <1>8, Zenon DEF ImproveStep
<1>9. tip' = c \/ ~Less(r, tip')
  <2>1. CASE tip' \in Chain[tip]
    <3>1. ~Less(tip, tip')
      BY <1>7, <2>1, RankType, AncestorNotBetter, Zenon
    <3>2. \A a, b, d \in Blocks : ~Less(a, b) /\ ~Less(b, d) => ~Less(a, d)
      BY RankType, WorkOrder, Zenon
    <3> QED BY <1>6, <1>7, <3>1, <3>2, Zenon
  <2> QED BY <2>1, Zenon DEF ImproveStep
<1> SUFFICES \E s \in candidates' : Reference(s)'
  BY Zenon DEF RankInv
<1> HIDE DEF Less, Worse
<1>10. CASE ~Worse(r, tip')
  <2>1. r \in candidates'
    BY <1>5, <1>6, <1>8, <1>10, Zenon
  <2>2. ASSUME NEW b \in linked, Clean(b), ~Worse(b, r)
        PROVE  b \in candidates'
    <3>1. b \in candidates \union {c}
      BY <1>1, <1>3, <1>6, <1>7, <2>2, Zenon
    <3>2. ~Worse(b, tip')
      BY <1>1, <1>4, <1>6, <1>7, <1>10, <2>2, Zenon
    <3> QED BY <1>8, <2>2, <3>1, <3>2, Zenon
  <2>3. Reference(r)'
    BY <1>1, <1>2, <1>6, <1>10, <2>2, Zenon DEF Reference, Connectable, Worse
  <2> QED BY <2>1, <2>3, Zenon
<1>11. CASE Worse(r, tip')
  <2>1. tip' = c /\ r # c
    BY <1>3, <1>4, <1>6, <1>7, <1>9, <1>11, Zenon
  <2>2. c \in candidates'
    BY <1>4, <1>7, <1>8, <2>1, Zenon
  <2>3. ASSUME NEW b \in linked, Clean(b), ~Worse(b, c)
        PROVE  b \in candidates'
    <3>1. CASE b = c
      BY <2>2, <3>1, Zenon
    <3>2. CASE b # c
      <4>1. ~Worse(c, r)
        BY <1>4, <1>6, <1>7, <1>11, <2>1, Zenon
      <4>2. ~Worse(b, r)
        BY <1>1, <1>4, <1>6, <1>7, <2>3, <4>1, Zenon
      <4>3. b \in candidates
        BY <1>1, <1>3, <1>6, <2>1, <2>3, <3>2, <4>2, Zenon
      <4> QED BY <1>8, <2>1, <2>3, <4>3, Zenon
    <3> QED BY <3>1, <3>2, Zenon
  <2>4. Reference(c)'
    BY <1>1, <1>2, <1>4, <1>7, <2>1, <2>3, Zenon DEF Reference, Connectable, Worse
  <2> QED BY <2>2, <2>4, Zenon
<1> QED BY <1>10, <1>11, Zenon

(* There always is a candidate to select.                                  *)
LEMMA ReferenceSelectable ==
  ASSUME FrozenSpend = {}, LinkInv, MarkInv, NEW r \in candidates
  PROVE  r \in Selectable
<1>1. r \in Blocks /\ Chain[r] \subseteq Blocks
  BY TreeAssumption, Zenon DEF LinkInv
<1>2. ~InSoftConsensusFreeze(r, freeze)
  BY <1>1, Zenon DEF InSoftConsensusFreeze, MarkInv, FreezeRight
<1>3. ~IsSoftRejected(r)
  BY <1>1 DEF IsSoftRejected, MarkInv, NoneRejected
<1> QED BY <1>2, <1>3, Zenon DEF Selectable

(* FindMostWorkChain returns the best candidate, or a child of the tip.    *)
LEMMA FoundTip ==
  ASSUME Inv, NEW p, ConsiderBlockForMostWorkChain(BestCandidate, p) = tip
  PROVE  BestCandidate = tip
<1> SUFFICES ASSUME BestCandidate # tip PROVE FALSE
  BY Zenon
<1>1. p = tip /\ p # Genesis /\ Parent[p] = tip
  BY Zenon DEF ConsiderBlockForMostWorkChain
<1>2. tip \in Blocks
  BY Zenon DEF Inv, IndexInv, IndexTypeOK, ChainTypeOK
<1> QED BY <1>1, <1>2, ChainSelf, TreeAssumption, Zenon

(* FindMostWorkChain returns the tip only if nothing is better.            *)
LEMMA FinishesBest ==
  ASSUME FrozenSpend = {}, Inv, LinkInv, MarkInv, RankInv, NEW t \in Threads, Finishes(t)
  PROVE  TipIsBest
<1>1. tip \in Blocks /\ IndexTypeOK /\ candidates \subseteq Blocks /\ linked \subseteq Blocks
  BY Zenon DEF Inv, IndexInv, IndexTypeOK, ChainTypeOK, LinkInv
<1>2. PICK r \in candidates : Reference(r)
  BY Zenon DEF RankInv
<1>3. candidates \subseteq Selectable /\ Selectable \subseteq candidates
  BY ReferenceSelectable, Zenon DEF Selectable
<1>4. /\ BestCandidate \in candidates
      /\ \A d \in candidates \ {BestCandidate} : WorkLess(d, BestCandidate, valTime, seqId)
  <2>1. Selectable # {} /\ candidates \subseteq known /\ Selectable = candidates
    BY <1>2, <1>3, Zenon DEF Inv, ChainTypeOK
  <2> QED BY <1>1, <2>1, BestCandidateBest, Zenon
<1>5. BestCandidate = tip
  <2>1. ~NoCandidate(t)
    BY <1>2, <1>3, Zenon DEF NoCandidate
  <2> QED BY <2>1, FoundTip, Zenon DEF Finishes
<1>6. r = tip
  BY <1>2, <1>4, <1>5, Zenon DEF Reference
<1>7. /\ \A b \in Blocks : ~WorkLess(b, b, valTime, seqId)
      /\ \A a, b \in Blocks : WorkLess(a, b, valTime, seqId) => ~WorkLess(b, a, valTime, seqId)
  BY <1>1, RankType, WorkOrder, Zenon
<1>8. ASSUME NEW b \in linked, Clean(b), WorkLess(tip, b, valTime, seqId)
      PROVE  FALSE
  <2>1. ~WorkLess(b, tip, valTime, seqId) /\ b # tip
    BY <1>1, <1>7, <1>8, Zenon
  <2>2. b \in candidates
    BY <1>2, <1>6, <1>8, <2>1, Zenon DEF Reference
  <2> QED BY <1>4, <1>5, <2>1, <2>2, Zenon
<1> QED BY <1>8, Zenon DEF TipIsBest

(* Every step keeps the invariant.                                         *)
LEMMA NextBest ==
  ASSUME BlocksAndPrecious, FrozenSpend = {}, Inv, Inv', LinkInv, LinkInv', MarkInv, BestInv, [Next]_vars
  PROVE  BestInv'
<1>1. IndexTypeOK /\ IndexTypeOK' /\ MarkInv' /\ RankInv /\ (KeepStep \/ \E c : ImproveStep(c))
  BY NextKinds, Zenon DEF Inv, IndexInv, BestInv
<1>2. RankInv'
  BY <1>1, RankKeeps, RankImproves, Zenon
<1>3. ASSUME Settled'
      PROVE  TipIsBest'
  <2>1. CASE Settled /\ UNCHANGED <<linked, tip, valTime, seqId>> /\ Invalid \subseteq Invalid'
    <3>1. \A b : Clean(b)' => Clean(b)
      BY <2>1, Zenon DEF Clean
    <3> QED BY <2>1, <3>1, Zenon DEF TipIsBest, BestInv
  <2>2. CASE /\ \E t \in Threads : Finishes(t)
             /\ UNCHANGED <<failed, failedParent, linked, tip, valTime, seqId>>
    <3>1. TipIsBest
      BY <1>1, <2>2, FinishesBest, Zenon
    <3>2. \A b : Clean(b)' <=> Clean(b)
      BY <2>2, Zenon DEF Clean, Invalid
    <3> QED BY <2>2, <3>1, <3>2, Zenon DEF TipIsBest
  <2> QED BY <1>3, <2>1, <2>2, SettledStep, Zenon
<1> QED BY <1>2, <1>3, Zenon DEF BestInv

(* A node starts at the genesis block, its only candidate.                 *)
LEMMA InitBest == Init => BestInv
<1> SUFFICES ASSUME Init PROVE BestInv
  BY Zenon
<1>1. ~WorkLess(Genesis, Genesis, valTime, seqId)
  <2>1. IndexTypeOK
    BY InitInv, Zenon DEF Inv, IndexInv
  <2> QED BY <2>1, RankType, WorkOrder, TreeAssumption, Zenon
<1>2. Connectable(Genesis)
  BY InitMark, Zenon DEF MarkInv, TipGood, Init
<1>3. Reference(Genesis)
  BY <1>1, <1>2, Zenon DEF Reference, Init, IndexInit
<1>4. RankInv
  BY <1>3, Zenon DEF RankInv, Init
<1>5. TipIsBest
  BY <1>1, Zenon DEF TipIsBest, Init, IndexInit
<1> QED BY <1>4, <1>5, Zenon DEF BestInv

(* The invariant behind the choice of the tip.                             *)
THEOREM BestInvariance ==
  ASSUME BlocksAndPrecious, FrozenSpend = {}
  PROVE  Spec => []BestInv
<1>1. NeitherInvalidatedNorPruned
  BY Zenon DEF BlocksAndPrecious
<1>2. Inv /\ Inv' /\ LinkInv /\ LinkInv' /\ MarkInv /\ BestInv /\ [Next]_vars => BestInv'
  BY NextBest, Zenon
<1>3. Spec => []LinkInv /\ []MarkInv
  BY <1>1, LinkInvariance, MarkInvariance, Zenon
<1> QED BY <1>2, <1>3, InitBest, ChainInvariance, PTL DEF Spec

(* Once every activation has ended, no linked block without invalid        *)
(* ancestors beats the tip: giving up for another thread, a lost script    *)
(* check queue, a lost race for the tip and failed blocks lose nothing.    *)
THEOREM ChainQuiescentTipIsBest ==
  ASSUME BlocksAndPrecious, FrozenSpend = {}
  PROVE  Spec => []QuiescentTipIsBest
<1>1. LinkInv /\ MarkInv /\ BestInv => QuiescentTipIsBest
  <2> SUFFICES ASSUME LinkInv, MarkInv, BestInv, Quiet, NEW b \in linked, Obstacles(b) = {}
               PROVE  ~WorkLess(tip, b, valTime, seqId)
    BY Zenon DEF QuiescentTipIsBest
  <2>1. TipIsBest
    BY Zenon DEF BestInv, Settled, Quiet
  <2>2. Clean(tip)
    BY ConnectableClean, Zenon DEF MarkInv, TipGood
  <2>3. Clean(b)
    BY <2>2, Zenon DEF Clean, Obstacles
  <2> QED BY <2>1, <2>3, Zenon DEF TipIsBest
<1>2. NeitherInvalidatedNorPruned
  BY DEF BlocksAndPrecious
<1>3. Spec => []LinkInv /\ []MarkInv /\ []BestInv
  BY <1>2, LinkInvariance, MarkInvariance, BestInvariance, Zenon
<1> QED BY <1>1, <1>3, PTL

(* The candidates always hold a usable block with at least the work of the *)
(* tip, also while a reorganization is half done.                          *)
THEOREM ChainFallbackCandidate ==
  ASSUME BlocksAndPrecious, FrozenSpend = {}
  PROVE  Spec => []FallbackCandidate
<1>1. LinkInv /\ MarkInv /\ BestInv => FallbackCandidate
  <2> SUFFICES ASSUME LinkInv, MarkInv, BestInv
               PROVE  \E c \in Selectable : Obstacles(c) = {} /\ Work[c] >= Work[tip]
    BY Zenon DEF FallbackCandidate
  <2>1. PICK r \in candidates : Reference(r)
    BY Zenon DEF BestInv, RankInv
  <2>2. r \in Selectable /\ r \in linked /\ r \in Blocks /\ tip \in Blocks
    BY ReferenceSelectable, Zenon DEF LinkInv, MarkInv, TipGood
  <2>3. Obstacles(r) = {}
    BY <2>1, <2>2, ConnectableClean, LinkedClosed, Zenon DEF Clean, Obstacles, Reference, MarkInv
  <2>4. Work[r] >= Work[tip]
    <3>1. Work[r] \in Nat /\ Work[tip] \in Nat
      BY <2>2, WorkAssumption, Zenon
    <3>2. ~WorkLess(r, tip, valTime, seqId)
      BY <2>1, Zenon DEF Reference
    <3>3. ~(Work[r] < Work[tip])
      BY <3>2, Zenon DEF WorkLess
    <3> QED BY <3>1, <3>3
  <2> QED BY <2>2, <2>3, <2>4, Zenon
<1>2. NeitherInvalidatedNorPruned
  BY DEF BlocksAndPrecious
<1>3. Spec => []LinkInv /\ []MarkInv /\ []BestInv
  BY <1>2, LinkInvariance, MarkInvariance, BestInvariance
<1> QED BY <1>1, <1>3, PTL

-----------------------------------------------------------------------------
(* Frozen outputs.  The active chain may pass through frozen blocks on its *)
(* way to a better one, but it does not come to rest there.                *)

Unfrozen(b) == ~InSoftConsensusFreeze(b, freeze)

(* A candidate to return to that is not frozen, not worse than any block   *)
(* of the active chain that is not frozen.                                 *)
Fallback(r) ==
  /\ Connectable(r) /\ Decided(r) /\ Unfrozen(r)
  /\ \A a \in Chain[tip] : Unfrozen(a) => ~WorkLess(r, a, valTime, seqId)

FallbackInv == \E r \in candidates : Fallback(r)

FreezeInv == FallbackInv /\ (Settled => Unfrozen(tip))

(* Steps that change no rank.                                              *)
LEMMA FallbackKeeps ==
  ASSUME LinkInv, MarkInv, MarkInv', FallbackInv, KeepStep
  PROVE  FallbackInv'
<1>1. PICK r \in candidates : Fallback(r)
  BY Zenon DEF FallbackInv
<1>2. r \in linked /\ r \in Blocks
  BY <1>1, Zenon DEF LinkInv
<1>3. r \in candidates'
  <2>1. r \notin Invalid'
    BY <1>1, <1>2, Zenon DEF MarkInv, MarkedBad, Fallback, Connectable, KeepStep
  <2> QED BY <1>1, <2>1, Zenon DEF KeepStep
<1>4. ASSUME NEW a \in Chain[tip'], Unfrozen(a)'
      PROVE  ~WorkLess(r, a, valTime', seqId')
  <2>1. a \in Chain[tip]
    <3>1. tip' \in Chain[tip] /\ TipGood
      BY Zenon DEF KeepStep, MarkInv
    <3> QED BY <1>4, <3>1, ActiveGood, Zenon
  <2>2. a \in linked /\ a \in Blocks /\ Decided(a)
    BY <2>1, ActiveGood, Zenon DEF MarkInv
  <2>3. Unfrozen(a)
    BY <1>4, <2>2, Zenon DEF KeepStep, FreezeSame, Unfrozen
  <2>4. ~WorkLess(r, a, valTime, seqId)
    BY <1>1, <2>1, <2>3, Zenon DEF Fallback
  <2> QED BY <1>2, <2>2, <2>4, Zenon DEF WorkLess, KeepStep
<1>5. Decided(r)' /\ Unfrozen(r)'
  BY <1>1, <1>2, Zenon DEF KeepStep, FreezeSame, Fallback, Unfrozen
<1>6. Fallback(r)'
  BY <1>1, <1>4, <1>5, Zenon DEF Fallback, Connectable
<1> QED BY <1>3, <1>6, Zenon DEF FallbackInv

(* Steps that improve one block: it takes the place of the candidate if it *)
(* is now better and on the active chain.                                  *)
LEMMA FallbackImproves ==
  ASSUME IndexTypeOK, IndexTypeOK', LinkInv, MarkInv, MarkInv', FallbackInv, NEW c, ImproveStep(c)
  PROVE  FallbackInv'
<1> DEFINE Less(a, b) == WorkLess(a, b, valTime, seqId)
           Worse(a, b) == WorkLess(a, b, valTime', seqId')
<1>1. /\ linked' = linked /\ linked \subseteq Blocks /\ candidates \subseteq linked /\ c \in Blocks
      /\ freeze' = freeze
  BY Zenon DEF LinkInv, ImproveStep
<1>2. \A b : /\ Connectable(b)' <=> Connectable(b)
             /\ Decided(b)' <=> Decided(b)
             /\ Unfrozen(b)' <=> Unfrozen(b)
  BY <1>1, Zenon DEF Connectable, Decided, Unfrozen
<1>3. /\ \A a, b \in Blocks \ {c} : Worse(a, b) <=> Less(a, b)
      /\ \A b \in Blocks \ {c} : (Worse(c, b) => Less(c, b)) /\ (Less(b, c) => Worse(b, c))
  BY ImprovesOrder, Zenon DEF ImproveStep
<1>4. /\ \A a \in Blocks : ~Worse(a, a)
      /\ \A a, b \in Blocks : Worse(a, b) => ~Worse(b, a)
      /\ \A a, b, d \in Blocks : ~Worse(a, b) /\ ~Worse(b, d) => ~Worse(a, d)
  BY NextRankType, WorkOrder, Zenon
<1>5. PICK r \in candidates : Fallback(r)
  BY Zenon DEF FallbackInv
<1>6. /\ r \in linked /\ r \in Blocks /\ Connectable(r) /\ Clean(r) /\ Decided(r) /\ Unfrozen(r)
      /\ \A a \in Chain[tip] : Unfrozen(a) => ~Less(r, a)
  BY <1>1, <1>5, ConnectableClean, Zenon DEF Fallback, MarkInv
<1>7. /\ tip' \in Chain[tip'] /\ tip' \in Blocks
      /\ \A a \in Chain[tip'] : /\ a \in linked /\ a \in Blocks /\ Connectable(a) /\ Clean(a) /\ Decided(a)
                                /\ a # c => a \in Chain[tip]
  <2>1. tip' \in linked /\ Connectable(tip') /\ Decided(tip')
    BY <1>1, <1>2, Zenon DEF MarkInv, TipGood
  <2>2. tip' \in Blocks /\ Chain[tip'] \subseteq linked
    BY <2>1, LinkedClosed, Zenon
  <2>3. \A a \in Chain[tip'] : Connectable(a) /\ Decided(a)
    BY <2>1, <2>2, ChainTransitive, Zenon DEF Connectable, Decided
  <2>4. \A a \in Chain[tip'] : Clean(a)
    BY <2>2, <2>3, ConnectableClean, Zenon DEF MarkInv
  <2> QED BY <1>1, <2>2, <2>3, <2>4, ChainSelf, Zenon DEF ImproveStep
<1>8. ASSUME NEW b \in candidates \union {c}, b \in linked, Clean(b), Unfrozen(tip') => ~Worse(b, tip')
      PROVE  b \in candidates'
  BY <1>8, Zenon DEF ImproveStep, Unfrozen
<1>9. \A a \in Chain[tip'] \ {c} : Unfrozen(a) => ~Worse(r, a)
  BY <1>3, <1>6, <1>7, Zenon
<1> SUFFICES \E s \in candidates' : Fallback(s)'
  BY Zenon DEF FallbackInv
<1> HIDE DEF Less, Worse
<1>10. CASE \A a \in Chain[tip'] : Unfrozen(a) => ~Worse(r, a)
  <2>1. r \in candidates'
    BY <1>5, <1>6, <1>7, <1>8, <1>10, Zenon
  <2>2. Fallback(r)'
    BY <1>2, <1>6, <1>10, Zenon DEF Fallback, Worse
  <2> QED BY <2>1, <2>2, Zenon
<1>11. CASE ~\A a \in Chain[tip'] : Unfrozen(a) => ~Worse(r, a)
  <2>1. c \in Chain[tip'] /\ Unfrozen(c) /\ Worse(r, c)
    BY <1>9, <1>11, Zenon
  <2>2. \A a \in Chain[tip'] : Unfrozen(a) => ~Worse(c, a)
    BY <1>1, <1>4, <1>6, <1>7, <1>9, <2>1, Zenon
  <2>3. c \in candidates'
    BY <1>7, <1>8, <2>1, <2>2, Zenon
  <2>4. Fallback(c)'
    BY <1>2, <1>7, <2>1, <2>2, Zenon DEF Fallback, Worse
  <2> QED BY <2>3, <2>4, Zenon
<1> QED BY <1>10, <1>11, Zenon

(* FindMostWorkChain selects no frozen block, and always finds one.        *)
LEMMA FinishesUnfrozen ==
  ASSUME Inv, LinkInv, MarkInv, FallbackInv, NEW t \in Threads, Finishes(t)
  PROVE  Unfrozen(tip)
<1>1. PICK r \in candidates : Fallback(r)
  BY Zenon DEF FallbackInv
<1>2. r \in Selectable
  <2>1. ~IsSoftRejected(r)
    <3>1. softRejected[r] = -1
      BY <1>1, Zenon DEF LinkInv, MarkInv, NoneRejected
    <3> QED BY <3>1 DEF IsSoftRejected
  <2> QED BY <1>1, <2>1, Zenon DEF Selectable, Fallback, Unfrozen
<1>3. BestCandidate \in Selectable
  BY <1>2, BestCandidateLinked, Zenon
<1>4. BestCandidate = tip
  <2>1. ~NoCandidate(t)
    BY <1>2, Zenon DEF NoCandidate
  <2> QED BY <2>1, FoundTip, Zenon DEF Finishes
<1> QED BY <1>3, <1>4, Zenon DEF Selectable, Unfrozen

(* Every step keeps the invariant.                                         *)
LEMMA NextFreeze ==
  ASSUME BlocksAndPrecious, Inv, Inv', LinkInv, LinkInv', MarkInv, FreezeInv, [Next]_vars
  PROVE  FreezeInv'
<1>1. IndexTypeOK /\ IndexTypeOK' /\ MarkInv' /\ FallbackInv /\ (KeepStep \/ \E c : ImproveStep(c))
  BY NextKinds, Zenon DEF Inv, IndexInv, FreezeInv
<1>2. FallbackInv'
  BY <1>1, FallbackKeeps, FallbackImproves, Zenon
<1>3. ASSUME Settled'
      PROVE  Unfrozen(tip)'
  <2>1. tip' = tip /\ freeze' = freeze /\ (Settled \/ \E t \in Threads : Finishes(t))
    BY <1>3, SettledStep, Zenon
  <2>2. Unfrozen(tip)
    BY <1>1, <2>1, FinishesUnfrozen, Zenon DEF FreezeInv
  <2> QED BY <2>1, <2>2, Zenon DEF Unfrozen
<1> QED BY <1>2, <1>3, Zenon DEF FreezeInv

(* A node starts at the genesis block, which is not frozen.                *)
LEMMA InitFreeze == Init => FreezeInv
<1> SUFFICES ASSUME Init PROVE FreezeInv
  BY Zenon
<1>1. \A a \in Chain[Genesis] : a = Genesis
  BY TreeAssumption, Zenon
<1>2. Unfrozen(Genesis)
  BY <1>1, TreeAssumption, Zenon DEF Unfrozen, InSoftConsensusFreeze, Init, IndexInit
<1>3. ~WorkLess(Genesis, Genesis, valTime, seqId)
  <2>1. IndexTypeOK
    BY InitInv, Zenon DEF Inv, IndexInv
  <2> QED BY <2>1, RankType, WorkOrder, TreeAssumption, Zenon
<1>4. tip = Genesis /\ candidates = {Genesis} /\ Connectable(Genesis) /\ Decided(Genesis)
  BY InitMark, Zenon DEF MarkInv, TipGood, Init
<1> QED BY <1>1, <1>2, <1>3, <1>4, Zenon DEF FreezeInv, FallbackInv, Fallback

(* The invariant behind the way back from frozen blocks.                   *)
THEOREM FreezeInvariance ==
  ASSUME BlocksAndPrecious
  PROVE  Spec => []FreezeInv
<1>1. NeitherInvalidatedNorPruned
  BY Zenon DEF BlocksAndPrecious
<1>2. Inv /\ Inv' /\ LinkInv /\ LinkInv' /\ MarkInv /\ FreezeInv /\ [Next]_vars => FreezeInv'
  BY NextFreeze, Zenon
<1>3. Spec => []LinkInv /\ []MarkInv
  BY <1>1, LinkInvariance, MarkInvariance, Zenon
<1> QED BY <1>2, <1>3, InitFreeze, ChainInvariance, PTL DEF Spec

(* Once every activation has ended, the tip is not a frozen block,         *)
(* whichever blocks spend frozen outputs, however long they stay frozen    *)
(* and whatever the chains beyond them turn out to be.                     *)
THEOREM ChainQuiescentTipNotFrozen ==
  ASSUME BlocksAndPrecious
  PROVE  Spec => []QuiescentTipNotFrozen
<1>1. FreezeInv => QuiescentTipNotFrozen
  BY Zenon DEF FreezeInv, QuiescentTipNotFrozen, Unfrozen, Settled, Quiet
<1> QED BY <1>1, FreezeInvariance, PTL
=============================================================================
