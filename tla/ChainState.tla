----------------------------- MODULE ChainState -----------------------------
(***************************************************************************)
(* Block acceptance and best chain activation (src/src/validation.cpp).    *)
(*                                                                         *)
(* Threads receive blocks, run the block RPCs and activate the best chain. *)
(* Everything happens under cs_main except the validation of the scripts   *)
(* of a block: ConnectTip releases cs_main for it ("parallel" validation)  *)
(* when the tip has as much work as at the start of the step, so several   *)
(* threads may validate competing blocks while others change the index,    *)
(* the candidates and the active chain.                                    *)
(*                                                                         *)
(* A section under cs_main that no other thread can observe is one action; *)
(* ActivateBestChain is cut into actions at the places the code has a loop *)
(* or releases the lock.                                                   *)
(***************************************************************************)
EXTENDS BlockIndex

CONSTANTS
  Threads,            \* threads that handle blocks and RPC calls
  None,               \* no thread, no block
  MaxParallelBlocks,  \* -maxparallelblocks: script check queues in the pool
  BadContext,         \* blocks ContextualCheckBlock rejects
  BadScripts,         \* blocks whose inputs or scripts are invalid
  FrozenSpend,        \* blocks spending a consensus frozen output
  BadTTOR,            \* blocks that violate the transaction order
  TTORDistance,       \* MIN_TTOR_VALIDATION_DISTANCE
  KeepBlocks,         \* MIN_BLOCKS_TO_KEEP
  Invalidatable,      \* arguments of invalidateblock and reconsiderblock
  SoftRejectable,     \* arguments of softrejectblock and acceptblock
  SoftRejectFor,      \* numblocks of softrejectblock and acceptblock
  MaxPrecious,        \* bound on preciousblock calls while the tip's work does not grow
  Prunable,           \* blocks in files that pruneblockchain may remove
  MaxSeqId            \* bound on sequence numbers: no pruning beyond it

ASSUME ChainAssumption ==
  /\ IsFiniteSet(Threads)
  /\ None \notin Threads /\ None \notin Blocks
  /\ MaxParallelBlocks \in Nat \ {0}
  /\ BadContext \subseteq NonGenesis /\ BadScripts \subseteq NonGenesis
  /\ FrozenSpend \subseteq NonGenesis /\ BadTTOR \subseteq NonGenesis
  /\ TTORDistance \in Nat \ {0} /\ KeepBlocks \in Nat \ {0}
  /\ Invalidatable \subseteq NonGenesis /\ SoftRejectable \subseteq NonGenesis
  /\ SoftRejectFor \subseteq Nat
  /\ MaxPrecious \in Nat
  /\ Prunable \subseteq Blocks /\ MaxSeqId \in Nat

VARIABLES
  candidates,     \* setBlockIndexCandidates
  unlinked,       \* mapBlocksUnlinked, by child
  tip,            \* chainActive.Tip()
  nextSeqId,      \* nBlockSequenceId
  reverseSeqId,   \* nBlockReverseSequenceId
  preciousWork,   \* nLastPreciousChainwork
  csMain,         \* the thread that holds cs_main
  pc,             \* where each thread is
  nested,         \* threads whose caller keeps cs_main (InvalidateBlock ...)
  pblock,         \* the block the activation was started for
  mostWork,       \* pindexMostWork
  newTip,         \* pindexNewTip
  oldTip,         \* pindexOldTip of ActivateBestChainStep
  connecting,     \* pindexNew of ConnectTip, in blockValidationStatus
  base,           \* best block of the coins view ConnectTip works on
  parallel,       \* threads whose ConnectTip runs in parallel mode
  cancelled,      \* threads whose script check queue was taken away
  outcome         \* what checkScripts found

chainVars == <<candidates, unlinked, tip, nextSeqId>>
preciousVars == <<reverseSeqId, preciousWork>>
stepVars == <<oldTip, connecting, base, parallel, cancelled, outcome>>
callVars == <<nested, pblock, mostWork, newTip>>
vars == <<indexVars, chainVars, preciousVars, stepVars, callVars, csMain, pc>>

PCs == {"idle", "accept", "activate", "find", "check", "step", "getChecker",
        "waitChecker", "scripts", "relock"}

(* The threads that have a guard in blockValidationStatus.                 *)
Validating == {t \in Threads : pc[t] \in {"getChecker", "waitChecker", "scripts", "relock"}}

ChainTypeOK ==
  /\ candidates \subseteq known /\ unlinked \subseteq known \ {Genesis}
  /\ tip \in known
  /\ nextSeqId \in Nat /\ reverseSeqId \in Int /\ preciousWork \in Nat

ThreadTypeOK ==
  /\ csMain \in Threads \union {None}
  /\ pc \in [Threads -> PCs]
  /\ nested \subseteq Threads
  /\ pblock \in [Threads -> Blocks \union {None}]
  /\ mostWork \in [Threads -> known \union {None}]
  /\ newTip \in [Threads -> Blocks \union {None}]
  /\ oldTip \in [Threads -> Blocks \union {None}]
  /\ connecting \in [Threads -> Blocks \union {None}]
  /\ base \in [Threads -> Blocks \union {None}]
  /\ parallel \subseteq Threads /\ cancelled \subseteq Threads
  /\ outcome \in [Threads -> {"ok", "invalid", "frozen", "cancelled"}]

TypeOK == IndexTypeOK /\ ChainTypeOK /\ ThreadTypeOK

Init ==
  /\ IndexInit
  /\ candidates = {Genesis} /\ unlinked = {} /\ tip = Genesis
  /\ nextSeqId = 2 /\ reverseSeqId = -1 /\ preciousWork = 0
  /\ csMain = None
  /\ pc = [t \in Threads |-> "idle"]
  /\ nested = {} /\ parallel = {} /\ cancelled = {}
  /\ pblock = [t \in Threads |-> None]
  /\ mostWork = [t \in Threads |-> None]
  /\ newTip = [t \in Threads |-> None]
  /\ oldTip = [t \in Threads |-> None]
  /\ connecting = [t \in Threads |-> None]
  /\ base = [t \in Threads |-> None]
  /\ outcome = [t \in Threads |-> "ok"]

-----------------------------------------------------------------------------
(* Candidates.                                                             *)

(* Mutant: the tip itself is dropped too.                                  *)
PruneTipToo(cands, x, vt, sq) == {c \in cands : WorkLess(x, c, vt, sq)}

(* Mutant: the cleaning does not wait until the tip has left the freeze.   *)
PruneInFreeze(cands, x, vt, sq) ==
  cands \ {c \in cands :
    \A d \in cands : d = c \/ WorkLess(d, c, vt, sq) =>
      /\ WorkLess(d, x, vt, sq)
      /\ ~IsSoftRejected(x) \/ IsSoftRejected(d)}

(* PruneBlockIndexCandidates for a tip x: drop candidates from the worst   *)
(* one on, until one is not worse than x or x is soft rejected and the     *)
(* candidate is not.                                                       *)
PruneBlockIndexCandidates(cands, x, vt, sq) ==
  IF InSoftConsensusFreeze(x, freeze) THEN cands
  ELSE cands \ {c \in cands :
         \A d \in cands : d = c \/ WorkLess(d, c, vt, sq) =>
           /\ WorkLess(d, x, vt, sq)
           /\ ~IsSoftRejected(x) \/ IsSoftRejected(d)}

(* Mutant: only the new tip is put back.                                   *)
NotWorseOnlyTip(x, bad) == {x}

(* Blocks at least as good as x that can be candidates, once the blocks in *)
(* bad are invalid.                                                        *)
NotWorseThan(x, bad) ==
  {b \in linked \ bad : validity[b] >= TRANSACTIONS /\ ~WorkLess(b, x, valTime, seqId)}

(* Mutant: frozen blocks stay in the active chain.                         *)
RemoveNothing(x) == x

(* The active chain may not end in a block that is frozen.                 *)
RemoveFrozen(x) == Rewind(x, Frozen(freeze))

SoftRejectedBlocks(sr) == {b \in Blocks : sr[b] >= 0}

(* The blocks InvalidateChain marks, and drops from the candidates.        *)
InvalidateChain(b) == known \cap Descendants(b)

-----------------------------------------------------------------------------
(* Calls and returns of ActivateBestChain.                                 *)

StartActivation(t, b) ==
  /\ pc' = [pc EXCEPT ![t] = "activate"]
  /\ pblock' = [pblock EXCEPT ![t] = b]
  /\ UNCHANGED <<mostWork, newTip>>

(* The loop ends; cs_main is released, also by the caller.                 *)
LeaveActivation(t) ==
  /\ csMain' = None
  /\ nested' = nested \ {t}
  /\ pc' = [pc EXCEPT ![t] = "idle"]
  /\ pblock' = [pblock EXCEPT ![t] = None]
  /\ mostWork' = [mostWork EXCEPT ![t] = None]
  /\ newTip' = [newTip EXCEPT ![t] = None]

(* An iteration of the loop ends with the tip y for pindexNewTip and the   *)
(* cached best chain w.                                                    *)
EndStep(t, w, y) ==
  /\ csMain' = IF t \in nested THEN t ELSE None
  /\ pc' = [pc EXCEPT ![t] = "activate"]
  /\ mostWork' = [mostWork EXCEPT ![t] = w]
  /\ newTip' = [newTip EXCEPT ![t] = y]
  /\ oldTip' = [oldTip EXCEPT ![t] = None]
  /\ connecting' = [connecting EXCEPT ![t] = None]
  /\ base' = [base EXCEPT ![t] = None]
  /\ outcome' = [outcome EXCEPT ![t] = "ok"]
  /\ parallel' = parallel \ {t}
  /\ cancelled' = cancelled \ {t}
  /\ UNCHANGED <<nested, pblock>>

-----------------------------------------------------------------------------
(* Reception of headers and blocks.                                        *)

(* Mutant: the header is not entered.                                      *)
AddNothing(b) == UNCHANGED <<known, softRejected>>

(* The part of AcceptBlockHeader that changes the index.                   *)
AddToBlockIndex(b) ==
  IF b \in known THEN UNCHANGED <<known, softRejected>> ELSE InsertHeader(b)

(* ProcessNewBlockHeaders with one new header.                             *)
AcceptBlockHeader(b) ==
  /\ csMain = None
  /\ b \notin known /\ Parent[b] \in known \ Invalid
  /\ InsertHeader(b)
  /\ UNCHANGED <<failed, failedParent, validity, haveData, haveUndo, linked, seqId,
                 valTime, freeze, chainVars, preciousVars, stepVars, callVars, csMain, pc>>

(* The checks of ProcessNewBlock... made without cs_main.                  *)
ReceiveBlock(t, b) ==
  /\ pc[t] = "idle"
  /\ Parent[b] \in known \ Invalid
  /\ pc' = [pc EXCEPT ![t] = "accept"]
  /\ pblock' = [pblock EXCEPT ![t] = b]
  /\ UNCHANGED <<indexVars, chainVars, preciousVars, stepVars, nested, mostWork, newTip, csMain>>

(* AcceptBlockHeader refuses the block.                                    *)
HeaderRefused(b) == b \in Invalid \/ (b \notin known /\ Parent[b] \in Invalid)

(* AcceptBlock does not store a block it has, or one it neither asked for  *)
(* nor needs.                                                              *)
NotStored(b, requested) ==
  \/ b \in haveData
  \/ /\ ~requested
     /\ \/ validity[b] >= TRANSACTIONS
        \/ Work[b] <= Work[tip]
        \/ Height(b) > Height(tip) + KeepBlocks

ViolatesTTOR(b) == b \in BadTTOR /\ Height(tip) - Height(b) >= TTORDistance

Reject(t) ==
  /\ pc' = [pc EXCEPT ![t] = "idle"]
  /\ pblock' = [pblock EXCEPT ![t] = None]

AcceptBlockRefused(t) ==
  /\ pc[t] = "accept" /\ csMain = None
  /\ HeaderRefused(pblock[t])
  /\ Reject(t)
  /\ UNCHANGED <<indexVars, chainVars, preciousVars, stepVars, nested, mostWork, newTip, csMain>>

AcceptBlockNotStored(t, requested) ==
  LET b == pblock[t] IN
  /\ pc[t] = "accept" /\ csMain = None
  /\ ~HeaderRefused(b) /\ NotStored(b, requested)
  /\ AddToBlockIndex(b)
  /\ StartActivation(t, b)
  /\ UNCHANGED <<failed, failedParent, validity, haveData, haveUndo, linked, seqId,
                 valTime, freeze, chainVars, preciousVars, stepVars, nested, csMain>>

AcceptBlockInvalid(t, requested) ==
  LET b == pblock[t]
      descendants == IF b \in BadContext THEN {} ELSE InvalidateChain(b) IN
  /\ pc[t] = "accept" /\ csMain = None
  /\ ~HeaderRefused(b) /\ ~NotStored(b, requested)
  /\ b \in BadContext \/ ViolatesTTOR(b)
  /\ AddToBlockIndex(b)
  /\ failed' = failed \union {b}
  /\ failedParent' = failedParent \union descendants
  /\ candidates' = IF b \in BadContext THEN candidates
                   ELSE candidates \ (descendants \union {b})
  /\ Reject(t)
  /\ UNCHANGED <<validity, haveData, haveUndo, linked, seqId, valTime, freeze, unlinked,
                 tip, nextSeqId, preciousVars, stepVars, nested, mostWork, newTip, csMain>>

(* Mutant: the blocks that waited for b are not linked.                    *)
LinkedAlone(b) == {b}

(* ReceivedBlockTransactions links b and the blocks that waited for it,    *)
(* parents before children.                                                *)
LinkedWith(b) ==
  {b} \union {d \in unlinked : b \in Chain[d] /\ (Chain[d] \ Chain[b]) \subseteq unlinked}

LinkOrders(S) ==
  {f \in [S -> nextSeqId .. nextSeqId + Cardinality(S) - 1] :
     \A c, d \in S : /\ c # d => f[c] # f[d]
                     /\ Height(c) < Height(d) => f[c] < f[d]}

ReceivedBlockTransactions(b) ==
  LET new == LinkedWith(b) IN
  /\ SetDiskBlockData(b)
  /\ \/ /\ Parent[b] \in linked
        /\ linked' = linked \union new
        /\ \E f \in LinkOrders(new) :
             seqId' = [c \in Blocks |-> IF c \in new THEN f[c] ELSE seqId[c]]
        /\ nextSeqId' = nextSeqId + Cardinality(new)
        /\ candidates' = candidates \union
             {c \in new : ~WorkLess(c, tip, valTime, seqId')}
        /\ unlinked' = unlinked \ new
     \/ /\ Parent[b] \notin linked
        /\ linked' = linked \ {b}
        /\ unlinked' = IF Parent[b] \in Invalid THEN unlinked ELSE unlinked \union {b}
        /\ UNCHANGED <<seqId, nextSeqId, candidates>>

AcceptBlock(t, requested) ==
  LET b == pblock[t] IN
  /\ pc[t] = "accept" /\ csMain = None
  /\ ~HeaderRefused(b) /\ ~NotStored(b, requested)
  /\ b \notin BadContext /\ ~ViolatesTTOR(b)
  /\ AddToBlockIndex(b)
  /\ ReceivedBlockTransactions(b)
  /\ StartActivation(t, b)
  /\ UNCHANGED <<failed, failedParent, haveUndo, valTime, freeze, tip, preciousVars,
                 stepVars, nested, csMain>>

-----------------------------------------------------------------------------
(* ActivateBestChain.                                                      *)

(* The loop body takes cs_main; a cached best chain is used while the tip  *)
(* is the one this thread left.                                            *)
EnterLoop(t) ==
  /\ pc[t] = "activate" /\ csMain \in {None, t}
  /\ csMain' = t
  /\ pc' = [pc EXCEPT ![t] =
       IF mostWork[t] = None \/ newTip[t] # tip THEN "find" ELSE "check"]
  /\ UNCHANGED <<indexVars, chainVars, preciousVars, stepVars, callVars>>

Selectable == {c \in candidates : ~IsSoftRejected(c) /\ ~InSoftConsensusFreeze(c, freeze)}

(* Mutant: the candidate received first, not the one with the most work.   *)
FirstCandidate ==
  CHOOSE c \in Selectable : \A d \in Selectable \ {c} : seqId[c] < seqId[d]

BestCandidate ==
  CHOOSE c \in Selectable : \A d \in Selectable \ {c} : WorkLess(d, c, valTime, seqId)

(* The highest block on the way from the active chain to the candidate c   *)
(* that is invalid or without data; c is usable if there is none.          *)
Obstacles(c) == {b \in Chain[c] \ Chain[tip] : b \in Invalid \/ b \notin haveData}

TopObstacle(c) == CHOOSE b \in Obstacles(c) : Obstacles(c) \subseteq Chain[b]

(* ConsiderBlockForMostWorkChain.                                          *)
ConsiderBlockForMostWorkChain(best, b) ==
  IF \/ b \in {None, Genesis}
     \/ Parent[b] # tip
     \/ Work[best] > Work[b]
     \/ ~IsValid(b)
     \/ b \notin linked
     \/ InSoftConsensusFreeze(b, freeze)
  THEN best ELSE b

(* FindMostWorkChain returns null.                                         *)
NoCandidate(t) ==
  /\ pc[t] = "find" /\ csMain = t
  /\ Selectable = {}
  /\ LeaveActivation(t)
  /\ UNCHANGED <<indexVars, chainVars, preciousVars, stepVars>>

(* An iteration of FindMostWorkChain meets an invalid block.               *)
FindMostWorkInvalid(t) ==
  LET top == TopObstacle(BestCandidate)
      descendants == InvalidateChain(top) IN
  /\ pc[t] = "find" /\ csMain = t
  /\ Selectable # {} /\ Obstacles(BestCandidate) # {}
  /\ top \in Invalid
  /\ failedParent' = failedParent \union descendants
  /\ candidates' = candidates \ (descendants \union {top})
  /\ UNCHANGED <<known, failed, validity, haveData, haveUndo, linked, seqId, valTime,
                 softRejected, freeze, unlinked, tip, nextSeqId, preciousVars,
                 stepVars, callVars, csMain, pc>>

(* An iteration of FindMostWorkChain meets a block whose data was pruned.  *)
FindMostWorkMissing(t) ==
  LET top == TopObstacle(BestCandidate)
      above == Chain[BestCandidate] \ Chain[top] IN
  /\ pc[t] = "find" /\ csMain = t
  /\ Selectable # {} /\ Obstacles(BestCandidate) # {}
  /\ top \notin Invalid
  /\ unlinked' = unlinked \union above
  /\ candidates' = candidates \ (above \union {top})
  /\ UNCHANGED <<indexVars, tip, nextSeqId, preciousVars, stepVars, callVars, csMain, pc>>

(* FindMostWorkChain returns a block; the activation ends if it is the tip.*)
FindMostWorkChain(t) ==
  LET most == ConsiderBlockForMostWorkChain(BestCandidate, pblock[t]) IN
  /\ pc[t] = "find" /\ csMain = t
  /\ Selectable # {} /\ Obstacles(BestCandidate) = {}
  /\ \/ /\ most = tip
        /\ LeaveActivation(t)
     \/ /\ most # tip
        /\ mostWork' = [mostWork EXCEPT ![t] = most]
        /\ pc' = [pc EXCEPT ![t] = "check"]
        /\ UNCHANGED <<csMain, nested, pblock, newTip>>
  /\ UNCHANGED <<indexVars, chainVars, preciousVars, stepVars>>

(* Mutant: only the block itself is looked for, not its ancestors.         *)
IsSelfInValidation(b) == \E u \in Validating : connecting[u] = b

IsAncestorInValidation(b) == \E u \in Validating : connecting[u] \in Chain[b]

AreNSiblingsInValidation(b, n) ==
  Cardinality({u \in Validating : Height(connecting[u]) = Height(b)}) >= n

(* The activation is left to the threads that validate already.            *)
GiveUp(t) ==
  /\ pc[t] = "check" /\ csMain = t
  /\ \/ IsAncestorInValidation(mostWork[t])
     \/ AreNSiblingsInValidation(mostWork[t], MaxParallelBlocks)
  /\ LeaveActivation(t)
  /\ UNCHANGED <<indexVars, chainVars, preciousVars, stepVars>>

StartStep(t) ==
  /\ pc[t] = "check" /\ csMain = t
  /\ ~IsAncestorInValidation(mostWork[t])
  /\ ~AreNSiblingsInValidation(mostWork[t], MaxParallelBlocks)
  /\ oldTip' = [oldTip EXCEPT ![t] = tip]
  /\ pc' = [pc EXCEPT ![t] = "step"]
  /\ UNCHANGED <<indexVars, chainVars, preciousVars, callVars, csMain, connecting, base,
                 parallel, cancelled, outcome>>

-----------------------------------------------------------------------------
(* ActivateBestChainStep.                                                  *)

(* The tip is not on the best chain.                                       *)
DisconnectTip(t) ==
  /\ pc[t] = "step" /\ csMain = t
  /\ tip \notin Chain[mostWork[t]]
  /\ tip' = Parent[tip]
  /\ UNCHANGED <<indexVars, candidates, unlinked, nextSeqId, preciousVars, stepVars,
                 callVars, csMain, pc>>

(* The best chain ends at the fork: nothing to connect.                    *)
NothingToConnect(t) ==
  /\ pc[t] = "step" /\ csMain = t
  /\ tip = mostWork[t]
  /\ EndStep(t, None, tip)
  /\ UNCHANGED <<indexVars, chainVars, preciousVars>>

(* ConnectTip up to the call of checkScripts; cs_main is released in       *)
(* parallel mode, unless the caller holds it too.                          *)
StartConnectTip(t) ==
  LET par == Work[tip] = Work[oldTip[t]] IN
  /\ pc[t] = "step" /\ csMain = t
  /\ tip \in Chain[mostWork[t]] \ {mostWork[t]}
  /\ connecting' = [connecting EXCEPT ![t] = ChildToward(tip, mostWork[t])]
  /\ base' = [base EXCEPT ![t] = tip]
  /\ parallel' = IF par THEN parallel \union {t} ELSE parallel
  /\ csMain' = IF par /\ t \notin nested THEN None ELSE t
  /\ pc' = [pc EXCEPT ![t] = "getChecker"]
  /\ UNCHANGED <<indexVars, chainVars, preciousVars, callVars, oldTip, cancelled, outcome>>

Checking == {u \in Threads : pc[u] = "scripts"}

WorstChecking ==
  {u \in Checking : \A v \in Checking : Work[mostWork[u]] <= Work[mostWork[v]]}

(* CCheckQueuePool::GetChecker: take an idle script check queue, or cancel *)
(* the worst running validation if it is for less work, and wait.          *)
GetChecker(t) ==
  /\ pc[t] = "getChecker"
  /\ \/ /\ Cardinality(Checking) < MaxParallelBlocks
        /\ pc' = [pc EXCEPT ![t] = "scripts"]
        /\ UNCHANGED cancelled
     \/ /\ Cardinality(Checking) >= MaxParallelBlocks
        /\ pc' = [pc EXCEPT ![t] = "waitChecker"]
        /\ \E u \in WorstChecking :
             cancelled' = IF Work[mostWork[u]] < Work[mostWork[t]]
                          THEN cancelled \union {u} ELSE cancelled
  /\ UNCHANGED <<indexVars, chainVars, preciousVars, callVars, csMain, oldTip, connecting,
                 base, parallel, outcome>>

ObtainChecker(t) ==
  /\ pc[t] = "waitChecker"
  /\ Cardinality(Checking) < MaxParallelBlocks
  /\ pc' = [pc EXCEPT ![t] = "scripts"]
  /\ UNCHANGED <<indexVars, chainVars, preciousVars, callVars, stepVars, csMain>>

(* checkScripts; a block that spends a frozen output is soft consensus     *)
(* frozen without cs_main, the first time it is validated.                 *)
CheckScripts(t) ==
  LET c == connecting[t]
      freezes == c \in FrozenSpend /\ freeze[c] = -1 IN
  /\ pc[t] = "scripts"
  /\ pc' = [pc EXCEPT ![t] = "relock"]
  /\ \/ /\ freezes
        /\ freeze' = [freeze EXCEPT ![c] = FreezeDuration]
        /\ outcome' = [outcome EXCEPT ![t] = "frozen"]
     \/ /\ ~freezes
        /\ outcome' = [outcome EXCEPT ![t] = IF c \in BadScripts THEN "invalid" ELSE "ok"]
        /\ UNCHANGED freeze
     \/ /\ ~freezes /\ t \in cancelled
        /\ outcome' = [outcome EXCEPT ![t] = "cancelled"]
        /\ UNCHANGED freeze
  /\ UNCHANGED <<known, failed, failedParent, validity, haveData, haveUndo, linked, seqId,
                 valTime, softRejected, chainVars, preciousVars, callVars, csMain, oldTip,
                 connecting, base, parallel, cancelled>>

Relock(t) == pc[t] = "relock" /\ csMain \in {None, t}

(* Mutant: the coins are attached without looking at the tip.              *)
ReattachAlways(t) == TRUE

(* CCoinsViewCache::TryReattach.                                           *)
TryReattach(t) == t \in parallel => tip = base[t]

(* The rest of ConnectTip for a valid block, and of the step, which ends   *)
(* when the tip is better than the old one.                                *)
ConnectTip(t) ==
  LET c == connecting[t] IN
  /\ Relock(t) /\ outcome[t] = "ok"
  /\ TryReattach(t)
  /\ WriteUndoToDisk(c)
  /\ tip' = c
  /\ candidates' = PruneBlockIndexCandidates(candidates \union {c}, c, valTime', seqId)
  /\ \/ /\ c = mostWork[t] \/ Work[c] > Work[oldTip[t]]
        /\ EndStep(t, IF c = mostWork[t] THEN None ELSE mostWork[t], c)
     \/ /\ ~(c = mostWork[t] \/ Work[c] > Work[oldTip[t]])
        /\ csMain' = t
        /\ pc' = [pc EXCEPT ![t] = "step"]
        /\ connecting' = [connecting EXCEPT ![t] = None]
        /\ base' = [base EXCEPT ![t] = None]
        /\ parallel' = parallel \ {t}
        /\ cancelled' = cancelled \ {t}
        /\ UNCHANGED <<callVars, oldTip, outcome>>
  /\ UNCHANGED <<known, failed, failedParent, haveData, linked, seqId, softRejected, freeze,
                 unlinked, nextSeqId, preciousVars>>

(* The tip changed meanwhile: CBestBlockAttachmentCancellation.            *)
AttachmentCancelled(t) ==
  LET c == connecting[t] IN
  /\ Relock(t) /\ outcome[t] = "ok"
  /\ ~TryReattach(t)
  /\ WriteUndoToDisk(c)
  /\ candidates' = candidates \union {c}
  /\ tip' = RemoveFrozen(tip)
  /\ EndStep(t, None, newTip[t])
  /\ UNCHANGED <<known, failed, failedParent, haveData, linked, seqId, softRejected, freeze,
                 unlinked, nextSeqId, preciousVars>>

(* CBlockValidationCancellation.                                           *)
ValidationCancelled(t) ==
  /\ Relock(t) /\ outcome[t] = "cancelled"
  /\ tip' = RemoveFrozen(tip)
  /\ EndStep(t, None, newTip[t])
  /\ UNCHANGED <<indexVars, candidates, unlinked, nextSeqId, preciousVars>>

(* Mutant: the failure is not recorded.                                    *)
InvalidBlockForgotten(t) == {}

(* The block InvalidBlockFound marks and drops: none if it is only frozen. *)
InvalidBlockFound(t) == IF outcome[t] = "invalid" THEN {connecting[t]} ELSE {}

(* ConnectTip fails; the loop goes on with the chain that is left.         *)
ConnectTipFailed(t) ==
  /\ Relock(t) /\ outcome[t] \in {"invalid", "frozen"}
  /\ failed' = failed \union InvalidBlockFound(t)
  /\ candidates' = candidates \ InvalidBlockFound(t)
  /\ tip' = RemoveFrozen(tip)
  /\ EndStep(t, None, tip')
  /\ UNCHANGED <<known, failedParent, validity, haveData, haveUndo, linked, seqId, valTime,
                 softRejected, freeze, unlinked, nextSeqId, preciousVars>>

-----------------------------------------------------------------------------
(* The block RPCs.                                                         *)

(* invalidateblock; cs_main stays held while the best chain is activated.  *)
InvalidateBlock(t, b) ==
  LET onActive == b \in Chain[tip]
      hit == IF onActive THEN Chain[tip] \ Chain[Parent[b]] ELSE InvalidateChain(b)
      newtip == IF onActive
                THEN RemoveFrozen(Rewind(Parent[b], SoftRejectedBlocks(softRejected)))
                ELSE tip IN
  /\ pc[t] = "idle" /\ csMain = None
  /\ b \in known
  /\ failed' = failed \union {b}
  /\ failedParent' = failedParent \union hit
  /\ tip' = newtip
  /\ candidates' = (candidates \ (hit \union {b}))
                   \union NotWorseThan(newtip, failed' \union failedParent')
  /\ csMain' = t /\ nested' = nested \union {t}
  /\ StartActivation(t, None)
  /\ UNCHANGED <<known, validity, haveData, haveUndo, linked, seqId, valTime, softRejected,
                 freeze, unlinked, nextSeqId, preciousVars, stepVars>>

(* reconsiderblock: ResetBlockFailureFlags, then activation.               *)
ReconsiderBlock(t, b) ==
  LET reset == Invalid \cap ({b} \union Descendants(b)) IN
  /\ pc[t] = "idle" /\ csMain = None
  /\ b \in known
  /\ failed' = failed \ (reset \union Chain[b])
  /\ failedParent' = failedParent \ (reset \union Chain[b])
  /\ candidates' = candidates \union
       {c \in reset : /\ validity[c] >= TRANSACTIONS /\ c \in linked
                      /\ WorkLess(tip, c, valTime, seqId)}
  /\ StartActivation(t, None)
  /\ UNCHANGED <<known, validity, haveData, haveUndo, linked, seqId, valTime, softRejected,
                 freeze, unlinked, tip, nextSeqId, preciousVars, stepVars, nested, csMain>>

(* softrejectblock: SoftRejectBlockNL where it reports no error.           *)
SoftRejectBlock(t, b, n) ==
  LET maxHeight == Height(b) + n
      inRange == {d \in known \cap Descendants(b) : Height(d) <= maxHeight}
      newtip == Rewind(tip, SoftRejectedBlocks(softRejected')) IN
  /\ pc[t] = "idle" /\ csMain = None
  /\ b \in known
  /\ IsSoftRejected(b) => ~SoftRejectedBecauseOfParent(b) /\ n > softRejected[b]
  /\ \A d \in inRange : IsSoftRejected(d) => SoftRejectedBecauseOfParent(d)
  /\ SetSoftRejectedFor(b, n, maxHeight)
  /\ tip' = newtip
  /\ \/ /\ newtip # tip
        /\ candidates' = candidates \union NotWorseThan(newtip, Invalid)
        /\ csMain' = t /\ nested' = nested \union {t}
        /\ StartActivation(t, None)
     \/ /\ newtip = tip
        /\ UNCHANGED <<candidates, csMain, pc, callVars>>
  /\ UNCHANGED <<known, failed, failedParent, validity, haveData, haveUndo, linked, seqId,
                 valTime, freeze, unlinked, nextSeqId, preciousVars, stepVars>>

(* acceptblock: AcceptSoftRejectedBlockNL where it reports no error, then  *)
(* activation.                                                             *)
AcceptSoftRejectedBlock(t, b, n) ==
  /\ pc[t] = "idle" /\ csMain = None
  /\ b \in known
  /\ IsSoftRejected(b) /\ ~SoftRejectedBecauseOfParent(b)
  /\ n < softRejected[b]
  /\ SetSoftRejectedFor(b, n, Height(b) + softRejected[b])
  /\ StartActivation(t, None)
  /\ UNCHANGED <<known, failed, failedParent, validity, haveData, haveUndo, linked, seqId,
                 valTime, freeze, chainVars, preciousVars, stepVars, nested, csMain>>

(* preciousblock on a block that has the work of the tip.                  *)
PreciousBlock(t, b) ==
  LET id == IF Work[tip] > preciousWork THEN -1 ELSE reverseSeqId
      erased == candidates \ {b} IN
  /\ pc[t] = "idle" /\ csMain = None
  /\ id >= -MaxPrecious
  /\ b \in known
  /\ Work[b] >= Work[tip]
  /\ reverseSeqId' = id - 1
  /\ preciousWork' = Work[tip]
  /\ valTime' = [valTime EXCEPT ![b] = MinTime]
  /\ seqId' = [seqId EXCEPT ![b] = id]
  /\ candidates' = IF IsValid(b) /\ b \in linked
                   THEN PruneBlockIndexCandidates(erased \union {b}, tip, valTime', seqId')
                   ELSE erased
  /\ StartActivation(t, None)
  /\ UNCHANGED <<known, failed, failedParent, validity, haveData, haveUndo, linked,
                 softRejected, freeze, unlinked, tip, nextSeqId, stepVars, nested, csMain>>

(* pruneblockchain removes the data of the blocks of some files.           *)
PruneBlockFiles(S) ==
  /\ csMain = None /\ nextSeqId <= MaxSeqId
  /\ \A b \in S : Height(b) <= Height(tip) - KeepBlocks
  /\ haveData' = haveData \ S
  /\ haveUndo' = haveUndo \ S
  /\ unlinked' = unlinked \ S
  /\ UNCHANGED <<known, failed, failedParent, validity, linked, seqId, valTime, softRejected,
                 freeze, candidates, tip, nextSeqId, preciousVars, stepVars, callVars, csMain,
                 pc>>

-----------------------------------------------------------------------------
(* The rest of the reception of a block, under cs_main.                    *)
Accept(t) ==
  \/ AcceptBlockRefused(t)
  \/ \E requested \in BOOLEAN :
       AcceptBlockNotStored(t, requested) \/ AcceptBlockInvalid(t, requested)
       \/ AcceptBlock(t, requested)

Rpc(t) ==
  \/ \E b \in Invalidatable : InvalidateBlock(t, b) \/ ReconsiderBlock(t, b)
  \/ \E b \in SoftRejectable, n \in SoftRejectFor : SoftRejectBlock(t, b, n)
  \/ \E b \in SoftRejectable, n \in SoftRejectFor \union {-1} :
       AcceptSoftRejectedBlock(t, b, n)
  \/ \E b \in NonGenesis : PreciousBlock(t, b)

(* The steps of an activation, once it was started.                        *)
Activation(t) ==
  \/ EnterLoop(t) \/ NoCandidate(t) \/ FindMostWorkInvalid(t) \/ FindMostWorkMissing(t)
  \/ FindMostWorkChain(t) \/ GiveUp(t) \/ StartStep(t)
  \/ DisconnectTip(t) \/ NothingToConnect(t) \/ StartConnectTip(t)
  \/ GetChecker(t) \/ ObtainChecker(t) \/ CheckScripts(t)
  \/ ConnectTip(t) \/ AttachmentCancelled(t) \/ ValidationCancelled(t) \/ ConnectTipFailed(t)

Next ==
  \/ \E b \in NonGenesis : AcceptBlockHeader(b)
  \/ \E t \in Threads, b \in NonGenesis : ReceiveBlock(t, b)
  \/ \E t \in Threads : Accept(t) \/ Rpc(t) \/ Activation(t)
  \/ \E S \in SUBSET (Prunable \cap haveData) : PruneBlockFiles(S)

Spec == Init /\ [][Next]_vars

-----------------------------------------------------------------------------
(* Properties.                                                             *)

Quiet == \A t \in Threads : pc[t] = "idle"

(* The tip only moves to a child of itself, or back to one of its          *)
(* ancestors: a block validated while cs_main was released is never put on *)
(* top of a chain that changed meanwhile (TryReattach in                   *)
(* BlockConnector::Connect).                                               *)
ConnectExtendsTip ==
  [][tip' \in Chain[tip] \/ (tip' # Genesis /\ Parent[tip'] = tip)]_vars

(* No block is validated by two threads at once: ActivateBestChain gives   *)
(* up when a block on its way is in validation, so the case CScopeGuard of *)
(* CBlockValidationStatus calls a bug never happens.                       *)
NoDoubleValidation ==
  \A t, u \in Validating : t # u => connecting[t] # connecting[u]

(* Whenever cs_main is free, the candidates hold a usable block with at    *)
(* least the work of the tip: PruneBlockIndexCandidates never drops what   *)
(* a failed reorganization has to return to.                               *)
FallbackCandidate ==
  csMain = None => \E c \in Selectable : Obstacles(c) = {} /\ Work[c] >= Work[tip]

(* When every activation has ended, no block that could be connected beats *)
(* the tip: giving up for the sake of another thread's validation, losing  *)
(* a script check queue or a race for the tip never loses a better block   *)
(* (ActivateBestChain).                                                    *)
QuiescentTipIsBest ==
  Quiet => \A b \in linked :
    /\ Obstacles(b) = {}
    /\ ~IsSoftRejected(b) /\ ~InSoftConsensusFreeze(b, freeze)
    => ~WorkLess(tip, b, valTime, seqId)

(* nChainTx is set for exactly the blocks all of whose chain was received, *)
(* in whatever order the blocks arrived (CheckBlockIndex).                 *)
LinkedIffReceived ==
  linked = {b \in known : \A a \in Chain[b] : validity[a] >= TRANSACTIONS}

(* A block with data waits in mapBlocksUnlinked if an ancestor was never   *)
(* received and none failed, and only while an ancestor has no data        *)
(* (CheckBlockIndex).                                                      *)
UnlinkedExact ==
  /\ \A b \in haveData \ linked : Chain[b] \cap failed = {} => b \in unlinked
  /\ \A b \in unlinked : b \in haveData /\ ~(Chain[b] \subseteq haveData)

(* Soft rejection reaches exactly the descendants softrejectblock counts,  *)
(* whether they were known then or their header came later                 *)
(* (SetSoftRejectedFromParentBaseNL).                                      *)
SoftRejectInherited ==
  \A b \in known \ {Genesis} :
    softRejected[Parent[b]] > 0 => softRejected[b] = softRejected[Parent[b]] - 1

(* CheckBlockIndex: "The failed mask cannot be set for blocks without      *)
(* invalid parents".                                                       *)
FailureHasSource == \A b \in Invalid : Chain[b] \cap failed # {}

(* FindMostWorkChain: "Just going until the active chain is an             *)
(* optimization, as we know all blocks in it are valid already".           *)
ActiveChainValid == Quiet => Chain[tip] \cap Invalid = {}

(* softrejectblock: "Chains whose tip is soft rejected are not considered  *)
(* when selecting best chain".                                             *)
SoftRejectedNotSelected ==
  \A t \in Threads : pc[t] = "step" /\ t \notin nested => ~IsSoftRejected(mostWork[t])

(* The active chain does not come to rest in a soft consensus frozen       *)
(* block: after a softrejectblock "we do basically the same thing as it is *)
(* done in the function InvalidateBlock".                                  *)
QuiescentTipNotFrozen == Quiet => ~InSoftConsensusFreeze(tip, freeze)

-----------------------------------------------------------------------------
(* A thread that has started to handle a block goes on: script checks      *)
(* terminate and cs_main is always released.                               *)
FairSpec == Spec /\ \A t \in Threads : WF_vars(Activation(t)) /\ WF_vars(Accept(t))

(* Once no more blocks or RPC calls come in, every activation ends:        *)
(* threads that steal each other's script check queues, lose races for the *)
(* tip or meet invalid blocks do not keep each other busy for ever         *)
(* (ActivateBestChain has no other exit than finding nothing better).      *)
ActivationConverges ==
  <>[][\E t \in Threads : Activation(t) \/ Accept(t)]_vars => <>[]Quiet
=============================================================================
