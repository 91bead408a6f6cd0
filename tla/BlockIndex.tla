----------------------------- MODULE BlockIndex -----------------------------
(***************************************************************************)
(* The block index entries of the node (CBlockIndex in                     *)
(* src/src/block_index.h) and the operations on them.  Every operation     *)
(* holds the entry's own mutex, so it is atomic; the callers in            *)
(* src/src/validation.cpp decide what else happens in the same step.       *)
(***************************************************************************)
EXTENDS BlockTree

CONSTANTS
  FreezeDuration   \* softconsensusfreezeduration

ASSUME FreezeAssumption == FreezeDuration \in Nat

VARIABLES
  known,         \* mapBlockIndex: blocks whose header was accepted
  failed,        \* status bit of blocks that failed themselves
  failedParent,  \* status bit of descendants of failed blocks
  validity,      \* validation level reached: TREE, TRANSACTIONS or SCRIPTS
  haveData,      \* block data is on disk
  haveUndo,      \* undo data is on disk
  linked,        \* nChainTx # 0: data of the block and all ancestors was received
  seqId,         \* nSequenceId: order in which blocks were linked
  valTime,       \* mValidationCompletionTime
  softRejected,  \* nSoftRejected: -1, or soft rejected with that many descendants
  freeze         \* mSoftConsensusFreezeForNBlocks: -1 if not explicitly frozen

indexVars == <<known, failed, failedParent, validity, haveData, haveUndo, linked,
               seqId, valTime, softRejected, freeze>>

TREE == 0
TRANSACTIONS == 1
SCRIPTS == 2

(* Times are ordinals: blocks get the time of their validation in the      *)
(* order in which they were validated.                                     *)
MinTime == 0
MaxTime == Cardinality(Blocks) + 1

IndexTypeOK ==
  /\ known \subseteq Blocks
  /\ failed \subseteq known /\ failedParent \subseteq known
  /\ validity \in [Blocks -> {TREE, TRANSACTIONS, SCRIPTS}]
  /\ haveData \subseteq known /\ haveUndo \subseteq known
  /\ linked \subseteq known
  /\ seqId \in [Blocks -> Int]
  /\ valTime \in [Blocks -> MinTime .. MaxTime]
  /\ softRejected \in [Blocks -> Int]
  /\ freeze \in [Blocks -> {-1, FreezeDuration}]

(* The state once the genesis block was connected.                         *)
IndexInit ==
  /\ known = {Genesis}
  /\ failed = {} /\ failedParent = {}
  /\ validity = [b \in Blocks |-> IF b = Genesis THEN TRANSACTIONS ELSE TREE]
  /\ haveData = {Genesis} /\ haveUndo = {}
  /\ linked = {Genesis}
  /\ seqId = [b \in Blocks |-> IF b = Genesis THEN 1 ELSE 0]
  /\ valTime = [b \in Blocks |-> MaxTime]
  /\ softRejected = [b \in Blocks |-> -1]
  /\ freeze = [b \in Blocks |-> -1]

-----------------------------------------------------------------------------
(* BlockStatus::isInvalid and CBlockIndex::IsValid(TRANSACTIONS).          *)
Invalid == failed \union failedParent

IsValid(b) == b \notin Invalid /\ validity[b] >= TRANSACTIONS

IsSoftRejected(b) == softRejected[b] >= 0

SoftRejectedBecauseOfParent(b) == softRejected[Parent[b]] > 0

(* mSoftConsensusFreezeForNBlocksCumulative # -1: the block or one of its  *)
(* ancestors is explicitly frozen and the block is within its range.       *)
InSoftConsensusFreeze(b, fr) ==
  \E a \in Chain[b] : fr[a] # -1 /\ Height(b) - Height(a) <= fr[a]

Frozen(fr) == {b \in Blocks : InSoftConsensusFreeze(b, fr)}

(* CBlockIndexWorkComparator: a sorts before b, i.e. is the worse tip.     *)
WorkLess(a, b, vt, sq) ==
  \/ Work[a] < Work[b]
  \/ /\ Work[a] = Work[b]
     /\ \/ vt[a] > vt[b]
        \/ vt[a] = vt[b] /\ sq[a] > sq[b]
        \/ vt[a] = vt[b] /\ sq[a] = sq[b] /\ Addr[a] > Addr[b]

-----------------------------------------------------------------------------
(* Mutant: a new header starts without soft rejection.                     *)
InsertHeaderAccepted(b) == known' = known \union {b} /\ UNCHANGED softRejected

(* The CBlockIndex constructor: a header enters the index, and inherits    *)
(* the soft rejection of its parent.                                       *)
InsertHeader(b) ==
  /\ known' = known \union {b}
  /\ softRejected' = [softRejected EXCEPT ![b] =
       IF SoftRejectedBecauseOfParent(b) THEN softRejected[Parent[b]] - 1 ELSE -1]

(* SetDiskBlockData; it also resets nChainTx, which the caller sets again. *)
SetDiskBlockData(b) ==
  /\ haveData' = haveData \union {b}
  /\ validity' = [validity EXCEPT ![b] =
       IF b \in Invalid \/ @ >= TRANSACTIONS THEN @ ELSE TRANSACTIONS]

(* writeUndoToDisk, with RaiseValidityNL(SCRIPTS).                         *)
WriteUndoToDisk(b) ==
  LET raise == b \notin Invalid /\ validity[b] < SCRIPTS
      now   == 1 + Cardinality({c \in Blocks : validity[c] = SCRIPTS})
  IN /\ haveUndo' = haveUndo \union {b}
     /\ validity' = [validity EXCEPT ![b] = IF raise THEN SCRIPTS ELSE @]
     /\ valTime' = [valTime EXCEPT ![b] = IF raise /\ @ = MaxTime THEN now ELSE @]

(* SetRootSoftRejectedForNL: the descendants up to height maxHeight follow *)
(* the root.                                                               *)
SetSoftRejectedFor(x, n, maxHeight) ==
  softRejected' = [b \in Blocks |->
    IF b = x THEN n
    ELSE IF b \in known \cap Descendants(x) /\ Height(b) <= maxHeight
      THEN IF n - (Height(b) - Height(x)) >= 0 THEN n - (Height(b) - Height(x)) ELSE -1
    ELSE softRejected[b]]
=============================================================================
