---------------------------- MODULE TxnValidator ----------------------------
(***************************************************************************)
(* The transaction validator (txn_validator.cpp) with the functions that   *)
(* its threads run (TxnValidation and ProcessValidatedTxn in               *)
(* validation.cpp), the double spend detector, the orphan pool and the     *)
(* filter of recent rejects.                                               *)
(*                                                                         *)
(* Peers fill the standard queue.  The validator thread moves transactions *)
(* from the queues to the processing queue, has them validated by the      *)
(* threads as the scheduler hands them out, and sorts the results: low     *)
(* priority transactions to the non-standard queue, cancelled ones and     *)
(* orphans worth a retry back to the processing queue.  The validator      *)
(* holds cs_main during a batch, so blocks, disconnected peers and         *)
(* transactions submitted over RPC come between batches.                   *)
(***************************************************************************)
EXTENDS ValidationScheduler, Functions

CONSTANTS
  Outputs,           \* [Txs -> Nat], the number of outputs
  Peer,              \* [Txs -> peers], the peer that sends a transaction
  Submitted,         \* transactions submitted over RPC
  Slow,              \* transactions whose validation may run out of time
  Shady,             \* transactions whose scripts may turn out invalid
  BlockChoices,      \* sets of transactions a block may hold
  Coins,             \* outpoints that are unspent at the start
  MaxStd, MaxNonStd, \* transactions of a queue that one batch takes
  MaxQueue,          \* transactions a queue has room for
  MaxPool,           \* transactions the mempool has room for
  MaxOrphanTxs,      \* transactions the orphan pool has room for
  MaxOrphansInBatch, \* orphans a retry collects
  Fragile,           \* transactions whose validation may be cancelled or throw
  MaxUpsets          \* bound on the cancellations and exceptions of a behaviour

VARIABLES
  running,        \* the validator thread: "idle", "validate" or "sort" (a batch)
  mStdTxns, mNonStdTxns,
  low,            \* transactions whose priority is low
  orphanFlag,     \* transactions marked as orphans (IsOrphanTxn)
  stage,          \* per position of the batch: the next step of its thread
  verdict,        \* per position: what validation found
  mKnownSpends,   \* the detector's vector of spent outpoints
  mKnownSpendsTx, \* the transactions whose inputs it holds
  orphans,        \* mOrphanTxns
  collected,      \* mCollectedTxData
  recentRejects,
  rejectsStale,   \* the tip changed since the filter was last reset
  mempool,
  coins,          \* pcoinsTip: the unspent outpoints of the active chain
  gone,           \* peers that disconnected
  bad,            \* transactions with invalid scripts
  upsets,         \* cancellations and exceptions so far
  outside,        \* history: entered mempool or chain past the validator thread
  dropped         \* history: given up with no more than a log message

queueVars == <<running, mStdTxns, mNonStdTxns>>
threadVars == <<stage, verdict>>
detectorVars == <<mKnownSpends, mKnownSpendsTx>>
chainVars == <<mempool, coins>>
rejectVars == <<recentRejects, rejectsStale>>
orphanVars == <<orphans, collected>>
txVars == <<low, orphanFlag>>
worldVars == <<gone, bad>>
historyVars == <<outside, dropped>>
vars == <<schedulerVars, queueVars, threadVars, detectorVars, chainVars, rejectVars,
          orphanVars, txVars, worldVars, upsets, historyVars>>

-----------------------------------------------------------------------------
(* Transactions and where they are *)

\* The sequences that list a finite set, each element once, and one of them: the
\* operators of SequencesExt, which would burden the proofs with the rest of it.
SetToSeqs(S) == {f \in [1..Cardinality(S) -> S] : IsInjective(f)}

SetToSeq(S) == CHOOSE f \in [1..Cardinality(S) -> S] : IsInjective(f)

Outs(t) == {<<t, n>> : n \in 1..Outputs[t]}

Spent(T) == UNION {Inputs[t] : t \in T}

\* A transaction has inputs (CheckTransactionCommon rejects one without), and
\* only outputs that exist are unspent.
ASSUME TransactionAssumption ==
  /\ IsFiniteSet(Txs)
  /\ \A t \in Txs : IsFiniteSet(Inputs[t]) /\ Inputs[t] # {}
  /\ \A o \in Coins : o[1] \in Txs => o \in Outs(o[1])
  /\ BlockChoices \subseteq SUBSET Txs /\ Submitted \subseteq Txs

\* What a chain that holds the transactions in M may leave unspent: nothing
\* that they spend, of transactions only outputs of theirs.  It holds their
\* parents too.
LeavesUnspent(M, utxo) ==
  /\ utxo \intersect Spent(M) = {}
  /\ \A o \in utxo : o[1] \in Txs => o[1] \in M /\ o \in Outs(o[1])
  /\ \A t \in M : Parents(t) \intersect Txs \subseteq M

\* No transaction descends from itself, and the node starts with the unspent
\* outputs of a chain.
ASSUME MinedAssumption ==
  /\ \A T \in SUBSET Txs : T # {} => \E t \in T : Parents(t) \intersect T = {}
  /\ \E M \in SUBSET Txs : LeavesUnspent(M, Coins)

ASSUME LimitAssumption == MaxStd \in Nat /\ MaxNonStd \in Nat /\ MaxQueue \in Nat

\* What descends in the mempool from T, a part of it, and T itself: the least
\* set with T that no child leaves.
WithDescendants(T) ==
  {u \in mempool : \A D \in SUBSET mempool :
     T \subseteq D /\ (\A v \in mempool : Parents(v) \intersect D # {} => v \in D) => u \in D}

Queued == Range(mStdTxns) \union Range(mNonStdTxns) \union Range(txs)

\* TxIdTracker: the transactions that a queue or the orphan pool still owns.
Tracked == Queued \union orphans

\* CCoinsViewMemPool over pcoinsTip: outputs of the mempool, spent there or
\* not, and for transactions that are not in it unspent outputs of the chain.
HaveCoin(o) == IF o[1] \in mempool THEN o \in Outs(o[1]) ELSE o \in coins

CheckTxConflicts(t) == \E u \in mempool : Inputs[u] \intersect Inputs[t] # {}

\* CheckTxOutputs: an output of t is on the active chain.
AlreadyMined(t) == Outs(t) \intersect coins # {}

Init ==
  /\ SchedulerInit
  /\ running = "idle" /\ mStdTxns = <<>> /\ mNonStdTxns = <<>>
  /\ low = {} /\ orphanFlag = {}
  /\ stage = <<>> /\ verdict = <<>>
  /\ mKnownSpends = <<>> /\ mKnownSpendsTx = {}
  /\ orphans = {} /\ collected = {}
  /\ recentRejects = {} /\ rejectsStale = FALSE
  /\ mempool = {} /\ coins = Coins
  /\ gone = {} /\ bad \in SUBSET Shady
  /\ upsets = 0
  /\ outside = {} /\ dropped = {}

-----------------------------------------------------------------------------
(* Queues *)

HasRoom(q) == Len(q) < MaxQueue

\* ProcessTxMessage: an unknown transaction is put on the standard queue with
\* high priority, if there is room.  IsTxnKnown resets the filter of rejects
\* when the tip has changed.
ProcessTxMessage(t) ==
  LET rejects == IF rejectsStale THEN {} ELSE recentRejects
      known == t \in rejects \union mempool \union Tracked \/ AlreadyMined(t)
  IN /\ Peer[t] \notin gone
     /\ recentRejects' = rejects
     /\ rejectsStale' = FALSE
     /\ IF known \/ ~HasRoom(mStdTxns)
        THEN UNCHANGED <<mStdTxns, txVars>>
        ELSE /\ mStdTxns' = Append(mStdTxns, t)
             /\ low' = low \ {t}
             /\ orphanFlag' = orphanFlag \ {t}
     /\ UNCHANGED <<schedulerVars, running, mNonStdTxns, threadVars, detectorVars,
                    chainVars, orphanVars, worldVars, upsets, historyVars>>

\* collectTxns: what a batch takes of a queue, unless it is full already.
Taken(q, max, batch) ==
  IF Len(batch) < MaxStd + MaxNonStd
  THEN SubSeq(q, 1, IF max > Len(q) THEN Len(q) ELSE max)
  ELSE <<>>

Rest(q, taken) == SubSeq(q, Len(taken) + 1, Len(q))

\* threadNewTxnHandler, up to the call of the scheduler.
StartBatch ==
  LET std == Taken(mStdTxns, MaxStd, txs)
      nonStd == Taken(mNonStdTxns, MaxNonStd, txs \o std)
      batch == txs \o std \o nonStd
  IN /\ running = "idle"
     /\ batch # <<>>
     /\ running' = "validate"
     /\ mStdTxns' = Rest(mStdTxns, std)
     /\ mNonStdTxns' = Rest(mNonStdTxns, nonStd)
     /\ NewScheduler(batch)
     /\ stage' = [i \in DOMAIN batch |-> "ready"]
     /\ verdict' = [i \in DOMAIN batch |-> "none"]
     /\ UNCHANGED <<detectorVars, chainVars, rejectVars, orphanVars, txVars,
                    worldVars, upsets, historyVars>>

-----------------------------------------------------------------------------
(* The steps of a validator thread on the transaction at position i *)

\* TxnValidationProcessingTask works through the positions of a task in order.
Turn(i) ==
  \E t \in tasks : \E k \in DOMAIN t :
    t[k] = i /\ \A j \in 1..k - 1 : stage[t[j]] = "over"

Go(i, from, to) ==
  /\ i \in DOMAIN stage /\ stage[i] = from /\ Turn(i)
  /\ stage' = [stage EXCEPT ![i] = to]

Find(i, v) == verdict' = [verdict EXCEPT ![i] = v]

\* The position that the same task works on just before i, if any.
Before(i) ==
  {j \in Positions : \E t \in tasks : \E k \in 2..Len(t) : t[k - 1] = j /\ t[k] = i}

\* The time of the batch is over; a transaction is only skipped at the head
\* of its task or after one that is valid or skipped too.
Cancel(i) ==
  /\ upsets < MaxUpsets /\ txs[i] \in Fragile
  /\ \A j \in Before(i) : verdict[j] \in {"valid", "canceled"}
  /\ Go(i, "ready", "over")
  /\ Find(i, "canceled")
  /\ upsets' = upsets + 1
  /\ UNCHANGED <<schedulerVars, queueVars, detectorVars, chainVars, rejectVars,
                 orphanVars, txVars, worldVars, historyVars>>

\* TxnValidation, up to the detector: the first check that fails decides.
Findings(t) ==
  IF t \in mempool THEN {"known"}
  ELSE IF CheckTxConflicts(t) THEN {"conflict"}
  ELSE IF \E o \in Inputs[t] : ~HaveCoin(o)
       THEN {IF AlreadyMined(t) THEN "known" ELSE "missing"}
  ELSE (IF t \in Slow THEN {"timeout"} ELSE {}) \union
       {IF t \in bad THEN "bad" ELSE "valid"}

TxnValidation(i) ==
  /\ \E v \in Findings(txs[i]) :
       /\ Go(i, "ready", IF v = "valid" THEN "detect" ELSE "reject")
       /\ Find(i, v)
  /\ UNCHANGED <<schedulerVars, queueVars, detectorVars, chainVars, rejectVars,
                 orphanVars, txVars, worldVars, upsets, historyVars>>

\* The inputs of t in the order in which the detector stores them.
Vin(t) == SetToSeq(Inputs[t])

\* Mutant: the detector trusts the check of the mempool made before.
insertUnchecked(i) ==
  LET t == txs[i]
      known == Inputs[t] \intersect Range(mKnownSpends) # {}
  IN /\ Go(i, "detect", IF known THEN "reject" ELSE "commit")
     /\ Find(i, IF known THEN "doubleSpend" ELSE "valid")
     /\ IF known
        THEN UNCHANGED detectorVars
        ELSE /\ mKnownSpends' = mKnownSpends \o Vin(t)
             /\ mKnownSpendsTx' = mKnownSpendsTx \union {t}
     /\ UNCHANGED <<schedulerVars, queueVars, chainVars, rejectVars, orphanVars,
                    txVars, worldVars, upsets, historyVars>>

\* insertTxnInputs, under the detector's mutex: check for a conflict with the
\* mempool again, then with the inputs of transactions in validation.
insertTxnInputs(i) ==
  LET t == txs[i]
      found == IF CheckTxConflicts(t) THEN "conflict"
               ELSE IF Inputs[t] \intersect Range(mKnownSpends) # {} THEN "doubleSpend"
               ELSE "valid"
  IN /\ Go(i, "detect", IF found = "valid" THEN "commit" ELSE "reject")
     /\ Find(i, found)
     /\ IF found = "valid"
        THEN /\ mKnownSpends' = mKnownSpends \o Vin(t)
             /\ mKnownSpendsTx' = mKnownSpendsTx \union {t}
        ELSE UNCHANGED detectorVars
     /\ UNCHANGED <<schedulerVars, queueVars, chainVars, rejectVars, orphanVars,
                    txVars, worldVars, upsets, historyVars>>

\* removeTxnInputs: the inputs of t are next to each other in the vector, from
\* the first entry that equals its first input.
removeTxnInputs(t) ==
  IF t \in mKnownSpendsTx
  THEN LET first == CHOOSE k \in DOMAIN mKnownSpends :
                      /\ mKnownSpends[k] = Vin(t)[1]
                      /\ \A j \in 1..k - 1 : mKnownSpends[j] # Vin(t)[1]
       IN /\ mKnownSpends' = SubSeq(mKnownSpends, 1, first - 1)
                            \o SubSeq(mKnownSpends, first + Len(Vin(t)), Len(mKnownSpends))
          /\ mKnownSpendsTx' = mKnownSpendsTx \ {t}
  ELSE UNCHANGED detectorVars

CommitTxToMempool(i) ==
  /\ Go(i, "commit", "finish")
  /\ mempool' = mempool \union {txs[i]}
  /\ UNCHANGED <<schedulerVars, queueVars, verdict, detectorVars, coins, rejectVars,
                 orphanVars, txVars, worldVars, upsets, historyVars>>

\* Mutant: the data of an accepted transaction of low priority is not collected.
FinishLowQuietly(i) ==
  /\ Go(i, "finish", "over")
  /\ collected' = IF txs[i] \in low THEN collected ELSE collected \union {txs[i]}
  /\ orphans' = orphans \ {txs[i]}
  /\ removeTxnInputs(txs[i])
  /\ UNCHANGED <<schedulerVars, queueVars, verdict, chainVars, rejectVars, txVars,
                 worldVars, upsets, historyVars>>

\* ProcessValidatedTxn for an accepted transaction, after the commit:
\* collectTxData, eraseTxn and, as the last step, removeTxnInputs.
FinishAccepted(i) ==
  /\ Go(i, "finish", "over")
  /\ collected' = collected \union {txs[i]}
  /\ orphans' = orphans \ {txs[i]}
  /\ removeTxnInputs(txs[i])
  /\ UNCHANGED <<schedulerVars, queueVars, verdict, chainVars, rejectVars, txVars,
                 worldVars, upsets, historyVars>>

FromPeer(p) == {o \in orphans : Peer[o] = p}

\* limitTxnsSize: what may be left of the pool.
Limited(pool) ==
  IF Cardinality(pool) <= MaxOrphanTxs THEN {pool}
  ELSE {kept \in SUBSET pool : Cardinality(kept) = MaxOrphanTxs}

\* A timeout is final for a transaction of low priority only.
Completed(i) == verdict[i] # "timeout" \/ txs[i] \in low

\* ProcessValidatedTxn for a transaction that is not valid:
\* HandleInvalidP2POrphanTxn or HandleInvalidP2PNonOrphanTxn, which return at
\* once when the peer is gone, and removeTxnInputs.
HandleInvalidP2PTxn(i) ==
  LET t == txs[i]
      missing == verdict[i] = "missing"
      rejectedParents == Parents(t) \intersect recentRejects # {}
      keep == t \notin orphanFlag /\ missing /\ ~rejectedParents
      reject == IF missing THEN t \notin orphanFlag /\ rejectedParents ELSE Completed(i)
  IN /\ Go(i, "reject", "over")
     /\ IF Peer[t] \in gone
        THEN UNCHANGED <<orphans, orphanFlag, recentRejects>>
        ELSE /\ recentRejects' = IF reject THEN recentRejects \union {t} ELSE recentRejects
             /\ orphanFlag' = IF keep THEN orphanFlag \union {t} ELSE orphanFlag
             /\ IF keep THEN orphans' \in Limited(orphans \union {t})
                ELSE orphans' = IF t \notin orphanFlag \/ missing THEN orphans
                                ELSE IF verdict[i] = "bad" THEN orphans \ FromPeer(Peer[t])
                                ELSE IF Completed(i) THEN orphans \ {t}
                                ELSE orphans
     /\ removeTxnInputs(t)
     /\ UNCHANGED <<schedulerVars, queueVars, verdict, chainVars, rejectsStale,
                    collected, low, worldVars, upsets, historyVars>>

\* Mutant: the inputs stay with the detector.
ExceptionKeepsInputs(i) ==
  /\ upsets < MaxUpsets /\ txs[i] \in Fragile
  /\ \E from \in {"ready", "commit"} : Go(i, from, "over")
  /\ Find(i, "faulted")
  /\ upsets' = upsets + 1
  /\ dropped' = dropped \union {txs[i]}
  /\ UNCHANGED <<schedulerVars, queueVars, detectorVars, chainVars, rejectVars,
                 orphanVars, txVars, worldVars, outside>>

\* HandleTxnProcessingException, for an exception thrown by the checks or by
\* the commit.
HandleTxnProcessingException(i) ==
  /\ upsets < MaxUpsets /\ txs[i] \in Fragile
  /\ \E from \in {"ready", "commit"} : Go(i, from, "over")
  /\ Find(i, "faulted")
  /\ removeTxnInputs(txs[i])
  /\ upsets' = upsets + 1
  /\ dropped' = dropped \union {txs[i]}
  /\ UNCHANGED <<schedulerVars, queueVars, chainVars, rejectVars, orphanVars, txVars,
                 worldVars, outside>>

\* The step a thread must take at position i.
ThreadStep(i) ==
  \/ TxnValidation(i) \/ insertTxnInputs(i) \/ CommitTxToMempool(i)
  \/ FinishAccepted(i) \/ HandleInvalidP2PTxn(i)

\* A thread ends a task.
EndTask(t) ==
  /\ \A k \in DOMAIN t : stage[t[k]] = "over"
  /\ MarkResult(t)
  /\ UNCHANGED <<queueVars, threadVars, detectorVars, chainVars, rejectVars, orphanVars,
                 txVars, worldVars, upsets, historyVars>>

-----------------------------------------------------------------------------
(* The end of a batch *)

\* LimitMempoolSize: what may be removed, always with its descendants.
Trimmed(pool) ==
  IF Cardinality(pool) <= MaxPool THEN {{}}
  ELSE {G \in SUBSET pool : /\ \A u \in pool : Parents(u) \intersect G # {} => u \in G
                            /\ Cardinality(pool \ G) <= MaxPool}

\* The orphans that spend the outpoint o (mOrphanTxnsByPrev).
OrphansByPrev(o) == {u \in orphans : o \in Inputs[u]}

\* The orphans that alone spend an output of t.
OnlySpenders(t) == {u \in orphans : \E o \in Outs(t) : OrphansByPrev(o) = {u}}

\* The search for more orphans at place k of what is collected so far.
Visit(sofar, k) ==
  IF k > Len(sofar) \/ Len(sofar) >= MaxOrphansInBatch THEN sofar
  ELSE sofar \o SetToSeq(OnlySpenders(sofar[k]) \ Range(sofar))

\* What the search finds from s, breadth first; an orphan is collected once.
Visited(s) ==
  LET upTo[k \in 0..Cardinality(Txs)] == IF k = 0 THEN s ELSE Visit(upTo[k - 1], k)
  IN upTo[Cardinality(Txs)]

\* collectDependentTxnsForRetry: the orphans that spend an output of a
\* transaction in data come first, in any order, then breadth first their only
\* spenders while the batch has room.
CollectDependentTxnsForRetry(data) ==
  LET first == UNION {OrphansByPrev(o) : o \in UNION {Outs(t) : t \in data}}
  IN {IF Len(s) > MaxOrphansInBatch THEN s ELSE Visited(s) : s \in SetToSeqs(first)}

\* The elements of s at the positions in is, in their order.
At(s, is) ==
  LET order == CHOOSE f \in [1..Cardinality(is) -> is] :
                 \A j, k \in 1..Cardinality(is) : j < k => f[j] < f[k]
  IN [k \in 1..Cardinality(is) |-> s[order[k]]]

\* Every task is done: trim the mempool and forget what was collected of the
\* transactions trimmed.  cs_main is released.
TrimMempool ==
  /\ running = "validate" /\ scheduling = "off" /\ tasks = {}
  /\ running' = "sort"
  /\ \E removed \in Trimmed(mempool) :
       /\ mempool' = mempool \ removed
       /\ collected' = collected \ removed
  /\ UNCHANGED <<schedulerVars, mStdTxns, mNonStdTxns, threadVars, detectorVars, coins,
                 rejectVars, orphans, txVars, worldVars, upsets, historyVars>>

\* The rest of threadNewTxnHandler: move timed out transactions of high priority
\* to the non-standard queue, and fill the processing queue for the next batch
\* with the orphans to retry and the cancelled transactions.  The priority and
\* the orphan mark of a transaction that nothing owns any more are gone.
EndBatch ==
  LET canceled == At(txs, {i \in Positions : verdict[i] = "canceled"})
      timedOut == {i \in Positions : verdict[i] = "timeout" /\ txs[i] \notin low
                                     /\ \A j \in 1..i - 1 : txs[j] # txs[i]}
      detected == At(txs, timedOut)
      room == MaxQueue - Len(mNonStdTxns)
      stored == SubSeq(detected, 1, IF room < Len(detected) THEN room ELSE Len(detected))
  IN /\ running = "sort"
     /\ running' = "idle"
     /\ \E retry \in CollectDependentTxnsForRetry(collected) :
          txs' = At(retry, {k \in DOMAIN retry : retry[k] \notin Range(canceled)}) \o canceled
     /\ collected' = {}
     /\ mNonStdTxns' = mNonStdTxns \o stored
     /\ UNCHANGED <<mStdTxns, orphans>>
     /\ low' = (low \union Range(detected)) \intersect Tracked'
     /\ orphanFlag' = orphanFlag \intersect Tracked'
     /\ dropped' = (dropped \union Range(Rest(detected, stored))) \intersect orphans
     /\ stage' = <<>> /\ verdict' = <<>>
     /\ UNCHANGED <<tasks, txStatuses, taskCompletionQueue, numTasksScheduled, posUnhandled,
                    scanPos, spendersReady, scheduling, detectorVars, chainVars, rejectVars,
                    worldVars, upsets, outside>>

-----------------------------------------------------------------------------
(* What happens under cs_main, so not while a batch is validated *)

\* processValidation of a transaction submitted over RPC, which has no orphan
\* handler and no time limit, under the validator's mutex.  Only an accepted
\* transaction leaves a trace.
ProcessValidation(t) ==
  /\ running = "idle"
  /\ t \notin Tracked
  /\ "valid" \in Findings(t)
  /\ Inputs[t] \intersect Range(mKnownSpends) = {}
  /\ \E removed \in Trimmed(mempool \union {t}) :
       mempool' = (mempool \union {t}) \ removed
  /\ outside' = outside \union {t}
  /\ UNCHANGED <<schedulerVars, queueVars, threadVars, detectorVars, coins, rejectVars,
                 orphanVars, txVars, worldVars, upsets, dropped>>

\* A block with the transactions in B becomes the tip: removeForBlock on the
\* mempool, and BlockConnected, which erases the orphans that are in the block
\* or conflict with it.
BlockConnected(B) ==
  /\ running # "validate"
  /\ Spent(B) \subseteq coins \union UNION {Outs(t) : t \in B}
  /\ \A t, u \in B : t # u => Inputs[t] \intersect Inputs[u] = {}
  /\ coins' = (coins \union UNION {Outs(t) : t \in B}) \ Spent(B)
  /\ mempool' = mempool \ (B \union WithDescendants(
                     {u \in mempool \ B : Inputs[u] \intersect Spent(B) # {}}))
  /\ orphans' = {o \in orphans : Inputs[o] \intersect Spent(B) = {}}
  /\ rejectsStale' = TRUE
  /\ outside' = outside \union (B \ mempool)
  /\ UNCHANGED <<schedulerVars, queueVars, threadVars, detectorVars, recentRejects, collected,
                 txVars, worldVars, upsets, dropped>>

\* FinalizeNode: the orphans of a peer go with it.
FinalizeNode(p) ==
  /\ running # "validate"
  /\ p \notin gone
  /\ gone' = gone \union {p}
  /\ orphans' = orphans \ FromPeer(p)
  /\ UNCHANGED <<schedulerVars, queueVars, threadVars, detectorVars, chainVars, rejectVars,
                 collected, txVars, bad, upsets, historyVars>>

-----------------------------------------------------------------------------
SchedulerStep ==
  /\ Schedule \/ BuildSpendersMap
  /\ UNCHANGED <<queueVars, threadVars, detectorVars, chainVars, rejectVars, orphanVars,
                 txVars, worldVars, upsets, historyVars>>

Next ==
  \/ \E t \in Txs : ProcessTxMessage(t)
  \/ \E t \in Submitted : ProcessValidation(t)
  \/ StartBatch \/ TrimMempool \/ EndBatch
  \/ SchedulerStep
  \/ \E i \in DOMAIN stage :
       ThreadStep(i) \/ Cancel(i) \/ HandleTxnProcessingException(i)
  \/ \E t \in tasks : EndTask(t)
  \/ \E B \in BlockChoices : BlockConnected(B)
  \/ \E p \in Range(Peer) : FinalizeNode(p)

Spec == Init /\ [][Next]_vars

\* The validator thread and the scheduler run on, and of the validator threads
\* that have something to do at least one does.
Fairness ==
  /\ WF_vars(StartBatch \/ TrimMempool \/ EndBatch)
  /\ WF_vars(SchedulerStep)
  /\ WF_vars((\E i \in DOMAIN stage : ThreadStep(i)) \/ (\E t \in tasks : EndTask(t)))

FairSpec == Spec /\ Fairness

-----------------------------------------------------------------------------
(* Properties *)

\* The mempool never holds two transactions that spend the same output, nor a
\* transaction whose inputs are neither in the mempool nor on the chain, however
\* the threads interleave.
PoolConsistent ==
  /\ \A t, u \in mempool : t # u => Inputs[t] \intersect Inputs[u] = {}
  /\ \A t \in mempool : \A o \in Inputs[t] : HaveCoin(o)

\* From the moment insertTxnInputs lets a transaction pass until it is in the
\* mempool the detector holds its inputs, and it holds nothing else once the
\* transactions are through: the vector and the set agree.
DetectorExact ==
  /\ Range(mKnownSpends) = Spent(mKnownSpendsTx)
  /\ \A i \in DOMAIN stage : stage[i] \in {"commit", "finish"} => txs[i] \in mKnownSpendsTx
  /\ \A t \in mKnownSpendsTx :
       \E i \in DOMAIN stage : txs[i] = t /\ stage[i] \in {"commit", "finish"}

\* No thread works on a transaction while a parent of it in the same batch is
\* still to be validated, and the scheduler's count of tasks is right.
ParentsFirst ==
  /\ \A i \in DOMAIN stage : stage[i] # "ready" =>
       \A j \in ParentPositions(i) : stage[j] = "over"
  /\ scheduling # "off" =>
       numTasksScheduled = Cardinality(tasks) + Cardinality(taskCompletionQueue)

\* Between batches an orphan all of whose inputs are there waits in a queue,
\* unless a parent came in a block or over RPC, which no retry follows, or the
\* validator gave the orphan up with a log message.
OrphanRetried ==
  running = "idle" =>
    \A o \in orphans :
      \/ \E x \in Inputs[o] : ~HaveCoin(x)
      \/ Parents(o) \intersect outside # {}
      \/ o \in dropped
      \/ o \in Queued

\* A transaction that runs out of time, is moved to the non-standard queue and
\* waits there behind the standard queue and the orphans to retry leaves the
\* queues in the end: every batch ends, and none fills up with retries for ever.
SlowProcessed == \A t \in Slow : t \in Queued ~> t \notin Queued

=============================================================================
