------------------------------- MODULE Mempool -------------------------------
(***************************************************************************)
(* The transaction memory pool and the mining journal                      *)
(* (src/src/txmempool.cpp, src/src/mining/journal*.cpp).                   *)
(*                                                                         *)
(* A transaction in the primary mempool is offered to miners through the   *)
(* journal; one that does not pay for itself and for its unpaid ancestors  *)
(* waits in the secondary mempool, until a descendant pays for all of them *)
(* (a CPFP group).  Changes to the journal are collected in change sets,   *)
(* which their owners apply later.                                         *)
(*                                                                         *)
(* An action is what happens under the lock smtx of the pool.  The owners  *)
(* of change sets are a batch of the transaction validator, an RPC and the *)
(* activation of a chain; they hold cs_main while they work, but the RPC   *)
(* applies its change set after it has released cs_main, and               *)
(* prioritisetransaction does not take cs_main at all.                     *)
(***************************************************************************)
EXTENDS Integers, SequencesExt, FiniteSetsExt

CONSTANTS
  Txs,            \* transactions
  Parents,        \* the transactions whose outputs a transaction spends
  Conflicts,      \* the transactions that spend one of the same outputs
  Surplus,        \* fee minus the fee required for the size
  BlockChoices,   \* the transactions of the blocks that may be connected
  NonFinal,       \* transactions a reorganisation may make non-final
  Prioritised,    \* transactions an operator may prioritise
  MaxDelta,       \* bound on the fee deltas
  MaxChanges,     \* bound on the operations in a change set
  MaxBlocks,      \* bound on the length of the chain
  MaxVisited,     \* MAX_NUMBER_OF_TX_TO_VISIT_IN_ONE_GO
  MaxDisconnected,\* limit of the disconnect pool, in transactions
  Overlaps        \* whether one owner may change the pool while the change
                  \* set of another one is not applied yet

ASSUME MempoolAssumption ==
  /\ Parents \in [Txs -> SUBSET Txs]
  /\ Conflicts \in [Txs -> SUBSET Txs]
  /\ \A t \in Txs : \A u \in Conflicts[t] : t \in Conflicts[u]
  /\ Surplus \in [Txs -> Int]
  /\ \A b \in BlockChoices : IsInjective(b) /\ ToSet(b) \subseteq Txs
  /\ MaxDelta \in Nat /\ MaxBlocks \in Nat /\ MaxVisited \in Nat
  /\ MaxDisconnected \in Nat /\ MaxChanges \in Nat /\ Overlaps \in BOOLEAN

VARIABLES
  pool,          \* the entries: see Pool
  mapDeltas,     \* fee deltas
  journal,       \* the journal
  changes,       \* the operations in the change set of each owner
  reorg,         \* the chain's change set has the reason REORG
  main,          \* what cs_main is held for
  chain,         \* the transactions of the blocks of the active chain
  disconnected,  \* disconnectpool, earliest transaction first
  rewound,       \* fBlocksDisconnected
  oldPool,       \* oldMapTx of AddToMempoolForReorg, in insertion order
  refused        \* disconnected transactions that were not accepted again

chainVars == <<reorg, main, chain, disconnected, rewound, oldPool, refused>>
vars == <<pool, mapDeltas, journal, changes, chainVars>>

Owner == {"batch", "rpc", "chain"}

Operation == {"add", "remove"} \X Txs

(* The grouping data of an entry; an entry without is in the primary       *)
(* mempool (unpaid is FALSE).                                              *)
GroupingData == [unpaid : BOOLEAN, pays : Int, ancestors : Nat]

NoData == [unpaid |-> FALSE, pays |-> 0, ancestors |-> 0]

Dummy == [unpaid |-> TRUE, pays |-> 0, ancestors |-> 0]

(* order: the entries by insertion; group: the members of the entry's      *)
(* CPFP group; depth: CTxMemPoolEntry::ancestorsCount.                     *)
Pool == [order : Seq(Txs), data : [Txs -> GroupingData],
         group : [Txs -> SUBSET Txs], depth : [Txs -> Nat]]

EmptyPool ==
  [order |-> <<>>, data |-> [t \in Txs |-> NoData],
   group |-> [t \in Txs |-> {}], depth |-> [t \in Txs |-> 0]]

Confirmed == UNION {ToSet(chain[i]) : i \in DOMAIN chain}

TypeOK ==
  /\ pool \in Pool /\ IsInjective(pool.order)
  /\ mapDeltas \in [Txs -> -MaxDelta .. MaxDelta]
  /\ journal \in Seq(Txs) /\ IsInjective(journal)
  /\ changes \in [Owner -> Seq(Operation)]
  /\ reorg \in BOOLEAN /\ rewound \in BOOLEAN
  /\ main \in {"free", "batch", "rpc", "rewind", "chain", "reaccept"}
  /\ chain \in Seq(BlockChoices) /\ Len(chain) <= MaxBlocks
  /\ disconnected \in Seq(Txs) /\ oldPool \in Seq(Txs)
  /\ refused \subseteq Txs

Init ==
  /\ pool = EmptyPool
  /\ mapDeltas = [t \in Txs |-> 0]
  /\ journal = <<>>
  /\ changes = [o \in Owner |-> <<>>]
  /\ reorg = FALSE /\ main = "free" /\ chain = <<>>
  /\ disconnected = <<>> /\ rewound = FALSE /\ oldPool = <<>> /\ refused = {}

-----------------------------------------------------------------------------
(* CJournal::applyChanges.  The journal is unique by transaction: a second *)
(* ADD does nothing, a REMOVE of what is absent is only logged.  A REORG   *)
(* adds in front of what was there.                                        *)
Without(s, t) == SelectSeq(s, LAMBDA u : u # t)

ApplyTail(j, ops) ==
  FoldLeft(LAMBDA k, op : IF op[1] = "remove" THEN Without(k, op[2])
                          ELSE IF op[2] \in ToSet(k) THEN k ELSE Append(k, op[2]),
           j, ops)

ApplyFront(j, ops) ==
  LET step(k, op) ==
        IF op[1] = "remove" THEN <<Without(k[1], op[2]), Without(k[2], op[2])>>
        ELSE IF op[2] \in ToSet(k[1] \o k[2]) THEN k ELSE <<Append(k[1], op[2]), k[2]>>
      both == FoldLeft(step, <<<<>>, j>>, ops)
  IN  both[1] \o both[2]

Applied(o, ops) ==
  IF o = "chain" /\ reorg THEN ApplyFront(journal, ops) ELSE ApplyTail(journal, ops)

-----------------------------------------------------------------------------
(* The operations of the pool work on a record w: the pool, the deltas,    *)
(* the change set in ops, the journal, and whether the reason of the       *)
(* change set is basic.                                                    *)
Work(p, deltas, ops, basic) ==
  [order |-> p.order, data |-> p.data, group |-> p.group, depth |-> p.depth,
   deltas |-> deltas, ops |-> ops, journal |-> journal, basic |-> basic]

PoolOf(w) == [order |-> w.order, data |-> w.data, group |-> w.group, depth |-> w.depth]

(* addOperation: a basic change set is applied when the transaction that   *)
(* pays for a group arrives.                                               *)
AddOperation(w, op, t, paying) ==
  IF w.basic /\ paying
  THEN [w EXCEPT !.journal = ApplyTail(@, Append(w.ops, <<op, t>>)), !.ops = <<>>]
  ELSE [w EXCEPT !.ops = Append(@, <<op, t>>)]

Has(w, t) == t \in ToSet(w.order)

Primary(w, t) == Has(w, t) /\ ~w.data[t].unpaid

Secondary(w, t) == Has(w, t) /\ w.data[t].unpaid

(* GetMemPoolParentsNL and GetMemPoolChildrenNL.                           *)
PoolParents(w, t) == {p \in Parents[t] : Has(w, p)}

Children(w, t) == {c \in ToSet(w.order) : t \in Parents[c]}

InOrder(w, S) == SelectSeq(w.order, LAMBDA t : t \in S)

FirstOf(w, S) == Head(InOrder(w, S))

RECURSIVE DescendantsOf(_, _)
DescendantsOf(w, S) ==
  LET more == UNION {Children(w, t) : t \in S} \ S
  IN  IF more = {} THEN S ELSE DescendantsOf(w, S \union more)

(* CalculateSecondaryMempoolData.                                          *)
Calculate(w, t) ==
  LET debtors == {p \in PoolParents(w, t) : Secondary(w, p)}
  IN  [unpaid |-> TRUE,
       pays |-> Surplus[t] + w.deltas[t] + MapThenSumSet(LAMBDA p : w.data[p].pays, debtors),
       ancestors |-> MapThenSumSet(LAMBDA p : w.data[p].ancestors + 1, debtors)]

(* GetSecondaryMempoolAncestorsNL, the paying transaction included.        *)
RECURSIVE SecondaryAncestors(_, _)
SecondaryAncestors(w, S) ==
  LET more == {p \in UNION {PoolParents(w, t) : t \in S} : Secondary(w, p)} \ S
  IN  IF more = {} THEN S ELSE SecondaryAncestors(w, S \union more)

(* AcceptSingleGroupNL; also of a transaction that pays for itself.        *)
AcceptGroup(w, members, payer) ==
  LET in == [w EXCEPT !.data = [t \in Txs |-> IF t \in members THEN NoData ELSE @[t]],
                      !.group = [t \in Txs |-> IF t \in members /\ members # {payer}
                                               THEN members ELSE @[t]]]
  IN  FoldLeft(LAMBDA v, t : AddOperation(v, "add", t, t = payer /\ members # {payer}),
               in, InOrder(w, members))

(* TryAcceptToPrimaryMempoolNL with UpdateEntryGroupingDataNL; visited is  *)
(* countOfVisitedTxs.                                                      *)
RECURSIVE TryAccept(_, _, _, _)
TryAccept(w, todo, limited, visited) ==
  IF todo = {} \/ (limited /\ visited > MaxVisited) THEN w
  ELSE
    LET t == FirstOf(w, todo)
        rest == todo \ {t}
        data == Calculate(w, t)
    IN  IF data.pays >= 0
        THEN LET members == SecondaryAncestors(w, {t})
                 freed == UNION {Children(w, m) : m \in members} \ members
             IN  TryAccept(AcceptGroup(w, members, t), rest \union freed, limited,
                           visited + Cardinality(members))
        ELSE IF w.data[t] = data THEN TryAccept(w, rest, limited, visited + 1)
        ELSE TryAccept([w EXCEPT !.data[t] = data], rest \union Children(w, t), limited,
                       visited + 1)

(* RemoveFromPrimaryMempoolNL; the result also tells what was removed.     *)
RECURSIVE RemoveFromPrimary(_, _, _, _, _)
RemoveFromPrimary(w, todo, dummy, ignored, removed) ==
  IF todo = {} THEN [w |-> w, removed |-> removed]
  ELSE
    LET t == FirstOf(w, todo)
        rest == todo \ {t}
        mates == w.group[t] \ ignored
    IN  IF Secondary(w, t) THEN RemoveFromPrimary(w, rest, dummy, ignored, removed)
        ELSE IF w.group[t] # {}
        THEN RemoveFromPrimary(
               [w EXCEPT !.group = [u \in Txs |-> IF u \in mates THEN {} ELSE @[u]]],
               rest \union mates, dummy, ignored, removed)
        ELSE RemoveFromPrimary(
               [AddOperation(w, "remove", t, FALSE) EXCEPT
                  !.data[t] = IF dummy THEN Dummy ELSE Calculate(w, t)],
               rest \union Children(w, t), dummy, ignored, removed \union {t})

(* Mutant of RemoveUnchecked: the journal is not told.                     *)
RemoveUncheckedSilently(w, S) ==
  [w EXCEPT !.order = SelectSeq(@, LAMBDA t : t \notin S),
            !.data = [t \in Txs |-> IF t \in S THEN NoData ELSE @[t]],
            !.group = [t \in Txs |-> IF t \in S THEN {} ELSE @[t]],
            !.depth = [t \in Txs |-> IF t \in S THEN 0 ELSE @[t]]]

(* removeUncheckedNL.                                                      *)
RemoveUnchecked(w, S) ==
  LET out == FoldLeft(LAMBDA v, t : IF Primary(v, t) THEN AddOperation(v, "remove", t, FALSE)
                                    ELSE v,
                      w, InOrder(w, S))
  IN  [out EXCEPT !.order = SelectSeq(@, LAMBDA t : t \notin S),
                  !.data = [t \in Txs |-> IF t \in S THEN NoData ELSE @[t]],
                  !.group = [t \in Txs |-> IF t \in S THEN {} ELSE @[t]],
                  !.depth = [t \in Txs |-> IF t \in S THEN 0 ELSE @[t]]]

(* Mutant of RemoveStaged: the rest of the groups is not looked at again.  *)
RemoveStagedOnly(w, stage) ==
  LET grouped == {t \in stage : w.group[t] # {}}
  IN  RemoveUnchecked(RemoveFromPrimary(w, grouped, TRUE, {}, {}).w, stage)

(* removeStagedNL; stage is closed under descendants.                      *)
RemoveStaged(w, stage) ==
  LET grouped == {t \in stage : w.group[t] # {}}
      disbanded == RemoveFromPrimary(w, grouped, TRUE, {}, {})
  IN  TryAccept(RemoveUnchecked(disbanded.w, stage), disbanded.removed \ stage, FALSE, 0)

(* removeRecursiveNL of a transaction that may not be in the pool itself.  *)
RemoveRecursive(w, t) ==
  RemoveStaged(w, DescendantsOf(w, IF Has(w, t) THEN {t} ELSE Children(w, t)))

DepthOf(w, t) == Max({0} \union {w.depth[p] + 1 : p \in PoolParents(w, t)})

(* Mutant of UpdateAncestorsCount: only the children, not what follows.    *)
UpdateChildrenCount(w, S) ==
  FoldLeft(LAMBDA v, t : [v EXCEPT !.depth[t] = DepthOf(v, t)], w, InOrder(w, S))

(* UpdateAncestorsCountNL.                                                 *)
UpdateAncestorsCount(w, S) ==
  FoldLeft(LAMBDA v, t : [v EXCEPT !.depth[t] = DepthOf(v, t)], w,
           InOrder(w, DescendantsOf(w, S)))

(* AddUncheckedNL with TryAcceptChildlessTxToPrimaryMempoolNL.             *)
AddUnchecked(w, t) ==
  LET in == [w EXCEPT !.order = Append(@, t), !.data[t] = Dummy, !.depth[t] = DepthOf(w, t)]
      data == Calculate(in, t)
  IN  IF data.pays >= 0 THEN TryAccept(in, {t}, TRUE, 0) ELSE [in EXCEPT !.data[t] = data]

-----------------------------------------------------------------------------
(* Mutant of Visit: conflicts with the block are not looked for.           *)
VisitFound(r, t) ==
  LET stay == Children(r.w, t) \ r.remove
  IN  IF Has(r.w, t)
      THEN [w |-> r.w, remove |-> r.remove \union {t}, children |-> r.children \union stay,
            mates |-> r.mates \union {c \in stay : r.w.group[t] # {} /\ r.w.group[c] = r.w.group[t]},
            debtors |-> r.debtors \union {c \in stay : Secondary(r.w, t) /\ Secondary(r.w, c)}]
      ELSE r

(* RemoveForBlock: the transactions of the block backwards.  What is found *)
(* in the pool is collected, with the children that stay; what is not may  *)
(* conflict with entries, which are removed with their descendants.        *)
Visit(r, t) ==
  LET stay == Children(r.w, t) \ r.remove
      conflicting == InOrder(r.w, Conflicts[t])
      drop(s, c) ==
        LET stage == DescendantsOf(s.w, {c})
        IN  IF ~Has(s.w, c) THEN s
            ELSE [w |-> RemoveStaged(s.w, stage), remove |-> s.remove,
                  children |-> s.children \ stage, mates |-> s.mates \ stage,
                  debtors |-> s.debtors \ stage]
  IN  IF Has(r.w, t)
      THEN [w |-> r.w, remove |-> r.remove \union {t}, children |-> r.children \union stay,
            mates |-> r.mates \union {c \in stay : r.w.group[t] # {} /\ r.w.group[c] = r.w.group[t]},
            debtors |-> r.debtors \union {c \in stay : Secondary(r.w, t) /\ Secondary(r.w, c)}]
      ELSE FoldLeft(drop, r, conflicting)

(* Mutant of RemoveForBlock: the groups of mined transactions stay.        *)
RemoveForBlockKeepGroups(w, b) ==
  LET r == FoldLeft(Visit, [w |-> w, remove |-> {}, children |-> {}, mates |-> {}, debtors |-> {}],
                    Reverse(b))
      mined == UpdateAncestorsCount(RemoveUnchecked(r.w, r.remove), r.children)
  IN  TryAccept(mined, r.debtors, FALSE, 0)

(* The groups of the children are disbanded, the block's transactions      *)
(* removed, and the children accepted again if they pay.                   *)
RemoveForBlock(w, b) ==
  LET r == FoldLeft(Visit, [w |-> w, remove |-> {}, children |-> {}, mates |-> {}, debtors |-> {}],
                    Reverse(b))
      disbanded == RemoveFromPrimary(r.w, r.mates, TRUE, r.remove, {})
      mined == UpdateAncestorsCount(RemoveUnchecked(disbanded.w, r.remove), r.children)
  IN  TryAccept(mined, disbanded.removed \union r.debtors, FALSE, 0)

-----------------------------------------------------------------------------
Pending == {o \in Owner : changes[o] # <<>>}

(* Owners in the middle of something: the rebuilding of the pool counts.   *)
Busy == Pending \union (IF main = "reaccept" THEN {"chain"} ELSE {})

Free(o) == Overlaps \/ Busy \subseteq {o}

(* What owner o did to the pool, the journal and its change set.           *)
Commit(o, w) ==
  /\ pool' = PoolOf(w)
  /\ journal' = w.journal
  /\ changes' = [changes EXCEPT ![o] = w.ops]

Apply(o) ==
  /\ journal' = Applied(o, changes[o])
  /\ changes' = [changes EXCEPT ![o] = <<>>]
  /\ UNCHANGED <<pool, mapDeltas>>

Basic(o) == o # "chain"

WorkOf(o) == Work(pool, mapDeltas, changes[o], Basic(o))

(* A transaction validation lets into the pool.                            *)
Acceptable(t) ==
  /\ ~Has(pool, t) /\ t \notin Confirmed
  /\ \A p \in Parents[t] : Has(pool, p) \/ p \in Confirmed
  /\ \A u \in Conflicts[t] : ~Has(pool, u) /\ u \notin Confirmed

(* A batch of the validator, or an RPC, takes cs_main; one RPC at a time.  *)
Begin(o) ==
  /\ main = "free"
  /\ changes[o] = <<>>
  /\ main' = o
  /\ UNCHANGED <<pool, mapDeltas, journal, changes, reorg, chain, disconnected,
                 rewound, oldPool, refused>>

(* CommitTxToMempool.                                                      *)
AcceptTx(o, t) ==
  /\ main = o /\ Free(o) /\ Len(changes[o]) < MaxChanges
  /\ Acceptable(t)
  /\ Commit(o, AddUnchecked(WorkOf(o), t))
  /\ UNCHANGED <<mapDeltas, chainVars>>

(* LimitMempoolSize: one transaction that expired or is the least worth,   *)
(* with its descendants.                                                   *)
LimitMempoolSize(o, t) ==
  /\ main = o /\ Free(o) /\ Len(changes[o]) < MaxChanges
  /\ Has(pool, t)
  /\ Commit(o, RemoveStaged(WorkOf(o), DescendantsOf(pool, {t})))
  /\ UNCHANGED <<mapDeltas, chainVars>>

(* A batch applies its change set and releases cs_main.                    *)
EndBatch ==
  /\ main = "batch"
  /\ Apply("batch")
  /\ main' = "free"
  /\ UNCHANGED <<reorg, chain, disconnected, rewound, oldPool, refused>>

(* An RPC (sendrawtransaction, the wallet) releases cs_main; its change    *)
(* set is applied when it goes out of scope.                               *)
EndRpc ==
  /\ main = "rpc"
  /\ main' = "free"
  /\ UNCHANGED <<pool, mapDeltas, journal, changes, reorg, chain, disconnected,
                 rewound, oldPool, refused>>

ReturnRpc ==
  /\ main # "rpc" /\ changes["rpc"] # <<>>
  /\ Apply("rpc")
  /\ UNCHANGED chainVars

(* prioritiseTransactionNL, with a change set of its own that is applied   *)
(* before smtx is released.                                                *)
Repriced(w, t) ==
  IF Primary(w, t)
  THEN LET r == RemoveFromPrimary(w, {t}, FALSE, {}, {}) IN TryAccept(r.w, r.removed, FALSE, 0)
  ELSE TryAccept(w, {t}, FALSE, 0)

PrioritiseTransaction(t, d) ==
  /\ t \in Prioritised
  /\ Overlaps \/ Busy = {}
  /\ mapDeltas[t] + d \in -MaxDelta .. MaxDelta
  /\ mapDeltas' = [mapDeltas EXCEPT ![t] = @ + d]
  /\ IF Has(pool, t)
     THEN LET w == Repriced(Work(pool, mapDeltas', <<>>, TRUE), t)
          IN  /\ pool' = PoolOf(w)
              /\ journal' = ApplyTail(w.journal, w.ops)
     ELSE UNCHANGED <<pool, journal>>
  /\ UNCHANGED <<changes, chainVars>>

-----------------------------------------------------------------------------
(* ActivateBestChainStep takes cs_main.  Its change set belongs to the     *)
(* call of ActivateBestChain and may have become a REORG one in an earlier *)
(* step of it.                                                             *)
StartStep ==
  /\ main = "free"
  /\ main' = "rewind"
  /\ reorg' \in {reorg, FALSE}
  /\ UNCHANGED <<pool, mapDeltas, journal, changes, chain, disconnected,
                 rewound, oldPool, refused>>

(* DisconnectTip with AddToDisconnectPoolUpToLimit: what does not fit is   *)
(* dropped, latest transaction first, and its children leave the pool.     *)
DisconnectTip ==
  /\ main = "rewind" /\ chain # <<>> /\ Free("chain")
  /\ LET queued == Last(chain) \o disconnected
         kept == Min({MaxDisconnected, Len(queued)})
         dropped == SubSeq(queued, kept + 1, Len(queued))
     IN  /\ disconnected' = SubSeq(queued, 1, kept)
         /\ Commit("chain", FoldLeft(RemoveRecursive, WorkOf("chain"), Reverse(dropped)))
  /\ chain' = Front(chain)
  /\ rewound' = TRUE
  /\ UNCHANGED <<mapDeltas, reorg, main, oldPool, refused>>

(* A block that is valid on top of the chain.                              *)
Connectable(b) ==
  \A i \in DOMAIN b :
    /\ b[i] \notin Confirmed
    /\ Parents[b[i]] \subseteq Confirmed \union ToSet(SubSeq(b, 1, i - 1))
    /\ Conflicts[b[i]] \intersect (Confirmed \union ToSet(b)) = {}

(* ConnectTip: RemoveForBlock and disconnectpool.removeForBlock.           *)
ConnectTip(b) ==
  /\ main \in {"rewind", "chain"} /\ Free("chain")
  /\ Len(chain) < MaxBlocks /\ Connectable(b)
  /\ Commit("chain", RemoveForBlock(WorkOf("chain"), b))
  /\ disconnected' = SelectSeq(disconnected, LAMBDA t : t \notin ToSet(b))
  /\ chain' = Append(chain, b)
  /\ main' = "chain"
  /\ UNCHANGED <<mapDeltas, reorg, rewound, oldPool, refused>>

(* Mutant of PrepareResubmit: the pool is not emptied.                     *)
PrepareResubmitKeeping ==
  /\ main \in {"rewind", "chain"} /\ rewound /\ Free("chain")
  /\ oldPool' = pool.order
  /\ journal' = <<>>
  /\ changes' = [changes EXCEPT !["chain"] = <<>>]
  /\ reorg' = TRUE
  /\ main' = "reaccept"
  /\ UNCHANGED <<pool, mapDeltas, chain, disconnected, rewound, refused>>

(* UpdateIfNeeded calls AddToMempoolForReorg, which empties the pool, the  *)
(* journal and the change set.  Its handling of entries that duplicate or  *)
(* double-spend a disconnected transaction has nothing to do (see          *)
(* PoolSpendable).                                                         *)
PrepareResubmit ==
  /\ main \in {"rewind", "chain"} /\ rewound /\ Free("chain")
  /\ oldPool' = pool.order
  /\ pool' = EmptyPool
  /\ journal' = <<>>
  /\ changes' = [changes EXCEPT !["chain"] = <<>>]
  /\ reorg' = TRUE
  /\ main' = "reaccept"
  /\ UNCHANGED <<mapDeltas, chain, disconnected, rewound, refused>>

(* processValidation of the next disconnected transaction.                 *)
Reaccept ==
  /\ main = "reaccept" /\ disconnected # <<>>
  /\ LET t == Head(disconnected)
     IN  \/ /\ Acceptable(t)
            /\ Commit("chain", AddUnchecked(WorkOf("chain"), t))
            /\ UNCHANGED refused
         \/ /\ refused' = refused \union {t}
            /\ UNCHANGED <<pool, journal, changes>>
  /\ disconnected' = Tail(disconnected)
  /\ UNCHANGED <<mapDeltas, reorg, main, chain, rewound, oldPool>>

(* ResubmitEntriesToMempoolNL, the descendants of what was not accepted    *)
(* again, RemoveForReorg, and the application of the change set.           *)
Resubmitted ==
  FoldSet(LAMBDA t, w : RemoveRecursive(w, t),
          FoldLeft(AddUnchecked, WorkOf("chain"), oldPool), refused)

FinishReorg ==
  /\ main = "reaccept" /\ disconnected = <<>>
  /\ \E S \in SUBSET NonFinal :
       LET stage == DescendantsOf(Resubmitted, {t \in S : Has(Resubmitted, t)})
           w == RemoveStaged(Resubmitted, stage)
       IN  /\ pool' = PoolOf(w)
           /\ journal' = ApplyFront(w.journal, w.ops)
  /\ changes' = [changes EXCEPT !["chain"] = <<>>]
  /\ oldPool' = <<>> /\ refused' = {} /\ rewound' = FALSE
  /\ main' = "chain"
  /\ UNCHANGED <<mapDeltas, reorg, chain, disconnected>>

(* The end of the step, and the release of cs_main for the parallel        *)
(* validation of the next block: the pool is up to date, the change set is *)
(* applied.                                                                *)
EndStep ==
  /\ main \in {"rewind", "chain"} /\ ~rewound
  /\ Apply("chain")
  /\ main' = "free"
  /\ UNCHANGED <<reorg, chain, disconnected, rewound, oldPool, refused>>

-----------------------------------------------------------------------------
Next ==
  \/ \E o \in {"batch", "rpc"} :
       \/ Begin(o)
       \/ \E t \in Txs : AcceptTx(o, t) \/ LimitMempoolSize(o, t)
  \/ EndBatch \/ EndRpc \/ ReturnRpc
  \/ \E t \in Txs, d \in {-1, 1} : PrioritiseTransaction(t, d)
  \/ StartStep \/ DisconnectTip \/ (\E b \in BlockChoices : ConnectTip(b))
  \/ PrepareResubmit \/ Reaccept \/ FinishReorg \/ EndStep

Spec == Init /\ [][Next]_vars

-----------------------------------------------------------------------------
(* Every entry can still be mined: its parents are in the pool or          *)
(* confirmed (or about to be accepted again), and nothing in the pool, in  *)
(* the chain or among the disconnected transactions is or double-spends    *)
(* another.  RemoveForBlock and AddToMempoolForReorg have to keep it       *)
(* together (asserted by CheckMempoolImplNL).                              *)
PoolSpendable ==
  LET waiting == ToSet(pool.order)
      back == ToSet(disconnected)
  IN  /\ waiting \intersect back = {}
      /\ (waiting \union back) \intersect Confirmed = {}
      /\ \A t \in waiting :
           /\ Parents[t] \subseteq waiting \union back \union Confirmed
           /\ Conflicts[t] \intersect (waiting \union back \union Confirmed) = {}

(* The grouping data of an entry that waits is that of the entry and its   *)
(* secondary ancestors as they are now, and it does not pay.               *)
GroupingExact(w, t) == pool.data[t] = Calculate(w, t) /\ pool.data[t].pays < 0

(* The split into primary and secondary mempool is exact: what waits has   *)
(* exact grouping data, and no entry of the primary mempool has a parent   *)
(* that waits.  RemoveForBlock says at txmempool.cpp:1051-1053 that a      *)
(* child that waits "needs to be updated" when its waiting parent is       *)
(* mined; FindingConflictFirst.cfg shows where it is not.                  *)
SplitExact ==
  LET w == Work(pool, mapDeltas, <<>>, TRUE)
  IN  \A t \in ToSet(pool.order) :
        IF Secondary(w, t) THEN GroupingExact(w, t)
        ELSE \A p \in PoolParents(w, t) : Primary(w, p)

(* RemoveForBlock may have passed t over: a parent of t stands in a block  *)
(* behind a transaction that can conflict with the pool, so the children   *)
(* of the parent were sorted before the conflicts were removed; or the     *)
(* parent was disconnected and the pool is not rebuilt yet.                *)
PassedOver(t) ==
  \/ Parents[t] \intersect ToSet(disconnected) # {}
  \/ \E i \in DOMAIN chain : \E j, k \in DOMAIN chain[i] :
       j < k /\ Conflicts[chain[i][j]] # {} /\ chain[i][k] \in Parents[t]

(* prioritisetransaction may have left t behind: t waits on its own        *)
(* account, below a waiting ancestor whose fee an operator may lower.      *)
LeftBehind(w, t) ==
  /\ Surplus[t] + mapDeltas[t] < 0
  /\ (SecondaryAncestors(w, {t}) \ {t}) \intersect Prioritised # {}

(* The split is exact but for the two kinds of entries FindingPrioritise   *)
(* and FindingConflictFirst are about: through acceptance, eviction,       *)
(* prioritisation, blocks and reorganisations every other entry that waits *)
(* has exact grouping data, and nothing in the primary mempool has a       *)
(* parent that waits (TryAcceptToPrimaryMempoolNL, RemoveForBlock,         *)
(* RemoveFromPrimaryMempoolNL), as long as no acceptance is cut short by   *)
(* MaxVisited.                                                             *)
SplitKept ==
  LET w == Work(pool, mapDeltas, <<>>, TRUE)
  IN  \A t \in ToSet(pool.order) :
        IF Secondary(w, t) THEN GroupingExact(w, t) \/ PassedOver(t) \/ LeftBehind(w, t)
        ELSE \A p \in PoolParents(w, t) : Primary(w, p)

(* An assertion of CheckMempoolImplNL: an entry with an ancestor in the    *)
(* secondary mempool is there itself and has counted its ancestors.        *)
AncestorsCounted ==
  LET w == Work(pool, mapDeltas, <<>>, TRUE)
  IN  \A t \in ToSet(pool.order) :
        LET counted == Calculate(w, t).ancestors
        IN  counted > 0 => Secondary(w, t) /\ pool.data[t].ancestors = counted

(* What the primary mempool holds pays: an entry outside a group for       *)
(* itself, the members of a group together; the members of a group name    *)
(* the same group and are all in the primary mempool (AcceptSingleGroupNL, *)
(* RemoveFromPrimaryMempoolNL).  It takes that no second child can pay for *)
(* a parent that FindingConflictFirst.cfg has mined.                       *)
PrimaryPays ==
  LET w == Work(pool, mapDeltas, <<>>, TRUE)
      surplus(t) == Surplus[t] + mapDeltas[t]
  IN  \A t \in ToSet(pool.order) :
        Primary(w, t) =>
          IF pool.group[t] = {} THEN surplus(t) >= 0
          ELSE /\ \A u \in pool.group[t] : Primary(w, u) /\ pool.group[u] = pool.group[t]
               /\ MapThenSumSet(surplus, pool.group[t]) >= 0

(* ancestorsCount is the length of the longest chain of ancestors in the   *)
(* pool, which the limits on chains rely on (UpdateAncestorsCountNL).      *)
DepthExact ==
  LET w == Work(pool, mapDeltas, <<>>, TRUE)
  IN  \A t \in ToSet(pool.order) : pool.depth[t] = DepthOf(w, t)

Sorted(j) ==
  \A i, k \in DOMAIN j : i < k => j[k] \notin Parents[j[i]]

(* The journal is the primary mempool with parents before children, once   *)
(* the pending change set is applied: journal_change_set.h wants it to     *)
(* "accurately reflect the state of the mempool at all times without       *)
(* having intermediate states", and checkJournalNL tests it.  The order is *)
(* that of a family without a transaction of two parents; with one,        *)
(* FindingJournalOrder.cfg refutes it.                                     *)
JournalSynced ==
  \A o \in Owner : Pending \subseteq {o} =>
    LET j == Applied(o, changes[o])
    IN  /\ ToSet(j) = {t \in ToSet(pool.order) : ~pool.data[t].unpaid}
        /\ Sorted(j)
=============================================================================
