---------------------------- MODULE ChainstateDB ----------------------------
(***************************************************************************)
(* The chain state on disk: the coins database with its cache              *)
(* (src/src/txdb.cpp), the block index database, the block files, the      *)
(* order in which FlushStateToDisk writes them, a crash of the process at  *)
(* any point, and the start-up that repairs what the crash left            *)
(* (LoadBlockIndexDB, ReplayBlocks, LoadChainTip, RewindBlockIndex of      *)
(* src/src/validation.cpp, in the order of src/src/init.cpp).              *)
(*                                                                         *)
(* cs_main is held by every operation here, so they exclude each other;    *)
(* a crash may come between any two writes to disk.  Which block is        *)
(* connected or disconnected next is left open: module ChainState decides  *)
(* it.  Every block is in a block file of its own.                         *)
(***************************************************************************)
EXTENDS BlockCoins, Sequences

CONSTANTS
  Down,              \* the tip of a node that is not running
  Null,              \* the null hash: no best block on disk
  MinBlocksToKeep,   \* MIN_BLOCKS_TO_KEEP
  Prunes,            \* fPruneMode
  MaxCrashes,        \* bound on crashes
  Invalidable        \* the blocks an operator may invalidate

ASSUME ChainstateAssumption ==
  /\ Down \notin Blocks
  /\ Null \notin Blocks
  /\ MinBlocksToKeep \in Nat
  /\ MaxCrashes \in Nat
  /\ Invalidable \subseteq NonGenesis

VARIABLES
  phase,     \* where the process is
  after,     \* where the running flush returns to
  full,      \* fDoFullFlush of the running flush
  tip,       \* CoinsDB::hashBlock and the tip of chainActive
  mCache,    \* CoinsDB::mCache
  batch,     \* the coins moved out of mCache by Flush and not yet written
  span,      \* the cache of the CoinsDBSpan of ReplayBlocks
  replayed,  \* the block the replay has reached
  index,     \* mapBlockIndex: known, data, undo, failed blocks
  invalid,   \* the block a running InvalidateBlock is given, or Null
  coinsDB,   \* disk: the coins
  best,      \* disk: DB_BEST_BLOCK
  heads,     \* disk: DB_HEAD_BLOCKS, empty or <<new, old>>
  indexDB,   \* disk: the block index
  files,     \* disk: blocks whose block and undo files exist
  undo,      \* disk: the coins in the undo file of a block
  crashes    \* number of crashes so far

memVars == <<phase, after, full, tip, mCache, batch, span, replayed, index, invalid>>
diskVars == <<coinsDB, best, heads, indexDB, files, undo>>
vars == <<memVars, diskVars, crashes>>

Phase == {"up", "index", "coins", "batch", "exit", "down", "replay", "rollback",
          "forward", "tip", "failed"}

NoCache == [o \in Outpoints |-> NoEntry]

NoCoins == [o \in Outpoints |-> Spent]

Index == [known : SUBSET Blocks, data : SUBSET Blocks, undo : SUBSET Blocks,
          failed : SUBSET Blocks]

TypeOK ==
  /\ phase \in Phase /\ after \in {"up", "exit"} /\ full \in BOOLEAN
  /\ tip \in Blocks \union {Null} /\ replayed \in Blocks
  /\ mCache \in [Outpoints -> Entry] /\ batch \in [Outpoints -> Entry]
  /\ span \in [Outpoints -> Entry]
  /\ invalid \in Blocks \union {Null}
  /\ index \in Index /\ indexDB \in Index /\ files \subseteq Blocks
  /\ coinsDB \in [Outpoints -> Coins]
  /\ undo \in [Blocks -> [Outpoints -> Coins]]
  /\ best \in Blocks \union {Null}
  /\ heads \in {<<>>} \union (Blocks \X (Blocks \union {Null}))
  /\ crashes \in 0 .. MaxCrashes

(* InitBlockIndex has written the genesis block and flushed the index, and *)
(* the activation has connected it.                                        *)
OnlyGenesis == [known |-> {Genesis}, data |-> {Genesis}, undo |-> {}, failed |-> {}]

Init ==
  /\ phase = "up" /\ after = "up" /\ full = FALSE
  /\ tip = Genesis /\ replayed = Genesis
  /\ mCache = NoCache /\ batch = NoCache /\ span = NoCache
  /\ index = OnlyGenesis /\ indexDB = OnlyGenesis /\ invalid = Null
  /\ coinsDB = NoCoins /\ best = Null /\ heads = <<>>
  /\ files = {Genesis} /\ undo = [b \in Blocks |-> NoCoins]
  /\ crashes = 0

-----------------------------------------------------------------------------
(* The coins as CoinsDB::GetCoin returns them, and as the replay sees them.*)
View(o) == Seen(mCache[o], Seen(batch[o], coinsDB[o]))

SpanView(o) == Seen(span[o], View(o))

(* InvalidateBlock holds cs_main to its end.                               *)
Idle == phase = "up" /\ invalid = Null

(* A coin is read into the cache, or leaves it (GetCoin, Uncache).         *)
CacheCoin(o) ==
  /\ Idle
  /\ ~mCache[o].has /\ coinsDB[o] # Spent
  /\ mCache' = [mCache EXCEPT ![o] = Fetched(mCache[o], coinsDB[o])]
  /\ UNCHANGED <<phase, after, full, tip, batch, span, replayed, index, invalid, diskVars, crashes>>

Uncache(o) ==
  /\ Idle
  /\ mCache[o].has
  /\ mCache' = [mCache EXCEPT ![o] = Uncached(mCache[o])]
  /\ UNCHANGED <<phase, after, full, tip, batch, span, replayed, index, invalid, diskVars, crashes>>

-----------------------------------------------------------------------------
(* AcceptBlock stores a block: its file is written, its index entry only   *)
(* marked dirty.                                                           *)
AcceptBlock(b) ==
  /\ Idle
  /\ b \in NonGenesis /\ b \notin index.data
  /\ Parent[b] \in index.known \ index.failed
  /\ index' = [index EXCEPT !.known = @ \union {b}, !.data = @ \union {b}]
  /\ files' = files \union {b}
  /\ UNCHANGED <<phase, after, full, tip, mCache, batch, span, replayed, invalid,
                 coinsDB, best, heads, indexDB, undo, crashes>>

(* The coins a block brings into the cache of CoinsDB while it works.      *)
Loaded(o, b) ==
  IF o \in Spends[b] \union Creates[b] THEN Fetched(mCache[o], coinsDB[o]) ELSE mCache[o]

LoadedCache(b) == [o \in Outpoints |-> Loaded(o, b)]

(* TryFlush: the span's entries are written into the cache.                *)
TryFlush(entries, loaded) ==
  mCache' = [o \in Outpoints |-> Written(loaded[o], entries[o])]

(* ConnectTip: ConnectBlock writes the undo data (unless there is some),   *)
(* then the span is flushed.                                               *)
ConnectTip(b) ==
  /\ Idle
  /\ b \in NonGenesis /\ Parent[b] = tip
  /\ b \in index.data /\ b \notin index.failed
  /\ TryFlush([o \in Outpoints |-> ConnectedEntry(b, o, NoEntry, View(o))], LoadedCache(b))
  /\ undo' = IF b \in index.undo THEN undo
             ELSE [undo EXCEPT ![b] =
                     [o \in Outpoints |-> IF o \in Spends[b] \ Creates[b] THEN View(o)
                                          ELSE IF o \in Spends[b] THEN b ELSE Spent]]
  /\ index' = [index EXCEPT !.undo = @ \union {b}]
  /\ tip' = b
  /\ UNCHANGED <<phase, after, full, batch, span, replayed, invalid,
                 coinsDB, best, heads, indexDB, files, crashes>>

CanRead(b) == b \in index.data /\ b \in files

CanUndo(b) == CanRead(b) /\ b \in index.undo

Disconnect(newIndex) ==
  /\ TryFlush([o \in Outpoints |-> UndoneEntry(tip, o, NoEntry, View(o), undo[tip][o])],
              LoadedCache(tip))
  /\ tip' = Parent[tip]
  /\ index' = newIndex
  /\ UNCHANGED <<phase, after, full, batch, span, replayed, diskVars, crashes>>

DisconnectTip ==
  /\ Idle
  /\ tip # Genesis /\ CanUndo(tip)
  /\ Disconnect(index)
  /\ UNCHANGED invalid

-----------------------------------------------------------------------------
(* FlushStateToDisk.  Only a full flush prunes; the files are unlinked     *)
(* before the index that no longer refers to them is written.              *)
Prunable ==
  IF Prunes THEN {b \in index.data \ {Genesis} : Height(b) + MinBlocksToKeep <= Height(tip)}
  ELSE {}

FlushStateToDisk(f, newIndex, pruned, then) ==
  /\ files' = files \ pruned
  /\ index' = [newIndex EXCEPT !.data = @ \ pruned, !.undo = @ \ pruned]
  /\ phase' = "index"
  /\ after' = then
  /\ full' = f
  /\ UNCHANGED <<tip, mCache, batch, span, replayed,
                 coinsDB, best, heads, indexDB, undo, crashes>>

PeriodicWrite == Idle /\ FlushStateToDisk(FALSE, index, {}, "up") /\ UNCHANGED invalid

(* Also in the middle of InvalidateBlock, at the end of DisconnectTip.     *)
FullFlush ==
  /\ phase = "up"
  /\ \E pruned \in SUBSET Prunable : FlushStateToDisk(TRUE, index, pruned, "up")
  /\ UNCHANGED invalid

Shutdown == Idle /\ FlushStateToDisk(TRUE, index, {}, "exit") /\ UNCHANGED invalid

(* DisconnectTip cannot read the block: AbortNode shuts the node down.     *)
AbortNode ==
  /\ Idle
  /\ tip # Genesis /\ ~CanUndo(tip)
  /\ FlushStateToDisk(TRUE, index, {}, "exit")
  /\ UNCHANGED invalid

(* InvalidateBlock: the blocks from the tip down to b are marked and       *)
(* disconnected one by one, or, when b is not on the active chain, b and   *)
(* its descendants are marked; at the end everything is flushed.           *)
StepBack(b) ==
  LET marked == [index EXCEPT !.failed = @ \union {b, tip}]
  IN  IF CanUndo(tip)
      THEN Disconnect(marked) /\ invalid' = b
      ELSE FlushStateToDisk(TRUE, marked, {}, "exit") /\ invalid' = Null

InvalidateBlock(b) ==
  /\ Idle
  /\ b \in Invalidable \intersect index.known
  /\ \/ b \in Chain[tip] /\ StepBack(b)
     \/ /\ b \notin Chain[tip]
        /\ index' = [index EXCEPT !.failed =
                       @ \union (({b} \union Descendants(b)) \intersect index.known)]
        /\ invalid' = b
        /\ UNCHANGED <<phase, after, full, tip, mCache, batch, span, replayed, diskVars, crashes>>

InvalidateRest ==
  /\ phase = "up" /\ invalid # Null
  /\ \/ invalid \in Chain[tip] /\ StepBack(invalid)
     \/ /\ invalid \notin Chain[tip]
        /\ \E pruned \in SUBSET Prunable : FlushStateToDisk(TRUE, index, pruned, "up")
        /\ invalid' = Null

(* Mutant of WriteIndex: the index is written after the coins, if at all.  *)
WriteIndexLate ==
  /\ phase = "index"
  /\ phase' = IF full THEN "coins" ELSE after
  /\ indexDB' = IF full THEN indexDB ELSE index
  /\ UNCHANGED <<after, full, tip, mCache, batch, span, replayed, index,
                 invalid, coinsDB, best, heads, files, undo, crashes>>

(* WriteBatchSync of all dirty entries.                                    *)
WriteIndex ==
  /\ phase = "index"
  /\ indexDB' = index
  /\ phase' = IF full THEN "coins" ELSE after
  /\ UNCHANGED <<after, full, tip, mCache, batch, span, replayed, index,
                 invalid, coinsDB, best, heads, files, undo, crashes>>

(* CoinsDB::Flush moves the cache out.                                     *)
FlushCoins ==
  /\ phase = "coins"
  /\ batch' = mCache
  /\ mCache' = NoCache
  /\ phase' = "batch"
  /\ UNCHANGED <<after, full, tip, span, replayed, index, invalid, diskVars, crashes>>

(* DBBatchWrite: what the coins in S are on disk when they are written.    *)
OldTip == IF best # Null THEN best ELSE IF heads # <<>> THEN heads[2] ELSE Null

WrittenCoins(S) ==
  [o \in Outpoints |-> IF o \in S /\ batch[o].dirty THEN batch[o].coin ELSE coinsDB[o]]

(* Mutants of WritePartialBatch: the transition is not recorded; only the  *)
(* new tip is.                                                             *)
WritePartialBatchOneHead(S) ==
  /\ phase = "batch"
  /\ coinsDB' = WrittenCoins(S)
  /\ batch' = [o \in Outpoints |-> IF o \in S THEN NoEntry ELSE batch[o]]
  /\ best' = Null
  /\ heads' = <<tip>>
  /\ UNCHANGED <<phase, after, full, tip, mCache, span, replayed, index,
                 invalid, indexDB, files, undo, crashes>>

WritePartialBatchUnmarked(S) ==
  /\ phase = "batch"
  /\ coinsDB' = WrittenCoins(S)
  /\ batch' = [o \in Outpoints |-> IF o \in S THEN NoEntry ELSE batch[o]]
  /\ UNCHANGED <<phase, after, full, tip, mCache, span, replayed, index,
                 invalid, best, heads, indexDB, files, undo, crashes>>

WritePartialBatch(S) ==
  /\ phase = "batch"
  /\ coinsDB' = WrittenCoins(S)
  /\ batch' = [o \in Outpoints |-> IF o \in S THEN NoEntry ELSE batch[o]]
  /\ best' = Null
  /\ heads' = <<tip, OldTip>>
  /\ UNCHANGED <<phase, after, full, tip, mCache, span, replayed, index,
                 invalid, indexDB, files, undo, crashes>>

WriteFinalBatch ==
  /\ phase = "batch"
  /\ coinsDB' = WrittenCoins(Outpoints)
  /\ batch' = NoCache
  /\ best' = tip
  /\ heads' = <<>>
  /\ phase' = after
  /\ UNCHANGED <<after, full, tip, mCache, span, replayed, index,
                 invalid, indexDB, files, undo, crashes>>

-----------------------------------------------------------------------------
(* The process dies: what is not on disk is gone.                          *)
Forget ==
  /\ mCache' = NoCache /\ batch' = NoCache /\ span' = NoCache
  /\ after' = "up" /\ full' = FALSE
  /\ tip' = Null /\ replayed' = Genesis
  /\ index' = OnlyGenesis /\ invalid' = Null

Crash ==
  /\ phase \notin {"down", "failed"}
  /\ crashes < MaxCrashes
  /\ crashes' = crashes + 1
  /\ phase' = "down"
  /\ Forget
  /\ UNCHANGED diskVars

(* The end of a shutdown.                                                  *)
Exit ==
  /\ phase = "exit"
  /\ phase' = "down"
  /\ Forget
  /\ UNCHANGED <<diskVars, crashes>>

(* Start-up gives up with an error for the operator.                       *)
GiveUp ==
  /\ phase' = "failed"
  /\ Forget
  /\ UNCHANGED <<diskVars, crashes>>

(* The process starts, also after a start-up that gave up.                 *)
(* LoadBlockIndexDB wants every file the index refers to.                  *)
LoadBlockIndexDB ==
  /\ phase \in {"down", "failed"}
  /\ IF indexDB.data \subseteq files
     THEN /\ index' = indexDB
          /\ phase' = "replay"
          /\ UNCHANGED <<after, full, tip, mCache, batch, span, replayed, invalid,
                         diskVars, crashes>>
     ELSE GiveUp

(* ReplayBlocks: nothing to do, or both heads have to be known.            *)
KnownHeads ==
  /\ heads[1] \in index.known
  /\ heads[2] # Null => heads[2] \in index.known

ReplayBlocks ==
  /\ phase = "replay"
  /\ \/ /\ heads = <<>>
        /\ tip' = best
        /\ phase' = "tip"
        /\ UNCHANGED <<after, full, mCache, batch, span, replayed, index, invalid, diskVars, crashes>>
     \/ /\ heads # <<>> /\ KnownHeads
        /\ replayed' = IF heads[2] = Null THEN Genesis ELSE heads[2]
        /\ phase' = "rollback"
        /\ UNCHANGED <<after, full, tip, mCache, batch, span, index, invalid, diskVars, crashes>>
     \/ heads # <<>> /\ ~KnownHeads /\ GiveUp

OnNewChain == replayed \in Chain[heads[1]]

(* Mutant of RollbackBlock: the loop does not move to the parent.          *)
RollbackBlockStuck ==
  /\ phase = "rollback" /\ ~OnNewChain
  /\ \/ /\ CanUndo(replayed)
        /\ span' = [o \in Outpoints |->
                      UndoneEntry(replayed, o, span[o], View(o), undo[replayed][o])]
        /\ mCache' = LoadedCache(replayed)
        /\ UNCHANGED <<phase, after, full, tip, batch, replayed, index, invalid, diskVars, crashes>>
     \/ ~CanUndo(replayed) /\ GiveUp

(* Rollback of one block of the old branch (DISCONNECT_UNCLEAN is fine).   *)
RollbackBlock ==
  /\ phase = "rollback" /\ ~OnNewChain
  /\ \/ /\ CanUndo(replayed)
        /\ span' = [o \in Outpoints |->
                      UndoneEntry(replayed, o, span[o], View(o), undo[replayed][o])]
        /\ mCache' = LoadedCache(replayed)
        /\ replayed' = Parent[replayed]
        /\ UNCHANGED <<phase, after, full, tip, batch, index, invalid, diskVars, crashes>>
     \/ ~CanUndo(replayed) /\ GiveUp

StartForward ==
  /\ phase = "rollback" /\ OnNewChain
  /\ phase' = "forward"
  /\ UNCHANGED <<after, full, tip, mCache, batch, span, replayed, index, invalid, diskVars, crashes>>

(* RollforwardBlock of the next block toward the new tip.                  *)
NextReplayed == ChildToward(replayed, heads[1])

RollforwardBlock ==
  /\ phase = "forward" /\ replayed # heads[1]
  /\ \/ /\ CanRead(NextReplayed)
        /\ span' = [o \in Outpoints |-> RolledEntry(NextReplayed, o, span[o], View(o))]
        /\ mCache' = LoadedCache(NextReplayed)
        /\ replayed' = NextReplayed
        /\ UNCHANGED <<phase, after, full, tip, batch, index, invalid, diskVars, crashes>>
     \/ ~CanRead(NextReplayed) /\ GiveUp

FinishReplay ==
  /\ phase = "forward" /\ replayed = heads[1]
  /\ TryFlush(span, mCache)
  /\ span' = NoCache
  /\ tip' = heads[1]
  /\ phase' = "tip"
  /\ UNCHANGED <<after, full, batch, replayed, index, invalid, diskVars, crashes>>

(* LoadChainTip, then RewindBlockIndex, whose loop does nothing, and its   *)
(* full flush.  Without a best block the activation connects genesis.      *)
LoadChainTip ==
  /\ phase = "tip"
  /\ \/ /\ tip = Null
        /\ tip' = Genesis
        /\ phase' = "up"
        /\ UNCHANGED <<after, full, mCache, batch, span, replayed, index, invalid, diskVars, crashes>>
     \/ /\ tip \in index.known \ index.failed
        /\ FlushStateToDisk(TRUE, index, {}, "up")
        /\ UNCHANGED invalid
     \/ /\ tip # Null /\ tip \notin index.known \ index.failed
        /\ GiveUp

Startup ==
  \/ LoadBlockIndexDB \/ ReplayBlocks \/ RollbackBlock \/ StartForward
  \/ RollforwardBlock \/ FinishReplay \/ LoadChainTip

Flush ==
  \/ WriteIndex \/ FlushCoins
  \/ \E S \in SUBSET {o \in Outpoints : batch[o].has} \ {{}} : WritePartialBatch(S)
  \/ WriteFinalBatch \/ Exit

Next ==
  \/ \E o \in Outpoints : CacheCoin(o) \/ Uncache(o)
  \/ \E b \in Blocks : AcceptBlock(b) \/ ConnectTip(b) \/ InvalidateBlock(b)
  \/ DisconnectTip \/ InvalidateRest
  \/ PeriodicWrite \/ FullFlush \/ Shutdown \/ AbortNode
  \/ Flush \/ Crash \/ Startup

Spec == Init /\ [][Next]_vars

(* A flush that has begun and a start-up run on.                           *)
FairSpec == Spec /\ WF_vars(Flush) /\ WF_vars(Startup)

-----------------------------------------------------------------------------
Running == phase \in {"up", "index", "coins", "batch", "exit"}

(* The coins the running node sees, and the block it would restart from.   *)
Durable == IF heads # <<>> THEN heads[1] ELSE IF best = Null THEN Genesis ELSE best

Promise == INSTANCE DurableCoins WITH
  dTip <- IF Running THEN tip ELSE Down,
  dCoins <- IF Running THEN [o \in Outpoints |-> View(o)] ELSE Utxo[Genesis],
  dDurable <- Durable

(* The chain state implements DurableCoins: whatever partial batches a     *)
(* crash leaves behind, and however often the recovery itself is           *)
(* interrupted, the node never works with coins other than those of its    *)
(* tip, and a restart brings back the tip of the last flush that reached   *)
(* the disk, even when it was not finished (DBBatchWrite, ReplayBlocks).   *)
ImplementsDurable == Promise!DurableSpec

(* Neither logic_error of CoinsStore nor an assertion of the flush is ever *)
(* reached, and every block of the active chain can be undone cleanly: for *)
(* any block that may be connected next, and for the tip, no entry claims  *)
(* to be FRESH above an unspent coin (CoinsStore::AddCoin, BatchWrite,     *)
(* DBBatchWrite, ApplyBlockUndo).                                          *)
CacheFlagsSound ==
  /\ phase = "up" =>
       \A o \in Outpoints :
         /\ \A b \in NonGenesis : Parent[b] = tip =>
              /\ o \in Creates[b] => ~AddReplacesCoin(NoEntry, o \in Coinbase)
              /\ ~FreshMisapplied(Loaded(o, b), ConnectedEntry(b, o, NoEntry, View(o)))
         /\ tip # Genesis =>
              /\ UndoIsClean(tip, o, NoEntry, View(o))
              /\ ~FreshMisapplied(Loaded(o, tip),
                                  UndoneEntry(tip, o, NoEntry, View(o), undo[tip][o]))
  /\ phase = "forward" =>
       \A o \in Outpoints : ~FreshMisapplied(mCache[o], span[o])
  /\ phase = "batch" /\ best = Null /\ heads # <<>> => heads[1] = tip

(* A start-up gives up only because a block file was pruned under an index *)
(* or a flush that still needs it, or because the block the coins belong   *)
(* to was invalidated: never because the coins name a block the index does *)
(* not know or one without undo data (FlushStateToDisk writes the index    *)
(* first).                                                                 *)
StartupFailureExplained ==
  phase = "failed" =>
    \/ Durable \in indexDB.failed
    \/ ~(indexDB.data \subseteq files)
    \/ /\ heads # <<>>
       /\ ~(Chain[heads[1]] \ (IF heads[2] = Null THEN {Genesis} ELSE Chain[heads[2]])
              \subseteq indexDB.data)
    \/ /\ heads # <<>> /\ heads[2] # Null
       /\ ~(Chain[heads[2]] \ Chain[heads[1]] \subseteq indexDB.data)

(* A start-up succeeds after every crash.                                  *)
StartupSucceeds == phase # "failed"

(* Under the bound on crashes, a node that is down gets up or gives up:    *)
(* the replay reaches the new tip (ReplayBlocks).                          *)
StartupEnds == phase = "down" ~> phase \in {"up", "failed"}
=============================================================================
