------------------------- MODULE ChainstateDBProofs -------------------------
(***************************************************************************)
(* ChainstateDB implements DurableCoins for every block tree, every set of *)
(* outpoints and any number of crashes: no partial batch, no interrupted   *)
(* replay and no order of writes makes the node work with coins that are   *)
(* not those of its tip.  A start-up gives up only for the reasons         *)
(* StartupFailureExplained lists.  First the inductive invariant with one  *)
(* lemma per action of a node that is up and of a start-up, then the block *)
(* tree, and the theorems.                                                 *)
(***************************************************************************)
EXTENDS ChainstateDB, BlockCoinsProofs, WellFoundedInduction, FiniteSetTheorems

(* The flags of every layer tell the truth about the layer below.          *)
LayersSound ==
  \A o \in Outpoints :
    /\ Sound(batch[o], coinsDB[o])
    /\ Sound(mCache[o], Seen(batch[o], coinsDB[o]))
    /\ Sound(span[o], View(o))

(* Which layers and which records on disk a phase may find.                *)
Stages ==
  /\ phase # "batch" => batch = NoCache
  /\ phase = "batch" => mCache = NoCache
  /\ phase \notin {"rollback", "forward"} => span = NoCache
  /\ phase \in {"down", "replay", "failed"} => mCache = NoCache
  /\ phase \in {"up", "exit"} \/ (phase = "index" /\ ~full) => heads = <<>>
  /\ phase \in {"index", "coins", "batch"} /\ heads # <<>> => tip = heads[1]
  /\ phase \in {"rollback", "forward"} => heads # <<>>
  /\ phase = "forward" => replayed \in Chain[heads[1]]
  /\ phase = "tip" => tip = IF heads # <<>> THEN heads[1] ELSE best
  /\ Running => tip \in Blocks
  /\ invalid # Null => invalid \in NonGenesis

(* The coins seen are those of the tip; a replay sees, for each outpoint,  *)
(* the coin of the block it has reached or already that of its goal.       *)
RightCoins ==
  /\ Running => \A o \in Outpoints : View(o) = Utxo[tip][o]
  /\ phase = "tip" => \A o \in Outpoints : View(o) = Utxo[Durable][o]
  /\ phase \in {"rollback", "forward"} =>
       \A o \in Outpoints : SpanView(o) \in {Utxo[replayed][o], Utxo[heads[1]][o]}

(* The block a flush that is not finished started from.                    *)
Base == IF heads[2] = Null THEN Genesis ELSE heads[2]

(* The coins on disk are those of one block, or a mixture of those of the  *)
(* two recorded heads.                                                     *)
DiskCoins ==
  /\ heads = <<>> => \A o \in Outpoints : coinsDB[o] = Utxo[Durable][o]
  /\ heads # <<>> =>
       /\ best = Null
       /\ \A o \in Outpoints : coinsDB[o] \in {Utxo[heads[1]][o], Utxo[Base][o]}

(* The undo data of a block restores the coins of its parent.              *)
RightUndo ==
  \A b \in NonGenesis : b \in index.undo \union indexDB.undo =>
    \A o \in Spends[b] \ Creates[b] : undo[b][o] = Utxo[Parent[b]][o]

CoinsInv == TypeOK /\ LayersSound /\ Stages /\ RightCoins /\ DiskCoins /\ RightUndo

-----------------------------------------------------------------------------
(* Facts about the caches that hold in every phase.                        *)
LEMMA ViewType ==
  ASSUME TypeOK
  PROVE  \A o \in Outpoints :
           coinsDB[o] \in Coins /\ Seen(batch[o], coinsDB[o]) \in Coins /\ View(o) \in Coins
BY SeenType DEF TypeOK, View

(* An empty cache has no entry for any output.                             *)
LEMMA NoCacheIs == NoCache \in [Outpoints -> Entry] /\ \A o \in Outpoints : NoCache[o] = NoEntry
BY EntryType DEF NoCache

(* With no batch under way the cache lies over the disk.                   *)
LEMMA CacheOverDisk ==
  ASSUME TypeOK, LayersSound, batch = NoCache
  PROVE  \A o \in Outpoints :
           /\ Seen(batch[o], coinsDB[o]) = coinsDB[o]
           /\ Sound(mCache[o], coinsDB[o])
           /\ View(o) = Seen(mCache[o], coinsDB[o])
<1>1. \A o \in Outpoints : Seen(batch[o], coinsDB[o]) = coinsDB[o]
  BY ViewType, NoCacheIs, NoEntrySound, Zenon
<1> QED BY <1>1 DEF LayersSound, View

(* Loading the coins of a block changes nothing that is seen.              *)
LEMMA LoadedSound ==
  ASSUME TypeOK, LayersSound, batch = NoCache, NEW b
  PROVE  \A o \in Outpoints :
           /\ Sound(Loaded(o, b), coinsDB[o])
           /\ Seen(Loaded(o, b), coinsDB[o]) = View(o)
BY CacheOverDisk, ViewType, FetchedSound, Zenon DEF Loaded

(* Steps that touch no layer keep the layers.                              *)
LEMMA LayersFrame ==
  ASSUME LayersSound, UNCHANGED <<mCache, batch, span, coinsDB>>
  PROVE  /\ LayersSound'
         /\ \A o \in Outpoints : View(o)' = View(o) /\ SpanView(o)' = SpanView(o)
BY DEF LayersSound, View, SpanView

(* Entries written through: the cache of the next state shows what was     *)
(* seen through the span.                                                  *)
LEMMA TryFlushSound ==
  ASSUME TypeOK, LayersSound, batch = NoCache, NEW entries, NEW loaded,
         \A o \in Outpoints : /\ Sound(loaded[o], coinsDB[o])
                              /\ Seen(loaded[o], coinsDB[o]) = View(o)
                              /\ Sound(entries[o], View(o)),
         TryFlush(entries, loaded), span' = NoCache, UNCHANGED <<batch, coinsDB>>
  PROVE  /\ LayersSound'
         /\ mCache' \in [Outpoints -> Entry]
         /\ \A o \in Outpoints : View(o)' = Seen(entries[o], View(o))
<1>1. \A o \in Outpoints : mCache'[o] = Written(loaded[o], entries[o])
  BY DEF TryFlush
<1>2. \A o \in Outpoints : /\ Sound(mCache'[o], coinsDB[o])
                           /\ Seen(mCache'[o], coinsDB[o]) = Seen(entries[o], View(o))
  <2> TAKE o \in Outpoints
  <2>1. coinsDB[o] \in Coins
    BY ViewType
  <2>2. Sound(entries[o], Seen(loaded[o], coinsDB[o]))
    OBVIOUS
  <2> QED BY <1>1, <2>1, <2>2, WrittenSound
<1>3. mCache' \in [Outpoints -> Entry]
  BY <1>1, <1>2, Zenon DEF TryFlush, Sound
<1>4. \A o \in Outpoints : Seen(batch'[o], coinsDB'[o]) = coinsDB[o]
  BY CacheOverDisk, Zenon
<1>5. \A o \in Outpoints : View(o)' = Seen(entries[o], View(o))
  BY <1>2, <1>4, Zenon DEF View
<1>6. \A o \in Outpoints : Sound(span'[o], View(o)')
  <2> TAKE o \in Outpoints
  <2>1. View(o)' \in Coins
    BY <1>2, <1>5, <1>3, SeenType, ViewType, Zenon
  <2> QED BY <2>1, NoCacheIs, NoEntrySound, Zenon
<1>7. \A o \in Outpoints : Sound(batch'[o], coinsDB'[o])
  BY DEF LayersSound
<1> QED BY <1>2, <1>3, <1>4, <1>5, <1>6, <1>7, Zenon DEF LayersSound

-----------------------------------------------------------------------------
(* The invariant holds initially and in every state a process that ended   *)
(* leaves behind.                                                          *)
LEMMA IndexType == OnlyGenesis \in Index /\ OnlyGenesis.undo = {}
BY TreeAssumption DEF OnlyGenesis, Index

(* A node that starts on an empty database satisfies the invariant.        *)
LEMMA InitInv == Init => CoinsInv
<1> SUFFICES ASSUME Init PROVE CoinsInv
  OBVIOUS
<1>1. \A o \in Outpoints : coinsDB[o] = Spent /\ Spent \in Coins
  BY Zenon DEF Init, NoCoins, Coins
<1>2. TypeOK
  <2>1. NoCoins \in [Outpoints -> Coins]
    BY DEF NoCoins, Coins
  <2>2. undo \in [Blocks -> [Outpoints -> Coins]]
    BY <2>1 DEF Init
  <2>3. crashes \in 0 .. MaxCrashes
    BY ChainstateAssumption DEF Init
  <2> QED BY <2>1, <2>2, <2>3, NoCacheIs, IndexType, TreeAssumption, Zenon DEF Init, TypeOK, Phase
<1>3. \A o \in Outpoints : View(o) = Spent /\ Seen(batch[o], coinsDB[o]) = Spent
  BY <1>1, NoCacheIs, NoEntrySound DEF Init, View
<1>4. LayersSound
  BY <1>1, <1>3, NoCacheIs, NoEntrySound, Zenon DEF Init, LayersSound
<1>5. Stages
  BY TreeAssumption, Zenon DEF Init, Stages
<1>6. RightCoins
  BY <1>3, UtxoAssumption, Zenon DEF Init, RightCoins
<1>7. DiskCoins
  BY <1>1, UtxoAssumption, Zenon DEF Init, DiskCoins, Durable
<1>8. RightUndo
  BY IndexType DEF Init, RightUndo
<1> QED BY <1>2, <1>4, <1>5, <1>6, <1>7, <1>8, Zenon DEF CoinsInv

(* Losing the memory, by a crash or a failed start, keeps the invariant.   *)
LEMMA ForgetInv ==
  ASSUME CoinsInv, Forget, UNCHANGED diskVars, phase' \in {"down", "failed"},
         crashes' \in 0 .. MaxCrashes
  PROVE  CoinsInv'
<1> USE DEF CoinsInv
<1>1. TypeOK'
  BY NoCacheIs, IndexType, TreeAssumption, Zenon DEF TypeOK, Forget, diskVars, Phase
<1>2. \A o \in Outpoints : coinsDB'[o] \in Coins /\ Seen(batch'[o], coinsDB'[o]) = coinsDB'[o]
  BY ViewType, NoCacheIs, NoEntrySound DEF Forget, diskVars
<1>3. \A o \in Outpoints : View(o)' = coinsDB'[o]
  BY <1>2, NoCacheIs, NoEntrySound DEF Forget, View
<1>4. LayersSound'
  BY <1>2, <1>3, NoCacheIs, NoEntrySound DEF Forget, LayersSound
<1>5. Stages'
  BY DEF Stages, Forget, Running
<1>6. RightCoins'
  BY Zenon DEF RightCoins, Running
<1>7. DiskCoins'
  BY Zenon DEF DiskCoins, diskVars, Base, Durable
<1>8. RightUndo'
  BY IndexType, Zenon DEF RightUndo, Forget, diskVars
<1> QED BY <1>1, <1>4, <1>5, <1>6, <1>7, <1>8, Zenon

(* FlushStateToDisk begins: nothing that is seen changes.                  *)
LEMMA FlushBegins ==
  ASSUME CoinsInv, NEW f \in BOOLEAN, NEW newIndex \in Index, newIndex.undo = index.undo,
         NEW pruned, NEW then \in {"up", "exit"},
         FlushStateToDisk(f, newIndex, pruned, then),
         phase \in {"up", "tip"}, tip \in Blocks, f \/ phase = "up", invalid' \in {invalid, Null}
  PROVE  CoinsInv'
<1> USE DEF CoinsInv
<1>0. index' \in Index /\ index'.undo \subseteq index.undo
  BY Zenon DEF FlushStateToDisk, Index
<1>1. TypeOK'
  BY <1>0 DEF TypeOK, FlushStateToDisk, Phase
<1>2. LayersSound' /\ \A o \in Outpoints : View(o)' = View(o) /\ SpanView(o)' = SpanView(o)
  BY LayersFrame DEF FlushStateToDisk
<1>3. Stages'
  BY DEF Stages, FlushStateToDisk, Running
<1>4. RightCoins'
  <2>1. phase = "tip" => Durable = tip
    BY ChainstateAssumption DEF Stages, Durable
  <2>2. \A o \in Outpoints : View(o) = Utxo[tip][o]
    BY <2>1 DEF RightCoins, Running
  <2> QED BY <1>2, <2>2 DEF FlushStateToDisk, RightCoins
<1>5. DiskCoins'
  BY Zenon DEF DiskCoins, FlushStateToDisk, Base, Durable
<1>6. RightUndo'
  BY <1>0, Zenon DEF RightUndo, FlushStateToDisk
<1> QED BY <1>1, <1>2, <1>3, <1>4, <1>5, <1>6, Zenon

-----------------------------------------------------------------------------
(* The tip moves: the span of the block is written into the cache.         *)
LEMMA TipMoves ==
  ASSUME CoinsInv, phase = "up", NEW b, NEW to \in Blocks, NEW entries,
         \A o \in Outpoints : Sound(entries[o], View(o)) /\ Seen(entries[o], View(o)) = Utxo[to][o],
         TryFlush(entries, LoadedCache(b)), tip' = to,
         index' \in Index, undo' \in [Blocks -> [Outpoints -> Coins]], RightUndo',
         invalid' # Null => invalid' \in NonGenesis,
         UNCHANGED <<phase, after, full, batch, span, replayed,
                     coinsDB, best, heads, indexDB, files, crashes>>
  PROVE  CoinsInv'
<1> USE DEF CoinsInv
<1>1. batch = NoCache /\ span = NoCache /\ heads = <<>>
  BY Zenon DEF Stages
<1>2. \A o \in Outpoints : LoadedCache(b)[o] = Loaded(o, b)
  BY Zenon DEF LoadedCache
<1>3. /\ LayersSound'
      /\ mCache' \in [Outpoints -> Entry]
      /\ \A o \in Outpoints : View(o)' = Utxo[to][o]
  BY <1>1, <1>2, LoadedSound, TryFlushSound
<1>4. TypeOK'
  BY <1>3, Zenon DEF TypeOK, NonGenesis
<1>5. Stages'
  BY <1>1, Zenon DEF Stages, Running
<1>6. RightCoins'
  BY <1>3, Zenon DEF RightCoins
<1>7. DiskCoins'
  BY Zenon DEF DiskCoins, Durable, Base
<1> QED BY <1>3, <1>4, <1>5, <1>6, <1>7, Zenon

(* Connecting a block keeps the invariant.                                 *)
LEMMA ConnectTipInv ==
  ASSUME CoinsInv, NEW b \in Blocks, ConnectTip(b)
  PROVE  CoinsInv'
<1> USE DEF CoinsInv
<1> DEFINE entries == [o \in Outpoints |-> ConnectedEntry(b, o, NoEntry, View(o))]
<1>1. phase = "up" /\ b \in NonGenesis /\ Parent[b] = tip
  BY DEF ConnectTip, Idle
<1>2. \A o \in Outpoints : View(o) = Utxo[Parent[b]][o]
  BY <1>1, Zenon DEF RightCoins, Running
<1>3. \A o \in Outpoints : Sound(entries[o], View(o)) /\ Seen(entries[o], View(o)) = Utxo[b][o]
  BY <1>1, <1>2, ConnectedSound, Zenon
<1>4. index' \in Index /\ index'.undo = index.undo \union {b}
  BY Zenon DEF ConnectTip, TypeOK, Index
<1>5. undo' \in [Blocks -> [Outpoints -> Coins]]
  <2> DEFINE u == [o \in Outpoints |-> IF o \in Spends[b] \ Creates[b] THEN View(o)
                                       ELSE IF o \in Spends[b] THEN b ELSE Spent]
  <2>1. u \in [Outpoints -> Coins]
    BY ViewType DEF Coins
  <2>2. undo' = undo \/ undo' = [undo EXCEPT ![b] = u]
    BY DEF ConnectTip
  <2> HIDE DEF u
  <2> QED BY <2>1, <2>2 DEF TypeOK
<1>6. RightUndo'
  <2> SUFFICES ASSUME NEW d \in NonGenesis, d \in index'.undo \union indexDB'.undo,
                      NEW o \in Spends[d] \ Creates[d]
               PROVE  undo'[d][o] = Utxo[Parent[d]][o]
    BY Zenon DEF RightUndo
  <2>1. indexDB' = indexDB /\ o \in Outpoints
    BY UtxoAssumption, Zenon DEF ConnectTip, NonGenesis
  <2>2. CASE d = b /\ b \notin index.undo
    BY <1>2, <2>1, <2>2, Zenon DEF ConnectTip, TypeOK
  <2>3. CASE d # b \/ b \in index.undo
    <3>1. undo'[d] = undo[d]
      BY <2>3, Zenon DEF ConnectTip, TypeOK, NonGenesis
    <3>2. d \in index.undo \union indexDB.undo
      BY <1>4, <2>1, <2>3, Zenon
    <3> QED BY <3>1, <3>2, Zenon DEF RightUndo
  <2> QED BY <2>2, <2>3, Zenon
<1>7. invalid' # Null => invalid' \in NonGenesis
  BY DEF ConnectTip, Stages
<1>8. /\ TryFlush(entries, LoadedCache(b)) /\ tip' = b
      /\ UNCHANGED <<phase, after, full, batch, span, replayed,
                     coinsDB, best, heads, indexDB, files, crashes>>
  BY Zenon DEF ConnectTip
<1> HIDE DEF entries, CoinsInv
<1> QED BY <1>1, <1>3, <1>4, <1>5, <1>6, <1>7, <1>8, TipMoves, Zenon

(* Disconnecting the tip from its undo data keeps the invariant.           *)
LEMMA DisconnectInv ==
  ASSUME CoinsInv, phase = "up", tip # Genesis, CanUndo(tip),
         NEW newIndex \in Index, newIndex.undo = index.undo, Disconnect(newIndex),
         invalid' # Null => invalid' \in NonGenesis
  PROVE  CoinsInv'
<1> USE DEF CoinsInv
<1> DEFINE entries == [o \in Outpoints |-> UndoneEntry(tip, o, NoEntry, View(o), undo[tip][o])]
<1>1. tip \in NonGenesis /\ tip \in index.undo /\ Parent[tip] \in Blocks
  BY ParentType, Zenon DEF Stages, Running, NonGenesis, CanUndo
<1>2. \A o \in Outpoints : View(o) = Utxo[tip][o] /\ View(o) \in Coins
  BY ViewType, Zenon DEF RightCoins, Running
<1>3. ASSUME NEW o \in Outpoints
      PROVE  Sound(entries[o], View(o)) /\ Seen(entries[o], View(o)) = Utxo[Parent[tip]][o]
  <2>1. undo[tip][o] \in Coins
    BY <1>1 DEF TypeOK, NonGenesis
  <2>2. o \in Spends[tip] \ Creates[tip] => undo[tip][o] = Utxo[Parent[tip]][o]
    BY <1>1, Zenon DEF RightUndo
  <2>3. Sound(NoEntry, View(o)) /\ Seen(NoEntry, View(o)) = View(o)
    BY <1>2, NoEntrySound, Zenon
  <2>4. /\ Sound(entries[o], View(o))
        /\ Seen(entries[o], View(o)) = IF o \in Spends[tip] \union Creates[tip]
                                       THEN Utxo[Parent[tip]][o] ELSE View(o)
    <3>1. CanBeUndone(tip, o, NoEntry, View(o), undo[tip][o])
      BY <1>1, <1>2, <2>1, <2>2, <2>3, Zenon DEF CanBeUndone
    <3>2. entries[o] = UndoneEntry(tip, o, NoEntry, View(o), undo[tip][o])
      OBVIOUS
    <3> HIDE DEF entries
    <3>3. UndoneRight(tip, o, NoEntry, View(o), undo[tip][o])
      BY <3>1, UndoneSound, Zenon
    <3> QED BY <2>3, <3>2, <3>3, Zenon DEF UndoneRight
  <2>5. o \notin Spends[tip] \union Creates[tip] => Utxo[tip][o] = Utxo[Parent[tip]][o]
    BY <1>1, UtxoAssumption, Zenon
  <2> QED BY <1>2, <2>4, <2>5, Zenon
<1>4. RightUndo'
  BY Zenon DEF RightUndo, Disconnect, diskVars
<1>5. /\ TryFlush(entries, LoadedCache(tip)) /\ tip' = Parent[tip] /\ index' \in Index
      /\ undo' \in [Blocks -> [Outpoints -> Coins]]
      /\ UNCHANGED <<phase, after, full, batch, span, replayed,
                     coinsDB, best, heads, indexDB, files, crashes>>
  BY Zenon DEF Disconnect, diskVars, TypeOK
<1> HIDE DEF entries, CoinsInv
<1> QED BY <1>1, <1>3, <1>4, <1>5, TipMoves, Zenon

(* One entry of the cache is fetched or dropped.                           *)
LEMMA CacheStepInv ==
  ASSUME CoinsInv, NEW o \in Outpoints, CacheCoin(o) \/ Uncache(o)
  PROVE  CoinsInv'
<1> USE DEF CoinsInv
<1> DEFINE e == mCache'[o]
<1>1. /\ phase = "up" /\ batch = NoCache /\ span = NoCache
      /\ UNCHANGED <<phase, after, full, tip, batch, span, replayed, index, invalid, diskVars, crashes>>
  BY Zenon DEF CacheCoin, Uncache, Idle, Stages
<1>2. /\ mCache' = [mCache EXCEPT ![o] = e]
      /\ e \in {Fetched(mCache[o], coinsDB[o]), Uncached(mCache[o])}
  BY Zenon DEF CacheCoin, Uncache, TypeOK
<1>3. Sound(e, coinsDB[o]) /\ Seen(e, coinsDB[o]) = View(o)
  <2>1. coinsDB[o] \in Coins /\ Sound(mCache[o], coinsDB[o])
        /\ View(o) = Seen(mCache[o], coinsDB[o])
    BY <1>1, ViewType, CacheOverDisk, Zenon
  <2> HIDE DEF e
  <2> QED BY <1>2, <2>1, FetchedSound, UncachedSound, Zenon
<1>4. \A p \in Outpoints : /\ Sound(mCache'[p], coinsDB[p])
                           /\ Seen(mCache'[p], coinsDB[p]) = View(p)
  BY <1>1, <1>2, <1>3, CacheOverDisk, Zenon DEF TypeOK
<1>5. mCache' \in [Outpoints -> Entry]
  BY <1>2, <1>3, Zenon DEF TypeOK, Sound
<1>6. \A p \in Outpoints : View(p)' = View(p) /\ Seen(batch'[p], coinsDB'[p]) = coinsDB[p]
  BY <1>1, <1>4, CacheOverDisk, Zenon DEF View, diskVars
<1>7. LayersSound'
  BY <1>1, <1>4, <1>6, Zenon DEF LayersSound, diskVars
<1>8. TypeOK'
  BY <1>1, <1>5, Zenon DEF TypeOK, diskVars
<1>9. Stages'
  BY <1>1, Zenon DEF Stages, diskVars, Running
<1>10. RightCoins'
  BY <1>1, <1>6, Zenon DEF RightCoins, Running
<1>11. DiskCoins' /\ RightUndo'
  BY <1>1, Zenon DEF DiskCoins, RightUndo, diskVars, Durable, Base
<1> QED BY <1>7, <1>8, <1>9, <1>10, <1>11, Zenon

(* Steps that only change the index entries and the files.                 *)
LEMMA IndexOnlyInv ==
  ASSUME CoinsInv, index' \in Index, index'.undo = index.undo, files' \subseteq Blocks,
         invalid' # Null => invalid' \in NonGenesis,
         UNCHANGED <<phase, after, full, tip, mCache, batch, span, replayed,
                     coinsDB, best, heads, indexDB, undo, crashes>>
  PROVE  CoinsInv'
<1> USE DEF CoinsInv
<1>1. TypeOK'
  BY Zenon DEF TypeOK, NonGenesis
<1>2. LayersSound' /\ \A o \in Outpoints : View(o)' = View(o) /\ SpanView(o)' = SpanView(o)
  BY LayersFrame, Zenon
<1>3. Stages'
  BY Zenon DEF Stages, Running
<1>4. RightCoins'
  BY <1>2, Zenon DEF RightCoins, Running, Durable
<1>5. DiskCoins' /\ RightUndo'
  BY Zenon DEF DiskCoins, RightUndo, Durable, Base
<1> QED BY <1>1, <1>2, <1>3, <1>4, <1>5, Zenon

(* Storing a block keeps the invariant.                                    *)
LEMMA AcceptBlockInv ==
  ASSUME CoinsInv, NEW b \in Blocks, AcceptBlock(b)
  PROVE  CoinsInv'
<1>1. index' \in Index /\ index'.undo = index.undo /\ files' \subseteq Blocks
  BY Zenon DEF AcceptBlock, CoinsInv, TypeOK, Index
<1>2. invalid' # Null => invalid' \in NonGenesis
  BY DEF AcceptBlock, CoinsInv, Stages
<1> QED BY <1>1, <1>2, IndexOnlyInv, Zenon DEF AcceptBlock

(* InvalidateBlock marks and disconnects the tip, or aborts.               *)
LEMMA StepBackInv ==
  ASSUME CoinsInv, phase = "up", NEW b \in NonGenesis, b \in Chain[tip], StepBack(b)
  PROVE  CoinsInv'
<1> DEFINE marked == [index EXCEPT !.failed = @ \union {b, tip}]
<1>1. tip \in Blocks /\ index \in Index
  BY Zenon DEF CoinsInv, Stages, Running, TypeOK
<1>2. tip # Genesis
  BY TreeAssumption, Zenon DEF NonGenesis
<1>3. marked \in Index /\ marked.undo = index.undo
  BY <1>1, Zenon DEF Index, NonGenesis
<1>4. \/ CanUndo(tip) /\ Disconnect(marked) /\ invalid' = b
      \/ FlushStateToDisk(TRUE, marked, {}, "exit") /\ invalid' = Null
  BY Zenon DEF StepBack
<1> HIDE DEF marked
<1>5. CASE CanUndo(tip) /\ Disconnect(marked) /\ invalid' = b
  BY <1>2, <1>3, <1>5, DisconnectInv
<1>6. CASE FlushStateToDisk(TRUE, marked, {}, "exit") /\ invalid' = Null
  BY <1>1, <1>3, <1>6, FlushBegins, Zenon
<1> QED BY <1>4, <1>5, <1>6, Zenon

(* Each step of invalidateblock keeps the invariant.                       *)
LEMMA InvalidateInv ==
  ASSUME CoinsInv, InvalidateRest \/ \E b \in Blocks : InvalidateBlock(b)
  PROVE  CoinsInv'
<1>1. CASE InvalidateRest
  <2>1. phase = "up" /\ invalid \in NonGenesis /\ tip \in Blocks /\ index \in Index
    BY <1>1 DEF InvalidateRest, CoinsInv, Stages, Running, TypeOK
  <2>2. CASE invalid \in Chain[tip] /\ StepBack(invalid)
    BY <2>1, <2>2, StepBackInv, Zenon
  <2>3. CASE /\ \E pruned \in SUBSET Prunable : FlushStateToDisk(TRUE, index, pruned, "up")
             /\ invalid' = Null
    BY <2>1, <2>3, FlushBegins, Zenon
  <2> QED BY <1>1, <2>2, <2>3, Zenon DEF InvalidateRest
<1>2. ASSUME NEW b \in Blocks, InvalidateBlock(b)
      PROVE  CoinsInv'
  <2>1. phase = "up" /\ b \in NonGenesis /\ tip \in Blocks
    BY <1>2, ChainstateAssumption DEF InvalidateBlock, Idle, CoinsInv, Stages, Running
  <2>2. CASE b \in Chain[tip] /\ StepBack(b)
    BY <2>1, <2>2, StepBackInv, Zenon
  <2>3. CASE b \notin Chain[tip]
    <3>1. /\ index' \in Index /\ index'.undo = index.undo /\ invalid' = b /\ files' \subseteq Blocks
      BY <1>2, <2>3 DEF InvalidateBlock, CoinsInv, TypeOK, Index, Descendants, diskVars
    <3> QED BY <1>2, <2>1, <2>3, <3>1, IndexOnlyInv, Zenon DEF InvalidateBlock, diskVars
  <2> QED BY <1>2, <2>2, <2>3 DEF InvalidateBlock
<1> QED BY <1>1, <1>2

-----------------------------------------------------------------------------
(* The steps of a flush.                                                   *)
LEMMA WriteIndexInv ==
  ASSUME CoinsInv, WriteIndex
  PROVE  CoinsInv'
<1> USE DEF CoinsInv
<1>1. TypeOK'
  BY Zenon DEF TypeOK, WriteIndex, Phase
<1>2. LayersSound' /\ \A o \in Outpoints : View(o)' = View(o)
  BY LayersFrame, Zenon DEF WriteIndex
<1>3. Stages'
  BY Zenon DEF Stages, WriteIndex, Running, TypeOK
<1>4. RightCoins'
  BY <1>2, Zenon DEF RightCoins, Running, WriteIndex, TypeOK
<1>5. DiskCoins' /\ RightUndo'
  BY Zenon DEF DiskCoins, RightUndo, Durable, Base, WriteIndex
<1> QED BY <1>1, <1>2, <1>3, <1>4, <1>5, Zenon

(* Handing the cache to the batch writer keeps the invariant.              *)
LEMMA FlushCoinsInv ==
  ASSUME CoinsInv, FlushCoins
  PROVE  CoinsInv'
<1> USE DEF CoinsInv
<1>1. phase = "coins" /\ phase' = "batch" /\ batch = NoCache /\ span = NoCache
  BY Zenon DEF FlushCoins, Stages
<1>2. TypeOK'
  BY NoCacheIs, Zenon DEF TypeOK, FlushCoins, Phase, diskVars
<1>3. \A o \in Outpoints : Sound(batch'[o], coinsDB'[o]) /\ Seen(batch'[o], coinsDB'[o]) = View(o)
  BY <1>1, CacheOverDisk, Zenon DEF FlushCoins, diskVars
<1>4. \A o \in Outpoints : View(o)' = View(o) /\ View(o) \in Coins
  BY <1>3, NoCacheIs, NoEntrySound, ViewType, Zenon DEF FlushCoins, View
<1>5. LayersSound'
  BY <1>1, <1>3, <1>4, NoCacheIs, NoEntrySound, Zenon DEF FlushCoins, LayersSound
<1>6. Stages'
  BY <1>1, Zenon DEF Stages, FlushCoins, Running, diskVars
<1>7. RightCoins'
  BY <1>1, <1>4, Zenon DEF RightCoins, Running, FlushCoins
<1>8. DiskCoins' /\ RightUndo'
  BY Zenon DEF DiskCoins, RightUndo, Durable, Base, FlushCoins, diskVars
<1> QED BY <1>2, <1>5, <1>6, <1>7, <1>8, Zenon

(* Writing a part of the batch changes nothing that is seen; what is       *)
(* written is the coin of the tip.                                         *)
LEMMA WriteSound ==
  ASSUME CoinsInv, phase = "batch", NEW S, coinsDB' = WrittenCoins(S),
         batch' = [o \in Outpoints |-> IF o \in S THEN NoEntry ELSE batch[o]],
         UNCHANGED <<mCache, span>>
  PROVE  /\ LayersSound'
         /\ coinsDB' \in [Outpoints -> Coins]
         /\ batch' \in [Outpoints -> Entry]
         /\ \A o \in Outpoints :
              /\ View(o)' = View(o)
              /\ coinsDB'[o] = IF o \in S THEN View(o) ELSE coinsDB[o]
<1> USE DEF CoinsInv
<1>1. mCache = NoCache /\ span = NoCache
  BY Zenon DEF Stages
<1>2. \A o \in Outpoints : View(o) = Seen(batch[o], coinsDB[o]) /\ View(o) \in Coins
  BY <1>1, NoCacheIs, NoEntrySound, ViewType, Zenon DEF View
<1>3. \A o \in Outpoints : coinsDB'[o] = IF o \in S THEN View(o) ELSE coinsDB[o]
  <2> TAKE o \in Outpoints
  <2>1. coinsDB'[o] = IF o \in S /\ batch[o].dirty THEN batch[o].coin ELSE coinsDB[o]
    BY Zenon DEF WrittenCoins
  <2>2. Sound(batch[o], coinsDB[o])
    BY Zenon DEF LayersSound
  <2>3. View(o) = Seen(batch[o], coinsDB[o])
    BY <1>2, Zenon
  <2>4. CASE batch[o].dirty
    <3>1. batch[o] \in Entry /\ batch[o].has
      BY <2>2, <2>4 DEF Sound, NoEntry
    <3>2. Seen(batch[o], coinsDB[o]) = batch[o].coin
      BY <3>1, Zenon DEF Seen
    <3> QED BY <2>1, <2>3, <2>4, <3>2, Zenon
  <2>5. CASE ~batch[o].dirty
    <3>1. Seen(batch[o], coinsDB[o]) = coinsDB[o]
      BY <2>2, <2>5, Zenon DEF Sound, Seen
    <3> QED BY <2>1, <2>3, <2>5, <3>1, Zenon
  <2> QED BY <2>4, <2>5, Zenon
<1>4. coinsDB' \in [Outpoints -> Coins]
  <2>1. \A o \in Outpoints : coinsDB'[o] \in Coins
    BY <1>2, <1>3, ViewType, Zenon
  <2> QED BY <2>1, Zenon DEF WrittenCoins
<1>5. batch' \in [Outpoints -> Entry]
  BY EntryType, Zenon DEF TypeOK
<1>6. \A o \in Outpoints : /\ Sound(batch'[o], coinsDB'[o])
                           /\ Seen(batch'[o], coinsDB'[o]) = View(o)
  <2> TAKE o \in Outpoints
  <2>1. CASE o \in S
    BY <1>2, <1>3, <2>1, NoEntrySound, Zenon
  <2>2. CASE o \notin S
    BY <1>2, <1>3, <2>2, Zenon DEF LayersSound
  <2> QED BY <2>1, <2>2, Zenon
<1>7. \A o \in Outpoints : View(o)' = View(o)
  BY <1>1, <1>2, <1>6, NoCacheIs, NoEntrySound, Zenon DEF View
<1>8. LayersSound'
  BY <1>1, <1>2, <1>6, <1>7, NoCacheIs, NoEntrySound, Zenon DEF LayersSound
<1> QED BY <1>3, <1>4, <1>5, <1>7, <1>8, Zenon

(* A partial batch keeps the invariant: each coin is old or new.           *)
LEMMA WritePartialInv ==
  ASSUME CoinsInv, NEW S, WritePartialBatch(S)
  PROVE  CoinsInv'
<1> USE DEF CoinsInv
<1>1. phase = "batch" /\ phase' = "batch" /\ tip \in Blocks /\ tip' = tip
  BY Zenon DEF WritePartialBatch, Stages, Running
<1>2. /\ LayersSound'
      /\ coinsDB' \in [Outpoints -> Coins]
      /\ batch' \in [Outpoints -> Entry]
      /\ \A o \in Outpoints :
           /\ View(o)' = View(o)
           /\ coinsDB'[o] = IF o \in S THEN View(o) ELSE coinsDB[o]
  BY <1>1, WriteSound, Zenon DEF WritePartialBatch
<1>3. heads' = <<tip, OldTip>> /\ best' = Null /\ OldTip \in Blocks \union {Null}
  BY Zenon DEF WritePartialBatch, OldTip, TypeOK
<1>4. heads' # <<>> /\ heads'[1] = tip /\ heads'[2] = OldTip
  BY <1>3, Zenon
<1>5. TypeOK'
  <2>1. heads' \in Blocks \X (Blocks \union {Null})
    BY <1>1, <1>3, Zenon
  <2>2. /\ best' = Null
        /\ UNCHANGED <<phase, after, full, tip, replayed, mCache, span, invalid, index,
                       indexDB, files, undo, crashes>>
    BY <1>3, Zenon DEF WritePartialBatch
  <2> QED BY <1>2, <2>1, <2>2, Zenon DEF TypeOK
<1>6. Stages'
  BY <1>1, <1>4, Zenon DEF Stages, WritePartialBatch, Running
<1>7. \A o \in Outpoints : View(o) = Utxo[tip][o]
  BY <1>1, Zenon DEF RightCoins, Running
<1>8. RightCoins'
  BY <1>1, <1>2, <1>7, Zenon DEF RightCoins
<1>9. \A o \in Outpoints : coinsDB[o] \in {Utxo[tip][o], Utxo[Base'][o]}
  <2>1. CASE heads = <<>>
    <3>1. Durable = Base'
      BY <1>4, <2>1, Zenon DEF Durable, Base, OldTip
    <3> QED BY <2>1, <3>1, Zenon DEF DiskCoins
  <2>2. CASE heads # <<>>
    <3>1. best = Null /\ heads[1] = tip
      BY <1>1, <2>2, Zenon DEF DiskCoins, Stages
    <3>2. Base' = Base
      BY <1>4, <2>2, <3>1, Zenon DEF Base, OldTip
    <3> QED BY <2>2, <3>1, <3>2, Zenon DEF DiskCoins
  <2> QED BY <2>1, <2>2, Zenon
<1>10. DiskCoins'
  BY <1>2, <1>3, <1>4, <1>7, <1>9, Zenon DEF DiskCoins
<1>11. RightUndo'
  BY Zenon DEF RightUndo, WritePartialBatch
<1> QED BY <1>2, <1>5, <1>6, <1>8, <1>10, <1>11, Zenon

(* The final batch keeps the invariant: the coins are the new ones.        *)
LEMMA WriteFinalInv ==
  ASSUME CoinsInv, WriteFinalBatch
  PROVE  CoinsInv'
<1> USE DEF CoinsInv
<1>1. phase = "batch" /\ phase' \in {"up", "exit"} /\ tip \in Blocks /\ tip' = tip
      /\ heads' = <<>> /\ best' = tip
  BY Zenon DEF WriteFinalBatch, Stages, Running, TypeOK
<1>2. batch' = [o \in Outpoints |-> IF o \in Outpoints THEN NoEntry ELSE batch[o]]
  BY Zenon DEF WriteFinalBatch, NoCache
<1>3. /\ LayersSound'
      /\ coinsDB' \in [Outpoints -> Coins]
      /\ batch' \in [Outpoints -> Entry]
      /\ \A o \in Outpoints : View(o)' = View(o) /\ coinsDB'[o] = View(o)
  BY <1>1, <1>2, WriteSound, Zenon DEF WriteFinalBatch
<1>4. TypeOK'
  BY <1>1, <1>3, Zenon DEF TypeOK, WriteFinalBatch, Phase
<1>5. Stages'
  BY <1>1, Zenon DEF Stages, WriteFinalBatch, Running
<1>6. \A o \in Outpoints : View(o) = Utxo[tip][o]
  BY <1>1, Zenon DEF RightCoins, Running
<1>7. RightCoins'
  BY <1>1, <1>3, <1>6, Zenon DEF RightCoins
<1>8. Durable' = tip
  BY <1>1, ChainstateAssumption, Zenon DEF Durable
<1>9. DiskCoins'
  BY <1>1, <1>3, <1>6, <1>8, Zenon DEF DiskCoins
<1>10. RightUndo'
  BY Zenon DEF RightUndo, WriteFinalBatch
<1> QED BY <1>3, <1>4, <1>5, <1>7, <1>9, <1>10, Zenon

-----------------------------------------------------------------------------
(* The steps of a start-up.                                                *)
LEMMA GiveUpInv ==
  ASSUME CoinsInv, GiveUp
  PROVE  CoinsInv'
<1>1. crashes' \in 0 .. MaxCrashes
  BY Zenon DEF GiveUp, CoinsInv, TypeOK
<1> QED BY <1>1, ForgetInv, Zenon DEF GiveUp

(* Loading the block index keeps the invariant.                            *)
LEMMA LoadIndexInv ==
  ASSUME CoinsInv, LoadBlockIndexDB
  PROVE  CoinsInv'
<1>1. CASE /\ index' = indexDB /\ phase' = "replay"
           /\ UNCHANGED <<after, full, tip, mCache, batch, span, replayed, invalid, diskVars, crashes>>
  <2> USE <1>1 DEF CoinsInv
  <2>1. phase \in {"down", "failed"}
    BY Zenon DEF LoadBlockIndexDB
  <2>2. TypeOK'
    BY Zenon DEF TypeOK, diskVars, Phase
  <2>3. LayersSound'
    BY LayersFrame, Zenon DEF diskVars
  <2>4. Stages'
    BY <2>1, Zenon DEF Stages, Running, diskVars
  <2>5. RightCoins' /\ DiskCoins' /\ RightUndo'
    BY DEF RightCoins, Running, DiskCoins, RightUndo, Durable, Base, diskVars
  <2> QED BY <2>2, <2>3, <2>4, <2>5, Zenon
<1> QED BY <1>1, GiveUpInv, Zenon DEF LoadBlockIndexDB

(* While a flush is unfinished, the two head blocks are blocks.            *)
LEMMA HeadsType ==
  ASSUME TypeOK, heads # <<>>
  PROVE  heads[1] \in Blocks /\ Base \in Blocks /\ Durable = heads[1]
BY TreeAssumption, Zenon DEF TypeOK, Base, Durable

(* The head of ReplayBlocks keeps the invariant.                           *)
LEMMA ReplayBlocksInv ==
  ASSUME CoinsInv, ReplayBlocks
  PROVE  CoinsInv'
<1>1. phase = "replay"
  BY Zenon DEF ReplayBlocks
<1>2. mCache = NoCache /\ batch = NoCache /\ span = NoCache
  BY <1>1, Zenon DEF CoinsInv, Stages
<1>3. \A o \in Outpoints : View(o) = coinsDB[o] /\ SpanView(o) = coinsDB[o]
  BY <1>2, ViewType, CacheOverDisk, NoCacheIs, NoEntrySound, Zenon DEF CoinsInv, SpanView
<1>4. CASE /\ heads = <<>> /\ tip' = best /\ phase' = "tip"
           /\ UNCHANGED <<after, full, mCache, batch, span, replayed, index, invalid, diskVars, crashes>>
  <2> USE <1>4 DEF CoinsInv
  <2>1. TypeOK'
    BY Zenon DEF TypeOK, diskVars, Phase
  <2>2. LayersSound' /\ \A o \in Outpoints : View(o)' = View(o)
    BY LayersFrame, Zenon DEF diskVars
  <2>3. Stages'
    BY <1>2, Zenon DEF Stages, Running, diskVars
  <2>4. Durable' = Durable
    BY Zenon DEF Durable, diskVars
  <2>5. RightCoins'
    BY <1>3, <2>2, <2>4, Zenon DEF RightCoins, Running, DiskCoins
  <2>6. DiskCoins' /\ RightUndo'
    BY <2>4, Zenon DEF DiskCoins, RightUndo, diskVars
  <2> QED BY <2>1, <2>2, <2>3, <2>5, <2>6, Zenon
<1>5. CASE /\ heads # <<>> /\ replayed' = Base /\ phase' = "rollback"
           /\ UNCHANGED <<after, full, tip, mCache, batch, span, index, invalid, diskVars, crashes>>
  <2> USE <1>5 DEF CoinsInv
  <2>1. TypeOK'
    BY HeadsType, Zenon DEF TypeOK, diskVars, Phase
  <2>2. LayersSound' /\ \A o \in Outpoints : SpanView(o)' = SpanView(o)
    BY LayersFrame, Zenon DEF diskVars
  <2>3. Stages'
    BY <1>2, Zenon DEF Stages, Running, diskVars
  <2>4. RightCoins'
    BY <1>3, <2>2, Zenon DEF RightCoins, Running, DiskCoins, diskVars
  <2>5. DiskCoins' /\ RightUndo'
    BY Zenon DEF DiskCoins, RightUndo, diskVars, Base, Durable
  <2> QED BY <2>1, <2>2, <2>3, <2>4, <2>5, Zenon
<1> QED BY <1>4, <1>5, GiveUpInv, Zenon DEF ReplayBlocks, Base

(* One block of the replay: the span gets closer to the goal.              *)
LEMMA ReplayMoves ==
  ASSUME CoinsInv, phase \in {"rollback", "forward"}, NEW b, NEW to \in Blocks,
         phase = "forward" => to \in Chain[heads[1]],
         span' \in [Outpoints -> Entry],
         \A o \in Outpoints : /\ Sound(span'[o], View(o))
                              /\ Seen(span'[o], View(o)) \in {Utxo[to][o], Utxo[heads[1]][o]},
         mCache' = LoadedCache(b), replayed' = to,
         UNCHANGED <<phase, after, full, tip, batch, index, invalid, diskVars, crashes>>
  PROVE  CoinsInv'
<1> USE DEF CoinsInv
<1>1. batch = NoCache
  BY Zenon DEF Stages
<1>2. \A o \in Outpoints : /\ Sound(mCache'[o], coinsDB[o])
                           /\ Seen(mCache'[o], coinsDB[o]) = View(o)
  BY <1>1, LoadedSound, Zenon DEF LoadedCache
<1>3. \A o \in Outpoints : Seen(batch[o], coinsDB[o]) = coinsDB[o]
  BY <1>1, CacheOverDisk, Zenon
<1>4. \A o \in Outpoints : View(o)' = View(o)
  BY <1>2, <1>3, Zenon DEF View, diskVars
<1>5. LayersSound'
  BY <1>2, <1>3, <1>4, Zenon DEF LayersSound, diskVars
<1>6. mCache' \in [Outpoints -> Entry]
  BY <1>2, Zenon DEF LoadedCache, Sound
<1>7. TypeOK'
  BY <1>6, Zenon DEF TypeOK, diskVars
<1>8. Stages'
  BY Zenon DEF Stages, Running, diskVars
<1>9. RightCoins'
  BY <1>4, Zenon DEF RightCoins, Running, SpanView, diskVars
<1>10. DiskCoins' /\ RightUndo'
  BY Zenon DEF DiskCoins, RightUndo, diskVars, Base, Durable
<1> QED BY <1>5, <1>7, <1>8, <1>9, <1>10, Zenon

(* Rolling back a block of the old branch keeps the invariant.             *)
LEMMA RollbackInv ==
  ASSUME CoinsInv, RollbackBlock, replayed # Genesis
  PROVE  CoinsInv'
<1> DEFINE r == replayed
<1>1. phase = "rollback" /\ r \notin Chain[heads[1]] /\ heads # <<>>
  BY Zenon DEF RollbackBlock, OnNewChain, CoinsInv, Stages
<1>2. r \in NonGenesis /\ heads[1] \in Blocks /\ Parent[r] \in Blocks
  <2>1. heads[1] \in Blocks /\ r \in Blocks
    BY <1>1, HeadsType, Zenon DEF CoinsInv, TypeOK
  <2> QED BY <2>1, ParentType, Zenon DEF NonGenesis
<1>3. CASE CanUndo(r) /\ ~GiveUp
  <2>1. /\ span' = [o \in Outpoints |-> UndoneEntry(r, o, span[o], View(o), undo[r][o])]
        /\ mCache' = LoadedCache(r)
        /\ replayed' = Parent[r]
        /\ UNCHANGED <<phase, after, full, tip, batch, index, invalid, diskVars, crashes>>
    BY <1>3, Zenon DEF RollbackBlock
  <2>2. ASSUME NEW o \in Outpoints
        PROVE  /\ Sound(span'[o], View(o))
               /\ Seen(span'[o], View(o)) \in {Utxo[Parent[r]][o], Utxo[heads[1]][o]}
    <3>1. View(o) \in Coins /\ Sound(span[o], View(o)) /\ undo[r][o] \in Coins
      BY <1>2, ViewType, Zenon DEF CoinsInv, LayersSound, TypeOK, NonGenesis
    <3>2. o \in Spends[r] \ Creates[r] => undo[r][o] = Utxo[Parent[r]][o]
      BY <1>2, <1>3, Zenon DEF CoinsInv, RightUndo, CanUndo
    <3>3. span'[o] = UndoneEntry(r, o, span[o], View(o), undo[r][o])
      BY <2>1, Zenon
    <3>4. /\ Sound(span'[o], View(o))
          /\ Seen(span'[o], View(o)) = IF o \in Spends[r] \union Creates[r]
                                       THEN Utxo[Parent[r]][o] ELSE Seen(span[o], View(o))
      <4>1. CanBeUndone(r, o, span[o], View(o), undo[r][o])
        BY <1>2, <3>1, <3>2, Zenon DEF CanBeUndone
      <4>2. UndoneRight(r, o, span[o], View(o), undo[r][o])
        BY <4>1, UndoneSound, Zenon
      <4> QED BY <3>3, <4>2, Zenon DEF UndoneRight
    <3>5. Seen(span[o], View(o)) \in {Utxo[r][o], Utxo[heads[1]][o]}
      <4>1. SpanView(o) \in {Utxo[replayed][o], Utxo[heads[1]][o]}
        BY <1>1, Zenon DEF CoinsInv, RightCoins
      <4> QED BY <4>1, Zenon DEF SpanView
    <3>6. o \notin Spends[r] \union Creates[r] => Utxo[r][o] = Utxo[Parent[r]][o]
      BY <1>2, UtxoAssumption, Zenon
    <3> QED BY <3>4, <3>5, <3>6, Zenon
  <2>3. span' \in [Outpoints -> Entry]
    <3>1. \A o \in Outpoints : span'[o] \in Entry
      BY <2>2, Zenon DEF Sound
    <3> QED BY <2>1, <3>1, Zenon
  <2> QED BY <1>1, <1>2, <2>1, <2>2, <2>3, ReplayMoves, Zenon
<1> QED BY <1>3, GiveUpInv, Zenon DEF RollbackBlock

(* Rolling forward a block of the new branch keeps the invariant.          *)
LEMMA RollforwardInv ==
  ASSUME CoinsInv, RollforwardBlock,
         NextReplayed \in Chain[heads[1]] \ {Genesis}, Parent[NextReplayed] = replayed
  PROVE  CoinsInv'
<1> DEFINE n == NextReplayed
<1>1. /\ phase = "forward" /\ replayed # heads[1] /\ heads # <<>>
      /\ replayed \in Chain[heads[1]]
  BY Zenon DEF RollforwardBlock, CoinsInv, Stages
<1>2. /\ n \in NonGenesis /\ n \in Chain[heads[1]] /\ Parent[n] = replayed
  <2>1. heads[1] \in Blocks
    BY <1>1, HeadsType, Zenon DEF CoinsInv
  <2>2. n \in Chain[heads[1]] \ {Genesis} /\ Parent[n] = replayed
    BY Zenon
  <2> HIDE DEF n
  <2> QED BY <2>1, <2>2, TreeAssumption, Zenon DEF NonGenesis
<1>3. CASE CanRead(n) /\ ~GiveUp
  <2>1. /\ span' = [o \in Outpoints |-> RolledEntry(n, o, span[o], View(o))]
        /\ mCache' = LoadedCache(n)
        /\ replayed' = n
        /\ UNCHANGED <<phase, after, full, tip, batch, index, invalid, diskVars, crashes>>
    BY <1>3, Zenon DEF RollforwardBlock
  <2> HIDE DEF n
  <2>2. ASSUME NEW o \in Outpoints
        PROVE  /\ Sound(span'[o], View(o))
               /\ Seen(span'[o], View(o)) \in {Utxo[n][o], Utxo[heads[1]][o]}
    <3>1. View(o) \in Coins /\ Sound(span[o], View(o))
      BY ViewType, Zenon DEF CoinsInv, LayersSound
    <3>2. span'[o] = RolledEntry(n, o, span[o], View(o))
      BY <2>1, Zenon
    <3>3. /\ Sound(span'[o], View(o))
          /\ Seen(span'[o], View(o)) = IF o \in Spends[n] \union Creates[n]
                                       THEN Utxo[n][o] ELSE Seen(span[o], View(o))
      <4>1. RolledRight(n, o, span[o], View(o))
        BY <1>2, <3>1, RolledSound, Zenon
      <4> QED BY <3>2, <4>1, Zenon DEF RolledRight
    <3>4. Seen(span[o], View(o)) \in {Utxo[replayed][o], Utxo[heads[1]][o]}
      <4>1. SpanView(o) \in {Utxo[replayed][o], Utxo[heads[1]][o]}
        BY <1>1, Zenon DEF CoinsInv, RightCoins
      <4> QED BY <4>1, Zenon DEF SpanView
    <3>5. o \notin Spends[n] \union Creates[n] => Utxo[n][o] = Utxo[replayed][o]
      BY <1>2, UtxoAssumption
    <3> QED BY <3>3, <3>4, <3>5, Zenon
  <2>3. span' \in [Outpoints -> Entry]
    <3>1. \A o \in Outpoints : span'[o] \in Entry
      BY <2>2, Zenon DEF Sound
    <3> QED BY <2>1, <3>1, Zenon
  <2>4. n \in Blocks
    BY <1>2, Zenon DEF NonGenesis
  <2> QED BY <1>1, <1>2, <2>1, <2>2, <2>3, <2>4, ReplayMoves, Zenon
<1> QED BY <1>3, GiveUpInv, Zenon DEF RollforwardBlock

(* Turning from rolling back to rolling forward keeps the invariant.       *)
LEMMA StartForwardInv ==
  ASSUME CoinsInv, StartForward
  PROVE  CoinsInv'
<1> USE DEF CoinsInv
<1>1. TypeOK'
  BY Zenon DEF TypeOK, StartForward, Phase, diskVars
<1>2. LayersSound' /\ \A o \in Outpoints : SpanView(o)' = SpanView(o)
  BY LayersFrame, Zenon DEF StartForward, diskVars
<1>3. Stages'
  BY Zenon DEF Stages, StartForward, OnNewChain, Running, diskVars
<1>4. RightCoins'
  BY <1>2, Zenon DEF RightCoins, StartForward, Running, diskVars
<1>5. DiskCoins' /\ RightUndo'
  BY DEF DiskCoins, RightUndo, StartForward, diskVars, Base, Durable
<1> QED BY <1>1, <1>2, <1>3, <1>4, <1>5

(* Ending the replay, which hands its cache over, keeps the invariant.     *)
LEMMA FinishReplayInv ==
  ASSUME CoinsInv, FinishReplay
  PROVE  CoinsInv'
<1> USE DEF CoinsInv
<1>1. /\ phase = "forward" /\ replayed = heads[1] /\ heads # <<>> /\ batch = NoCache
      /\ tip' = heads[1] /\ phase' = "tip" /\ span' = NoCache /\ TryFlush(span, mCache)
      /\ UNCHANGED <<after, full, batch, replayed, index, invalid, diskVars, crashes>>
  BY Zenon DEF FinishReplay, Stages
<1>2. \A o \in Outpoints : /\ Sound(mCache[o], coinsDB[o])
                           /\ Seen(mCache[o], coinsDB[o]) = View(o)
                           /\ Sound(span[o], View(o))
  BY <1>1, CacheOverDisk, Zenon DEF LayersSound
<1>3. /\ LayersSound'
      /\ mCache' \in [Outpoints -> Entry]
      /\ \A o \in Outpoints : View(o)' = SpanView(o)
  BY <1>1, <1>2, TryFlushSound, Zenon DEF diskVars, SpanView
<1>4. heads[1] \in Blocks /\ Durable' = heads[1]
  BY <1>1, HeadsType, Zenon DEF Durable, diskVars
<1>5. TypeOK'
  BY <1>1, <1>3, <1>4, NoCacheIs, Zenon DEF TypeOK, Phase, diskVars
<1>6. Stages'
  BY <1>1, Zenon DEF Stages, Running, diskVars
<1>7. RightCoins'
  BY <1>1, <1>3, <1>4, Zenon DEF RightCoins, Running
<1>8. DiskCoins' /\ RightUndo'
  BY <1>1, Zenon DEF DiskCoins, RightUndo, diskVars, Base, Durable
<1> QED BY <1>3, <1>5, <1>6, <1>7, <1>8, Zenon

(* Making the best block of the coins the tip keeps the invariant.         *)
LEMMA LoadChainTipInv ==
  ASSUME CoinsInv, LoadChainTip
  PROVE  CoinsInv'
<1>1. phase = "tip"
  BY Zenon DEF LoadChainTip
<1>2. CASE /\ tip = Null /\ tip' = Genesis /\ phase' = "up"
           /\ UNCHANGED <<after, full, mCache, batch, span, replayed, index, invalid, diskVars, crashes>>
  <2> USE <1>2 DEF CoinsInv
  <2>1. heads = <<>> /\ best = Null
    BY <1>1, HeadsType, ChainstateAssumption, Zenon DEF Stages
  <2>2. TypeOK'
    BY TreeAssumption, Zenon DEF TypeOK, Phase, diskVars
  <2>3. LayersSound' /\ \A o \in Outpoints : View(o)' = View(o)
    BY LayersFrame, Zenon DEF diskVars
  <2>4. Stages'
    BY <1>1, <2>1, TreeAssumption, Zenon DEF Stages, Running, diskVars
  <2>5. RightCoins'
    BY <1>1, <2>1, <2>3, Zenon DEF RightCoins, Durable
  <2>6. DiskCoins' /\ RightUndo'
    BY DEF DiskCoins, RightUndo, diskVars, Base, Durable
  <2> QED BY <2>2, <2>3, <2>4, <2>5, <2>6, Zenon
<1>3. CASE /\ tip \in index.known \ index.failed
           /\ FlushStateToDisk(TRUE, index, {}, "up")
           /\ UNCHANGED invalid
  <2>1. tip \in Blocks /\ index \in Index
    BY <1>3 DEF CoinsInv, TypeOK, Index
  <2> QED BY <1>1, <1>3, <2>1, FlushBegins, Zenon
<1> QED BY <1>2, <1>3, GiveUpInv, Zenon DEF LoadChainTip

(* CacheFlagsSound follows from the invariant.                             *)
LEMMA FlagsOfInv ==
  ASSUME CoinsInv
  PROVE  CacheFlagsSound
<1>1. ASSUME phase = "up", NEW o \in Outpoints, NEW b \in NonGenesis, Parent[b] = tip
      PROVE  /\ o \in Creates[b] => ~AddReplacesCoin(NoEntry, o \in Coinbase)
             /\ ~FreshMisapplied(Loaded(o, b), ConnectedEntry(b, o, NoEntry, View(o)))
  <2>1. batch = NoCache /\ View(o) = Utxo[Parent[b]][o]
    BY <1>1, Zenon DEF CoinsInv, Stages, RightCoins, Running
  <2>2. Sound(Loaded(o, b), coinsDB[o]) /\ Seen(Loaded(o, b), coinsDB[o]) = View(o)
    BY <2>1, LoadedSound, Zenon DEF CoinsInv
  <2>3. Sound(ConnectedEntry(b, o, NoEntry, View(o)), View(o))
    BY <2>1, ConnectedSound, Zenon
  <2>4. ~FreshMisapplied(Loaded(o, b), ConnectedEntry(b, o, NoEntry, View(o)))
    BY <2>2, <2>3, FreshApplies, Zenon
  <2> QED BY <2>4, Zenon DEF AddReplacesCoin, NoEntry
<1>2. ASSUME phase = "up", NEW o \in Outpoints, tip # Genesis
      PROVE  /\ UndoIsClean(tip, o, NoEntry, View(o))
             /\ ~FreshMisapplied(Loaded(o, tip),
                                 UndoneEntry(tip, o, NoEntry, View(o), undo[tip][o]))
  <2>1. /\ batch = NoCache /\ View(o) = Utxo[tip][o] /\ View(o) \in Coins
        /\ tip \in NonGenesis /\ undo[tip][o] \in Coins
    BY <1>2, ViewType, Zenon DEF CoinsInv, Stages, RightCoins, Running, NonGenesis, TypeOK
  <2>2. Sound(Loaded(o, tip), coinsDB[o]) /\ Seen(Loaded(o, tip), coinsDB[o]) = View(o)
    BY <2>1, LoadedSound, Zenon DEF CoinsInv
  <2>3. Sound(NoEntry, View(o)) /\ Seen(NoEntry, View(o)) = View(o)
    BY <2>1, NoEntrySound, Zenon
  <2>4. Sound(UndoneEntry(tip, o, NoEntry, View(o), undo[tip][o]), View(o))
    BY <2>1, <2>3, UndoneFlags, Zenon
  <2>5. UndoIsClean(tip, o, NoEntry, View(o))
    <3>1. /\ Utxo[tip][o] = IF o \in Spends[tip] THEN Spent
                             ELSE IF o \in Creates[tip] THEN tip ELSE Utxo[Parent[tip]][o]
          /\ tip # Spent
      BY <2>1, UtxoAssumption, SpentAssumption, Zenon DEF NonGenesis
    <3> QED BY <2>1, <2>3, <3>1, Zenon DEF UndoIsClean
  <2> QED BY <2>2, <2>4, <2>5, FreshApplies, Zenon
<1>3. ASSUME phase = "forward", NEW o \in Outpoints
      PROVE  ~FreshMisapplied(mCache[o], span[o])
  <2>1. batch = NoCache
    BY <1>3, Zenon DEF CoinsInv, Stages
  <2>2. Sound(mCache[o], coinsDB[o]) /\ Seen(mCache[o], coinsDB[o]) = View(o)
    BY <2>1, CacheOverDisk, Zenon DEF CoinsInv
  <2>3. Sound(span[o], View(o))
    BY Zenon DEF CoinsInv, LayersSound
  <2> QED BY <2>2, <2>3, FreshApplies, Zenon
<1>4. phase = "batch" /\ heads # <<>> => heads[1] = tip
  BY Zenon DEF CoinsInv, Stages
<1> QED BY <1>1, <1>2, <1>3, <1>4, Zenon DEF CacheFlagsSound

-----------------------------------------------------------------------------
(* What DurableCoins sees of a state.                                      *)
SeenTip == IF Running THEN tip ELSE Down

(* The four kinds of abstract steps, and the stuttering ones.              *)
LEMMA AbstractStep ==
  ASSUME CoinsInv, CoinsInv',
         \/ SeenTip' = SeenTip /\ Durable' \in {Durable, SeenTip} /\ (Durable' # Durable => Running)
         \/ /\ Running /\ Running' /\ Durable' = Durable
            /\ \/ tip' \in NonGenesis /\ Parent[tip'] = tip
               \/ tip # Genesis /\ tip' = Parent[tip]
         \/ Running /\ ~Running' /\ Durable' = Durable
         \/ ~Running /\ Running' /\ tip' = Durable /\ Durable' = Durable
  PROVE  [Promise!DurableNext]_(Promise!durableVars)
<1>1. Running => tip \in Blocks /\ tip # Down
  BY ChainstateAssumption, Zenon DEF CoinsInv, Stages
<1>2. Running' => tip' \in Blocks /\ tip' # Down
  BY ChainstateAssumption, Zenon DEF CoinsInv, Stages
<1> DEFINE coins == IF Running THEN [o \in Outpoints |-> View(o)] ELSE Utxo[Genesis]
<1>3. coins = IF Running THEN Utxo[tip] ELSE Utxo[Genesis]
  <2>1. Running => \A o \in Outpoints : View(o) = Utxo[tip][o]
    BY Zenon DEF CoinsInv, RightCoins
  <2>2. Running => Utxo[tip] = [o \in Outpoints |-> Utxo[tip][o]]
    BY <1>1, UtxoAssumption, Zenon
  <2> QED BY <2>1, <2>2, Zenon
<1>4. coins' = IF Running' THEN Utxo[tip'] ELSE Utxo[Genesis]
  <2>1. Running' => \A o \in Outpoints : View(o)' = Utxo[tip'][o]
    BY Zenon DEF CoinsInv, RightCoins
  <2>2. Running' => Utxo[tip'] = [o \in Outpoints |-> Utxo[tip'][o]]
    BY <1>2, UtxoAssumption, Zenon
  <2>3. coins' = IF Running' THEN [o \in Outpoints |-> View(o)'] ELSE Utxo[Genesis]
    BY Zenon
  <2> QED BY <2>1, <2>2, <2>3, Zenon
<1>5. CASE /\ SeenTip' = SeenTip /\ Durable' \in {Durable, SeenTip}
           /\ Durable' # Durable => Running
  <2>1. coins' = coins
    BY <1>1, <1>2, <1>3, <1>4, <1>5, Zenon DEF SeenTip
  <2>2. CASE Durable' = Durable
    BY <1>5, <2>1, <2>2, Zenon DEF Promise!durableVars, SeenTip
  <2>3. CASE Durable' # Durable
    <3>1. Promise!Persist
      BY <1>1, <1>5, <2>1, <2>3, Zenon DEF Promise!Persist, SeenTip
    <3> QED BY <3>1, Zenon DEF Promise!DurableNext
  <2> QED BY <2>2, <2>3, Zenon
<1>6. CASE /\ Running /\ Running' /\ Durable' = Durable
           /\ \/ tip' \in NonGenesis /\ Parent[tip'] = tip
              \/ tip # Genesis /\ tip' = Parent[tip]
  <2>1. Promise!MoveTip(tip')
    BY <1>1, <1>2, <1>3, <1>4, <1>6, Zenon DEF Promise!MoveTip, NonGenesis
  <2> QED BY <1>2, <1>6, <2>1, Zenon DEF Promise!DurableNext
<1>7. CASE Running /\ ~Running' /\ Durable' = Durable
  <2>1. Promise!Stop
    BY <1>1, <1>3, <1>4, <1>7, Zenon DEF Promise!Stop
  <2> QED BY <2>1, Zenon DEF Promise!DurableNext
<1>8. CASE ~Running /\ Running' /\ tip' = Durable /\ Durable' = Durable
  <2>1. Promise!Recover
    BY <1>3, <1>4, <1>8, Zenon DEF Promise!Recover
  <2> QED BY <2>1, Zenon DEF Promise!DurableNext
<1> QED BY <1>5, <1>6, <1>7, <1>8, Zenon

(* The process is up in its working phases only.                           *)
LEMMA StepMaps ==
  ASSUME CoinsInv, CoinsInv', Next
  PROVE  \/ SeenTip' = SeenTip /\ Durable' \in {Durable, SeenTip} /\ (Durable' # Durable => Running)
         \/ /\ Running /\ Running' /\ Durable' = Durable
            /\ \/ tip' \in NonGenesis /\ Parent[tip'] = tip
               \/ tip # Genesis /\ tip' = Parent[tip]
         \/ Running /\ ~Running' /\ Durable' = Durable
         \/ ~Running /\ Running' /\ tip' = Durable /\ Durable' = Durable
<1>1. UNCHANGED <<best, heads>> => Durable' = Durable
  BY Zenon DEF Durable
<1>2. ASSUME GiveUp, ~Running PROVE SeenTip' = SeenTip /\ Durable' = Durable
  BY <1>1, <1>2, Zenon DEF GiveUp, SeenTip, Running, diskVars
<1>3. ASSUME NEW f, NEW i, NEW p, NEW then, FlushStateToDisk(f, i, p, then), phase = "up"
      PROVE  SeenTip' = SeenTip /\ Durable' = Durable
  BY <1>1, <1>3, Zenon DEF FlushStateToDisk, SeenTip, Running
<1>4. ASSUME NEW i, Disconnect(i), phase = "up", tip # Genesis
      PROVE  Running /\ Running' /\ Durable' = Durable /\ tip' = Parent[tip]
  BY <1>1, <1>4, Zenon DEF Disconnect, Running, diskVars
<1>5. ASSUME NEW o \in Outpoints, CacheCoin(o) \/ Uncache(o)
      PROVE  SeenTip' = SeenTip /\ Durable' = Durable
  BY <1>1, <1>5, Zenon DEF CacheCoin, Uncache, SeenTip, Running, diskVars
<1>6. ASSUME NEW b \in Blocks, AcceptBlock(b)
      PROVE  SeenTip' = SeenTip /\ Durable' = Durable
  BY <1>1, <1>6, Zenon DEF AcceptBlock, SeenTip, Running
<1>7. ASSUME NEW b \in Blocks, ConnectTip(b)
      PROVE  /\ Running /\ Running' /\ Durable' = Durable
             /\ tip' \in NonGenesis /\ Parent[tip'] = tip
  BY <1>1, <1>7, Zenon DEF ConnectTip, Idle, Running
<1>8. ASSUME NEW b \in NonGenesis, phase = "up", b \in Chain[tip], StepBack(b)
      PROVE  /\ Durable' = Durable
             /\ \/ SeenTip' = SeenTip
                \/ Running /\ Running' /\ tip # Genesis /\ tip' = Parent[tip]
  <2>1. tip # Genesis
    BY <1>8, TreeAssumption DEF NonGenesis
  <2> QED BY <1>3, <1>4, <1>8, <2>1, Zenon DEF StepBack
<1>9. CASE InvalidateRest
  <2>1. phase = "up" /\ invalid \in NonGenesis
    BY <1>9 DEF InvalidateRest, CoinsInv, Stages
  <2> QED BY <1>3, <1>8, <1>9, <2>1, Zenon DEF InvalidateRest
<1>10. ASSUME NEW b \in Blocks, InvalidateBlock(b)
       PROVE  /\ Durable' = Durable
              /\ \/ SeenTip' = SeenTip
                 \/ Running /\ Running' /\ tip # Genesis /\ tip' = Parent[tip]
  <2>1. phase = "up" /\ b \in NonGenesis
    BY <1>10, ChainstateAssumption, Zenon DEF InvalidateBlock, Idle
  <2>2. CASE b \in Chain[tip]
    BY <1>8, <1>10, <2>1, <2>2, Zenon DEF InvalidateBlock
  <2>3. CASE b \notin Chain[tip]
    BY <1>1, <1>10, <2>3, Zenon DEF InvalidateBlock, SeenTip, Running, diskVars
  <2> QED BY <2>2, <2>3, Zenon
<1>11. CASE DisconnectTip
  BY <1>4, <1>11, Zenon DEF DisconnectTip, Idle
<1>12. CASE PeriodicWrite \/ FullFlush \/ Shutdown \/ AbortNode
  BY <1>3, <1>12, Zenon DEF PeriodicWrite, FullFlush, Shutdown, AbortNode, Idle
<1>13. CASE Flush
  <2>1. CASE WriteIndex
    BY <1>1, <2>1, Zenon DEF WriteIndex, SeenTip, Running, CoinsInv, TypeOK
  <2>2. CASE FlushCoins
    BY <1>1, <2>2, Zenon DEF FlushCoins, SeenTip, Running, diskVars
  <2>3. ASSUME NEW S, WritePartialBatch(S)
        PROVE  Running /\ SeenTip' = SeenTip /\ Durable' = SeenTip
    <3>1. Running /\ SeenTip' = SeenTip /\ SeenTip = tip
      BY <2>3, Zenon DEF WritePartialBatch, SeenTip, Running
    <3>2. heads' = <<tip, OldTip>>
      BY <2>3, Zenon DEF WritePartialBatch
    <3>3. heads' # <<>> /\ heads'[1] = tip
      BY <3>2, Zenon
    <3> QED BY <3>1, <3>3, Zenon DEF Durable
  <2>4. CASE WriteFinalBatch
    <3>1. Running /\ SeenTip' = SeenTip /\ SeenTip = tip /\ tip # Null
      BY <2>4, ChainstateAssumption, Zenon DEF WriteFinalBatch, SeenTip, Running, CoinsInv, TypeOK, Stages
    <3>2. Durable' = tip
      BY <2>4, <3>1, Zenon DEF WriteFinalBatch, Durable
    <3> QED BY <3>1, <3>2, Zenon
  <2>5. CASE Exit
    BY <1>1, <2>5, Zenon DEF Exit, Running, diskVars
  <2> QED BY <1>13, <2>1, <2>2, <2>3, <2>4, <2>5, Zenon DEF Flush
<1>14. CASE Crash
  BY <1>1, <1>14, Zenon DEF Crash, Running, SeenTip, diskVars
<1>15. CASE Startup
  <2>1. CASE LoadBlockIndexDB
    BY <1>1, <1>2, <2>1, Zenon DEF LoadBlockIndexDB, SeenTip, Running, diskVars
  <2>2. CASE ReplayBlocks
    BY <1>1, <1>2, <2>2, Zenon DEF ReplayBlocks, SeenTip, Running, diskVars
  <2>3. CASE RollbackBlock \/ RollforwardBlock
    BY <1>1, <1>2, <2>3, Zenon DEF RollbackBlock, RollforwardBlock, SeenTip, Running, diskVars
  <2>4. CASE StartForward \/ FinishReplay
    BY <1>1, <2>4, Zenon DEF StartForward, FinishReplay, SeenTip, Running, diskVars
  <2>5. CASE LoadChainTip
    <3>1. phase = "tip" /\ ~Running
      BY <2>5, Zenon DEF LoadChainTip, Running
    <3>2. tip = Null => Durable = Genesis
      BY <3>1, HeadsType, ChainstateAssumption, Zenon DEF CoinsInv, Stages, Durable
    <3>3. tip # Null => Durable = tip
      BY <3>1, Zenon DEF CoinsInv, Stages, Durable
    <3>4. CASE tip = Null /\ tip' = Genesis /\ phase' = "up" /\ UNCHANGED diskVars
      BY <1>1, <3>1, <3>2, <3>4, Zenon DEF Running, diskVars
    <3>5. CASE tip \in index.known \ index.failed /\ FlushStateToDisk(TRUE, index, {}, "up")
      <4>1. tip # Null
        BY <3>5, ChainstateAssumption, Zenon DEF CoinsInv, TypeOK, Index
      <4> QED BY <1>1, <3>1, <3>3, <3>5, <4>1, Zenon DEF FlushStateToDisk, Running
    <3> QED BY <1>2, <2>5, <3>1, <3>4, <3>5, Zenon DEF LoadChainTip
  <2> QED BY <1>15, <2>1, <2>2, <2>3, <2>4, <2>5, Zenon DEF Startup
<1> QED BY <1>5, <1>6, <1>7, <1>9, <1>10, <1>11, <1>12, <1>13, <1>14, <1>15 DEF Next

-----------------------------------------------------------------------------
(* The tree of blocks.                                                     *)

(* A non-empty set of natural numbers has a least element.                 *)
LEMMA LeastNatural ==
  ASSUME NEW T, T \subseteq Nat, T # {}
  PROVE  \E m \in T : \A k \in T : m <= k
<1> DEFINE R == OpToRel(<, Nat)
<1>1. IsWellFoundedOn(R, Nat)
  BY NatLessThanWellFounded, Zenon
<1>2. PICK m \in T : \A k \in T : ~(<<k, m>> \in R)
  <2> HIDE DEF R
  <2> QED BY <1>1, WFMin, Zenon
<1>3. \A k \in T : ~(k < m)
  BY <1>2, Zenon DEF OpToRel
<1> QED BY <1>3

(* A non-empty set of blocks has a block whose parent is not in it: the    *)
(* induction principle for the tree.                                       *)
LEMMA TreeLeast ==
  ASSUME NEW S \in SUBSET Blocks, S # {}
  PROVE  \E b \in S : b = Genesis \/ Parent[b] \notin S
<1>1. \A b \in Blocks : IsFiniteSet(Chain[b]) /\ Cardinality(Chain[b]) \in Nat
  BY FS_Subset, FS_CardinalityType, TreeAssumption, Zenon
<1>2. \A b \in Blocks \ {Genesis} : Cardinality(Chain[Parent[b]]) < Cardinality(Chain[b])
  <2> TAKE b \in Blocks \ {Genesis}
  <2>1. /\ Parent[b] \in Blocks /\ IsFiniteSet(Chain[Parent[b]])
        /\ Cardinality(Chain[Parent[b]]) \in Nat
        /\ Chain[b] = Chain[Parent[b]] \union {b} /\ b \notin Chain[Parent[b]]
    BY <1>1, TreeAssumption, Zenon
  <2>2. Cardinality(Chain[Parent[b]] \union {b}) = Cardinality(Chain[Parent[b]]) + 1
    BY <2>1, FS_AddElement, Zenon
  <2> QED BY <2>1, <2>2
<1> DEFINE T == {Cardinality(Chain[b]) : b \in S}
<1>3. T \subseteq Nat /\ T # {}
  BY <1>1
<1>4. PICK m \in T : \A k \in T : m <= k
  <2> HIDE DEF T
  <2> QED BY <1>3, LeastNatural, Zenon
<1>5. PICK b \in S : m = Cardinality(Chain[b])
  OBVIOUS
<1>6. \A c \in S : Cardinality(Chain[b]) <= Cardinality(Chain[c])
  BY <1>4, <1>5
<1>7. ASSUME b # Genesis, Parent[b] \in S
      PROVE  FALSE
  <2>1. Cardinality(Chain[b]) <= Cardinality(Chain[Parent[b]])
    BY <1>6, <1>7, Zenon
  <2>2. Cardinality(Chain[Parent[b]]) < Cardinality(Chain[b])
    BY <1>2, <1>7, Zenon
  <2>3. Cardinality(Chain[b]) \in Nat /\ Cardinality(Chain[Parent[b]]) \in Nat
    BY <1>1, <1>7, Zenon
  <2> QED BY <2>1, <2>2, <2>3
<1> QED BY <1>7

(* A block is on its own chain, and so is its parent.                      *)
LEMMA ChainSelf ==
  /\ \A b \in Blocks : b \in Chain[b]
  /\ \A b \in Blocks \ {Genesis} : Parent[b] \in Chain[b] /\ Parent[b] \in Blocks
<1>1. \A b \in Blocks : b \in Chain[b]
  BY TreeAssumption, Zenon
<1> QED BY <1>1, TreeAssumption, Zenon

(* Every chain starts at the genesis block.                                *)
LEMMA ChainGenesis == \A b \in Blocks : Genesis \in Chain[b]
<1> DEFINE S == {b \in Blocks : Genesis \notin Chain[b]}
<1>1. ASSUME S # {}
      PROVE  FALSE
  <2>1. PICK b \in S : b = Genesis \/ Parent[b] \notin S
    BY <1>1, TreeLeast, Zenon
  <2> QED BY <2>1, TreeAssumption, Zenon
<1> QED BY <1>1, Zenon

(* The ancestors of an ancestor are ancestors.                             *)
LEMMA ChainTransitive == \A b \in Blocks : \A a \in Chain[b] : Chain[a] \subseteq Chain[b]
<1> DEFINE S == {b \in Blocks : \E a \in Chain[b] : ~(Chain[a] \subseteq Chain[b])}
<1>1. ASSUME S # {}
      PROVE  FALSE
  <2>1. PICK b \in S : b = Genesis \/ Parent[b] \notin S
    BY <1>1, TreeLeast, Zenon
  <2>2. PICK a \in Chain[b] : ~(Chain[a] \subseteq Chain[b])
    OBVIOUS
  <2>3. b # Genesis
    BY <2>2, TreeAssumption
  <2>4. Parent[b] \in Blocks /\ Parent[b] \notin S /\ Chain[b] = Chain[Parent[b]] \union {b}
    BY <2>1, <2>3, TreeAssumption, Zenon
  <2>5. a \in Chain[Parent[b]]
    BY <2>2, <2>4, Zenon
  <2> QED BY <2>2, <2>4, <2>5, Zenon
<1> QED BY <1>1

(* A block below the end of a chain has a child on it: ChildToward exists. *)
LEMMA ChildTowardType ==
  ASSUME NEW b \in Blocks, NEW a \in Chain[b], a # b
  PROVE  /\ ChildToward(a, b) \in Chain[b] \ {Genesis}
         /\ Parent[ChildToward(a, b)] = a
<1> DEFINE S == {x \in Blocks : \E y \in Chain[x] \ {x} :
                   \A c \in Chain[x] \ {Genesis} : Parent[c] # y}
<1>1. ASSUME S # {}
      PROVE  FALSE
  <2>1. PICK x \in S : x = Genesis \/ Parent[x] \notin S
    BY <1>1, TreeLeast, Zenon
  <2>2. PICK y \in Chain[x] \ {x} : \A c \in Chain[x] \ {Genesis} : Parent[c] # y
    OBVIOUS
  <2>3. x # Genesis
    BY <2>2, TreeAssumption
  <2>4. Parent[x] \in Blocks /\ Parent[x] \notin S /\ Chain[x] = Chain[Parent[x]] \union {x}
    BY <2>1, <2>3, TreeAssumption, Zenon
  <2>5. Parent[x] # y
    BY <2>2, <2>3, <2>4, Zenon
  <2>6. y \in Chain[Parent[x]] \ {Parent[x]}
    BY <2>2, <2>4, <2>5, Zenon
  <2> QED BY <2>2, <2>4, <2>6, Zenon
<1>2. \E c \in Chain[b] \ {Genesis} : Parent[c] = a
  BY <1>1, Zenon
<1> QED BY <1>2, Zenon DEF ChildToward

-----------------------------------------------------------------------------
(* The steps.                                                              *)

(* Every step preserves the invariant.                                     *)
LEMMA NextInv ==
  ASSUME CoinsInv, [Next]_vars
  PROVE  CoinsInv'
<1>1. ASSUME NEW o \in Outpoints, CacheCoin(o) \/ Uncache(o)
      PROVE  CoinsInv'
  BY <1>1, CacheStepInv, Zenon
<1>2. ASSUME NEW b \in Blocks, AcceptBlock(b) \/ ConnectTip(b)
      PROVE  CoinsInv'
  BY <1>2, AcceptBlockInv, ConnectTipInv, Zenon
<1>3. CASE InvalidateRest \/ \E b \in Blocks : InvalidateBlock(b)
  BY <1>3, InvalidateInv, Zenon
<1>4. CASE DisconnectTip
  <2>1. phase = "up" /\ index \in Index /\ (invalid' # Null => invalid' \in NonGenesis)
    BY <1>4, Zenon DEF DisconnectTip, Idle, CoinsInv, TypeOK, Stages
  <2> QED BY <1>4, <2>1, DisconnectInv, Zenon DEF DisconnectTip
<1>5. CASE PeriodicWrite \/ FullFlush \/ Shutdown \/ AbortNode
  <2>1. phase = "up" /\ UNCHANGED invalid
    BY <1>5, Zenon DEF PeriodicWrite, FullFlush, Shutdown, AbortNode, Idle
  <2>2. tip \in Blocks /\ index \in Index
    BY <2>1, Zenon DEF CoinsInv, Stages, Running, TypeOK
  <2>3. \E f \in BOOLEAN, then \in {"up", "exit"} : \E pruned : FlushStateToDisk(f, index, pruned, then)
    BY <1>5, Zenon DEF PeriodicWrite, FullFlush, Shutdown, AbortNode
  <2> QED BY <2>1, <2>2, <2>3, FlushBegins, Zenon
<1>6. CASE Exit
  BY <1>6, ForgetInv DEF Exit, CoinsInv, TypeOK
<1>7. CASE Flush /\ ~Exit
  BY <1>7, WriteIndexInv, FlushCoinsInv, WritePartialInv, WriteFinalInv, Zenon DEF Flush
<1>8. CASE Crash
  <2>1. crashes' \in 0 .. MaxCrashes
    BY <1>8, ChainstateAssumption DEF Crash, CoinsInv, TypeOK
  <2> QED BY <1>8, <2>1, ForgetInv, Zenon DEF Crash
<1>9. CASE Startup
  <2>1. CASE RollbackBlock
    <3>1. heads[1] \in Blocks /\ replayed \notin Chain[heads[1]]
      BY <2>1, HeadsType, Zenon DEF RollbackBlock, OnNewChain, CoinsInv, Stages
    <3> QED BY <2>1, <3>1, ChainGenesis, RollbackInv, Zenon
  <2>2. CASE RollforwardBlock
    <3>1. heads[1] \in Blocks /\ replayed \in Chain[heads[1]] /\ replayed # heads[1]
      BY <2>2, HeadsType, Zenon DEF RollforwardBlock, CoinsInv, Stages
    <3>2. NextReplayed \in Chain[heads[1]] \ {Genesis} /\ Parent[NextReplayed] = replayed
      BY <3>1, ChildTowardType, Zenon DEF NextReplayed
    <3> QED BY <2>2, <3>2, RollforwardInv, Zenon
  <2>3. CASE LoadBlockIndexDB \/ ReplayBlocks \/ StartForward \/ FinishReplay \/ LoadChainTip
    BY <2>3, LoadIndexInv, ReplayBlocksInv, StartForwardInv, FinishReplayInv, LoadChainTipInv, Zenon
  <2> QED BY <1>9, <2>1, <2>2, <2>3, Zenon DEF Startup
<1>10. CASE UNCHANGED vars
  <2>1. LayersSound' /\ \A o \in Outpoints : View(o)' = View(o) /\ SpanView(o)' = SpanView(o)
    BY <1>10, LayersFrame, Zenon DEF vars, memVars, diskVars, CoinsInv
  <2>2. TypeOK'
    BY <1>10, Zenon DEF vars, memVars, diskVars, CoinsInv, TypeOK
  <2>4. Stages'
    BY <1>10, Zenon DEF vars, memVars, diskVars, CoinsInv, Stages, Running
  <2>3. RightCoins' /\ DiskCoins' /\ RightUndo'
    BY <1>10, <2>1 DEF vars, memVars, diskVars, CoinsInv, RightCoins, DiskCoins, RightUndo,
                       Running, Durable, Base
  <2> QED BY <2>1, <2>2, <2>3, <2>4, Zenon DEF CoinsInv
<1> QED BY <1>1, <1>2, <1>3, <1>4, <1>5, <1>6, <1>7, <1>8, <1>9, <1>10, Zenon DEF Next

(* CoinsInv is an invariant for any block tree and any number of crashes.  *)
THEOREM CoinsInvariance == Spec => []CoinsInv
<1>1. CoinsInv /\ [Next]_vars => CoinsInv'
  BY NextInv, Zenon
<1> QED BY InitInv, <1>1, PTL DEF Spec

(* CacheFlagsSound holds for any tree: no logic_error of CoinsStore, no    *)
(* failed assertion of the flush, no unclean undo (AddCoin, BatchWrite,    *)
(* DBBatchWrite, ApplyBlockUndo).                                          *)
THEOREM FlagsAlwaysSound == Spec => []CacheFlagsSound
<1>1. CoinsInv => CacheFlagsSound
  BY FlagsOfInv, Zenon
<1> QED BY <1>1, CoinsInvariance, PTL

(* For any block tree, any coins and any number of crashes, the chain      *)
(* state implements DurableCoins: a crash at any point of any flush or     *)
(* replay brings back the coins of the last tip that began to reach the    *)
(* disk (DBBatchWrite, ReplayBlocks).                                      *)
THEOREM ChainstateImplementsDurable == Spec => ImplementsDurable
<1>1. Init => Promise!DurableInit
  <2> SUFFICES ASSUME Init PROVE Promise!DurableInit
    OBVIOUS
  <2>1. Running /\ tip = Genesis /\ Durable = Genesis
    BY Zenon DEF Init, Running, Durable
  <2>2. [o \in Outpoints |-> View(o)] = Utxo[Genesis]
    <3>1. \A o \in Outpoints : View(o) = Utxo[Genesis][o]
      BY <2>1, InitInv, Zenon DEF CoinsInv, RightCoins
    <3> QED BY <3>1, UtxoAssumption, Zenon
  <2> QED BY <2>1, <2>2, Zenon DEF Promise!DurableInit
<1>2. CoinsInv /\ CoinsInv' /\ [Next]_vars => [Promise!DurableNext]_(Promise!durableVars)
  <2>1. ASSUME CoinsInv, CoinsInv', Next
        PROVE  [Promise!DurableNext]_(Promise!durableVars)
    <3> HIDE DEF CoinsInv
    <3> QED BY <2>1, StepMaps, AbstractStep, Zenon
  <2>2. ASSUME UNCHANGED vars
        PROVE  [Promise!DurableNext]_(Promise!durableVars)
    BY <2>2, Zenon DEF vars, memVars, diskVars, Promise!durableVars, Running, View, Durable
  <2> QED BY <2>1, <2>2, Zenon
<1> QED BY <1>1, <1>2, CoinsInvariance, PTL DEF Spec, ImplementsDurable, Promise!DurableSpec

-----------------------------------------------------------------------------
(* Why a start-up finds what it needs: the order of FlushStateToDisk       *)
(* (index first, coins last) and the rule that undo data and block data    *)
(* are pruned together carry the argument.                                 *)
Loading == phase \in {"replay", "rollback", "forward", "tip"}

ClosedIndex(i) ==
  /\ Genesis \in i.known /\ i.data \subseteq i.known
  /\ \A b \in NonGenesis : b \in i.known => Parent[b] \in i.known

(* The index on disk knows every block that the coins on disk or in memory *)
(* may name.                                                               *)
KnownBlocks ==
  /\ ClosedIndex(index) /\ ClosedIndex(indexDB)
  /\ Running => tip \in index.known /\ indexDB.known \subseteq index.known
  /\ phase \in {"coins", "batch"} \/ Loading \/ (phase = "index" /\ heads # <<>>) =>
       index = indexDB
  /\ Loading => indexDB.data \subseteq files
  /\ best # Null => best \in indexDB.known
  /\ heads # <<>> => heads[1] \in indexDB.known /\ Base \in indexDB.known

(* The blocks a replay would have to roll back have undo data, unless they *)
(* are pruned altogether.                                                  *)
UndoKept ==
  /\ phase = "up" \/ (phase = "index" /\ ~full) =>
       Chain[Durable] \ Chain[tip] \subseteq index.data \intersect index.undo
  /\ phase \in {"index", "coins", "batch"} /\ heads = <<>> =>
       \A b \in Chain[Durable] \ Chain[tip] : b \in index.data => b \in index.undo
  /\ heads # <<>> =>
       \A b \in Chain[Base] \ Chain[heads[1]] : b \in indexDB.data => b \in indexDB.undo

(* The replay is between the old tip, the fork and the new tip.            *)
ReplayPath ==
  /\ phase = "rollback" => replayed \in Chain[Base]
  /\ phase \in {"rollback", "forward"} =>
       Chain[Base] \intersect Chain[heads[1]] \subseteq Chain[replayed]

StartInv == KnownBlocks /\ UndoKept /\ ReplayPath /\ StartupFailureExplained

-----------------------------------------------------------------------------
(* A process that ended leaves only what is on disk.                       *)
LEMMA ForgetStart ==
  ASSUME CoinsInv, StartInv, Forget, UNCHANGED diskVars, phase' \in {"down", "failed"},
         phase' = "failed" => StartupFailureExplained'
  PROVE  StartInv'
<1> USE DEF StartInv
<1>1. ClosedIndex(OnlyGenesis)
  BY TreeAssumption, Zenon DEF ClosedIndex, OnlyGenesis, NonGenesis
<1>2. KnownBlocks'
  BY <1>1, Zenon DEF KnownBlocks, Forget, diskVars, Running, Loading, Base
<1>3. UndoKept'
  BY Zenon DEF UndoKept, diskVars, Base
<1>4. ReplayPath'
  BY Zenon DEF ReplayPath
<1>5. StartupFailureExplained'
  BY Zenon DEF StartupFailureExplained
<1> QED BY <1>2, <1>3, <1>4, <1>5, Zenon

(* A flush begins with an index of the same blocks.                        *)
LEMMA FlushStart ==
  ASSUME CoinsInv, StartInv, NEW f \in BOOLEAN, NEW newIndex \in Index,
         newIndex.known = index.known, newIndex.data = index.data, newIndex.undo = index.undo,
         NEW pruned, NEW then \in {"up", "exit"}, FlushStateToDisk(f, newIndex, pruned, then),
         phase = "up" \/ (phase = "tip" /\ newIndex = index /\ pruned = {} /\ f),
         f \/ pruned = {}, tip \in index.known
  PROVE  StartInv'
<1> USE DEF CoinsInv, StartInv
<1>0. /\ index'.known = index.known /\ index'.data = index.data \ pruned
      /\ index'.undo = index.undo \ pruned
      /\ phase' = "index" /\ full' = f
      /\ UNCHANGED <<tip, replayed, coinsDB, best, heads, indexDB>>
      /\ Durable' = Durable /\ Base' = Base
  BY Zenon DEF FlushStateToDisk, Index, Durable, Base
<1>1. phase = "tip" => index' = index
  <2>1. ASSUME phase = "tip" PROVE index' = index
    <3>1. index' = [index EXCEPT !.data = index.data \ {}, !.undo = index.undo \ {}]
      BY <2>1, Zenon DEF FlushStateToDisk
    <3>2. index \in Index
      BY Zenon DEF TypeOK
    <3> QED BY <3>1, <3>2, Zenon DEF Index
  <2> QED BY <2>1, Zenon
<1>2. phase = "up" => heads = <<>>
  BY Zenon DEF Stages
<1>3. phase = "tip" => index = indexDB
  BY Zenon DEF KnownBlocks, Loading
<1>4. phase = "tip" /\ heads = <<>> => Durable = tip
  <2>1. tip # Null
    BY ChainstateAssumption, Zenon DEF TypeOK, Index
  <2> QED BY <2>1, Zenon DEF Stages, Durable
<1>5. KnownBlocks'
  <2>1. ClosedIndex(index')
    BY <1>0, Zenon DEF KnownBlocks, ClosedIndex
  <2>2. indexDB.known \subseteq index.known
    BY <1>3, Zenon DEF KnownBlocks, Running
  <2> QED BY <1>0, <1>1, <1>2, <1>3, <2>1, <2>2, Zenon DEF KnownBlocks, Loading
<1>6. UndoKept'
  <2>1. CASE phase = "up"
    BY <1>0, <1>2, <2>1, Zenon DEF UndoKept
  <2>2. CASE phase = "tip"
    BY <1>0, <1>4, <2>2, Zenon DEF UndoKept
  <2> QED BY <2>1, <2>2, Zenon
<1>7. ReplayPath' /\ StartupFailureExplained'
  BY <1>0, Zenon DEF ReplayPath, StartupFailureExplained
<1> QED BY <1>5, <1>6, <1>7, Zenon

(* The tip moves along the tree.                                           *)
LEMMA ConnectStart ==
  ASSUME CoinsInv, StartInv, NEW b \in Blocks, ConnectTip(b)
  PROVE  StartInv'
<1> USE DEF CoinsInv, StartInv
<1>0. /\ phase = "up" /\ phase' = "up" /\ heads = <<>> /\ tip' = b /\ tip \in Blocks
      /\ b \in NonGenesis /\ Parent[b] = tip /\ b \in index.data
      /\ index'.known = index.known /\ index'.data = index.data
      /\ index'.undo = index.undo \union {b}
      /\ UNCHANGED <<best, heads, indexDB>> /\ Durable' = Durable
  BY Zenon DEF ConnectTip, Idle, Stages, TypeOK, Index, Durable, Running
<1>1. Chain[b] = Chain[tip] \union {b}
  BY <1>0, TreeAssumption, Zenon DEF NonGenesis
<1>2. KnownBlocks'
  BY <1>0, Zenon DEF KnownBlocks, ClosedIndex, Running, Loading
<1>3. UndoKept'
  BY <1>0, <1>1, Zenon DEF UndoKept
<1>4. ReplayPath' /\ StartupFailureExplained'
  BY <1>0, Zenon DEF ReplayPath, StartupFailureExplained
<1> QED BY <1>2, <1>3, <1>4, Zenon

(* Disconnecting the tip keeps what start-up relies on.                    *)
LEMMA DisconnectStart ==
  ASSUME CoinsInv, StartInv, phase = "up", tip # Genesis, CanUndo(tip),
         NEW newIndex \in Index,
         newIndex.known = index.known, newIndex.data = index.data, newIndex.undo = index.undo,
         Disconnect(newIndex)
  PROVE  StartInv'
<1> USE DEF CoinsInv, StartInv
<1>0. /\ phase' = "up" /\ heads = <<>> /\ tip' = Parent[tip] /\ tip \in NonGenesis
      /\ index' = newIndex /\ tip \in index.data /\ tip \in index.undo
      /\ UNCHANGED <<best, heads, indexDB>> /\ Durable' = Durable
  BY Zenon DEF Disconnect, Stages, diskVars, Running, Durable, NonGenesis, CanUndo, CanRead
<1>1. Chain[tip] = Chain[Parent[tip]] \union {tip}
  BY <1>0, TreeAssumption, Zenon DEF NonGenesis
<1>2. KnownBlocks'
  BY <1>0, Zenon DEF KnownBlocks, ClosedIndex, Running, Loading
<1>3. UndoKept'
  BY <1>0, <1>1, Zenon DEF UndoKept
<1>4. ReplayPath' /\ StartupFailureExplained'
  BY <1>0, Zenon DEF ReplayPath, StartupFailureExplained
<1> QED BY <1>2, <1>3, <1>4, Zenon

(* So does a step that leaves index, disk and tip alone.                   *)
LEMMA QuietStart ==
  ASSUME CoinsInv, StartInv, phase # "failed",
         UNCHANGED <<phase, full, tip, replayed, index, best, heads, indexDB, files>>
  PROVE  StartInv'
<1> USE DEF StartInv
<1>1. Durable' = Durable /\ Base' = Base /\ Running' = Running /\ Loading' = Loading
  BY Zenon DEF Durable, Base, Running, Loading
<1>2. KnownBlocks' /\ UndoKept' /\ ReplayPath'
  BY <1>1, Zenon DEF KnownBlocks, UndoKept, ReplayPath
<1>3. StartupFailureExplained'
  BY Zenon DEF StartupFailureExplained
<1> QED BY <1>2, <1>3, Zenon

(* So does storing a block.                                                *)
LEMMA AcceptStart ==
  ASSUME CoinsInv, StartInv, NEW b \in Blocks, AcceptBlock(b)
  PROVE  StartInv'
<1> USE DEF CoinsInv, StartInv
<1>0. /\ phase = "up" /\ phase' = "up" /\ heads = <<>>
      /\ Parent[b] \in index.known
      /\ index'.known = index.known \union {b} /\ index'.data = index.data \union {b}
      /\ index'.undo = index.undo
      /\ UNCHANGED <<tip, best, heads, indexDB>> /\ Durable' = Durable
  BY Zenon DEF AcceptBlock, Idle, Stages, TypeOK, Index, Durable
<1>1. KnownBlocks'
  BY <1>0, Zenon DEF KnownBlocks, ClosedIndex, Running, Loading
<1>2. UndoKept'
  BY <1>0, Zenon DEF UndoKept
<1>3. ReplayPath' /\ StartupFailureExplained'
  BY <1>0, Zenon DEF ReplayPath, StartupFailureExplained
<1> QED BY <1>1, <1>2, <1>3

(* So does a step back of invalidateblock.                                 *)
LEMMA StepBackStart ==
  ASSUME CoinsInv, StartInv, phase = "up", NEW b \in NonGenesis, b \in Chain[tip], StepBack(b)
  PROVE  StartInv'
<1> DEFINE marked == [index EXCEPT !.failed = @ \union {b, tip}]
<1>1. tip \in Blocks /\ index \in Index /\ tip \in index.known
  BY Zenon DEF CoinsInv, Stages, Running, TypeOK, StartInv, KnownBlocks
<1>2. tip # Genesis
  BY TreeAssumption, Zenon DEF NonGenesis
<1>3. /\ marked \in Index /\ marked.undo = index.undo /\ marked.data = index.data
      /\ marked.known = index.known
  BY <1>1, Zenon DEF Index, NonGenesis
<1>4. \/ CanUndo(tip) /\ Disconnect(marked)
      \/ FlushStateToDisk(TRUE, marked, {}, "exit")
  BY Zenon DEF StepBack
<1> HIDE DEF marked
<1>5. CASE CanUndo(tip) /\ Disconnect(marked)
  BY <1>2, <1>3, <1>5, DisconnectStart
<1>6. CASE FlushStateToDisk(TRUE, marked, {}, "exit")
  BY <1>1, <1>3, <1>6, FlushStart, Zenon
<1> QED BY <1>4, <1>5, <1>6, Zenon

(* So does each step of invalidateblock.                                   *)
LEMMA InvalidateStart ==
  ASSUME CoinsInv, StartInv, InvalidateRest \/ \E b \in Blocks : InvalidateBlock(b)
  PROVE  StartInv'
<1>1. CASE InvalidateRest
  <2>1. phase = "up" /\ invalid \in NonGenesis /\ tip \in index.known /\ index \in Index
    BY <1>1, Zenon DEF InvalidateRest, CoinsInv, Stages, Running, TypeOK, StartInv, KnownBlocks
  <2>2. CASE invalid \in Chain[tip] /\ StepBack(invalid)
    BY <2>1, <2>2, StepBackStart, Zenon
  <2>3. CASE \E pruned \in SUBSET Prunable : FlushStateToDisk(TRUE, index, pruned, "up")
    BY <2>1, <2>3, FlushStart, Zenon
  <2> QED BY <1>1, <2>2, <2>3, Zenon DEF InvalidateRest
<1>2. ASSUME NEW b \in Blocks, InvalidateBlock(b)
      PROVE  StartInv'
  <2>1. phase = "up" /\ b \in NonGenesis
    BY <1>2, ChainstateAssumption, Zenon DEF InvalidateBlock, Idle
  <2>2. CASE b \in Chain[tip] /\ StepBack(b)
    BY <2>1, <2>2, StepBackStart, Zenon
  <2>3. CASE b \notin Chain[tip]
    <3> USE DEF CoinsInv, StartInv
    <3>1. /\ phase' = "up" /\ heads = <<>>
          /\ index'.known = index.known /\ index'.data = index.data /\ index'.undo = index.undo
          /\ UNCHANGED <<tip, best, heads, indexDB>> /\ Durable' = Durable
      BY <1>2, <2>1, <2>3, Zenon DEF InvalidateBlock, Stages, TypeOK, Index, Durable, diskVars
    <3>2. KnownBlocks'
      BY <2>1, <3>1, Zenon DEF KnownBlocks, ClosedIndex, Running, Loading
    <3>3. UndoKept' /\ ReplayPath' /\ StartupFailureExplained'
      BY <2>1, <3>1, Zenon DEF UndoKept, ReplayPath, StartupFailureExplained
    <3> QED BY <3>2, <3>3, Zenon
  <2> QED BY <1>2, <2>2, <2>3, Zenon DEF InvalidateBlock
<1> QED BY <1>1, <1>2

(* The steps of a flush.                                                   *)
LEMMA WriteIndexStart ==
  ASSUME CoinsInv, StartInv, WriteIndex
  PROVE  StartInv'
<1> USE DEF CoinsInv, StartInv
<1>0. /\ phase = "index" /\ phase' = (IF full THEN "coins" ELSE after) /\ indexDB' = index
      /\ UNCHANGED <<full, tip, replayed, index, best, heads, files>>
      /\ Durable' = Durable /\ Base' = Base /\ after \in {"up", "exit"}
  BY Zenon DEF WriteIndex, Durable, Base, TypeOK
<1>1. indexDB.known \subseteq index.known /\ tip \in index.known
  BY <1>0, Zenon DEF KnownBlocks, Running
<1>2. KnownBlocks'
  BY <1>0, <1>1, Zenon DEF KnownBlocks, Running, Loading
<1>3. UndoKept'
  <2>1. ~full => heads = <<>>
    BY <1>0, Zenon DEF Stages
  <2>2. heads # <<>> => index = indexDB
    BY <1>0, Zenon DEF KnownBlocks
  <2> QED BY <1>0, <2>1, <2>2, Zenon DEF UndoKept
<1>4. ReplayPath' /\ StartupFailureExplained'
  BY <1>0, Zenon DEF ReplayPath, StartupFailureExplained
<1> QED BY <1>2, <1>3, <1>4, Zenon

(* So does handing the cache to the batch writer: the index is on disk by  *)
(* then.                                                                   *)
LEMMA FlushCoinsStart ==
  ASSUME CoinsInv, StartInv, FlushCoins
  PROVE  StartInv'
<1> USE DEF StartInv
<1>0. /\ phase = "coins" /\ phase' = "batch"
      /\ UNCHANGED <<full, tip, replayed, index, best, heads, indexDB, files>>
      /\ Durable' = Durable /\ Base' = Base
  BY Zenon DEF FlushCoins, Durable, Base, diskVars
<1>1. KnownBlocks'
  BY <1>0, Zenon DEF KnownBlocks, Running, Loading
<1>2. UndoKept' /\ ReplayPath' /\ StartupFailureExplained'
  BY <1>0, Zenon DEF UndoKept, ReplayPath, StartupFailureExplained
<1> QED BY <1>1, <1>2, Zenon

(* So does a partial batch.                                                *)
LEMMA WritePartialStart ==
  ASSUME CoinsInv, StartInv, NEW S, WritePartialBatch(S)
  PROVE  StartInv'
<1> USE DEF CoinsInv, StartInv
<1>0. /\ phase = "batch" /\ phase' = "batch" /\ best' = Null /\ heads' = <<tip, OldTip>>
      /\ UNCHANGED <<full, tip, replayed, index, indexDB, files>>
      /\ index = indexDB /\ tip \in index.known
  BY Zenon DEF WritePartialBatch, KnownBlocks, Running
<1>1. heads' # <<>> /\ heads'[1] = tip /\ heads'[2] = OldTip
  BY <1>0, Zenon
<1>2. CASE heads = <<>>
  <2>1. Base' = Durable /\ Durable \in indexDB.known
    BY <1>1, <1>2, Zenon DEF Base, Durable, OldTip, KnownBlocks, ClosedIndex
  <2>2. KnownBlocks'
    BY <1>0, <1>1, <2>1, Zenon DEF KnownBlocks, Running, Loading
  <2>3. UndoKept'
    BY <1>0, <1>1, <1>2, <2>1, Zenon DEF UndoKept
  <2>4. ReplayPath' /\ StartupFailureExplained'
    BY <1>0, Zenon DEF ReplayPath, StartupFailureExplained
  <2> QED BY <2>2, <2>3, <2>4, Zenon
<1>3. CASE heads # <<>>
  <2>1. best = Null /\ heads[1] = tip
    BY <1>0, <1>3, Zenon DEF DiskCoins, Stages
  <2>2. Base' = Base
    BY <1>1, <1>3, <2>1, Zenon DEF Base, OldTip
  <2>3. KnownBlocks'
    BY <1>0, <1>1, <1>3, <2>1, <2>2, Zenon DEF KnownBlocks, Running, Loading
  <2>4. UndoKept'
    BY <1>0, <1>1, <1>3, <2>1, <2>2, Zenon DEF UndoKept
  <2>5. ReplayPath' /\ StartupFailureExplained'
    BY <1>0 DEF ReplayPath, StartupFailureExplained
  <2> QED BY <2>3, <2>4, <2>5
<1> QED BY <1>2, <1>3, Zenon

(* So does the final batch.                                                *)
LEMMA WriteFinalStart ==
  ASSUME CoinsInv, StartInv, WriteFinalBatch
  PROVE  StartInv'
<1> USE DEF CoinsInv, StartInv
<1>0. /\ phase = "batch" /\ phase' \in {"up", "exit"} /\ best' = tip /\ heads' = <<>>
      /\ UNCHANGED <<full, tip, replayed, index, indexDB, files>>
      /\ index = indexDB /\ tip \in index.known
  BY Zenon DEF WriteFinalBatch, KnownBlocks, Running, TypeOK
<1>1. tip # Null
  BY <1>0, ChainstateAssumption, Zenon DEF Stages, Running
<1>2. Durable' = tip
  BY <1>0, <1>1, Zenon DEF Durable
<1>3. KnownBlocks'
  BY <1>0, Zenon DEF KnownBlocks, Running, Loading
<1>4. UndoKept'
  BY <1>0, <1>2, Zenon DEF UndoKept
<1>5. ReplayPath' /\ StartupFailureExplained'
  BY <1>0, Zenon DEF ReplayPath, StartupFailureExplained
<1> QED BY <1>3, <1>4, <1>5

-----------------------------------------------------------------------------
(* The steps of a start-up: where it gives up, the reason is one of those  *)
(* listed.                                                                 *)
LEMMA GiveUpStart ==
  ASSUME CoinsInv, StartInv, GiveUp,
         \/ Durable \in indexDB.failed
         \/ ~(indexDB.data \subseteq files)
         \/ heads # <<>> /\ ~(Chain[heads[1]] \ Chain[Base] \subseteq indexDB.data)
         \/ heads # <<>> /\ heads[2] # Null /\ ~(Chain[Base] \ Chain[heads[1]] \subseteq indexDB.data)
  PROVE  StartInv'
<1>1. heads # <<>> => Chain[Base] = IF heads[2] = Null THEN {Genesis} ELSE Chain[heads[2]]
  BY TreeAssumption, Zenon DEF Base
<1>2. UNCHANGED <<best, heads, indexDB, files>> /\ Durable' = Durable
  BY DEF GiveUp, diskVars, Durable
<1>3. StartupFailureExplained'
  BY <1>1, <1>2 DEF StartupFailureExplained, Base
<1> QED BY <1>3, ForgetStart, Zenon DEF GiveUp

(* So does loading the block index, and the blocks it needs are known.     *)
LEMMA LoadIndexStart ==
  ASSUME CoinsInv, StartInv, LoadBlockIndexDB
  PROVE  StartInv'
<1>1. CASE indexDB.data \subseteq files
  <2> USE <1>1 DEF StartInv
  <2>0. /\ index' = indexDB /\ phase' = "replay"
        /\ UNCHANGED <<full, tip, replayed, best, heads, indexDB, files>>
        /\ Durable' = Durable /\ Base' = Base
    BY Zenon DEF LoadBlockIndexDB, diskVars, Durable, Base
  <2>1. KnownBlocks'
    BY <2>0, Zenon DEF KnownBlocks, Running, Loading
  <2>2. UndoKept' /\ ReplayPath' /\ StartupFailureExplained'
    BY <2>0, Zenon DEF UndoKept, ReplayPath, StartupFailureExplained
  <2> QED BY <2>1, <2>2, Zenon
<1>2. CASE ~(indexDB.data \subseteq files)
  BY <1>2, GiveUpStart, Zenon DEF LoadBlockIndexDB
<1> QED BY <1>1, <1>2, Zenon

(* So does the head of ReplayBlocks, and its failure is a block that is    *)
(* missing.                                                                *)
LEMMA ReplayStart ==
  ASSUME CoinsInv, StartInv, ReplayBlocks
  PROVE  StartInv'
<1> USE DEF StartInv
<1>1. phase = "replay" /\ index = indexDB
  BY Zenon DEF ReplayBlocks, KnownBlocks, Loading
<1>2. heads # <<>> => KnownHeads
  BY <1>1, Zenon DEF KnownBlocks, KnownHeads, Base
<1>3. CASE phase' = "tip" /\ UNCHANGED <<full, replayed, index, diskVars>>
  <2>1. Durable' = Durable /\ Base' = Base /\ UNCHANGED <<best, heads, indexDB, files>>
    BY <1>3, Zenon DEF Durable, Base, diskVars
  <2>2. KnownBlocks'
    BY <1>1, <1>3, <2>1, Zenon DEF KnownBlocks, Running, Loading
  <2>3. UndoKept' /\ ReplayPath' /\ StartupFailureExplained'
    BY <1>3, <2>1, Zenon DEF UndoKept, ReplayPath, StartupFailureExplained
  <2> QED BY <2>2, <2>3
<1>4. CASE /\ heads # <<>> /\ replayed' = Base /\ phase' = "rollback"
           /\ UNCHANGED <<full, tip, index, diskVars>>
  <2>1. Durable' = Durable /\ Base' = Base /\ UNCHANGED <<best, heads, indexDB, files>>
    BY <1>4, Zenon DEF Durable, Base, diskVars
  <2>2. KnownBlocks'
    BY <1>1, <1>4, <2>1, Zenon DEF KnownBlocks, Running, Loading
  <2>3. Base \in Chain[Base]
    BY <1>4, HeadsType, ChainSelf, Zenon DEF CoinsInv
  <2>4. ReplayPath'
    BY <1>4, <2>1, <2>3, Zenon DEF ReplayPath
  <2>5. UndoKept' /\ StartupFailureExplained'
    BY <1>4, <2>1, Zenon DEF UndoKept, StartupFailureExplained
  <2> QED BY <2>2, <2>4, <2>5, Zenon
<1> QED BY <1>2, <1>3, <1>4, Zenon DEF ReplayBlocks, Base

(* A replay step that moves to another block.                              *)
LEMMA ReplayMovesStart ==
  ASSUME CoinsInv, StartInv, phase \in {"rollback", "forward"},
         phase = "rollback" => replayed' \in Chain[Base],
         Chain[Base] \intersect Chain[heads[1]] \subseteq Chain[replayed'],
         phase' = phase \/ phase' = "forward",
         UNCHANGED <<full, tip, index, diskVars>>
  PROVE  StartInv'
<1> USE DEF StartInv
<1>1. Durable' = Durable /\ Base' = Base /\ UNCHANGED <<best, heads, indexDB, files>>
  BY Zenon DEF Durable, Base, diskVars
<1>2. KnownBlocks'
  BY <1>1, Zenon DEF KnownBlocks, Running, Loading
<1>3. UndoKept' /\ StartupFailureExplained'
  BY <1>1, Zenon DEF UndoKept, StartupFailureExplained
<1>4. ReplayPath'
  BY <1>1, Zenon DEF ReplayPath
<1> QED BY <1>2, <1>3, <1>4, Zenon

(* So does rolling back, whose undo data can be missing only after         *)
(* pruning.                                                                *)
LEMMA RollbackStart ==
  ASSUME CoinsInv, StartInv, RollbackBlock
  PROVE  StartInv'
<1>1. /\ phase = "rollback" /\ replayed \notin Chain[heads[1]] /\ heads # <<>>
      /\ replayed \in Chain[Base] /\ Chain[Base] \intersect Chain[heads[1]] \subseteq Chain[replayed]
  BY Zenon DEF RollbackBlock, OnNewChain, CoinsInv, Stages, StartInv, ReplayPath
<1>2. heads[1] \in Blocks /\ Base \in Blocks /\ replayed \in Blocks /\ replayed # Genesis
  <2>1. heads[1] \in Blocks /\ Base \in Blocks /\ replayed \in Blocks
    BY <1>1, HeadsType, Zenon DEF CoinsInv, TypeOK
  <2> QED BY <1>1, <2>1, ChainGenesis, Zenon
<1>3. heads[2] # Null
  BY <1>1, <1>2, TreeAssumption, Zenon DEF Base
<1>4. index = indexDB /\ indexDB.data \subseteq files
  BY <1>1, Zenon DEF StartInv, KnownBlocks, Loading
<1>5. CASE CanUndo(replayed) /\ ~GiveUp
  <2>1. /\ replayed' = Parent[replayed] /\ phase' = phase
        /\ UNCHANGED <<full, tip, index, diskVars>>
    BY <1>5, Zenon DEF RollbackBlock
  <2>2. Parent[replayed] \in Chain[replayed] /\ Chain[replayed] \subseteq Chain[Base]
    BY <1>1, <1>2, ChainSelf, ChainTransitive, Zenon
  <2>3. Chain[replayed] = Chain[Parent[replayed]] \union {replayed}
    BY <1>2, TreeAssumption, Zenon
  <2> QED BY <1>1, <2>1, <2>2, <2>3, ReplayMovesStart, Zenon
<1>6. CASE GiveUp /\ ~CanUndo(replayed)
  <2>1. replayed \notin indexDB.data
    BY <1>1, <1>4, <1>6, Zenon DEF CanUndo, CanRead, StartInv, UndoKept
  <2> QED BY <1>1, <1>3, <1>6, <2>1, GiveUpStart, Zenon
<1>7. CASE GiveUp /\ CanUndo(replayed)
  BY <1>1, <1>7, Zenon DEF RollbackBlock, GiveUp
<1> QED BY <1>5, <1>6, <1>7, Zenon DEF RollbackBlock

(* So does rolling forward, whose block can be missing only after pruning. *)
LEMMA RollforwardStart ==
  ASSUME CoinsInv, StartInv, RollforwardBlock
  PROVE  StartInv'
<1> DEFINE n == NextReplayed
<1>1. /\ phase = "forward" /\ replayed # heads[1] /\ heads # <<>>
      /\ replayed \in Chain[heads[1]]
      /\ Chain[Base] \intersect Chain[heads[1]] \subseteq Chain[replayed]
  BY Zenon DEF RollforwardBlock, CoinsInv, Stages, StartInv, ReplayPath
<1>2. /\ n \in Blocks \ {Genesis} /\ n \in Chain[heads[1]] /\ Parent[n] = replayed
  <2>1. heads[1] \in Blocks
    BY <1>1, HeadsType, Zenon DEF CoinsInv
  <2>2. n \in Chain[heads[1]] \ {Genesis} /\ Parent[n] = replayed
    BY <1>1, <2>1, ChildTowardType, Zenon DEF NextReplayed
  <2> HIDE DEF n
  <2> QED BY <2>1, <2>2, TreeAssumption, Zenon
<1>3. index = indexDB /\ indexDB.data \subseteq files
  BY <1>1, Zenon DEF StartInv, KnownBlocks, Loading
<1>4. n \notin Chain[replayed] /\ Chain[n] = Chain[replayed] \union {n}
  <2> HIDE DEF n
  <2> QED BY <1>2, TreeAssumption, Zenon
<1>5. CASE CanRead(n) /\ ~GiveUp
  <2>1. replayed' = n /\ phase' = phase /\ UNCHANGED <<full, tip, index, diskVars>>
    BY <1>5, Zenon DEF RollforwardBlock
  <2> HIDE DEF n
  <2> QED BY <1>1, <1>4, <2>1, ReplayMovesStart, Zenon
<1>6. CASE GiveUp /\ ~CanRead(n)
  <2> HIDE DEF n
  <2>1. n \notin indexDB.data
    BY <1>3, <1>6, Zenon DEF CanRead
  <2>2. n \in Chain[heads[1]] \ Chain[Base]
    BY <1>1, <1>2, <1>4, Zenon
  <2> QED BY <1>1, <1>6, <2>1, <2>2, GiveUpStart, Zenon
<1>7. CASE GiveUp /\ CanRead(n)
  BY <1>1, <1>7, Zenon DEF RollforwardBlock, GiveUp
<1> QED BY <1>5, <1>6, <1>7, Zenon DEF RollforwardBlock

(* So does loading the tip.                                                *)
LEMMA LoadChainTipStart ==
  ASSUME CoinsInv, StartInv, LoadChainTip
  PROVE  StartInv'
<1>1. phase = "tip" /\ index = indexDB
  BY DEF LoadChainTip, StartInv, KnownBlocks, Loading
<1>2. CASE /\ tip = Null /\ tip' = Genesis /\ phase' = "up"
           /\ UNCHANGED <<full, replayed, index, diskVars>>
  <2> USE DEF StartInv
  <2>1. heads = <<>> /\ best = Null
    BY <1>1, <1>2, HeadsType, ChainstateAssumption, Zenon DEF CoinsInv, Stages
  <2>2. UNCHANGED <<best, heads, indexDB, files>> /\ Durable' = Genesis
    BY <1>2, <2>1, Zenon DEF Durable, diskVars
  <2>3. KnownBlocks'
    BY <1>1, <1>2, <2>1, <2>2, Zenon DEF KnownBlocks, ClosedIndex, Running, Loading
  <2>4. UndoKept' /\ ReplayPath' /\ StartupFailureExplained'
    BY <1>2, <2>1, <2>2, Zenon DEF UndoKept, ReplayPath, StartupFailureExplained
  <2> QED BY <2>3, <2>4
<1>3. CASE /\ tip \in index.known \ index.failed
           /\ FlushStateToDisk(TRUE, index, {}, "up")
  <2>1. index \in Index
    BY DEF CoinsInv, TypeOK
  <2> QED BY <1>1, <1>3, <2>1, FlushStart, Zenon
<1>4. CASE tip # Null /\ tip \notin index.known \ index.failed /\ GiveUp
  <2>1. Durable = tip /\ tip \in indexDB.known
    BY <1>1, <1>4, Zenon DEF CoinsInv, Stages, Durable, StartInv, KnownBlocks
  <2> QED BY <1>1, <1>4, <2>1, GiveUpStart
<1> QED BY <1>2, <1>3, <1>4, Zenon DEF LoadChainTip

(* So do the turn to rolling forward and the end of the replay.            *)
LEMMA ForwardFinishStart ==
  ASSUME CoinsInv, StartInv, StartForward \/ FinishReplay
  PROVE  StartInv'
<1>1. CASE StartForward
  <2>1. phase = "rollback" /\ phase' = "forward" /\ UNCHANGED <<full, tip, replayed, index, diskVars>>
    BY <1>1, Zenon DEF StartForward
  <2> QED BY <2>1, ReplayMovesStart, Zenon DEF StartInv, ReplayPath
<1>2. CASE FinishReplay
  <2> USE DEF StartInv
  <2>1. /\ phase = "forward" /\ phase' = "tip"
        /\ UNCHANGED <<full, replayed, index, best, heads, indexDB, files>>
        /\ Durable' = Durable /\ Base' = Base
    BY <1>2, Zenon DEF FinishReplay, diskVars, Durable, Base
  <2>2. KnownBlocks'
    BY <2>1, Zenon DEF KnownBlocks, Running, Loading
  <2>3. UndoKept' /\ ReplayPath' /\ StartupFailureExplained'
    BY <2>1, Zenon DEF UndoKept, ReplayPath, StartupFailureExplained
  <2> QED BY <2>2, <2>3, Zenon
<1> QED BY <1>1, <1>2, Zenon

(* Every step keeps what start-up relies on.                               *)
LEMMA NextStart ==
  ASSUME CoinsInv, StartInv, [Next]_vars
  PROVE  StartInv'
<1>1. ASSUME NEW o \in Outpoints, CacheCoin(o) \/ Uncache(o)
      PROVE  StartInv'
  BY <1>1, QuietStart, Zenon DEF CacheCoin, Uncache, Idle, diskVars
<1>2. ASSUME NEW b \in Blocks, AcceptBlock(b) \/ ConnectTip(b)
      PROVE  StartInv'
  BY <1>2, AcceptStart, ConnectStart, Zenon
<1>3. CASE InvalidateRest \/ \E b \in Blocks : InvalidateBlock(b)
  BY <1>3, InvalidateStart, Zenon
<1>4. CASE DisconnectTip
  <2>1. phase = "up" /\ index \in Index
    BY <1>4, Zenon DEF DisconnectTip, Idle, CoinsInv, TypeOK
  <2> QED BY <1>4, <2>1, DisconnectStart, Zenon DEF DisconnectTip
<1>5. CASE PeriodicWrite \/ FullFlush \/ Shutdown \/ AbortNode
  <2>1. phase = "up"
    BY <1>5, Zenon DEF PeriodicWrite, FullFlush, Shutdown, AbortNode, Idle
  <2>2. tip \in index.known /\ index \in Index
    BY <2>1, Zenon DEF CoinsInv, Running, TypeOK, StartInv, KnownBlocks
  <2>3. \E f \in BOOLEAN, then \in {"up", "exit"} : \E pruned :
          FlushStateToDisk(f, index, pruned, then) /\ (f \/ pruned = {})
    BY <1>5, Zenon DEF PeriodicWrite, FullFlush, Shutdown, AbortNode
  <2> QED BY <2>1, <2>2, <2>3, FlushStart, Zenon
<1>6. CASE Exit \/ Crash
  BY <1>6, ForgetStart DEF Exit, Crash
<1>7. CASE Flush /\ ~Exit
  BY <1>7, WriteIndexStart, FlushCoinsStart, WritePartialStart, WriteFinalStart, Zenon DEF Flush
<1>8. CASE Startup
  BY <1>8, LoadIndexStart, ReplayStart, RollbackStart, RollforwardStart,
     ForwardFinishStart, LoadChainTipStart, Zenon DEF Startup
<1>9. CASE UNCHANGED vars
  <2> USE <1>9 DEF StartInv, vars, memVars, diskVars
  <2>1. Durable' = Durable /\ Base' = Base /\ Running' = Running /\ Loading' = Loading
    BY Zenon DEF Durable, Base, Running, Loading
  <2>2. KnownBlocks' /\ UndoKept' /\ ReplayPath'
    BY <2>1, Zenon DEF KnownBlocks, UndoKept, ReplayPath
  <2>3. StartupFailureExplained'
    BY <2>1, Zenon DEF StartupFailureExplained
  <2> QED BY <2>2, <2>3, Zenon
<1> QED BY <1>1, <1>2, <1>3, <1>4, <1>5, <1>6, <1>7, <1>8, <1>9 DEF Next

(* A start-up that gives up has one of the listed reasons, for any block   *)
(* tree, whatever was pruned or invalidated and wherever the process was   *)
(* interrupted (LoadBlockIndexDB, ReplayBlocks, LoadChainTip).             *)
THEOREM StartupFailuresExplained == Spec => []StartupFailureExplained
<1>1. Init => StartInv
  <2> SUFFICES ASSUME Init PROVE StartInv
    OBVIOUS
  <2>1. Durable = Genesis /\ heads = <<>> /\ phase = "up" /\ tip = Genesis
    BY Zenon DEF Init, Durable
  <2>2. ClosedIndex(OnlyGenesis)
    BY TreeAssumption, Zenon DEF ClosedIndex, OnlyGenesis, NonGenesis
  <2>3. KnownBlocks
    BY <2>1, <2>2, Zenon DEF Init, KnownBlocks, Loading, Running, ClosedIndex
  <2>4. UndoKept /\ ReplayPath /\ StartupFailureExplained
    BY <2>1, Zenon DEF UndoKept, ReplayPath, StartupFailureExplained
  <2> QED BY <2>3, <2>4, Zenon DEF StartInv
<1>2. CoinsInv /\ StartInv /\ [Next]_vars => StartInv'
  BY NextStart, Zenon
<1>3. StartInv => StartupFailureExplained
  BY DEF StartInv
<1> QED BY <1>1, <1>2, <1>3, CoinsInvariance, PTL DEF Spec
=============================================================================
