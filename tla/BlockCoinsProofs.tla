--------------------------- MODULE BlockCoinsProofs ---------------------------
(***************************************************************************)
(* What the operations on a cache entry do to the coin seen through it:    *)
(* the flags DIRTY and FRESH stay truthful, and a block turns the coins of *)
(* its parent into its own and back, also over coins it was already        *)
(* applied to.                                                             *)
(***************************************************************************)
EXTENDS BlockCoins, TLAPS

(* The flags of e tell the truth about a layer below that holds c.         *)
Sound(e, c) ==
  /\ e \in Entry
  /\ ~e.has => e = NoEntry
  /\ e.has /\ ~e.dirty => ~e.fresh /\ e.coin = c
  /\ e.fresh => c = Spent

(* The empty entry and the record of an entry are entries.                 *)
LEMMA EntryType ==
  /\ NoEntry \in Entry
  /\ \A c \in Coins, d, f \in BOOLEAN :
       [has |-> TRUE, coin |-> c, dirty |-> d, fresh |-> f] \in Entry
BY DEF NoEntry, Entry, Coins

(* A missing entry claims nothing and hides nothing.                       *)
LEMMA NoEntrySound ==
  ASSUME NEW c \in Coins
  PROVE  Sound(NoEntry, c) /\ Seen(NoEntry, c) = c
BY EntryType DEF Sound, NoEntry, Seen

(* A dirty entry shows its coin; it may be fresh where there is none below.*)
LEMMA DirtySound ==
  ASSUME NEW c \in Coins, NEW coin \in Coins, NEW f \in BOOLEAN, f => c = Spent,
         NEW e, e = [has |-> TRUE, coin |-> coin, dirty |-> TRUE, fresh |-> f]
  PROVE  Sound(e, c) /\ Seen(e, c) = coin
<1>1. e \in Entry
  BY EntryType
<1>2. e.has = TRUE /\ e.coin = coin /\ e.dirty = TRUE /\ e.fresh = f
  OBVIOUS
<1> QED BY <1>1, <1>2 DEF Sound, Seen

(* What is seen through an entry is a coin.                                *)
LEMMA SeenType ==
  ASSUME NEW e \in Entry, NEW c \in Coins
  PROVE  Seen(e, c) \in Coins
BY DEF Seen, Entry

(* Fetching a coin from below changes neither what is seen nor the truth   *)
(* of the flags (GetCoin).                                                 *)
LEMMA FetchedSound ==
  ASSUME NEW c \in Coins, NEW e, Sound(e, c)
  PROVE  /\ Sound(Fetched(e, c), c)
         /\ Seen(Fetched(e, c), c) = Seen(e, c)
         /\ Fetched(e, c).has \/ c = Spent
BY EntryType DEF Sound, Fetched, Clean, Seen

(* Dropping a clean entry changes nothing that is seen (Uncache).          *)
LEMMA UncachedSound ==
  ASSUME NEW c \in Coins, NEW e, Sound(e, c)
  PROVE  Sound(Uncached(e), c) /\ Seen(Uncached(e), c) = Seen(e, c)
BY NoEntrySound DEF Sound, Uncached, Seen

(* AddCoin makes the coin seen; without overwriting, no coin was seen.     *)
LEMMA AddedSound ==
  ASSUME NEW c \in Coins, NEW e, Sound(e, c), NEW coin \in Coins, NEW overwrite \in BOOLEAN,
         ~overwrite => Seen(e, c) = Spent
  PROVE  Sound(Added(e, coin, overwrite), c) /\ Seen(Added(e, coin, overwrite), c) = coin
<1> DEFINE f == e.fresh \/ (~overwrite /\ ~e.dirty)
<1>1. f \in BOOLEAN /\ Added(e, coin, overwrite) = [has |-> TRUE, coin |-> coin, dirty |-> TRUE, fresh |-> f]
  BY DEF Added
<1>2. f => c = Spent
  BY DEF Sound, Seen, NoEntry
<1> HIDE DEF f
<1> QED BY <1>1, <1>2, DirtySound

(* SpendCoin: afterwards no coin is seen.                                  *)
LEMMA SpentSound ==
  ASSUME NEW c \in Coins, NEW k, Sound(k, c), k.has \/ c = Spent
  PROVE  Sound(SpentEntry(k), c) /\ Seen(SpentEntry(k), c) = Spent
<1>1. CASE ~k.has \/ k.fresh
  BY <1>1, NoEntrySound DEF Sound, SpentEntry
<1>2. CASE k.has /\ ~k.fresh
  <2>1. SpentEntry(k) = [has |-> TRUE, coin |-> Spent, dirty |-> TRUE, fresh |-> FALSE]
    BY <1>2 DEF SpentEntry
  <2> QED BY <2>1, DirtySound DEF Coins
<1> QED BY <1>1, <1>2 DEF Sound, Entry

(* CCoinsViewCache::SpendCoin leaves a sound entry that shows no coin.     *)
LEMMA SpendInSound ==
  ASSUME NEW c \in Coins, NEW e, Sound(e, c)
  PROVE  Sound(SpendIn(e, c), c) /\ Seen(SpendIn(e, c), c) = Spent
BY FetchedSound, SpentSound DEF SpendIn

(* UndoCoinSpend makes the coin seen, whatever was seen before.            *)
LEMMA RestoredSound ==
  ASSUME NEW c \in Coins, NEW e, Sound(e, c), NEW coin \in Coins
  PROVE  Sound(Restored(e, c, coin), c) /\ Seen(Restored(e, c, coin), c) = coin
<1>1. Sound(Fetched(e, c), c)
  BY FetchedSound
<1> QED BY <1>1, AddedSound DEF Restored

(* BatchWrite moves the entry of the upper cache down: the coin seen       *)
(* through both is now seen through the lower one alone.                   *)
LEMMA WrittenSound ==
  ASSUME NEW c \in Coins, NEW p, Sound(p, c), NEW s, Sound(s, Seen(p, c))
  PROVE  Sound(Written(p, s), c) /\ Seen(Written(p, s), c) = Seen(s, Seen(p, c))
<1>1. CASE ~s.dirty \/ (~p.has /\ s.fresh /\ s.coin = Spent)
  <2>1. Written(p, s) = p
    BY <1>1 DEF Written
  <2> QED BY <1>1, <2>1 DEF Sound, Seen
<1>2. CASE /\ s.dirty
           /\ p.has /\ p.fresh /\ s.coin = Spent
  <2>1. Written(p, s) = NoEntry
    BY <1>2 DEF Written
  <2>2. s.has
    BY <1>2 DEF Sound, NoEntry
  <2>3. c = Spent
    BY <1>2 DEF Sound
  <2> QED BY <1>2, <2>1, <2>2, <2>3, NoEntrySound DEF Seen
<1>3. CASE /\ s.dirty
           /\ ~(~p.has /\ s.fresh /\ s.coin = Spent)
           /\ ~(p.has /\ p.fresh /\ s.coin = Spent)
  <2> DEFINE f == IF p.has THEN p.fresh ELSE s.fresh
  <2>1. Written(p, s) = [has |-> TRUE, coin |-> s.coin, dirty |-> TRUE, fresh |-> f]
    BY <1>3 DEF Written
  <2>2. s.has
    BY <1>3 DEF Sound, NoEntry
  <2>3. f \in BOOLEAN /\ s.coin \in Coins
    BY DEF Sound, Entry
  <2>4. f => c = Spent
    BY DEF Sound, Seen
  <2> HIDE DEF f
  <2>5. Sound(Written(p, s), c) /\ Seen(Written(p, s), c) = s.coin
    BY <2>1, <2>3, <2>4, DirtySound
  <2> QED BY <2>2, <2>5 DEF Seen
<1> QED BY <1>1, <1>2, <1>3

-----------------------------------------------------------------------------
(* The coins of a block are coins.                                         *)
LEMMA UtxoType == \A b \in Blocks, o \in Outpoints : Utxo[b][o] \in Coins
BY UtxoAssumption

(* Parents are blocks of the tree.                                         *)
LEMMA ParentType == \A b \in NonGenesis : Parent[b] \in Blocks
BY TreeAssumption DEF NonGenesis

(* UpdateCoins in an empty span over the coins of the parent makes the     *)
(* coins of the block.                                                     *)
LEMMA ConnectedSound ==
  ASSUME NEW b \in NonGenesis, NEW o \in Outpoints
  PROVE  LET c == Utxo[Parent[b]][o]
             e == ConnectedEntry(b, o, NoEntry, c)
         IN  Sound(e, c) /\ Seen(e, c) = Utxo[b][o]
<1> DEFINE c == Utxo[Parent[b]][o]
           made == IF o \in Creates[b] THEN Added(NoEntry, b, o \in Coinbase) ELSE NoEntry
<1>1. c \in Coins /\ b \in Coins
  BY UtxoType, ParentType DEF NonGenesis, Coins
<1>2. Sound(made, c) /\ Seen(made, c) = IF o \in Creates[b] THEN b ELSE c
  <2>1. CASE o \in Creates[b]
    <3>1. c = Spent
      BY <2>1, UtxoAssumption
    <3>2. Sound(NoEntry, c) /\ Seen(NoEntry, c) = Spent
      BY <1>1, <3>1, NoEntrySound
    <3>3. (o \in Coinbase) \in BOOLEAN
      OBVIOUS
    <3> HIDE DEF c
    <3>4. /\ Sound(Added(NoEntry, b, o \in Coinbase), c)
          /\ Seen(Added(NoEntry, b, o \in Coinbase), c) = b
      BY <1>1, <3>2, <3>3, AddedSound
    <3> QED BY <2>1, <3>4
  <2> QED BY <1>1, <2>1, NoEntrySound
<1>3. ConnectedEntry(b, o, NoEntry, c) = IF o \in Spends[b] THEN SpendIn(made, c) ELSE made
  BY DEF ConnectedEntry
<1>4. Utxo[b][o] = IF o \in Spends[b] THEN Spent ELSE IF o \in Creates[b] THEN b ELSE c
  BY UtxoAssumption
<1> HIDE DEF c, made
<1>5. Sound(ConnectedEntry(b, o, NoEntry, c), c) /\ Seen(ConnectedEntry(b, o, NoEntry, c), c) = Utxo[b][o]
  BY <1>1, <1>2, <1>3, <1>4, SpendInSound
<1> QED BY <1>5 DEF c

(* The entry e above the coin c, and the coin that the undo data of b has. *)
CanBeUndone(b, o, e, c, coin) ==
  /\ b \in NonGenesis /\ o \in Outpoints /\ c \in Coins /\ Sound(e, c)
  /\ coin \in Coins /\ (o \in Spends[b] \ Creates[b] => coin = Utxo[Parent[b]][o])

(* What the undone entry shows.                                            *)
UndoneRight(b, o, e, c, coin) ==
  /\ Sound(UndoneEntry(b, o, e, c, coin), c)
  /\ Seen(UndoneEntry(b, o, e, c, coin), c) =
       IF o \in Spends[b] \union Creates[b] THEN Utxo[Parent[b]][o] ELSE Seen(e, c)

(* ApplyBlockUndo: an outpoint the block touches gets its coin of the      *)
(* parent back, whatever was seen before; the others stay as they are.     *)
LEMMA UndoneSound ==
  ASSUME NEW b, NEW o, NEW e, NEW c, NEW coin, CanBeUndone(b, o, e, c, coin)
  PROVE  UndoneRight(b, o, e, c, coin)
<1>0. /\ b \in NonGenesis /\ o \in Outpoints /\ c \in Coins /\ Sound(e, c)
      /\ coin \in Coins /\ (o \in Spends[b] \ Creates[b] => coin = Utxo[Parent[b]][o])
  BY DEF CanBeUndone
<1> DEFINE back == IF o \in Spends[b] THEN Restored(e, c, coin) ELSE e
<1>1. Sound(back, c) /\ Seen(back, c) = IF o \in Spends[b] THEN coin ELSE Seen(e, c)
  BY <1>0, RestoredSound
<1>2. UndoneEntry(b, o, e, c, coin) = IF o \in Creates[b] THEN SpendIn(back, c) ELSE back
  BY DEF UndoneEntry
<1>3. o \in Creates[b] => Utxo[Parent[b]][o] = Spent
  BY <1>0, UtxoAssumption
<1> HIDE DEF back
<1> QED BY <1>0, <1>1, <1>2, <1>3, SpendInSound DEF UndoneRight

(* Undoing a block leaves sound flags, whatever coin is put back.          *)
LEMMA UndoneFlags ==
  ASSUME NEW b, NEW o, NEW c \in Coins, NEW e, Sound(e, c), NEW coin \in Coins
  PROVE  Sound(UndoneEntry(b, o, e, c, coin), c)
BY RestoredSound, SpendInSound DEF UndoneEntry

(* An entry with truthful flags never claims to be FRESH over a coin that  *)
(* the lower cache holds.                                                  *)
LEMMA FreshApplies ==
  ASSUME NEW c, NEW p, Sound(p, c), NEW s, Sound(s, Seen(p, c))
  PROVE  ~FreshMisapplied(p, s)
BY DEF FreshMisapplied, Sound, Seen

(* What the entry e above the coin c shows after b is rolled forward.      *)
RolledRight(b, o, e, c) ==
  /\ Sound(RolledEntry(b, o, e, c), c)
  /\ Seen(RolledEntry(b, o, e, c), c) =
       IF o \in Spends[b] \union Creates[b] THEN Utxo[b][o] ELSE Seen(e, c)

(* RollforwardBlock: an outpoint the block touches gets its coin of the    *)
(* block, whatever was seen before; the others stay as they are.           *)
LEMMA RolledSound ==
  ASSUME NEW b \in NonGenesis, NEW o \in Outpoints, NEW c \in Coins, NEW e, Sound(e, c)
  PROVE  RolledRight(b, o, e, c)
<1> DEFINE made == IF o \in Creates[b] THEN Restored(e, c, b) ELSE e
<1>1. b \in Coins
  BY DEF NonGenesis, Coins
<1>2. Sound(made, c) /\ Seen(made, c) = IF o \in Creates[b] THEN b ELSE Seen(e, c)
  BY <1>1, RestoredSound
<1>3. RolledEntry(b, o, e, c) = IF o \in Spends[b] THEN SpendIn(made, c) ELSE made
  BY DEF RolledEntry
<1>4. Utxo[b][o] = IF o \in Spends[b] THEN Spent
                   ELSE IF o \in Creates[b] THEN b ELSE Utxo[Parent[b]][o]
  BY UtxoAssumption
<1> HIDE DEF made
<1> QED BY <1>2, <1>3, <1>4, SpendInSound DEF RolledRight

(* A span that has read the coins the block touches does not look below it *)
(* again.                                                                  *)
LEMMA FetchedNothing == \A e : Fetched(e, Spent) = e /\ SpendIn(e, Spent) = SpentEntry(e)
BY DEF Fetched, SpendIn

(* An entry fetched into an empty span shows the coin below it.            *)
LEMMA PrefetchedSound ==
  ASSUME NEW c \in Coins, NEW e, e = Fetched(NoEntry, c)
  PROVE  /\ Sound(e, c) /\ Seen(e, c) = c /\ (e.has \/ c = Spent) /\ Seen(e, Spent) = c
         /\ e.has => e.coin = c
<1>1. Sound(e, c) /\ Seen(e, c) = c /\ (e.has \/ c = Spent)
  BY NoEntrySound, FetchedSound
<1> QED BY <1>1 DEF Seen

(* Connecting a block in a span that fetched its outputs gives its coins.  *)
LEMMA ConnectedPrefetched ==
  ASSUME NEW b \in NonGenesis, NEW o \in Outpoints, NEW e,
         e = IF o \in Spends[b] \union Creates[b] THEN Fetched(NoEntry, Utxo[Parent[b]][o]) ELSE NoEntry
  PROVE  /\ Sound(ConnectedEntry(b, o, e, Spent), Utxo[Parent[b]][o])
         /\ Seen(ConnectedEntry(b, o, e, Spent), Utxo[Parent[b]][o]) = Utxo[b][o]
<1> DEFINE c == Utxo[Parent[b]][o]
           made == IF o \in Creates[b] THEN Added(e, b, o \in Coinbase) ELSE e
<1>1. c \in Coins /\ b \in Coins
  BY UtxoType, ParentType DEF NonGenesis, Coins
<1>2. Sound(e, c) /\ Seen(e, c) = c /\ (o \in Spends[b] => e.has \/ c = Spent)
  BY <1>1, PrefetchedSound, NoEntrySound
<1>3. Utxo[b][o] = IF o \in Spends[b] THEN Spent ELSE IF o \in Creates[b] THEN b ELSE c
  BY UtxoAssumption
<1>4. o \in Creates[b] => c = Spent
  BY UtxoAssumption
<1>5. ConnectedEntry(b, o, e, Spent) = IF o \in Spends[b] THEN SpentEntry(made) ELSE made
  BY FetchedNothing DEF ConnectedEntry
<1> HIDE DEF c
<1>6. o \in Creates[b] => /\ Sound(Added(e, b, o \in Coinbase), c)
                          /\ Seen(Added(e, b, o \in Coinbase), c) = b
  <2> DEFINE w == o \in Coinbase
  <2>1. w \in BOOLEAN
    OBVIOUS
  <2> HIDE DEF w
  <2>2. o \in Creates[b] => Sound(Added(e, b, w), c) /\ Seen(Added(e, b, w), c) = b
    BY <1>1, <1>2, <1>4, <2>1, AddedSound
  <2> QED BY <2>2, Zenon DEF w
<1>7. /\ Sound(made, c) /\ Seen(made, c) = IF o \in Creates[b] THEN b ELSE c
      /\ o \in Spends[b] => made.has \/ c = Spent
  BY <1>2, <1>4, <1>6
<1> HIDE DEF made
<1>8. /\ Sound(ConnectedEntry(b, o, e, Spent), c)
      /\ Seen(ConnectedEntry(b, o, e, Spent), c) = Utxo[b][o]
  BY <1>1, <1>3, <1>5, <1>7, SpentSound
<1> QED BY <1>8 DEF c

(* Disconnecting it in such a span gives the coins of its parent.          *)
LEMMA UndonePrefetched ==
  ASSUME NEW b \in NonGenesis, NEW o \in Outpoints, NEW e,
         e = IF o \in Spends[b] \union Creates[b] THEN Fetched(NoEntry, Utxo[b][o]) ELSE NoEntry,
         NEW coin \in Coins, o \in Spends[b] \ Creates[b] => coin = Utxo[Parent[b]][o]
  PROVE  /\ Sound(UndoneEntry(b, o, e, Spent, coin), Utxo[b][o])
         /\ Seen(UndoneEntry(b, o, e, Spent, coin), Utxo[b][o]) = Utxo[Parent[b]][o]
<1> DEFINE c == Utxo[b][o]
           back == IF o \in Spends[b] THEN Added(e, coin, Seen(e, Spent) # Spent) ELSE e
<1>1. c \in Coins
  BY UtxoType DEF NonGenesis
<1>2. /\ Sound(e, c) /\ Seen(e, c) = c
      /\ o \in Spends[b] \union Creates[b] => (e.has \/ c = Spent) /\ Seen(e, Spent) = c
  BY <1>1, PrefetchedSound, NoEntrySound
<1>3. /\ o \in Creates[b] => Utxo[Parent[b]][o] = Spent
      /\ o \notin Spends[b] \union Creates[b] => c = Utxo[Parent[b]][o]
  BY UtxoAssumption
<1>4. UndoneEntry(b, o, e, Spent, coin) = IF o \in Creates[b] THEN SpentEntry(back) ELSE back
  BY FetchedNothing DEF UndoneEntry, Restored
<1> HIDE DEF c
<1>5. o \in Spends[b] => /\ Sound(Added(e, coin, Seen(e, Spent) # Spent), c)
                         /\ Seen(Added(e, coin, Seen(e, Spent) # Spent), c) = coin
                         /\ Added(e, coin, Seen(e, Spent) # Spent).has
  <2> DEFINE w == Seen(e, Spent) # Spent
  <2>1. w \in BOOLEAN /\ (~w => Seen(e, Spent) = Spent)
    OBVIOUS
  <2> HIDE DEF w
  <2>2. Added(e, coin, w).has
    BY DEF Added
  <2>3. o \in Spends[b] => Sound(Added(e, coin, w), c) /\ Seen(Added(e, coin, w), c) = coin
    BY <1>1, <1>2, <2>1, AddedSound
  <2> QED BY <2>2, <2>3, Zenon DEF w
<1>6. /\ Sound(back, c) /\ Seen(back, c) = IF o \in Spends[b] THEN coin ELSE c
      /\ o \in Creates[b] => back.has \/ c = Spent
  BY <1>2, <1>5
<1> HIDE DEF back
<1>7. /\ Sound(UndoneEntry(b, o, e, Spent, coin), c)
      /\ Seen(UndoneEntry(b, o, e, Spent, coin), c) = Utxo[Parent[b]][o]
  BY <1>1, <1>3, <1>4, <1>6, SpentSound
<1> QED BY <1>7 DEF c

(* The same two facts without function applications, for spans that were   *)
(* filled before the block was applied.                                    *)
CoinOf(b, o) == Utxo[b][o]

Prefetched(b, o, c) ==
  IF o \in Spends[b] \union Creates[b] THEN Fetched(NoEntry, c) ELSE NoEntry

(* UpdateCoins on a span that holds the coins of the parent.               *)
LEMMA ConnectedSpan ==
  ASSUME NEW b \in NonGenesis, NEW o \in Outpoints, NEW e,
         e = ConnectedEntry(b, o, Prefetched(b, o, CoinOf(Parent[b], o)), Spent)
  PROVE  /\ Sound(e, CoinOf(Parent[b], o))
         /\ Seen(e, CoinOf(Parent[b], o)) = CoinOf(b, o)
BY ConnectedPrefetched DEF CoinOf, Prefetched

(* ApplyBlockUndo on a span that holds the coins of the block.             *)
LEMMA UndoneSpan ==
  ASSUME NEW b \in NonGenesis, NEW o \in Outpoints, NEW e,
         NEW coin \in Coins, o \in Spends[b] \ Creates[b] => coin = CoinOf(Parent[b], o),
         e = UndoneEntry(b, o, Prefetched(b, o, CoinOf(b, o)), Spent, coin)
  PROVE  /\ Sound(e, CoinOf(b, o))
         /\ Seen(e, CoinOf(b, o)) = CoinOf(Parent[b], o)
BY UndonePrefetched DEF CoinOf, Prefetched
=============================================================================
