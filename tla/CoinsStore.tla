----------------------------- MODULE CoinsStore -----------------------------
(***************************************************************************)
(* One entry of a coins cache (CCoinsCacheEntry in a CoinsStore,           *)
(* src/src/coins.{h,cpp}) and what the operations of the cache do to it.   *)
(* Caches are stacked: a CoinsDBSpan over the cache of CoinsDB over the    *)
(* database.  Every operation works on one outpoint, so a cache is a       *)
(* function from outpoints to entries and the operations act pointwise.    *)
(*                                                                         *)
(* A coin is represented by the block that created it: two branches may    *)
(* create the same outpoint at different heights.                          *)
(***************************************************************************)
EXTENDS BlockTree

CONSTANTS
  Outpoints,  \* transaction outputs (COutPoint)
  Spent       \* the coin of an outpoint that is spent or never existed

ASSUME SpentAssumption == Spent \notin Blocks

Coins == Blocks \union {Spent}

(* FRESH says that the layer below has no unspent coin; an entry that is   *)
(* not DIRTY only repeats the layer below.                                 *)
Entry == [has : BOOLEAN, coin : Coins, dirty : BOOLEAN, fresh : BOOLEAN]

NoEntry == [has |-> FALSE, coin |-> Spent, dirty |-> FALSE, fresh |-> FALSE]

Clean(c) == [has |-> TRUE, coin |-> c, dirty |-> FALSE, fresh |-> FALSE]

(* The coin seen through entry e when the layer below holds c.             *)
Seen(e, c) == IF e.has THEN e.coin ELSE c

(* GetCoin keeps a coin it had to fetch from below; a missing one leaves   *)
(* no entry.                                                               *)
Fetched(e, c) == IF e.has \/ c = Spent THEN e ELSE Clean(c)

(* Mutants of Added: a coin is taken for fresh although a DIRTY entry says *)
(* that the layer below has it; an overwritten coin is taken for fresh.    *)
AddedFresh(e, c, overwrite) ==
  [has |-> TRUE, coin |-> c, dirty |-> TRUE, fresh |-> e.fresh \/ ~overwrite]
AddedAlwaysFresh(e, c, overwrite) ==
  [has |-> TRUE, coin |-> c, dirty |-> TRUE, fresh |-> TRUE]

(* AddCoin of a new coin, and its logic_error.                             *)
Added(e, c, overwrite) ==
  [has |-> TRUE, coin |-> c, dirty |-> TRUE,
   fresh |-> e.fresh \/ (~overwrite /\ ~e.dirty)]

AddReplacesCoin(e, overwrite) == ~overwrite /\ e.coin # Spent

(* SpendCoin, after GetCoin brought the coin in.                           *)
SpentEntry(e) ==
  IF ~e.has \/ e.fresh THEN NoEntry
  ELSE [has |-> TRUE, coin |-> Spent, dirty |-> TRUE, fresh |-> FALSE]

(* BatchWrite of the upper entry s into the entry p below it (AddEntry,    *)
(* EraseCoin, UpdateEntry), and its logic_error.                           *)
Written(p, s) ==
  IF \/ ~s.dirty
     \/ ~p.has /\ s.fresh /\ s.coin = Spent
  THEN p
  ELSE IF p.has /\ p.fresh /\ s.coin = Spent
  THEN NoEntry
  ELSE [has |-> TRUE, coin |-> s.coin, dirty |-> TRUE,
        fresh |-> IF p.has THEN p.fresh ELSE s.fresh]

FreshMisapplied(p, s) == s.dirty /\ s.fresh /\ p.has /\ p.coin # Spent

(* Uncache drops an entry without flags.                                   *)
Uncached(e) == IF e.dirty \/ e.fresh THEN e ELSE NoEntry
=============================================================================
