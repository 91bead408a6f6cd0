----------------------------- MODULE BlockCoins -----------------------------
(***************************************************************************)
(* What connecting, disconnecting and replaying a block does to an entry   *)
(* of the coins cache it works in (UpdateCoins, UndoCoinSpend and          *)
(* RollforwardBlock of src/src/validation.cpp, ApplyBlockUndo of           *)
(* src/src/processing_block_index.cpp).  A block is the sets of outpoints  *)
(* it spends and creates; an outpoint in both is spent in the block that   *)
(* creates it.                                                             *)
(***************************************************************************)
EXTENDS CoinsStore

CONSTANTS
  Spends,    \* outpoints spent by the transactions of a block
  Creates,   \* outpoints created by the transactions of a block
  Coinbase,  \* outputs of coinbase transactions
  Utxo       \* the coins after a block: what the caches have to represent

(* The blocks are the ones ConnectBlock accepts: inputs exist, no output   *)
(* overwrites an unspent one, a coinbase is not spent where it is created. *)
ASSUME UtxoAssumption ==
  /\ Spends \in [Blocks -> SUBSET Outpoints]
  /\ Creates \in [Blocks -> SUBSET Outpoints]
  /\ Coinbase \subseteq Outpoints
  /\ Utxo \in [Blocks -> [Outpoints -> Coins]]
  /\ Spends[Genesis] = {} /\ Creates[Genesis] = {}
  /\ Utxo[Genesis] = [o \in Outpoints |-> Spent]
  /\ \A b \in NonGenesis : \A o \in Outpoints :
       /\ o \in Spends[b] \ Creates[b] => Utxo[Parent[b]][o] # Spent
       /\ o \in Creates[b] => Utxo[Parent[b]][o] = Spent
       /\ o \in Spends[b] \intersect Creates[b] => o \notin Coinbase
       /\ Utxo[b][o] = IF o \in Spends[b] THEN Spent
                       ELSE IF o \in Creates[b] THEN b
                       ELSE Utxo[Parent[b]][o]

(* Below, e is the cache's entry of o before the block and c what the      *)
(* cache would fetch for it; SpendCoin fetches before it spends.           *)
SpendIn(e, c) == SpentEntry(Fetched(e, c))

(* UpdateCoins, AddCoins without check.                                    *)
ConnectedEntry(b, o, e, c) ==
  LET made == IF o \in Creates[b] THEN Added(e, b, o \in Coinbase) ELSE e
  IN  IF o \in Spends[b] THEN SpendIn(made, c) ELSE made

(* UndoCoinSpend asks HaveCoin before it adds the spent coin again.        *)
Restored(e, c, coin) ==
  LET known == Fetched(e, c)
  IN  Added(known, coin, Seen(known, c) # Spent)

(* ApplyBlockUndo: transactions backwards, so the input is restored before *)
(* the output is removed.                                                  *)
UndoneEntry(b, o, e, c, coin) ==
  LET back == IF o \in Spends[b] THEN Restored(e, c, coin) ELSE e
  IN  IF o \in Creates[b] THEN SpendIn(back, c) ELSE back

(* DISCONNECT_OK: every output was there and no input was.                 *)
UndoIsClean(b, o, e, c) ==
  /\ o \in Spends[b] => Seen(e, c) = Spent
  /\ o \in Creates[b] \ Spends[b] => Seen(e, c) # Spent

(* RollforwardBlock: AddCoins with check, whatever is already applied.     *)
RolledEntry(b, o, e, c) ==
  LET made == IF o \in Creates[b] THEN Restored(e, c, b) ELSE e
  IN  IF o \in Spends[b] THEN SpendIn(made, c) ELSE made
=============================================================================
