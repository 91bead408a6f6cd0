------------------------------ MODULE CoinsDB ------------------------------
(***************************************************************************)
(* Concurrent use of the coins database (src/src/txdb.{h,cpp}): views that *)
(* read, spans that connect or disconnect a block, flushes and Uncache.    *)
(* They synchronise with cs_main, with the lock of CoinsDB (SharedMutex,   *)
(* which WPUSMutex implements), with mCoinsViewCacheMtx, held for the      *)
(* length of one action, and with mFetchingCoins.                          *)
(*                                                                         *)
(* Which block is connected or disconnected is left open (ChainState);     *)
(* Flush writes the database in one step (ChainstateDB takes it apart).    *)
(***************************************************************************)
EXTENDS BlockCoins

CONSTANTS
  Threads,   \* threads that use the coins database
  None,      \* nobody, nothing
  MaxJobs    \* bound on the jobs that are started

ASSUME CoinsDBAssumption ==
  /\ None \notin Threads \union Coins \union Outpoints
  /\ MaxJobs \in Nat

VARIABLES
  held, wanting, refused,  \* the lock (SharedMutex)
  csMain,          \* the thread that holds cs_main, or None
  pc,              \* where the thread is
  block,           \* the block the thread connects or disconnects
  base,            \* the best block when the thread's view was opened
  left,            \* the outpoints it still has to read
  at,              \* the outpoint it is reading, or None
  value,           \* the coin it read from the database
  span,            \* the cache of the thread's CoinsDBSpan
  hashBlock,       \* CoinsDB::hashBlock
  mCache,          \* CoinsDB::mCache
  mFetchingCoins,  \* outpoints some thread is reading from the database
  coinsDB,         \* the coins on disk
  jobs             \* number of jobs started

mutexVars == <<held, wanting, refused>>
threadVars == <<pc, block, base, left, at, value, span>>
dbVars == <<hashBlock, mCache, mFetchingCoins, coinsDB>>
vars == <<mutexVars, csMain, threadVars, dbVars, jobs>>

Lock == INSTANCE SharedMutex

(* A reader is in "view"; a connecting thread goes through "connect"       *)
(* (cs_main), "validate" (without it), "detached" and "attach"; a          *)
(* disconnecting one through "disconnect" and "undo"; both end in          *)
(* "commit" and "close".                                                   *)
PC == {"idle", "view", "connect", "validate", "detached", "attach",
       "disconnect", "undo", "commit", "upgraded", "close",
       "flush", "flushing", "uncache", "uncaching"}

NoCache == [o \in Outpoints |-> NoEntry]

TypeOK ==
  /\ held \in [Threads -> {"unlocked", "read", "write"}]
  /\ wanting \subseteq Threads /\ refused \subseteq Threads
  /\ csMain \in Threads \union {None}
  /\ pc \in [Threads -> PC]
  /\ block \in [Threads -> Blocks] /\ base \in [Threads -> Blocks]
  /\ left \in [Threads -> SUBSET Outpoints]
  /\ at \in [Threads -> Outpoints \union {None}]
  /\ value \in [Threads -> Coins \union {None}]
  /\ span \in [Threads -> [Outpoints -> Entry]]
  /\ hashBlock \in Blocks
  /\ mCache \in [Outpoints -> Entry]
  /\ mFetchingCoins \subseteq Outpoints
  /\ coinsDB \in [Outpoints -> Coins]
  /\ jobs \in 0 .. MaxJobs

(* A node that has just started, at any best block.                        *)
Init ==
  /\ Lock!MutexInit
  /\ csMain = None
  /\ pc = [t \in Threads |-> "idle"]
  /\ block = [t \in Threads |-> Genesis]
  /\ hashBlock \in Blocks
  /\ coinsDB = Utxo[hashBlock]
  /\ base = [t \in Threads |-> Genesis]
  /\ left = [t \in Threads |-> {}]
  /\ at = [t \in Threads |-> None]
  /\ value = [t \in Threads |-> None]
  /\ span = [t \in Threads |-> NoCache]
  /\ mCache = NoCache
  /\ mFetchingCoins = {}
  /\ jobs = 0

View(o) == Seen(mCache[o], coinsDB[o])

Goto(t, l) == pc' = [pc EXCEPT ![t] = l]

-----------------------------------------------------------------------------
(* CoinsDB::GetCoin, called by the views and spans of "view", "validate"   *)
(* and "undo" for the outpoints in left.                                   *)
Reads == {"view", "validate", "undo"}

(* CCoinsViewCache::GetCoin keeps what it got in the span.                 *)
Keep(t, o, c) ==
  /\ span' = IF pc[t] = "view" THEN span
             ELSE [span EXCEPT ![t][o] = Fetched(span[t][o], c)]
  /\ left' = [left EXCEPT ![t] = @ \ {o}]

(* Found in mCache.                                                        *)
GetCoinCached(t, o) ==
  /\ pc[t] \in Reads /\ at[t] = None /\ o \in left[t]
  /\ mCache[o].has
  /\ Keep(t, o, mCache[o].coin)
  /\ UNCHANGED <<mutexVars, csMain, pc, block, base, at, value, dbVars>>

(* Mutant of GetCoinFetch: does not look at mFetchingCoins.                *)
GetCoinFetchAnyway(t, o) ==
  /\ pc[t] \in Reads /\ at[t] = None /\ o \in left[t]
  /\ ~mCache[o].has
  /\ mFetchingCoins' = mFetchingCoins \union {o}
  /\ at' = [at EXCEPT ![t] = o]
  /\ UNCHANGED <<mutexVars, csMain, pc, block, base, left, value, span,
                 hashBlock, mCache, coinsDB>>

(* Not in mCache: one thread fetches it, others look again later.          *)
GetCoinFetch(t, o) ==
  /\ pc[t] \in Reads /\ at[t] = None /\ o \in left[t]
  /\ ~mCache[o].has /\ o \notin mFetchingCoins
  /\ mFetchingCoins' = mFetchingCoins \union {o}
  /\ at' = [at EXCEPT ![t] = o]
  /\ UNCHANGED <<mutexVars, csMain, pc, block, base, left, value, span,
                 hashBlock, mCache, coinsDB>>

(* DBGetCoin, without mCoinsViewCacheMtx.                                  *)
DBGetCoin(t) ==
  /\ at[t] # None /\ value[t] = None
  /\ value' = [value EXCEPT ![t] = coinsDB[at[t]]]
  /\ UNCHANGED <<mutexVars, csMain, pc, block, base, left, at, span, dbVars>>

(* Mutant of GetCoinAdd: does not wait for the database.                   *)
GetCoinAddEarly(t) ==
  /\ at[t] # None
  /\ mFetchingCoins' = mFetchingCoins \ {at[t]}
  /\ mCache' = [mCache EXCEPT ![at[t]] = IF value[t] = Spent THEN @ ELSE Clean(value[t])]
  /\ Keep(t, at[t], value[t])
  /\ at' = [at EXCEPT ![t] = None]
  /\ value' = [value EXCEPT ![t] = None]
  /\ UNCHANGED <<mutexVars, csMain, pc, block, base, hashBlock, coinsDB>>

(* The coin is added to mCache.                                            *)
GetCoinAdd(t) ==
  /\ at[t] # None /\ value[t] # None
  /\ mFetchingCoins' = mFetchingCoins \ {at[t]}
  /\ mCache' = [mCache EXCEPT ![at[t]] = IF value[t] = Spent THEN @ ELSE Clean(value[t])]
  /\ Keep(t, at[t], value[t])
  /\ at' = [at EXCEPT ![t] = None]
  /\ value' = [value EXCEPT ![t] = None]
  /\ UNCHANGED <<mutexVars, csMain, pc, block, base, hashBlock, coinsDB>>

GetCoin(t) ==
  \/ \E o \in Outpoints : GetCoinCached(t, o) \/ GetCoinFetch(t, o)
  \/ DBGetCoin(t) \/ GetCoinAdd(t)

DoneReading(t) == left[t] = {} /\ at[t] = None

-----------------------------------------------------------------------------
(* Mutant of OpenView: the view does not lock.                             *)
OpenViewUnlocked(t) ==
  /\ base' = [base EXCEPT ![t] = hashBlock]
  /\ UNCHANGED mutexVars

(* The constructor of CoinsDBView takes the read lock.                     *)
OpenView(t) ==
  /\ Lock!AcquireRead(t)
  /\ base' = [base EXCEPT ![t] = hashBlock]

(* A reader: an RPC or the validation of a transaction.                    *)
BeginView(t, S) ==
  /\ pc[t] = "idle"
  /\ OpenView(t)
  /\ left' = [left EXCEPT ![t] = S]
  /\ Goto(t, "view")
  /\ UNCHANGED <<csMain, block, at, value, span, dbVars>>

EndView(t) ==
  /\ pc[t] = "view" /\ DoneReading(t)
  /\ Lock!Unlock(t)
  /\ Goto(t, "idle")
  /\ UNCHANGED <<csMain, block, base, left, at, value, span, dbVars>>

-----------------------------------------------------------------------------
(* A thread takes cs_main for one of the jobs that need it.                *)
EnterMain(t, l, b) ==
  /\ pc[t] = "idle" /\ csMain = None
  /\ csMain' = t
  /\ block' = [block EXCEPT ![t] = b]
  /\ Goto(t, l)
  /\ UNCHANGED <<mutexVars, base, left, at, value, span, dbVars>>

LeaveMain(t) ==
  /\ csMain' = None
  /\ Goto(t, "idle")

(* ConnectTip opens the span and releases cs_main for the validation.      *)
ConnectTip(t) ==
  /\ pc[t] = "connect"
  /\ OpenView(t)
  /\ span' = [span EXCEPT ![t] = NoCache]
  /\ left' = [left EXCEPT ![t] = Spends[block[t]] \union Creates[block[t]]]
  /\ csMain' = None
  /\ Goto(t, "validate")
  /\ UNCHANGED <<block, at, value, dbVars>>

Updated(t) == [o \in Outpoints |-> ConnectedEntry(block[t], o, span[t][o], Spent)]

(* Mutant of ForceDetach: the read lock is kept.                           *)
ForceDetachLocked(t) ==
  /\ pc[t] = "validate" /\ DoneReading(t)
  /\ span' = [span EXCEPT ![t] = Updated(t)]
  /\ Goto(t, "detached")
  /\ UNCHANGED <<mutexVars, csMain, block, base, left, at, value, dbVars>>

(* UpdateCoins for all transactions, then ForceDetach.  The script checks  *)
(* that follow do not use the coins.                                       *)
ForceDetach(t) ==
  /\ pc[t] = "validate" /\ DoneReading(t)
  /\ span' = [span EXCEPT ![t] = Updated(t)]
  /\ Lock!Unlock(t)
  /\ Goto(t, "detached")
  /\ UNCHANGED <<csMain, block, base, left, at, value, dbVars>>

ReenterMain(t) ==
  /\ pc[t] = "detached" /\ csMain = None
  /\ csMain' = t
  /\ Goto(t, "attach")
  /\ UNCHANGED <<mutexVars, block, base, left, at, value, span, dbVars>>

(* Mutant of Reattached: the best block is not compared.                   *)
ReattachedAlways(t) == TRUE

(* TryReattach: the span is still good if the best block is the same.      *)
Reattached(t) == hashBlock = base[t]

TryReattach(t) ==
  /\ pc[t] = "attach"
  /\ Lock!AcquireRead(t)
  /\ Goto(t, IF Reattached(t) THEN "commit" ELSE "close")
  /\ UNCHANGED <<csMain, block, base, left, at, value, span, dbVars>>

(* DisconnectTip keeps cs_main.                                            *)
DisconnectTip(t) ==
  /\ pc[t] = "disconnect"
  /\ OpenView(t)
  /\ span' = [span EXCEPT ![t] = NoCache]
  /\ left' = [left EXCEPT ![t] = Spends[block[t]] \union Creates[block[t]]]
  /\ Goto(t, "undo")
  /\ UNCHANGED <<csMain, block, at, value, dbVars>>

(* ApplyBlockUndo; the undo data holds the coins of the parent.            *)
UndoCoin(b, o) == IF o \in Creates[b] THEN b ELSE Utxo[Parent[b]][o]

Undo(t) ==
  /\ pc[t] = "undo" /\ DoneReading(t)
  /\ span' = [span EXCEPT ![t] = [o \in Outpoints |->
                UndoneEntry(block[t], o, span[t][o], Spent, UndoCoin(block[t], o))]]
  /\ Goto(t, "commit")
  /\ UNCHANGED <<mutexVars, csMain, block, base, left, at, value, dbVars>>

-----------------------------------------------------------------------------
(* TryFlush: TryWriteLock (which may wait or be refused), BatchWrite, and  *)
(* back to a read lock.                                                    *)
TryWriteLock(t) ==
  /\ pc[t] = "commit"
  /\ IF wanting \ {t} # {} THEN Lock!Refuse(t) /\ Goto(t, "close")
     ELSE IF t \in wanting THEN Lock!AcquireWrite(t) /\ Goto(t, "upgraded")
     ELSE Lock!RequestWrite(t) /\ UNCHANGED pc
  /\ UNCHANGED <<csMain, block, base, left, at, value, span, dbVars>>

NewBest(t) == IF hashBlock = block[t] THEN Parent[block[t]] ELSE block[t]

BatchWrite(t) ==
  /\ pc[t] = "upgraded"
  /\ mCache' = [o \in Outpoints |-> Written(mCache[o], span[t][o])]
  /\ hashBlock' = NewBest(t)
  /\ span' = [span EXCEPT ![t] = NoCache]
  /\ Lock!DowngradeToRead(t)
  /\ Goto(t, "close")
  /\ UNCHANGED <<csMain, block, base, left, at, value, mFetchingCoins, coinsDB>>

(* The span is destroyed and cs_main released.                             *)
CloseSpan(t) ==
  /\ pc[t] = "close"
  /\ Lock!Unlock(t)
  /\ LeaveMain(t)
  /\ span' = [span EXCEPT ![t] = NoCache]
  /\ UNCHANGED <<block, base, left, at, value, dbVars>>

-----------------------------------------------------------------------------
(* WriteLock of Flush and of Uncache.                                      *)
WriteLock(t, from, to) ==
  /\ pc[t] = from
  /\ IF t \in wanting THEN Lock!AcquireWrite(t) /\ Goto(t, to)
     ELSE Lock!RequestWrite(t) /\ UNCHANGED pc
  /\ UNCHANGED <<csMain, block, base, left, at, value, span, dbVars>>

FlushLock(t) == WriteLock(t, "flush", "flushing")

UncacheLock(t) == WriteLock(t, "uncache", "uncaching")

(* Flush: MoveOutCoins and DBBatchWrite.                                   *)
Flush(t) ==
  /\ pc[t] = "flushing"
  /\ coinsDB' = [o \in Outpoints |-> IF mCache[o].dirty THEN mCache[o].coin ELSE coinsDB[o]]
  /\ mCache' = NoCache
  /\ Lock!Unlock(t)
  /\ LeaveMain(t)
  /\ UNCHANGED <<block, base, left, at, value, span, hashBlock, mFetchingCoins>>

Uncache(t) ==
  /\ pc[t] = "uncaching"
  /\ \E S \in SUBSET Outpoints :
       mCache' = [o \in Outpoints |-> IF o \in S THEN Uncached(mCache[o]) ELSE mCache[o]]
  /\ Lock!Unlock(t)
  /\ LeaveMain(t)
  /\ UNCHANGED <<block, base, left, at, value, span, hashBlock, mFetchingCoins, coinsDB>>

-----------------------------------------------------------------------------
Begin(t) ==
  \/ \E o \in Outpoints : BeginView(t, {o})
  \/ \E b \in NonGenesis : Parent[b] = hashBlock /\ EnterMain(t, "connect", b)
  \/ hashBlock # Genesis /\ EnterMain(t, "disconnect", hashBlock)
  \/ EnterMain(t, "flush", Genesis)
  \/ EnterMain(t, "uncache", Genesis)

Continue(t) ==
  \/ GetCoin(t) \/ EndView(t)
  \/ ConnectTip(t) \/ ForceDetach(t) \/ ReenterMain(t) \/ TryReattach(t)
  \/ DisconnectTip(t) \/ Undo(t)
  \/ TryWriteLock(t) \/ BatchWrite(t) \/ CloseSpan(t)
  \/ FlushLock(t) \/ UncacheLock(t) \/ Flush(t) \/ Uncache(t)

StartJob(t) ==
  /\ jobs < MaxJobs
  /\ jobs' = jobs + 1
  /\ Begin(t)

RunJob(t) == Continue(t) /\ UNCHANGED jobs

Next == \E t \in Threads : StartJob(t) \/ RunJob(t)

Spec == Init /\ [][Next]_vars

(* Threads that have begun something are scheduled.                        *)
FairSpec == Spec /\ \A t \in Threads : WF_vars(RunJob(t))

-----------------------------------------------------------------------------
(* The coins are those of the best block at every moment: whatever views   *)
(* are open, however blocks validated in parallel race to commit, and      *)
(* whatever flushes and Uncache remove from the cache (CoinsDB::GetCoin,   *)
(* BatchWrite, Flush, Uncache).                                            *)
CoinsMatchBestBlock == \A o \in Outpoints : View(o) = Utxo[hashBlock][o]

(* A view is a snapshot: while it is open, and while a span is attached,   *)
(* the best block is the one it was opened at, and what was read from the  *)
(* database without mCoinsViewCacheMtx is still right when it is put into  *)
(* the cache.                                                              *)
ViewsAreSnapshots ==
  \A t \in Threads :
    /\ pc[t] \in {"view", "validate", "undo", "commit", "upgraded"} => base[t] = hashBlock
    /\ value[t] # None => value[t] = Utxo[base[t]][at[t]]

(* No assertion and no logic_error of the coins code is reached: the coin  *)
(* GetCoin adds is not in the cache yet, the entries of a span that is     *)
(* committed are not FRESH above a coin, and TryFlush is never refused     *)
(* ("TryFlush() will never fail as cs_main is used to synchronize", in     *)
(* ConnectTip and DisconnectTip).                                          *)
AssertionsHold ==
  \A t \in Threads :
    /\ value[t] # None => ~mCache[at[t]].has
    /\ pc[t] = "upgraded" =>
         \A o \in Outpoints : ~FreshMisapplied(mCache[o], span[t][o])
    /\ t \notin refused

(* Every job ends: nobody keeps the lock while it waits for cs_main, and   *)
(* no thread waits for ever for a coin another one is fetching.            *)
JobsEnd == \A t \in Threads : pc[t] # "idle" ~> pc[t] = "idle"
=============================================================================
