---------------------------- MODULE CoinsDBProofs ----------------------------
(***************************************************************************)
(* CoinsDB is correct for any number of threads, any block tree and any    *)
(* interleaving: the coins are always those of the best block, a view is a *)
(* snapshot, and no assertion of the coins code fails.                     *)
(***************************************************************************)
EXTENDS CoinsDB, BlockCoinsProofs

(* What a thread holds follows from where it is, and a writer is alone.    *)
LockRight ==
  /\ refused = {}
  /\ \A t \in Threads :
       /\ pc[t] \in {"idle", "connect", "disconnect", "detached", "attach"} =>
            held[t] = "unlocked" /\ t \notin wanting
       /\ pc[t] \in Reads \union {"close"} => held[t] = "read" /\ t \notin wanting
       /\ pc[t] = "commit" => held[t] = "read"
       /\ pc[t] \in {"flush", "uncache"} => held[t] = "unlocked"
       /\ pc[t] \in {"upgraded", "flushing", "uncaching"} => held[t] = "write" /\ t \notin wanting
       /\ held[t] = "write" => \A u \in Threads \ {t} : held[u] = "unlocked"

(* Who may change the coins holds cs_main.                                 *)
MainRight ==
  \A t \in Threads :
    pc[t] \notin {"idle", "view", "validate", "detached"} => csMain = t

(* A coin is read from the database by one thread at a time, and stays     *)
(* what it was until it is in the cache.                                   *)
FetchRight ==
  \A t \in Threads :
    /\ at[t] # None => /\ pc[t] \in Reads
                       /\ at[t] \in left[t]
                       /\ at[t] \in mFetchingCoins
                       /\ ~mCache[at[t]].has
                       /\ \A u \in Threads \ {t} : at[u] # at[t]
    /\ value[t] # None => at[t] # None /\ value[t] = coinsDB[at[t]]

(* The block of a thread and the best block its view was opened at.        *)
BlockRight ==
  \A t \in Threads :
    /\ pc[t] \notin {"idle", "view", "close", "flush", "flushing", "uncache", "uncaching"} =>
         block[t] \in NonGenesis
    /\ pc[t] = "connect" => Parent[block[t]] = hashBlock
    /\ pc[t] = "disconnect" => block[t] = hashBlock
    /\ pc[t] = "validate" => base[t] = Parent[block[t]]
    /\ pc[t] = "undo" => base[t] = block[t]
    /\ pc[t] \in {"detached", "attach", "commit", "upgraded"} =>
         base[t] \in {block[t], Parent[block[t]]}
    /\ pc[t] \in {"view", "validate", "undo", "commit", "upgraded"} => base[t] = hashBlock

Touched(t) == Spends[block[t]] \union Creates[block[t]]

Target(t) == IF base[t] = block[t] THEN Parent[block[t]] ELSE block[t]

(* A span holds the coins it read; once the block is applied it turns the  *)
(* coins of its base into those of its target.                             *)
SpanOf(t) ==
  /\ pc[t] \in {"validate", "undo"} =>
       /\ left[t] \subseteq Touched(t)
       /\ \A o \in Outpoints :
            span[t][o] = IF o \in Touched(t) \ left[t]
                         THEN Fetched(NoEntry, Utxo[base[t]][o]) ELSE NoEntry
  /\ pc[t] \in {"detached", "attach", "commit", "upgraded"} =>
       \A o \in Outpoints : /\ Sound(span[t][o], Utxo[base[t]][o])
                            /\ Seen(span[t][o], Utxo[base[t]][o]) = Utxo[Target(t)][o]

SpanRight == \A t \in Threads : SpanOf(t)

CacheRight ==
  \A o \in Outpoints : Sound(mCache[o], coinsDB[o]) /\ View(o) = Utxo[hashBlock][o]

DBInv ==
  TypeOK /\ LockRight /\ MainRight /\ FetchRight /\ BlockRight /\ SpanRight /\ CacheRight

(* An empty cache has no entry for any output.                             *)
LEMMA NoCacheType == NoCache \in [Outpoints -> Entry] /\ \A o \in Outpoints : NoCache[o] = NoEntry
BY EntryType DEF NoCache

(* A step of one thread leaves the spans of the others alone.              *)
SameSpan(u) ==
  /\ pc'[u] = pc[u] /\ block'[u] = block[u] /\ base'[u] = base[u]
  /\ left'[u] = left[u] /\ span'[u] = span[u]

(* A step of one thread has to show only that its own span is right.       *)
LEMMA SpanFrame ==
  ASSUME SpanRight, NEW t \in Threads, \A u \in Threads \ {t} : SameSpan(u), SpanOf(t)'
  PROVE  SpanRight'
<1>1. ASSUME NEW u \in Threads \ {t} PROVE SpanOf(u)'
  <2>1. SpanOf(u) /\ SameSpan(u)
    BY DEF SpanRight
  <2> QED BY <2>1 DEF SpanOf, SameSpan, Touched, Target
<1> QED BY <1>1 DEF SpanRight

(* Destroying a view keeps the invariant.                                  *)
LEMMA EndViewInv ==
  ASSUME DBInv, NEW t \in Threads, EndView(t), jobs' \in 0 .. MaxJobs
  PROVE  DBInv'
<1> USE DEF DBInv, EndView, Goto, DoneReading, Lock!Unlock
<1>1. TypeOK'
  BY NoCacheType, UtxoAssumption DEF TypeOK, PC, mutexVars, threadVars, dbVars, NonGenesis
<1>2. LockRight'
  BY DEF TypeOK, LockRight, MainRight, Reads, mutexVars
<1>3. MainRight'
  BY CoinsDBAssumption DEF TypeOK, MainRight
<1>4. FetchRight'
  BY DEF TypeOK, FetchRight, Reads, dbVars
<1>5. BlockRight'
  BY DEF TypeOK, BlockRight, dbVars
<1>6. SpanRight'
  <2>1. \A u \in Threads \ {t} : SameSpan(u)
    BY DEF TypeOK, SameSpan
  <2>2. SpanOf(t)'
    BY NoCacheType DEF TypeOK, SpanRight, SpanOf, Touched, Target, BlockRight
  <2> QED BY <2>1, <2>2, SpanFrame
<1>7. CacheRight'
  BY DEF CacheRight, View, dbVars
<1> QED BY <1>1, <1>2, <1>3, <1>4, <1>5, <1>6, <1>7

(* Opening the span of a block to connect keeps the invariant.             *)
LEMMA ConnectTipInv ==
  ASSUME DBInv, NEW t \in Threads, ConnectTip(t), jobs' \in 0 .. MaxJobs
  PROVE  DBInv'
<1> USE DEF DBInv, ConnectTip, OpenView, Goto, Lock!AcquireRead
<1>1. TypeOK'
  BY NoCacheType, UtxoAssumption DEF TypeOK, PC, mutexVars, threadVars, dbVars, NonGenesis
<1>2. LockRight'
  BY DEF TypeOK, LockRight, MainRight, Reads, mutexVars
<1>3. MainRight'
  BY CoinsDBAssumption DEF TypeOK, MainRight
<1>4. FetchRight'
  BY DEF TypeOK, FetchRight, Reads, dbVars
<1>5. BlockRight'
  BY DEF TypeOK, BlockRight, dbVars
<1>6. SpanRight'
  <2>1. \A u \in Threads \ {t} : SameSpan(u)
    BY DEF TypeOK, SameSpan
  <2>2. SpanOf(t)'
    BY NoCacheType DEF TypeOK, SpanRight, SpanOf, Touched, Target, BlockRight
  <2> QED BY <2>1, <2>2, SpanFrame
<1>7. CacheRight'
  BY DEF CacheRight, View, dbVars
<1> QED BY <1>1, <1>2, <1>3, <1>4, <1>5, <1>6, <1>7

(* Taking cs_main again after the scripts keeps the invariant.             *)
LEMMA ReenterMainInv ==
  ASSUME DBInv, NEW t \in Threads, ReenterMain(t), jobs' \in 0 .. MaxJobs
  PROVE  DBInv'
<1> USE DEF DBInv, ReenterMain, Goto
<1>1. TypeOK'
  BY NoCacheType, UtxoAssumption DEF TypeOK, PC, mutexVars, threadVars, dbVars, NonGenesis
<1>2. LockRight'
  BY DEF TypeOK, LockRight, MainRight, Reads, mutexVars
<1>3. MainRight'
  BY CoinsDBAssumption DEF TypeOK, MainRight
<1>4. FetchRight'
  BY DEF TypeOK, FetchRight, Reads, dbVars
<1>5. BlockRight'
  BY DEF TypeOK, BlockRight, dbVars
<1>6. SpanRight'
  <2>1. \A u \in Threads \ {t} : SameSpan(u)
    BY DEF TypeOK, SameSpan
  <2>2. SpanOf(t)'
    BY NoCacheType DEF TypeOK, SpanRight, SpanOf, Touched, Target, BlockRight
  <2> QED BY <2>1, <2>2, SpanFrame
<1>7. CacheRight'
  BY DEF CacheRight, View, dbVars
<1> QED BY <1>1, <1>2, <1>3, <1>4, <1>5, <1>6, <1>7

(* TryReattach, also when it fails, keeps the invariant.                   *)
LEMMA TryReattachInv ==
  ASSUME DBInv, NEW t \in Threads, TryReattach(t), jobs' \in 0 .. MaxJobs
  PROVE  DBInv'
<1> USE DEF DBInv, TryReattach, Reattached, Goto, Lock!AcquireRead
<1>1. TypeOK'
  BY NoCacheType, UtxoAssumption DEF TypeOK, PC, mutexVars, threadVars, dbVars, NonGenesis
<1>2. LockRight'
  BY DEF TypeOK, LockRight, MainRight, Reads, mutexVars
<1>3. MainRight'
  BY CoinsDBAssumption DEF TypeOK, MainRight
<1>4. FetchRight'
  BY DEF TypeOK, FetchRight, Reads, dbVars
<1>5. BlockRight'
  BY DEF TypeOK, BlockRight, dbVars
<1>6. SpanRight'
  <2>1. \A u \in Threads \ {t} : SameSpan(u)
    BY DEF TypeOK, SameSpan
  <2>2. SpanOf(t)'
    BY NoCacheType DEF TypeOK, SpanRight, SpanOf, Touched, Target, BlockRight
  <2> QED BY <2>1, <2>2, SpanFrame
<1>7. CacheRight'
  BY DEF CacheRight, View, dbVars
<1> QED BY <1>1, <1>2, <1>3, <1>4, <1>5, <1>6, <1>7

(* Opening the span of a block to disconnect keeps the invariant.          *)
LEMMA DisconnectTipInv ==
  ASSUME DBInv, NEW t \in Threads, DisconnectTip(t), jobs' \in 0 .. MaxJobs
  PROVE  DBInv'
<1> USE DEF DBInv, DisconnectTip, OpenView, Goto, Lock!AcquireRead
<1>1. TypeOK'
  BY NoCacheType, UtxoAssumption DEF TypeOK, PC, mutexVars, threadVars, dbVars, NonGenesis
<1>2. LockRight'
  BY DEF TypeOK, LockRight, MainRight, Reads, mutexVars
<1>3. MainRight'
  BY CoinsDBAssumption DEF TypeOK, MainRight
<1>4. FetchRight'
  BY DEF TypeOK, FetchRight, Reads, dbVars
<1>5. BlockRight'
  BY DEF TypeOK, BlockRight, dbVars
<1>6. SpanRight'
  <2>1. \A u \in Threads \ {t} : SameSpan(u)
    BY DEF TypeOK, SameSpan
  <2>2. SpanOf(t)'
    BY NoCacheType DEF TypeOK, SpanRight, SpanOf, Touched, Target, BlockRight
  <2> QED BY <2>1, <2>2, SpanFrame
<1>7. CacheRight'
  BY DEF CacheRight, View, dbVars
<1> QED BY <1>1, <1>2, <1>3, <1>4, <1>5, <1>6, <1>7

(* Dropping a span keeps the invariant.                                    *)
LEMMA CloseSpanInv ==
  ASSUME DBInv, NEW t \in Threads, CloseSpan(t), jobs' \in 0 .. MaxJobs
  PROVE  DBInv'
<1> USE DEF DBInv, CloseSpan, LeaveMain, Goto, Lock!Unlock
<1>1. TypeOK'
  BY NoCacheType, UtxoAssumption DEF TypeOK, PC, mutexVars, threadVars, dbVars, NonGenesis
<1>2. LockRight'
  BY DEF TypeOK, LockRight, MainRight, Reads, mutexVars
<1>3. MainRight'
  BY CoinsDBAssumption DEF TypeOK, MainRight
<1>4. FetchRight'
  BY DEF TypeOK, FetchRight, Reads, dbVars
<1>5. BlockRight'
  BY DEF TypeOK, BlockRight, dbVars
<1>6. SpanRight'
  <2>1. \A u \in Threads \ {t} : SameSpan(u)
    BY DEF TypeOK, SameSpan
  <2>2. SpanOf(t)'
    BY NoCacheType DEF TypeOK, SpanRight, SpanOf, Touched, Target, BlockRight
  <2> QED BY <2>1, <2>2, SpanFrame
<1>7. CacheRight'
  BY DEF CacheRight, View, dbVars
<1> QED BY <1>1, <1>2, <1>3, <1>4, <1>5, <1>6, <1>7

(* Opening a view keeps the invariant.                                     *)
LEMMA BeginViewInv ==
  ASSUME DBInv, NEW t \in Threads, NEW S \in SUBSET Outpoints, BeginView(t, S), jobs' \in 0 .. MaxJobs
  PROVE  DBInv'
<1> USE DEF DBInv, BeginView, OpenView, Goto, Lock!AcquireRead
<1>1. TypeOK'
  BY NoCacheType, UtxoAssumption DEF TypeOK, PC, mutexVars, threadVars, dbVars, NonGenesis
<1>2. LockRight'
  BY DEF TypeOK, LockRight, MainRight, Reads, mutexVars
<1>3. MainRight'
  BY CoinsDBAssumption DEF TypeOK, MainRight
<1>4. FetchRight'
  BY DEF TypeOK, FetchRight, Reads, dbVars
<1>5. BlockRight'
  BY DEF TypeOK, BlockRight, dbVars
<1>6. SpanRight'
  <2>1. \A u \in Threads \ {t} : SameSpan(u)
    BY DEF TypeOK, SameSpan
  <2>2. SpanOf(t)'
    BY NoCacheType DEF TypeOK, SpanRight, SpanOf, Touched, Target, BlockRight
  <2> QED BY <2>1, <2>2, SpanFrame
<1>7. CacheRight'
  BY DEF CacheRight, View, dbVars
<1> QED BY <1>1, <1>2, <1>3, <1>4, <1>5, <1>6, <1>7

(* Taking cs_main for a block, a flush or an uncache keeps the invariant.  *)
LEMMA EnterMainInv ==
  ASSUME DBInv, NEW t \in Threads, NEW l, NEW b \in Blocks, EnterMain(t, l, b),
         \/ l = "connect" /\ b \in NonGenesis /\ Parent[b] = hashBlock
         \/ l = "disconnect" /\ b \in NonGenesis /\ b = hashBlock
         \/ l \in {"flush", "uncache"}, jobs' \in 0 .. MaxJobs
  PROVE  DBInv'
<1> USE DEF DBInv, EnterMain, Goto
<1>1. TypeOK'
  BY NoCacheType, UtxoAssumption DEF TypeOK, PC, mutexVars, threadVars, dbVars, NonGenesis
<1>2. LockRight'
  BY DEF TypeOK, LockRight, MainRight, Reads, mutexVars
<1>3. MainRight'
  BY CoinsDBAssumption DEF TypeOK, MainRight
<1>4. FetchRight'
  BY DEF TypeOK, FetchRight, Reads, dbVars
<1>5. BlockRight'
  BY DEF TypeOK, BlockRight, dbVars
<1>6. SpanRight'
  <2>1. \A u \in Threads \ {t} : SameSpan(u)
    BY DEF TypeOK, SameSpan
  <2>2. SpanOf(t)'
    BY NoCacheType DEF TypeOK, SpanRight, SpanOf, Touched, Target, BlockRight
  <2> QED BY <2>1, <2>2, SpanFrame
<1>7. CacheRight'
  BY DEF CacheRight, View, dbVars
<1> QED BY <1>1, <1>2, <1>3, <1>4, <1>5, <1>6, <1>7

(* The upgrade of TryFlush keeps the invariant: nobody else may ask for    *)
(* it.                                                                     *)
LEMMA TryWriteLockInv ==
  ASSUME DBInv, NEW t \in Threads, TryWriteLock(t), jobs' \in 0 .. MaxJobs
  PROVE  DBInv'
<1> USE DEF DBInv
<1>a. \/ t \in wanting /\ Lock!AcquireWrite(t) /\ Goto(t, "upgraded")
      \/ t \notin wanting /\ Lock!RequestWrite(t) /\ UNCHANGED pc
  <2>1. wanting \ {t} = {}
    BY DEF TryWriteLock, LockRight, MainRight, TypeOK, PC, Reads
  <2> QED BY <2>1 DEF TryWriteLock
<1>b. /\ pc[t] = "commit"
      /\ UNCHANGED <<csMain, block, base, left, at, value, span, dbVars>>
  BY DEF TryWriteLock
<1> USE <1>a, <1>b DEF Lock!AcquireWrite, Lock!RequestWrite, Lock!Alone, Goto
<1>1. TypeOK'
  BY NoCacheType, UtxoAssumption DEF TypeOK, PC, mutexVars, threadVars, dbVars, NonGenesis
<1>2. LockRight'
  BY DEF TypeOK, LockRight, MainRight, Reads, mutexVars
<1>3. MainRight'
  BY CoinsDBAssumption DEF TypeOK, MainRight
<1>4. FetchRight'
  BY DEF TypeOK, FetchRight, Reads, dbVars
<1>5. BlockRight'
  <2>1. UNCHANGED <<block, base, hashBlock>> /\ \A u \in Threads \ {t} : pc'[u] = pc[u]
    BY DEF TypeOK, dbVars
  <2>2. pc[t] = "commit" /\ pc'[t] \in {"commit", "upgraded"}
    BY DEF TypeOK
  <2> QED BY <2>1, <2>2 DEF BlockRight
<1>6. SpanRight'
  <2>1. \A u \in Threads \ {t} : SameSpan(u)
    BY DEF TypeOK, SameSpan
  <2>2. SpanOf(t)'
    <3>1. pc'[t] \in {"commit", "upgraded"} /\ UNCHANGED <<block, base, span>>
      BY DEF TypeOK
    <3>2. SpanOf(t) /\ pc[t] = "commit"
      BY DEF SpanRight
    <3> HIDE <1>a, <1>b
    <3> QED BY <3>1, <3>2 DEF SpanOf, Target
  <2> QED BY <2>1, <2>2, SpanFrame
<1>7. CacheRight'
  BY DEF CacheRight, View, dbVars
<1> QED BY <1>1, <1>2, <1>3, <1>4, <1>5, <1>6, <1>7

(* Taking the write lock to flush or to uncache keeps the invariant.       *)
LEMMA WriteLockInv ==
  ASSUME DBInv, NEW t \in Threads, FlushLock(t) \/ UncacheLock(t), jobs' \in 0 .. MaxJobs
  PROVE  DBInv'
<1> USE DEF DBInv
<1>a. /\ pc[t] \in {"flush", "uncache"}
      /\ \/ Lock!RequestWrite(t) /\ UNCHANGED pc
         \/ /\ Lock!AcquireWrite(t)
            /\ pc' = [pc EXCEPT ![t] = IF pc[t] = "flush" THEN "flushing" ELSE "uncaching"]
      /\ UNCHANGED <<csMain, block, base, left, at, value, span, dbVars>>
  BY DEF FlushLock, UncacheLock, WriteLock, Goto
<1> USE <1>a DEF Lock!AcquireWrite, Lock!RequestWrite, Lock!Alone
<1>1. TypeOK'
  BY NoCacheType, UtxoAssumption DEF TypeOK, PC, mutexVars, threadVars, dbVars, NonGenesis
<1>2. LockRight'
  BY DEF TypeOK, LockRight, MainRight, Reads, mutexVars
<1>3. MainRight'
  BY CoinsDBAssumption DEF TypeOK, MainRight
<1>4. FetchRight'
  BY DEF TypeOK, FetchRight, Reads, dbVars
<1>5. BlockRight'
  <2>1. UNCHANGED <<block, base, hashBlock>> /\ \A u \in Threads \ {t} : pc'[u] = pc[u]
    BY DEF TypeOK, dbVars
  <2>2. pc'[t] \in {"flush", "flushing", "uncache", "uncaching"}
    BY DEF TypeOK
  <2> QED BY <2>1, <2>2 DEF BlockRight
<1>6. SpanRight'
  <2>1. \A u \in Threads \ {t} : SameSpan(u)
    BY DEF TypeOK, SameSpan
  <2>2. SpanOf(t)'
    <3>1. pc'[t] \in {"flush", "flushing", "uncache", "uncaching"}
      BY DEF TypeOK
    <3> HIDE <1>a
    <3> QED BY <3>1 DEF SpanOf
  <2> QED BY <2>1, <2>2, SpanFrame
<1>7. CacheRight'
  BY DEF CacheRight, View, dbVars
<1> QED BY <1>1, <1>2, <1>3, <1>4, <1>5, <1>6, <1>7

-----------------------------------------------------------------------------
(* GetCoin.                                                                *)
LEMMA ReadRight ==
  ASSUME DBInv, NEW t \in Threads, pc[t] \in Reads, NEW o \in Outpoints
  PROVE  /\ mCache[o].has => mCache[o].coin = Utxo[base[t]][o]
         /\ ~mCache[o].has => coinsDB[o] = Utxo[base[t]][o] /\ mCache[o] = NoEntry
         /\ Utxo[base[t]][o] \in Coins
<1>1. base[t] = hashBlock /\ base[t] \in Blocks
  BY DEF DBInv, BlockRight, Reads, TypeOK
<1> QED BY <1>1, UtxoType DEF DBInv, CacheRight, View, Seen, Sound

(* What a thread read is kept in its span.                                 *)
LEMMA KeepRight ==
  ASSUME DBInv, NEW t \in Threads, pc[t] \in Reads, NEW o \in Outpoints, o \in left[t],
         Keep(t, o, Utxo[base[t]][o]), UNCHANGED <<pc, block, base>>
  PROVE  /\ SpanRight'
         /\ span' \in [Threads -> [Outpoints -> Entry]]
         /\ left' \in [Threads -> SUBSET Outpoints]
         /\ left' = [left EXCEPT ![t] = left[t] \ {o}]
<1> USE DEF DBInv
<1>1. left' = [left EXCEPT ![t] = left[t] \ {o}] /\ left' \in [Threads -> SUBSET Outpoints]
  BY DEF Keep, TypeOK
<1> DEFINE c == Utxo[base[t]][o]
<1>2. CASE pc[t] = "view"
  <2>1. span' = span
    BY <1>2 DEF Keep
  <2>2. \A u \in Threads \ {t} : SameSpan(u)
    BY <1>1, <2>1 DEF SameSpan, TypeOK
  <2>3. SpanOf(t)'
    BY <1>2 DEF SpanOf
  <2>4. SpanRight'
    BY <2>2, <2>3, SpanFrame
  <2> QED BY <1>1, <2>1, <2>4 DEF TypeOK
<1>3. CASE pc[t] \in {"validate", "undo"}
  <2>1. span' = [span EXCEPT ![t] = [span[t] EXCEPT ![o] = Fetched(span[t][o], c)]]
    BY <1>3 DEF Keep, TypeOK
  <2>2. o \in Touched(t) /\ span[t][o] = NoEntry
    BY <1>3 DEF SpanRight, SpanOf
  <2>3. Fetched(NoEntry, c) \in Entry
    BY ReadRight, NoEntrySound, FetchedSound DEF Sound
  <2>4. span' \in [Threads -> [Outpoints -> Entry]]
    BY <2>1, <2>2, <2>3 DEF TypeOK
  <2>5. span'[t][o] = Fetched(NoEntry, c) /\ \A p \in Outpoints \ {o} : span'[t][p] = span[t][p]
    BY <2>1, <2>2 DEF TypeOK
  <2>6. \A u \in Threads \ {t} : SameSpan(u)
    BY <1>1, <2>1 DEF SameSpan, TypeOK
  <2>7. SpanOf(t)'
    <3>1. /\ SpanOf(t) /\ pc'[t] = pc[t] /\ left'[t] = left[t] \ {o} /\ o \in left[t]
          /\ base'[t] = base[t] /\ Touched(t)' = Touched(t)
      BY <1>1 DEF SpanRight, Touched, TypeOK
    <3>2. left'[t] \subseteq Touched(t)
      BY <1>3, <3>1 DEF SpanOf
    <3>3. ASSUME NEW p \in Outpoints
          PROVE  span'[t][p] = IF p \in Touched(t) \ left'[t]
                               THEN Fetched(NoEntry, Utxo[base[t]][p]) ELSE NoEntry
      <4>1. CASE p = o
        BY <2>2, <2>5, <3>1, <4>1
      <4>2. CASE p # o
        <5>1. span[t][p] = IF p \in Touched(t) \ left[t]
                           THEN Fetched(NoEntry, Utxo[base[t]][p]) ELSE NoEntry
          BY <1>3, <3>1 DEF SpanOf
        <5> QED BY <2>5, <3>1, <4>2, <5>1
      <4> QED BY <4>1, <4>2
    <3> QED BY <1>3, <3>1, <3>2, <3>3 DEF SpanOf
  <2>8. SpanRight'
    BY <2>6, <2>7, SpanFrame
  <2> QED BY <1>1, <2>4, <2>8
<1> QED BY <1>2, <1>3 DEF Reads

(* Reading a coin of the cache keeps the invariant.                        *)
LEMMA GetCoinCachedInv ==
  ASSUME DBInv, NEW t \in Threads, NEW o \in Outpoints, GetCoinCached(t, o), jobs' \in 0 .. MaxJobs
  PROVE  DBInv'
<1> USE DEF DBInv
<1>a. /\ pc[t] \in Reads /\ at[t] = None /\ o \in left[t] /\ mCache[o].has
      /\ Keep(t, o, Utxo[base[t]][o])
      /\ UNCHANGED <<mutexVars, csMain, pc, block, base, at, value, dbVars>>
  BY ReadRight DEF GetCoinCached
<1>b. /\ SpanRight'
      /\ span' \in [Threads -> [Outpoints -> Entry]]
      /\ left' \in [Threads -> SUBSET Outpoints]
      /\ left' = [left EXCEPT ![t] = left[t] \ {o}]
  BY <1>a, KeepRight
<1> USE <1>a, <1>b DEF mutexVars, dbVars
<1>1. TypeOK'
  BY NoCacheType, UtxoAssumption DEF TypeOK, PC, mutexVars, threadVars, dbVars, NonGenesis
<1>2. LockRight'
  BY DEF TypeOK, LockRight, MainRight, Reads, mutexVars
<1>3. MainRight'
  BY CoinsDBAssumption DEF TypeOK, MainRight
<1>4. FetchRight'
  BY DEF TypeOK, FetchRight, Reads, dbVars
<1>5. BlockRight'
  BY DEF TypeOK, BlockRight, dbVars
<1>6. SpanRight'
  BY <1>b
<1>7. CacheRight'
  BY DEF CacheRight, View, dbVars
<1> QED BY <1>1, <1>2, <1>3, <1>4, <1>5, <1>6, <1>7

(* Missing the cache keeps the invariant.                                  *)
LEMMA GetCoinFetchInv ==
  ASSUME DBInv, NEW t \in Threads, NEW o \in Outpoints, GetCoinFetch(t, o), jobs' \in 0 .. MaxJobs
  PROVE  DBInv'
<1> USE DEF DBInv, GetCoinFetch
<1>1. TypeOK'
  BY NoCacheType, UtxoAssumption DEF TypeOK, PC, mutexVars, threadVars, dbVars, NonGenesis
<1>2. LockRight'
  BY DEF TypeOK, LockRight, MainRight, Reads, mutexVars
<1>3. MainRight'
  BY CoinsDBAssumption DEF TypeOK, MainRight
<1>4. FetchRight'
  BY CoinsDBAssumption DEF TypeOK, FetchRight, Reads, dbVars
<1>5. BlockRight'
  BY DEF TypeOK, BlockRight, dbVars
<1>6. SpanRight'
  <2>1. \A u \in Threads \ {t} : SameSpan(u)
    BY DEF TypeOK, SameSpan
  <2>2. SpanOf(t)'
    <3>1. SpanOf(t) /\ UNCHANGED <<pc, block, base, left, span>>
      BY DEF SpanRight
    <3> HIDE DEF GetCoinFetch
    <3> QED BY <3>1 DEF SpanOf, Touched, Target
  <2> QED BY <2>1, <2>2, SpanFrame
<1>7. CacheRight'
  BY DEF CacheRight, View, dbVars
<1> QED BY <1>1, <1>2, <1>3, <1>4, <1>5, <1>6, <1>7

(* Reading the database outside the cache mutex keeps the invariant.       *)
LEMMA DBGetCoinInv ==
  ASSUME DBInv, NEW t \in Threads, DBGetCoin(t), jobs' \in 0 .. MaxJobs
  PROVE  DBInv'
<1> USE DEF DBInv, DBGetCoin
<1>1. TypeOK'
  <2>1. coinsDB[at[t]] \in Coins
    BY DEF TypeOK
  <2> QED BY <2>1 DEF TypeOK, PC, mutexVars, dbVars
<1>2. LockRight'
  BY DEF TypeOK, LockRight, MainRight, Reads, mutexVars
<1>3. MainRight'
  BY CoinsDBAssumption DEF TypeOK, MainRight
<1>4. FetchRight'
  BY DEF TypeOK, FetchRight, Reads, dbVars
<1>5. BlockRight'
  BY DEF TypeOK, BlockRight, dbVars
<1>6. SpanRight'
  <2>1. \A u \in Threads \ {t} : SameSpan(u)
    BY DEF TypeOK, SameSpan
  <2>2. SpanOf(t)'
    BY NoCacheType DEF TypeOK, SpanRight, SpanOf, Touched, Target, BlockRight
  <2> QED BY <2>1, <2>2, SpanFrame
<1>7. CacheRight'
  BY DEF CacheRight, View, dbVars
<1> QED BY <1>1, <1>2, <1>3, <1>4, <1>5, <1>6, <1>7

(* Adding the coin that was read keeps the invariant, also after a rival   *)
(* did.                                                                    *)
LEMMA GetCoinAddInv ==
  ASSUME DBInv, NEW t \in Threads, GetCoinAdd(t), jobs' \in 0 .. MaxJobs
  PROVE  DBInv'
<1> USE DEF DBInv
<1> DEFINE o == at[t]
<1>1. /\ o \in Outpoints /\ pc[t] \in Reads /\ o \in left[t] /\ ~mCache[o].has
      /\ value[t] = coinsDB[o] /\ \A u \in Threads \ {t} : at[u] # o
      /\ mFetchingCoins' = mFetchingCoins \ {o}
      /\ mCache' = [mCache EXCEPT ![o] = IF value[t] = Spent THEN mCache[o] ELSE Clean(value[t])]
      /\ at' = [at EXCEPT ![t] = None] /\ value' = [value EXCEPT ![t] = None]
      /\ UNCHANGED <<mutexVars, csMain, pc, block, base, hashBlock, coinsDB>>
  BY DEF GetCoinAdd, FetchRight, TypeOK
<1>2. mCache[o] = NoEntry /\ coinsDB[o] = Utxo[base[t]][o] /\ coinsDB[o] \in Coins
  BY <1>1, ReadRight
<1>3. Keep(t, o, Utxo[base[t]][o])
  BY <1>1, <1>2 DEF GetCoinAdd
<1> HIDE DEF o
<1>4. /\ SpanRight'
      /\ span' \in [Threads -> [Outpoints -> Entry]]
      /\ left' \in [Threads -> SUBSET Outpoints]
      /\ left' = [left EXCEPT ![t] = left[t] \ {o}]
  BY <1>1, <1>3, KeepRight
<1>5. mCache' = [mCache EXCEPT ![o] = Fetched(mCache[o], coinsDB[o])]
  BY <1>1, <1>2 DEF Fetched
<1>6. /\ Sound(Fetched(mCache[o], coinsDB[o]), coinsDB[o])
      /\ Seen(Fetched(mCache[o], coinsDB[o]), coinsDB[o]) = View(o)
  BY <1>1, <1>2, FetchedSound DEF CacheRight, View
<1>7. mCache' \in [Outpoints -> Entry]
  BY <1>5, <1>6 DEF TypeOK, Sound
<1>8. TypeOK'
  BY <1>1, <1>4, <1>7 DEF TypeOK, mutexVars
<1>9. LockRight' /\ MainRight' /\ BlockRight'
  BY <1>1 DEF LockRight, MainRight, BlockRight, mutexVars
<1>10. FetchRight'
  BY <1>1, <1>4 DEF FetchRight, TypeOK
<1>11. CacheRight'
  BY <1>1, <1>5, <1>6 DEF CacheRight, View, TypeOK
<1> QED BY <1>4, <1>8, <1>9, <1>10, <1>11

-----------------------------------------------------------------------------
(* The block is applied to the span.                                       *)
LEMMA AppliedInv ==
  ASSUME DBInv, NEW t \in Threads, ForceDetach(t) \/ Undo(t), jobs' \in 0 .. MaxJobs
  PROVE  DBInv'
<1> USE DEF DBInv
<1> DEFINE b == block[t]
<1>1. /\ pc[t] \in {"validate", "undo"} /\ left[t] = {} /\ at[t] = None /\ b \in NonGenesis
      /\ base[t] \in Blocks /\ Parent[b] # b /\ value[t] = None
  <2>1. pc[t] \in {"validate", "undo"} /\ left[t] = {} /\ at[t] = None
    BY DEF ForceDetach, Undo, DoneReading
  <2>2. b \in NonGenesis /\ base[t] \in Blocks /\ value[t] = None
    BY <2>1 DEF BlockRight, TypeOK, FetchRight
  <2>3. b \in Chain[b] /\ b \notin Chain[Parent[b]]
    BY <2>2, TreeAssumption DEF NonGenesis
  <2> QED BY <2>1, <2>2, <2>3
<1>2. \A o \in Outpoints :
        span[t][o] = IF o \in Spends[b] \union Creates[b]
                     THEN Fetched(NoEntry, Utxo[base[t]][o]) ELSE NoEntry
  BY <1>1 DEF SpanRight, SpanOf, Touched
<1>3. /\ \A o \in Outpoints : /\ Sound(span'[t][o], Utxo[base[t]][o])
                              /\ Seen(span'[t][o], Utxo[base[t]][o]) = Utxo[Target(t)][o]
      /\ span' = [span EXCEPT ![t] = span'[t]]
      /\ span'[t] \in [Outpoints -> Entry]
  <2>1. CASE ForceDetach(t)
    <3>1. pc[t] = "validate" /\ base[t] = Parent[b] /\ Target(t) = b
      <4>1. pc[t] = "validate"
        BY <2>1 DEF ForceDetach
      <4>2. base[t] = Parent[b]
        BY <4>1 DEF BlockRight
      <4> QED BY <1>1, <4>1, <4>2 DEF Target
    <3>2. span' = [span EXCEPT ![t] = Updated(t)]
      BY <2>1 DEF ForceDetach
    <3>3. span'[t] = [o \in Outpoints |-> ConnectedEntry(b, o, span[t][o], Spent)]
      BY <3>2 DEF Updated, TypeOK
    <3> HIDE DEF b
    <3>4. \A o \in Outpoints : /\ Sound(span'[t][o], Utxo[base[t]][o])
                               /\ Seen(span'[t][o], Utxo[base[t]][o]) = Utxo[Target(t)][o]
      <4> TAKE o \in Outpoints
      <4>1. span'[t][o] = ConnectedEntry(b, o, Prefetched(b, o, CoinOf(Parent[b], o)), Spent)
        BY <1>2, <3>1, <3>3 DEF Prefetched, CoinOf
      <4>2. b \in NonGenesis
        BY <1>1
      <4> HIDE DEF DBInv
      <4>3. /\ Sound(span'[t][o], CoinOf(Parent[b], o))
            /\ Seen(span'[t][o], CoinOf(Parent[b], o)) = CoinOf(b, o)
        BY <4>1, <4>2, ConnectedSpan, Zenon
      <4> QED BY <3>1, <4>3 DEF CoinOf
    <3>5. span'[t] \in [Outpoints -> Entry]
      BY <3>3, <3>4 DEF Sound
    <3>6. span' = [span EXCEPT ![t] = span'[t]]
      BY <3>2 DEF TypeOK
    <3> QED BY <3>4, <3>5, <3>6
  <2>2. CASE Undo(t)
    <3>1. pc[t] = "undo" /\ base[t] = b /\ Target(t) = Parent[b]
      BY <1>1, <2>2 DEF Undo, BlockRight, Target
    <3>2. span' = [span EXCEPT ![t] = [o \in Outpoints |->
                     UndoneEntry(b, o, span[t][o], Spent, UndoCoin(b, o))]]
      BY <2>2 DEF Undo
    <3>3. span'[t] = [o \in Outpoints |-> UndoneEntry(b, o, span[t][o], Spent, UndoCoin(b, o))]
      BY <3>2 DEF TypeOK
    <3> HIDE DEF b
    <3>4. \A o \in Outpoints : /\ UndoCoin(b, o) \in Coins
                               /\ o \notin Creates[b] => UndoCoin(b, o) = Utxo[Parent[b]][o]
      BY <1>1, UtxoType, ParentType DEF UndoCoin, NonGenesis, Coins
    <3>5. \A o \in Outpoints : /\ Sound(span'[t][o], Utxo[base[t]][o])
                               /\ Seen(span'[t][o], Utxo[base[t]][o]) = Utxo[Target(t)][o]
      <4> TAKE o \in Outpoints
      <4> DEFINE coin == UndoCoin(b, o)
      <4>1. span'[t][o] = UndoneEntry(b, o, Prefetched(b, o, CoinOf(b, o)), Spent, coin)
        BY <1>2, <3>1, <3>3 DEF Prefetched, CoinOf
      <4>2. /\ b \in NonGenesis /\ coin \in Coins
            /\ o \in Spends[b] \ Creates[b] => coin = CoinOf(Parent[b], o)
        BY <1>1, <3>4 DEF CoinOf
      <4> HIDE DEF coin, DBInv
      <4>3. /\ Sound(span'[t][o], CoinOf(b, o))
            /\ Seen(span'[t][o], CoinOf(b, o)) = CoinOf(Parent[b], o)
        BY <4>1, <4>2, UndoneSpan, Zenon
      <4> QED BY <3>1, <4>3 DEF CoinOf
    <3>6. span'[t] \in [Outpoints -> Entry]
      BY <3>3, <3>5 DEF Sound
    <3>7. span' = [span EXCEPT ![t] = span'[t]]
      BY <3>2 DEF TypeOK
    <3> QED BY <3>5, <3>6, <3>7
  <2> QED BY <2>1, <2>2
<1> HIDE DEF b
<1>4. /\ pc' = [pc EXCEPT ![t] = IF pc[t] = "validate" THEN "detached" ELSE "commit"]
      /\ UNCHANGED <<csMain, block, base, left, at, value, dbVars>>
      /\ \/ pc[t] = "validate" /\ Lock!Unlock(t)
         \/ pc[t] = "undo" /\ UNCHANGED mutexVars
  BY DEF ForceDetach, Undo, Goto
<1>5. TypeOK'
  BY <1>3, <1>4 DEF TypeOK, PC, dbVars, mutexVars, Lock!Unlock
<1>6. LockRight'
  BY <1>4, SMTT(30) DEF TypeOK, LockRight, Reads, mutexVars, Lock!Unlock
<1>7. MainRight'
  BY <1>4 DEF TypeOK, MainRight
<1>8. FetchRight'
  BY <1>1, <1>4 DEF TypeOK, FetchRight, dbVars
<1>9. BlockRight'
  BY <1>4 DEF TypeOK, BlockRight, dbVars
<1>10. SpanRight'
  <2>1. \A u \in Threads \ {t} : SameSpan(u)
    BY <1>3, <1>4 DEF SameSpan, TypeOK
  <2>2. pc'[t] \in {"detached", "commit"} /\ base'[t] = base[t] /\ Target(t)' = Target(t)
    BY <1>4 DEF Target, TypeOK
  <2>3. SpanOf(t)'
    BY <1>3, <2>2 DEF SpanOf
  <2> QED BY <2>1, <2>3, SpanFrame
<1>11. CacheRight'
  BY <1>4 DEF CacheRight, View, dbVars
<1> QED BY <1>5, <1>6, <1>7, <1>8, <1>9, <1>10, <1>11

-----------------------------------------------------------------------------
(* A writer is the only thread that looks at the coins.                    *)
LEMMA WriterAlone ==
  ASSUME DBInv, NEW t \in Threads, pc[t] \in {"upgraded", "flushing", "uncaching"}
  PROVE  /\ \A u \in Threads \ {t} : pc[u] \in {"idle", "detached"}
         /\ \A u \in Threads : at[u] = None /\ value[u] = None
         /\ held[t] = "write" /\ csMain = t
<1> USE DEF DBInv
<1>1. held[t] = "write" /\ csMain = t /\ \A u \in Threads \ {t} : held[u] = "unlocked"
  BY DEF LockRight, MainRight
<1>2. \A u \in Threads \ {t} : pc[u] \in {"idle", "detached"}
  BY <1>1 DEF LockRight, MainRight, TypeOK, PC, Reads
<1>3. \A u \in Threads : pc[u] \notin Reads
  BY <1>2 DEF Reads
<1> QED BY <1>1, <1>2, <1>3 DEF FetchRight

(* The span of a block is committed.                                       *)
LEMMA BatchWriteInv ==
  ASSUME DBInv, NEW t \in Threads, BatchWrite(t), jobs' \in 0 .. MaxJobs
  PROVE  DBInv'
<1> USE DEF DBInv
<1>1. /\ pc[t] = "upgraded" /\ base[t] = hashBlock /\ block[t] \in NonGenesis
      /\ base[t] \in {block[t], Parent[block[t]]} /\ NewBest(t) = Target(t)
  BY DEF BatchWrite, BlockRight, NewBest, Target
<1>2. Target(t) \in Blocks
  BY <1>1, ParentType DEF Target, NonGenesis
<1>3. \A o \in Outpoints : /\ Sound(mCache'[o], coinsDB[o])
                           /\ Seen(mCache'[o], coinsDB[o]) = Utxo[Target(t)][o]
  <2> TAKE o \in Outpoints
  <2>1. coinsDB[o] \in Coins /\ Sound(mCache[o], coinsDB[o])
        /\ Seen(mCache[o], coinsDB[o]) = Utxo[base[t]][o]
    BY <1>1 DEF CacheRight, View, TypeOK
  <2>2. /\ Sound(span[t][o], Utxo[base[t]][o])
        /\ Seen(span[t][o], Utxo[base[t]][o]) = Utxo[Target(t)][o]
    BY <1>1 DEF SpanRight, SpanOf
  <2>3. mCache'[o] = Written(mCache[o], span[t][o])
    BY DEF BatchWrite
  <2>4. Sound(span[t][o], Seen(mCache[o], coinsDB[o]))
    BY <2>1, <2>2
  <2>5. /\ Sound(Written(mCache[o], span[t][o]), coinsDB[o])
        /\ Seen(Written(mCache[o], span[t][o]), coinsDB[o]) = Seen(span[t][o], Seen(mCache[o], coinsDB[o]))
    BY <2>1, <2>4, WrittenSound
  <2> QED BY <2>1, <2>2, <2>3, <2>5
<1>4. mCache' \in [Outpoints -> Entry]
  BY <1>3 DEF BatchWrite, Sound
<1>5. /\ hashBlock' = Target(t) /\ span' = [span EXCEPT ![t] = NoCache]
      /\ pc' = [pc EXCEPT ![t] = "close"] /\ held' = [held EXCEPT ![t] = "read"]
      /\ UNCHANGED <<wanting, refused, csMain, block, base, left, at, value, mFetchingCoins, coinsDB>>
  BY <1>1 DEF BatchWrite, Goto, Lock!DowngradeToRead
<1>6. /\ \A u \in Threads \ {t} : pc[u] \in {"idle", "detached"}
      /\ \A u \in Threads : at[u] = None /\ value[u] = None
      /\ held[t] = "write" /\ csMain = t
  BY <1>1, WriterAlone
<1>7. TypeOK'
  BY <1>2, <1>4, <1>5, NoCacheType DEF TypeOK, PC
<1>8. LockRight'
  <2>1. /\ refused' = {} /\ wanting' = wanting /\ t \notin wanting
        /\ held'[t] = "read" /\ pc'[t] = "close"
        /\ \A u \in Threads \ {t} : held'[u] = "unlocked" /\ held[u] = "unlocked" /\ pc'[u] = pc[u]
    BY <1>1, <1>5, <1>6 DEF TypeOK, LockRight
  <2>2. \A u \in Threads : held'[u] # "write"
    BY <2>1
  <2> QED BY <1>6, <2>1, <2>2 DEF LockRight, Reads
<1>9. MainRight' /\ FetchRight'
  BY <1>5, <1>6 DEF TypeOK, MainRight, FetchRight
<1>10. BlockRight'
  BY <1>5, <1>6 DEF TypeOK, BlockRight
<1>11. SpanRight'
  <2>1. \A u \in Threads \ {t} : SameSpan(u)
    BY <1>5 DEF SameSpan, TypeOK
  <2>2. SpanOf(t)'
    BY <1>5 DEF SpanOf, TypeOK
  <2> QED BY <2>1, <2>2, SpanFrame
<1>12. CacheRight'
  BY <1>3, <1>5 DEF CacheRight, View
<1> QED BY <1>7, <1>8, <1>9, <1>10, <1>11, <1>12

(* Flush and Uncache keep the invariant.                                   *)
LEMMA FlushUncacheInv ==
  ASSUME DBInv, NEW t \in Threads, Flush(t) \/ Uncache(t), jobs' \in 0 .. MaxJobs
  PROVE  DBInv'
<1> USE DEF DBInv
<1>1. pc[t] \in {"flushing", "uncaching"}
  BY DEF Flush, Uncache
<1>2. /\ \A u \in Threads \ {t} : pc[u] \in {"idle", "detached"}
      /\ \A u \in Threads : at[u] = None /\ value[u] = None
      /\ held[t] = "write" /\ csMain = t
  BY <1>1, WriterAlone
<1>3. /\ held' = [held EXCEPT ![t] = "unlocked"] /\ refused' = refused \ {t} /\ wanting' = wanting
      /\ csMain' = None /\ pc' = [pc EXCEPT ![t] = "idle"]
      /\ UNCHANGED <<block, base, left, at, value, span, hashBlock, mFetchingCoins>>
  BY DEF Flush, Uncache, Lock!Unlock, LeaveMain, Goto
<1>4. \A o \in Outpoints : /\ coinsDB'[o] \in Coins
                           /\ Sound(mCache'[o], coinsDB'[o])
                           /\ Seen(mCache'[o], coinsDB'[o]) = View(o)
  <2> TAKE o \in Outpoints
  <2>1. coinsDB[o] \in Coins /\ Sound(mCache[o], coinsDB[o])
    BY DEF TypeOK, CacheRight
  <2>2. CASE Flush(t)
    <3>1. /\ mCache'[o] = NoEntry
          /\ coinsDB'[o] = IF mCache[o].dirty THEN mCache[o].coin ELSE coinsDB[o]
      BY <2>2, NoCacheType DEF Flush
    <3>2. coinsDB'[o] = View(o) /\ coinsDB'[o] \in Coins
      <4>1. CASE mCache[o].dirty
        <5>1. mCache[o].has /\ mCache[o].coin \in Coins
          BY <2>1, <4>1, SMTT(30) DEF Sound, Entry, NoEntry
        <5> QED BY <3>1, <4>1, <5>1 DEF View, Seen
      <4>2. CASE ~mCache[o].dirty
        <5>1. Seen(mCache[o], coinsDB[o]) = coinsDB[o]
          BY <2>1, <4>2 DEF Seen, Sound
        <5> QED BY <2>1, <3>1, <4>2, <5>1 DEF View
      <4> QED BY <4>1, <4>2
    <3> QED BY <3>1, <3>2, NoEntrySound
  <2>3. CASE Uncache(t)
    <3>1. mCache'[o] \in {mCache[o], Uncached(mCache[o])} /\ coinsDB' = coinsDB
      BY <2>3 DEF Uncache
    <3> QED BY <2>1, <3>1, UncachedSound DEF View
  <2> QED BY <2>2, <2>3
<1>5. mCache' \in [Outpoints -> Entry] /\ coinsDB' \in [Outpoints -> Coins]
  <2>1. \A o \in Outpoints : mCache'[o] \in Entry /\ coinsDB'[o] \in Coins
    BY <1>4 DEF Sound
  <2>2. CASE Flush(t)
    BY <2>1, <2>2, NoCacheType DEF Flush
  <2>3. CASE Uncache(t)
    BY <2>1, <2>3 DEF Uncache, TypeOK
  <2> QED BY <2>2, <2>3
<1>6. TypeOK'
  BY <1>3, <1>5 DEF TypeOK, PC
<1>7. LockRight'
  BY <1>1, <1>2, <1>3 DEF TypeOK, LockRight, Reads
<1>8. MainRight' /\ FetchRight'
  BY <1>2, <1>3 DEF TypeOK, MainRight, FetchRight
<1>9. BlockRight'
  BY <1>2, <1>3 DEF TypeOK, BlockRight
<1>10. SpanRight'
  <2>1. \A u \in Threads \ {t} : SameSpan(u)
    BY <1>3 DEF SameSpan, TypeOK
  <2>2. SpanOf(t)'
    BY <1>3 DEF SpanOf, TypeOK
  <2> QED BY <2>1, <2>2, SpanFrame
<1>11. CacheRight'
  BY <1>3, <1>4 DEF CacheRight, View
<1> QED BY <1>6, <1>7, <1>8, <1>9, <1>10, <1>11

-----------------------------------------------------------------------------
(* The invariant holds of a node that has just started.                    *)
LEMMA InitInv == Init => DBInv
<1> SUFFICES ASSUME Init PROVE DBInv
  OBVIOUS
<1> USE DEF Init, Lock!MutexInit
<1>1. Genesis \in Blocks /\ MaxJobs \in Nat
  BY TreeAssumption, CoinsDBAssumption
<1>2. coinsDB \in [Outpoints -> Coins]
  BY UtxoAssumption
<1>3. TypeOK
  <2>1. held \in [Threads -> {"unlocked", "read", "write"}] /\ pc \in [Threads -> PC]
    BY DEF PC
  <2>2. span \in [Threads -> [Outpoints -> Entry]] /\ mCache \in [Outpoints -> Entry]
    BY NoCacheType
  <2>3. /\ wanting \subseteq Threads /\ refused \subseteq Threads
        /\ csMain \in Threads \union {None} /\ hashBlock \in Blocks
        /\ mFetchingCoins \subseteq Outpoints /\ jobs \in 0 .. MaxJobs
    BY <1>1
  <2>4. /\ block \in [Threads -> Blocks] /\ base \in [Threads -> Blocks]
        /\ left \in [Threads -> SUBSET Outpoints]
    BY <1>1
  <2>5. /\ at \in [Threads -> Outpoints \union {None}]
        /\ value \in [Threads -> Coins \union {None}]
    OBVIOUS
  <2> HIDE DEF Init
  <2> QED BY <1>2, <2>1, <2>2, <2>3, <2>4, <2>5 DEF TypeOK
<1>4. LockRight /\ MainRight
  BY DEF LockRight, MainRight, Reads
<1>5. FetchRight /\ BlockRight
  BY DEF FetchRight, BlockRight
<1>6. SpanRight
  BY DEF SpanRight, SpanOf
<1>7. CacheRight
  <2> SUFFICES ASSUME NEW o \in Outpoints
               PROVE  Sound(mCache[o], coinsDB[o]) /\ View(o) = Utxo[hashBlock][o]
    BY DEF CacheRight
  <2>1. mCache[o] = NoEntry /\ coinsDB[o] \in Coins /\ coinsDB[o] = Utxo[hashBlock][o]
    BY <1>2, NoCacheType
  <2> QED BY <2>1, NoEntrySound DEF View
<1> QED BY <1>3, <1>4, <1>5, <1>6, <1>7 DEF DBInv

(* Every step of every thread preserves it.                                *)
LEMMA NextInv == DBInv /\ [Next]_vars => DBInv'
<1> SUFFICES ASSUME DBInv, [Next]_vars PROVE DBInv'
  OBVIOUS
<1>1. CASE UNCHANGED vars
  <2> USE <1>1 DEF DBInv, vars, mutexVars, threadVars, dbVars
  <2>1. TypeOK'
    BY DEF TypeOK
  <2>2. LockRight' /\ MainRight'
    BY DEF LockRight, MainRight
  <2>5. FetchRight' /\ BlockRight'
    BY DEF FetchRight, BlockRight
  <2>3. SpanRight'
    BY DEF SpanRight, SpanOf, Touched, Target
  <2>4. CacheRight'
    BY DEF CacheRight, View
  <2> QED BY <2>1, <2>2, <2>3, <2>4, <2>5
<1>2. ASSUME NEW t \in Threads, StartJob(t) PROVE DBInv'
  <2>1. jobs' \in 0 .. MaxJobs
    BY <1>2, CoinsDBAssumption DEF StartJob, DBInv, TypeOK
  <2>2. ASSUME NEW o \in Outpoints, BeginView(t, {o}) PROVE DBInv'
    BY <2>1, <2>2, BeginViewInv
  <2>3. ASSUME NEW b \in NonGenesis, Parent[b] = hashBlock, EnterMain(t, "connect", b)
        PROVE  DBInv'
    BY <2>1, <2>3, EnterMainInv DEF NonGenesis
  <2>4. CASE hashBlock # Genesis /\ EnterMain(t, "disconnect", hashBlock)
    BY <2>1, <2>4, EnterMainInv DEF NonGenesis, DBInv, TypeOK
  <2>5. CASE EnterMain(t, "flush", Genesis) \/ EnterMain(t, "uncache", Genesis)
    BY <2>1, <2>5, EnterMainInv, TreeAssumption
  <2> QED BY <1>2, <2>2, <2>3, <2>4, <2>5 DEF StartJob, Begin
<1>3. ASSUME NEW t \in Threads, RunJob(t) PROVE DBInv'
  <2>1. jobs' \in 0 .. MaxJobs
    BY <1>3 DEF RunJob, DBInv, TypeOK
  <2>2. CASE GetCoin(t)
    BY <2>1, <2>2, GetCoinCachedInv, GetCoinFetchInv, DBGetCoinInv, GetCoinAddInv DEF GetCoin
  <2>3. CASE EndView(t) \/ ConnectTip(t) \/ ReenterMain(t) \/ TryReattach(t) \/ DisconnectTip(t)
    BY <2>1, <2>3, EndViewInv, ConnectTipInv, ReenterMainInv, TryReattachInv, DisconnectTipInv
  <2>4. CASE ForceDetach(t) \/ Undo(t)
    BY <2>1, <2>4, AppliedInv
  <2>5. CASE TryWriteLock(t) \/ BatchWrite(t) \/ CloseSpan(t)
    BY <2>1, <2>5, TryWriteLockInv, BatchWriteInv, CloseSpanInv
  <2>6. CASE FlushLock(t) \/ UncacheLock(t) \/ Flush(t) \/ Uncache(t)
    BY <2>1, <2>6, WriteLockInv, FlushUncacheInv
  <2> QED BY <1>3, <2>2, <2>3, <2>4, <2>5, <2>6 DEF RunJob, Continue
<1> QED BY <1>1, <1>2, <1>3 DEF Next

(* The invariant of the shared coins, for every tree, every number of      *)
(* threads and of jobs.                                                    *)
THEOREM DBInvariance == Spec => []DBInv
BY InitInv, NextInv, PTL DEF Spec

(* CoinsDB always shows the coins of its best block, however the threads   *)
(* that read, validate, commit, flush and Uncache interleave.              *)
THEOREM DBCoinsMatchBestBlock == Spec => []CoinsMatchBestBlock
<1>1. DBInv => CoinsMatchBestBlock
  BY DEF DBInv, CacheRight, CoinsMatchBestBlock
<1> QED BY <1>1, DBInvariance, PTL

(* Views and attached spans are snapshots (CoinsDBView, CoinsDBSpan).      *)
THEOREM DBViewsAreSnapshots == Spec => []ViewsAreSnapshots
<1>1. DBInv => ViewsAreSnapshots
  <2> SUFFICES ASSUME DBInv, NEW t \in Threads
               PROVE  /\ pc[t] \in {"view", "validate", "undo", "commit", "upgraded"} =>
                           base[t] = hashBlock
                      /\ value[t] # None => value[t] = Utxo[base[t]][at[t]]
    BY DEF ViewsAreSnapshots
  <2>1. value[t] # None => /\ pc[t] \in Reads /\ at[t] \in Outpoints /\ ~mCache[at[t]].has
                           /\ value[t] = coinsDB[at[t]]
    BY DEF DBInv, FetchRight, TypeOK
  <2>2. value[t] # None => value[t] = Utxo[base[t]][at[t]]
    BY <2>1, ReadRight
  <2> QED BY <2>2 DEF DBInv, BlockRight
<1> QED BY <1>1, DBInvariance, PTL

(* The assertions of CoinsDB::GetCoin, BatchWrite and ConnectTip hold; in  *)
(* particular TryFlush is never refused.                                   *)
THEOREM DBAssertionsHold == Spec => []AssertionsHold
<1>1. DBInv => AssertionsHold
  <2> SUFFICES ASSUME DBInv, NEW t \in Threads
               PROVE  /\ value[t] # None => ~mCache[at[t]].has
                      /\ pc[t] = "upgraded" =>
                           \A o \in Outpoints : ~FreshMisapplied(mCache[o], span[t][o])
                      /\ t \notin refused
    BY DEF AssertionsHold
  <2>1. value[t] # None => ~mCache[at[t]].has
    BY DEF DBInv, FetchRight
  <2>2. ASSUME pc[t] = "upgraded", NEW o \in Outpoints
        PROVE  ~FreshMisapplied(mCache[o], span[t][o])
    <3>1. base[t] = hashBlock /\ Sound(mCache[o], coinsDB[o])
          /\ Seen(mCache[o], coinsDB[o]) = Utxo[base[t]][o] /\ Sound(span[t][o], Utxo[base[t]][o])
      BY <2>2 DEF DBInv, BlockRight, SpanRight, SpanOf, CacheRight, View
    <3> QED BY <3>1, FreshApplies
  <2> QED BY <2>1, <2>2 DEF DBInv, LockRight
<1> QED BY <1>1, DBInvariance, PTL
=============================================================================
