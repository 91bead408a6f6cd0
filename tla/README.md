# A verification of the Bitcoin SV node in TLA+

This directory models the parts of the node whose correctness depends on the
order in which threads, blocks and operator commands arrive. It holds the TLA+
modules, the TLC configurations that check them on small instances, and TLAPS
proofs of what matters most for every instance. `PROJECT.json` lists for every
definition the lines of the source it stands for, and for every hazard the
properties that would catch it.

To run everything: `tlc -config <X>.cfg <MC module>` for each configuration in
the table of runs below, and `tlapm <X>Proofs.tla` for the eight proof modules
(up to half an hour each, from nothing).

## 1. The system

The node (`src/src`) keeps a tree of block headers, decides which branch is the
best valid chain, keeps the set of unspent outputs (coins) of that chain, a pool
of unconfirmed transactions, and talks to peers, miners and operators.

| Part | State | Operations that change it | Interacts with |
| --- | --- | --- | --- |
| Block index and chain state (`validation.cpp`, `block_index.*`, `chain.*`) | `mapBlockIndex` with a status per block, `setBlockIndexCandidates`, `mapBlocksUnlinked`, `chainActive`, sequence numbers, blocks in validation | headers and blocks received, activation of the best chain, the block RPCs, pruning | everything |
| Script check queue pool (`checkqueuepool.h`, `checkqueue.h`) | idle and running queues, cancellation | take a queue, steal one, run checks | activation |
| Coins database (`txdb.*`, `coins.*`) | cache, provider, best block, mutex | attach, detach, flush, uncache | activation, transaction validation |
| Upgradable mutex (`write_preferring_upgradable_mutex.*`) | lock counter, pending writers | read, write, upgrade, downgrade, release | coins database |
| Soft consensus freeze, soft rejection (`block_index.h`, `frozentxo*`) | marks on blocks | validation, `softrejectblock`, `acceptblock` | activation |
| Flush and recovery (`validation.cpp`, `txdb.cpp`) | dirty sets, coins batches, head blocks marker | flush, crash, replay | coins, block index, block files |
| Block files, pruning (`block_file_*`, `disk_block_*`) | files and what they hold | append, prune | block index |
| Mempool, journal, block assembler (`txmempool.*`, `mining/`) | entries, groups, journal | add, remove, evict, reorganize, assemble | activation, miners |
| Transaction validator, orphans, double spends (`txn_validator.*`, `orphan_txns.*`, `txn_double_spend_detector.*`) | queues, known spends, orphans | schedule, validate, commit, retry | mempool, coins, peers |
| Validation scheduler, thread pool (`validation_scheduler.*`, `threadpool.h`) | graph of dependent transactions | schedule, finish | transaction validator |
| Time-locked mempool (`time_locked_mempool.*`) | non-final transactions | add, replace, finalise, expire | mempool |
| Block download tracker (`net/block_download_tracker.*`) | blocks in flight per peer | request, receive, time out | peers |
| Safe mode (`safe_mode.*`) | tracked forks and a level | new or removed forks | block index |

The script interpreter, the consensus rules on single blocks, the wallet, the
servers and the vendored libraries are sequential functions, clients or I/O;
section 7 says how they are treated.

What makes the core hard:

* **cs_main is released in the middle of connecting a block.** Several threads
  validate competing blocks while others accept blocks, move the tip or execute
  `invalidateblock`. What was read before the scripts were checked is used after.
* **Threads give up in favour of each other.** An activation ends when another
  thread validates a block on its way, or enough siblings; a validation is
  cancelled when its script check queue is needed for a better block. A block
  must not be forgotten between them, and they must not do so for ever.
* **Blocks arrive in any order**, headers before or with them, twice, unasked,
  and again after they were pruned.
* **Five independent marks exclude a block** (failed, failed parent, soft
  rejected, soft consensus frozen, no data). Each has its own operations, its
  own inheritance by descendants and its own way of leaving the active chain.
* **A read lock is upgraded to a write lock** while others wait for either.
* **Coins are kept in three layers** (span, cache, database) that tell each other
  by flags what they know. A coin is read from the database outside the mutex of
  the cache, and a span is detached from the cache while scripts are checked.
* **The disk is written in several steps**: block files, block index, coins in
  several batches. A crash may come between any two of them, and again during
  the recovery.
* **Transactions pay for each other.** The split of the mempool into one that is
  mined and one that waits depends on sums over groups of ancestors, which blocks,
  evictions and operators take apart; a journal repeats it for the miners, late.
* **Transactions that depend on or exclude each other are validated in
  parallel**, out of several queues, with retries and time limits.

## 2. Modules

| Module | Models |
| --- | --- |
| `BlockTree` | the constant tree of headers: parents, ancestors, work, addresses |
| `BlockIndex` | `CBlockIndex`: status, sequence number, validation time, soft rejection, freeze; the work comparator |
| `ChainState` | acceptance of blocks, candidates, activation by several threads, queue pool, the block RPCs; its properties |
| `SharedMutex` | abstract: a shared lock with upgrades |
| `WPUSMutex` | the write-preferring upgradable shared mutex; its properties; implements `SharedMutex` |
| `CoinsStore` | one entry of a coins cache: `AddCoin`, `SpendCoin`, `BatchWrite`, the DIRTY and FRESH flags |
| `BlockCoins` | what connecting, undoing and replaying a block does to an entry |
| `CoinsDB` | concurrent views, spans, flushes and `Uncache` on top of `SharedMutex`; its properties |
| `DurableCoins` | abstract: the coins of a tip, and the block a restart begins from |
| `ChainstateDB` | the coins and index on disk, `FlushStateToDisk`, crashes, start-up with `ReplayBlocks`; implements `DurableCoins` |
| `Mempool` | primary and secondary mempool, CPFP groups, blocks and reorganizations, journal and change sets; its properties |
| `ValidationScheduler` | the scheduler of dependent transactions |
| `TxnValidator` | the queues, batches and threads of the transaction validator with detector, orphans and recent rejects; its properties |
| `MCChainState`, `MCWPUSMutex`, `MCCoinsDB`, `MCChainstateDB`, `MCMempool`, `MCTxnValidator` | small instances for TLC |
| `ChainStateProofs` | facts on trees (ancestors form a chain, walks down a chain end); invariance of `ChainState`, how the tip moves, validations |
| `ChainTipProofs` | soft rejection, links between blocks, the choice of the tip, frozen tips |
| `WPUSMutexProofs` | invariance, the safety theorems and the refinement of the mutex |
| `BlockCoinsProofs` | what the operations on cache entries preserve and compute |
| `CoinsDBProofs` | invariance and the safety theorems of `CoinsDB` |
| `ChainstateDBProofs` | the steps of a running node, the steps of a start-up, and from both the theorems of `ChainstateDB` |
| `TxnValidatorProofs` | the order of validation, the count of tasks and the retry of orphans in `TxnValidator` |
| `TxnConflictProofs` | the double spend detector and the mempool of `TxnValidator` |

How they fit together: `ChainState` extends `BlockIndex`, which extends
`BlockTree`: an operation on an entry is an operator of `BlockIndex`, and the
handler that calls it is an action of `ChainState`. `CoinsDB` and `ChainstateDB`
extend `BlockCoins`, which extends `CoinsStore` and `BlockTree`. `CoinsDB` uses
the actions of `SharedMutex`, and `WPUSMutex` is shown to implement it, so that
the lock of the code may stand in its place. `CoinsDB` and `ChainstateDB` look at
the same code from two sides: `CoinsDB` has threads and flushes in one step,
`ChainstateDB` has no threads (all its operations hold `cs_main`) and takes the
flush apart. Both leave open which block is connected next, which `ChainState`
decides. `TxnValidator` extends `ValidationScheduler`.

### ChainState and the code

A thread is a message handler, a validation thread or an RPC call. A section
under `cs_main` is an action. A long section is cut where the code has a loop;
the lock stays with the thread (`csMain`), so nobody sees the difference.

| `pc` of a thread | The code is |
| --- | --- |
| `idle` | outside |
| `accept` | between the checks without `cs_main` and `AcceptBlock` |
| `activate` | at the head of the loop of `ActivateBestChain` |
| `find` | in `FindMostWorkChain`, with `cs_main` |
| `check` | at the tests for ancestors and siblings in validation |
| `step` | in `ActivateBestChainStep`, with `cs_main` |
| `getChecker`, `waitChecker` | in `CCheckQueuePool::GetChecker` |
| `scripts` | checking scripts with a queue of the pool |
| `relock` | done with the scripts, about to take `cs_main` again |

| Actions | Code |
| --- | --- |
| `AcceptBlockHeader`, `ReceiveBlock`, `AcceptBlock*` | `AcceptBlockHeader`, `ProcessNewBlock...`, `AcceptBlock` with its early returns, `ReceivedBlockTransactions` |
| `EnterLoop`, `NoCandidate`, `FindMostWork*`, `GiveUp`, `StartStep` | the loop of `ActivateBestChain`, `FindMostWorkChain`, `ConsiderBlockForMostWorkChain` |
| `DisconnectTip`, `NothingToConnect`, `StartConnectTip` | `ActivateBestChainStep`, `ConnectTip` up to the scripts |
| `GetChecker`, `ObtainChecker`, `CheckScripts` | the queue pool and `checkScripts` |
| `ConnectTip`, `AttachmentCancelled`, `ValidationCancelled`, `ConnectTipFailed` | the ways `ConnectTip` and the step end, with `PruneBlockIndexCandidates`, `InvalidBlockFound` and the removal of frozen tips |
| `InvalidateBlock`, `ReconsiderBlock`, `SoftRejectBlock`, `AcceptSoftRejectedBlock`, `PreciousBlock`, `PruneBlockFiles` | the RPCs of the same names |

`invalidateblock` and a `softrejectblock` that moves the tip activate the best
chain while their caller holds the recursive `cs_main` (`nested`): for them
releasing it inside `ConnectTip` frees nothing.

Abstractions of data: a block is a model value; the verdicts of the sequential
checks are the constants `BadContext`, `BadScripts`, `FrozenSpend` and
`BadTTOR`. Validation times are ordinals. The cumulative freeze of a block is
computed from the explicit marks of its ancestors. Candidates are a set, not a
balanced tree. When several running validations have the least work, the pool
prefers by start time and the model takes any of them. Failures of `CheckBlock`
and of BIP30 inside `Connect` happen before `cs_main` is released and have the
outcome of a bad script: they are part of `BadScripts`. A failure of `CheckBlock`
before `AcceptBlock` changes nothing and is no action.

### WPUSMutex and the code

`mMutex` is held from the beginning of an operation to its end or to the wait, so
each such section is an action (`ReadLock`, `WriteLock`, `TryWriteLockEnter` and
the `...Wake` actions after a wait, `Downgrade`, `Release`). `TryWriteLock` reads
`mWritePending` before it takes `mMutex`: that test is an action of its own.
`asleep` is the wait set of the condition variable, `SpuriousWake` its freedom.
`fresh` is a ghost: nobody else wrote since the thread took its lock. A caller
whose upgrade failed only releases its lock, and a thread that wants the write
lock does not hold the read lock, as the header demands.

### CoinsDB and the code

`mCoinsViewCacheMtx` is held for the length of an action; the read of the database
between two such sections is an action of its own. The places of a thread:

| `pc` | The code is |
| --- | --- |
| `view` | reading through a `CoinsDBView` |
| `connect`, `validate` | in `ConnectTip` with `cs_main`; in `Connect` without it |
| `detached`, `attach` | after `ForceDetach`, before and after `cs_main` is taken again |
| `disconnect`, `undo` | in `DisconnectTip` and `ApplyBlockUndo`, with `cs_main` |
| `commit`, `upgraded`, `close` | in `TryFlush` before and after the upgrade, and at the end of the span |
| `flush`, `flushing`, `uncache`, `uncaching` | in `Flush` and `Uncache`, waiting for and holding the write lock |

A coin is represented by the block that created it, which is what the code can
get wrong: two branches may create the same output at different heights. The
transactions of a block are the sets of outputs it spends and creates. The flags,
the special cases for coinbases and the `logic_error`s of `coins.cpp` are there.

### ChainstateDB and the code

`phase` is the stage of the process: `up`; `index`, `coins`, `batch` while
`FlushStateToDisk` writes the block index and then the coins; `exit`; `down`;
`replay`, `rollback`, `forward`, `tip` while it starts; `failed` when the start-up
gives up. Block files, block index, coins, best block and head blocks on disk are
variables of their own, and a crash forgets everything else. The order of writes
is that of `FlushStateToDisk`; a partial batch writes any subset of the coins,
because the batches are cut by size. LevelDB batches are taken to be atomic and
durable once written with sync, which the code relies on.

### Mempool and the code

An action is a section under `smtx`. The work on the pool is a record that the
operators named after the code (`AddUnchecked`, `TryAccept`, `RemoveFromPrimary`,
`RemoveStaged`, `RemoveForBlock`, ...) transform, with the operations on the
journal in `ops`. A change set belongs to the validator's batch, to an RPC or to
the activation of a chain (`Owner`), and is applied when the code applies it: at
the end of a batch, when the RPC returns (after `cs_main` was released), at the
end of an activation step. Fees are abstracted to what a transaction pays above
what its size requires (`Surplus`), so sums of fees and sizes are one sum.

### ValidationScheduler, TxnValidator and the code

A batch of the validator thread is `StartBatch`, the steps of the threads
(`stage` of a position: `ready`, `detect`, `commit`, `finish` or `reject`, `over`),
`TrimMempool` and `EndBatch`. The scheduler runs beside them and hands out tasks,
single transactions or chains. The steps of a thread are cut where it takes a lock
that others contend for: the detector, the mempool, the orphan pool.
`cs_main` is held during a batch (`threadNewTxnHandler`), so blocks, RPC
submissions and leaving peers come between batches. `txs[i]` may be the same
transaction for two positions: the code shares the object, and the model shares
its flags.

## 3. Runs

| Run | Configuration, module | Instance | States |
| --- | --- | --- | --- |
| `wpus_mutex` | `WPUSMutex.cfg`, `MCWPUSMutex` | 4 threads; fairness | 33,843 |
| `chain_activation` | `ChainActivation.cfg`, `MCChainState` | 2 threads, 1 queue, two branches of equal work, one invalid block; fairness | 113,754 |
| `chain_invalidate` | `ChainInvalidate.cfg`, `MCChainState` | 2 threads, 1 queue, a branch of two blocks and one of one; `invalidateblock` and `reconsiderblock`, a block out of order; symmetric threads | 321,108 |
| `chain_operator` | `ChainOperator.cfg`, `MCChainState` | 1 thread, two unequal branches; pruning, soft rejection, invalidation, a frozen spend, a bad context | 544,637 |
| `chain_freeze` | `ChainFreeze.cfg`, `MCChainState` | 1 thread, a branch of two frozen blocks with two ends, one invalid, and a branch of one; `preciousblock`, `invalidateblock`, soft rejection | 573,937 |
| `coins_db` | `CoinsDB.cfg`, `MCCoinsDB` | 3 threads, 3 jobs, 2 outputs, a branch of two blocks and one of one; fairness | 91,123 |
| `chainstate_db` | `ChainstateDB.cfg`, `MCChainstateDB` | the same tree, 3 outputs, pruning, `invalidateblock`, 2 crashes; fairness | 268,659 |
| `mempool` | `Mempool.cfg`, `MCMempool` | 5 transactions, every legal block of up to 3 of them, 2 blocks at a time; all three owners | 620,320 |
| `txn_validator` | `TxnValidator.cfg`, `MCTxnValidator` | a parent and two conflicting children, a block, an RPC, one exception or cancellation, full pools; fairness | 208,729 |
| `finding_invalidate_race`, `finding_crash_invalidate`, `finding_orphan_twice` | `Finding*.cfg` | the smallest instance that shows the finding | - |

**wpus_mutex** shows that the writer is alone (`MutualExclusion`); that an
upgrade leaves no gap in which another writer runs (`SnapshotStable`), which is
what the coins database relies on between reading the best block and flushing;
that no wake-up is lost (`NoLostWakeup`); that readers do not starve a writer
(`WriteGranted`); that an upgrade always returns (`TryReturns`); and that the mutex
is a `SharedMutex` (`ImplementsSharedMutex`), in which an upgrade is refused only
because of another request. Four threads are the fewest with two upgrades, a
writer and a further reader at once.

**chain_activation** shows that the tip moves only along the tree, even if it
moved while scripts were checked (`ConnectExtendsTip`); that no block is validated
twice at once (`NoDoubleValidation`); that `nChainTx` is set for exactly the blocks
whose whole chain arrived (`LinkedIffReceived`); that when the threads are done
nothing better than the tip was left behind (`QuiescentTipIsBest`); and that they do
come to rest (`ActivationConverges`).

**chain_invalidate** shows `QuiescentTipIsBest` where blocks are invalidated and
reconsidered while another thread works, and that there is always a valid chain to
return to (`FallbackCandidate`).

**chain_operator** shows that `QuiescentTipIsBest` survives pruning and a second
download, soft rejection and its withdrawal and invalidation, in any order, also where no
candidate can be selected, and that `mapBlocksUnlinked` holds the right blocks
(`UnlinkedExact`).

**chain_freeze** lets a chain outgrow the freeze of its first two blocks at one
end and fail its scripts at the other, when the frozen blocks are connected
already. The active chain then does not rest in a frozen block
(`QuiescentTipNotFrozen`) and finds the way back to the best block
(`QuiescentTipIsBest`), also after `invalidateblock` of the good end and
`preciousblock`. The first frozen block is soft rejected before or after the
headers above it arrive: they inherit the rejection either way
(`SoftRejectInherited`).

**coins_db** shows that cache and database together are the coins of the best
block at every moment (`CoinsMatchBestBlock`), whoever reads, commits, flushes or
uncaches at the time; that a view sees one block as long as it is open and that a
coin read outside the mutex is still right when it enters the cache
(`ViewsAreSnapshots`); that `TryFlush` is never refused its upgrade and no
`assert` or `logic_error` of the coins code is reached (`AssertionsHold`); and that
nobody waits for ever, although `cs_main`, the lock of the database and
`mFetchingCoins` are taken in different orders (`JobsEnd`).

**chainstate_db** shows that the node implements `DurableCoins`
(`ImplementsDurable`): running, it sees the coins of its tip, and after a crash
those of the tip of the last flush that reached the disk, finished or not, never a
mixture, also when the recovery itself crashes. `CacheFlagsSound`: no operation
meets a FRESH or DIRTY flag that makes it lose or bring back a coin, and the undo
of a block is clean. `StartupFailureExplained`: a start-up gives up only because
of a pruned block or an invalidated best block, never because the coins name a
block the index does not know. `StartupEnds`: it ends.

**mempool** shows that what the pool holds can be mined (`PoolSpendable`); that
nothing in the primary mempool has a parent in the secondary one, and that the
grouping data of what waits is exact, but for two kinds of entries
(`SplitKept`): a child whose parent was mined in a block behind a transaction that
conflicts with the pool (`PassedOver`), and an entry that does not pay for itself
and waits below an ancestor an operator may prioritise (`LeftBehind`). The code
does leave these with old data: section 4, `FindingConflictFirst.cfg` and
`FindingPrioritise.cfg`. The run also shows that what is offered to miners pays,
alone or as a group, and groups are whole (`PrimaryPays`); that the counts the
chain limits use are right (`DepthExact`); and that the journal is the primary
mempool with parents before children, when nobody else has changes pending
(`JournalSynced`). It does so for every order in which a block may list the
transactions. What it leaves out is in section 4: owners that overlap, the fees of
`c` and `x`, transactions with two parents, and acceptance that is cut short by
the visit limit.

**txn_validator** shows that conflicting transactions never enter the mempool
together and nothing enters without its inputs (`PoolConsistent`), because the
detector holds the inputs of exactly the transactions between its test and the
end of their commit (`DetectorExact`); that nobody validates a child beside its
parent, and tasks are counted right (`ParentsFirst`); that an orphan whose inputs
are there is in a queue again (`OrphanRetried`); and that a transaction that ran
out of time does not wait for ever behind the others (`SlowProcessed`).

Every property of a passing run is violated when one definition is changed the
way a slip in the code would change it; these variants stand before the
definition they replace, marked "Mutant".

### Bounds

* Two branches of two blocks are the smallest tree with a reorganization of more
  than one block, an intermediate block on either side, and blocks that may
  arrive before their parent on both sides. Equal work exercises the comparator's
  tie breaks, unequal work a reorganization that ends below its candidate. With
  `invalidateblock` one branch of two blocks and one of one are enough: the
  invalidated block has a parent, a child and a competitor.
* One script check queue and two threads force the pool to cancel or to queue.
  With one thread several RPCs are combined in a run, except pruning with
  `preciousblock`, which are in separate runs (section 4); the races of an RPC with an
  activation are those of `chain_invalidate`.
* `MaxSeqId` ends pruning after blocks were linked a second time; `MaxPrecious`
  bounds the `preciousblock` calls without a growth of the chain in between. (The saturation of the reverse sequence number at
  `INT_MIN` is beyond any bound.)
* `TTORDistance`, `KeepBlocks` and `FreezeDuration` are 0 or 1 where the case
  must happen in so small a tree, and large where it must not.
* `coins_db`: three threads are the fewest with a reader, a block that commits and
  another block validated in parallel that loses the race. Three jobs let each
  thread do something; a job may be any of the five. The output `x` is created on
  both branches, so a coin of the wrong branch is noticed.
* `chainstate_db`: two crashes allow one in a flush and one in the recovery, and
  three outputs a batch cut in every way: two are created by both branches, one of
  them spent in the block that creates it, and one belongs to a coinbase. `MinBlocksToKeep`
  is 1 so that a tree of height two is pruned.
* `mempool`: the family has a parent that does not pay, a child that pays for
  both, a child that pays for itself, a grandchild and a conflict; blocks of three
  list them in every order that matters, and two blocks make a reorganization.
  `MaxVisited` is out of reach. `MaxChanges` bounds the operations in a change set,
  `MaxDisconnected` fills the disconnect pool, `MaxDelta` bounds fee deltas.
* `txn_validator`: every queue and pool has room for one transaction, so that
  limits are met in every order; a batch holds up to two, so a parent and a child,
  or two conflicting children, are validated side by side.
  `MaxUpsets` bounds exceptions and cancellations, which the code meets in
  unbounded number.

### Fairness

`LockFairness`: a thread that was notified runs, and a holder releases its lock,
because handles are scope guards; it is not assumed that anybody makes a request
or is woken for no reason. `FairSpec`: a thread inside `AcceptBlock` or
`ActivateBestChain` goes on, because script checks end and `cs_main` is always
released; nothing is assumed of blocks or RPC calls. Weak fairness of each
thread suffices for both. `ActivationConverges` is conditional on blocks and RPC
calls ceasing to come in.

`FairSpec` of `CoinsDB`: a thread that has begun a job goes on when it can; locks
are released by scope guards and database reads return; `JobsEnd` relies on the
bound on jobs where a fair `cs_main` would be needed otherwise. `FairSpec` of
`ChainstateDB`: a flush and a start-up that have begun go on, being loops of one
thread; crashes are not assumed to happen or to stop, they are bounded.
`Fairness` of `TxnValidator`: the validator thread and the scheduler go on, and of
the pool's threads that have something to do at least one does (tasks sit in one
queue that every thread serves); arrivals, blocks, exceptions and cancellations
are not assumed. `SlowProcessed` needs that cancellations are finitely many.

## 4. Findings

Three places where the code does not do what the repository says of it. Each is a
run that TLC ends with a short counterexample.

1. `finding_invalidate_race`: `invalidateblock` of a block whose scripts another
   thread is checking. When the validation ends, only the tip is compared
   (`validation.cpp:3068`); the block, marked failed, becomes the tip. The
   comment in `FindMostWorkChain` takes the active chain to be valid.
2. `finding_crash_invalidate`: `invalidateblock` marks blocks failed before the
   tip leaves them, and a flush writes the index before the coins. After a crash
   in between, the best block of the coins is a failed block and `LoadChainTip`
   refuses it on every start (`validation.cpp:6276`), although the flush at the
   end is there to "make sure all on disk data is consistent".
3. `finding_orphan_twice`: an orphan that runs out of time is put on the
   non-standard queue, and, if its parent was accepted in the same batch, retried
   as an orphan as well (`txn_validator.cpp:690`), against the comment before
   that. When one copy is rejected it releases the inputs the other one holds in
   the detector.

Nine more are stated by a property and refuted by a configuration that is not
among the runs (`tlc -config Finding<X>.cfg <MC module>`):

* `FindingReconsiderSibling.cfg`, `FailureHasSource`: `ResetBlockFailureFlags`
  clears the flags of ancestors (`validation.cpp:5104`), not those of their other
  descendants, which then have a failed-parent mark without a failed ancestor;
  `CheckBlockIndex` asserts that this cannot be.
* `FindingSoftRejectSelected.cfg`, `SoftRejectedNotSelected`:
  `ConsiderBlockForMostWorkChain` does not test soft rejection
  (`validation.cpp:4430`), so a soft rejected block that was just received and
  extends the tip is selected, against the help of `softrejectblock`. The next
  iteration disconnects it and the loop begins again with the same choice:
  `ActivationConverges` is violated in the same setting.
* `FindingFrozenTip.cfg`, `QuiescentTipNotFrozen`: `SoftRejectBlockNL` may leave
  the active chain in a soft consensus frozen block (`validation.cpp:4976`),
  although it claims to do what `InvalidateBlock` does, and that leaves frozen
  blocks.
* `FindingPreciousReset.cfg`, `QuiescentTipIsBest`: `PreciousBlock` starts its
  counter again when the chain has grown since the last call
  (`validation.cpp:4715`). A tip that is made precious once more can thereby lose
  its number -2 for -1, which a block of the same work may have from before; that
  block, no longer a candidate, then sorts before the tip if its address does,
  although `preciousblock` "treats a block as if it were received before others
  with the same work" (`rpc/blockchain.cpp:2428`).
* `FindingFrozenFallback.cfg`, `QuiescentTipIsBest`: while the tip is a soft
  consensus frozen block on the way to a longer chain, `cs_main` is released
  between two steps. `ReceivedBlockTransactions` makes a block that arrives then a
  candidate only if it is not worse than the frozen tip (`validation.cpp:5257`).
  If the longer chain turns out invalid, the activation goes back to the old tip
  (`validation.cpp:4320`), and a block that is better than that one but was worse
  than the frozen tip is no candidate. `PruneBlockIndexCandidates` takes care of
  the same situation: "Wait with the cleaning until the tip is back in the
  'guaranteed not soft rejected' zone" (`validation.cpp:4105`).
* `FindingPrioritise.cfg`, `AncestorsCounted`: when an operator lowers the fee
  of a transaction and it leaves the primary mempool, a child that was already
  waiting keeps its old grouping data, where `CheckMempoolImplNL` asserts the count
  of waiting ancestors (`txmempool.cpp:1350`).
* `FindingConflictFirst.cfg`, `SplitExact`: `RemoveForBlock` walks the block
  backwards and sorts the children of a mined transaction when it meets it. If a
  transaction earlier in the block conflicts with the payer of its group
  (`<<x, a>>`), the group is disbanded only then, and the mined transaction and its
  other child `c` move to the secondary mempool. `c` is in none of the sets that are
  updated at the end and waits with the debt of a parent that is gone, although
  the comment at `txmempool.cpp:1051-1053` says that such a child "needs to be
  updated". If `c` could pay for the parent (`Prioritised = {a, b, c}` in this
  configuration), the two form a group after the sorting, which keeps naming the
  mined transaction: the other case of the comment, and `PrimaryPays` is violated.
* `FindingJournalRace.cfg`, `JournalSynced`: the change set of
  `sendrawtransaction` is applied after `cs_main` was released
  (`rawtransaction.cpp:1572`); if the transaction is removed in between, the
  REMOVE reaches the journal before the ADD, and the journal keeps it.
* `FindingJournalOrder.cfg`, `JournalSynced`: the change set of an activation keeps
  the reason REORG for the blocks that are connected after the pool was rebuilt
  (`updateForReorg`, `journal_change_set.h:64`). When such a block takes the parent
  of a group, the rest of the group and its children leave the journal and are
  added again at the front. A transaction among them whose second parent stayed
  where it was (`DiamondParents`) then stands before that parent, where
  `checkJournalNL` reports an ancestor that does not appear before its descendant
  (`txmempool.cpp:1557`).

The settings of the passing runs stay clear of these. `chain_invalidate` has one
argument for `invalidateblock` and `reconsiderblock`: with a block and its child,
`reconsiderblock` of a child that is known only by its header clears the parent's
flags without making the parent a candidate, and `QuiescentTipIsBest` fails.
`chain_operator` and `chain_freeze` do not check `FallbackCandidate`, and
`chain_operator`, which soft rejects a block above a frozen one, not
`QuiescentTipNotFrozen`, because of the soft rejections above. No
passing run combines pruning with `preciousblock`: a precious tip that is pruned
and received again gets a new sequence number, so another precious block of the
same work, no longer a candidate, sorts before it. No passing run prunes a frozen
block below a chain that fails its scripts: the return to the old tip disconnects
the frozen block, which cannot be connected again without its data, and
`QuiescentTipIsBest` fails. In `mempool` owners do not
overlap (`Overlaps`), and every transaction but `c` and the conflicting `x` is
prioritised: a group that names a mined transaction holds an iterator that is no
longer valid, and what the code does next is not defined. `SplitKept` excepts the
entries of `FindingConflictFirst.cfg` and `FindingPrioritise.cfg` by name, so the
blocks and fee changes that lead to them are part of the run. No transaction of
its family has two parents. In
`txn_validator` only the parent may run out of time, which is no orphan.

Observations on the way, about which the repository says nothing definite:

* `TryAcceptToPrimaryMempoolNL` stops after `MAX_NUMBER_OF_TX_TO_VISIT_IN_ONE_GO`
  transactions and leaves the grouping data of the rest as it was, on purpose
  (`txmempool.cpp:464-465`); with `MaxVisited = 1` `SplitKept` is violated. The run
  has `MaxVisited = 10`, which its five transactions never reach: it speaks of
  acceptance that is not cut short.
* `MAX_SCAN_WINDOW` of the scheduler never limits a scan, because the position it
  is compared with moves along.
* An orphan whose parent arrives in a block or over RPC is not retried
  (`outside` in `OrphanRetried`).

## 5. Proofs

All proofs hold for every value of the constants that satisfies the named
assumptions: `TreeAssumption` (a finite tree, `Chain` the ancestors),
`WorkAssumption` (work grows along a chain, addresses differ),
`FreezeAssumption`, `ChainAssumption`, `ThreadsAssumption`, `SpentAssumption`,
`UtxoAssumption` (blocks are ones that `ConnectBlock` accepts, `Utxo` the coins
after a block), `CoinsDBAssumption`, `ChainstateAssumption`,
`SchedulerAssumption`, `TransactionAssumption` (finitely many transactions, each
with inputs; what is unspent exists), `MinedAssumption` (no transaction descends
from itself; the node starts with the unspent outputs of a chain) and
`LimitAssumption`. They only say that
the constants are of their kind; TLC evaluates them in every run. Some theorems
hold under a further condition, which their statement names.

`WPUSMutexProofs`: `LockMutualExclusion`, `LockSnapshotStable`,
`LockNoLostWakeup`, `LockFailedTryHasRival` and `LockTypeCorrect`, all from
`LockInvariance`. None of the properties is inductive by itself. The invariant
counts: `mLock` is -1 with exactly one write handle, or the number of read
handles; `mWritePending` is the number of threads inside `WriteLock` and
`TryWriteLock`. It relates calls to handles (who waits in `ReadLock` or
`WriteLock` holds nothing, who upgrades holds a read lock). The counting is
why `TryWriteLock` may conclude from `mLock = 1` that it is the only reader, and
why `LockRefinement` holds: each section under `mMutex` is a step of `SharedMutex`
or changes nothing a user sees.

`ChainStateProofs`: `ChainConnectExtendsTip`, `ChainNoDoubleValidation` and
`ChainTypeCorrect`, all from `ChainInvariance`. The invariant `Inv` adds to
the types and the property itself:

* `IndexInv`: the index is closed under parents, and the genesis block is never
  rejected or frozen, so that leaving such blocks always ends;
* `ThreadInv`: a thread has `cs_main` wherever the code has it; the block it
  connects lies on the way to its goal and its parent is the base of its coins;
  without parallel mode the tip still is that base;
* `WayClear`: while a thread with `cs_main` moves towards a block, nobody
  validates a block on its way. `NoDoubleValidation` is not inductive without
  this: the test for ancestors in validation is made once per step
  and a step may connect several blocks.

The lemma `Frame` reduces the invariant to what a step of one thread has to
show about that thread; one lemma per group of actions shows it.
`ConnectExtendsTip` then follows from `TryReattach` in parallel mode and from
`ThreadInv` otherwise. The module begins with the facts on trees (ancestors are
linearly ordered, a set of blocks of a chain has a highest one, a walk down ends),
from the well-foundedness of the natural numbers.

`ChainTipProofs` builds on `Inv`.

* `ChainSoftRejectInherited` needs nothing more: `softrejectblock` and
  `acceptblock` refuse a block that is rejected for the sake of its parent, and the
  range of descendants they update covers those they count.
* `ChainLinkedIffReceived` and `ChainUnlinkedExact` come from `LinkInvariance`, if
  nothing is invalidated by RPC and nothing is pruned
  (`NeitherInvalidatedNorPruned`). `LinkInv` says that the linked blocks are those
  whose whole chain has data, and that a received block that is not linked waits in
  `mapBlocksUnlinked` or has a failed ancestor whose data never came (`Barred`):
  `AcceptBlock` does not store below a failed header, and without this a block
  that is not in the map could be needed later.
* The theorems on the tip are for nodes that receive blocks, good or bad, in any
  order, with any number of threads, queues and parallel validations, and call
  `preciousblock` no more than once between two extensions of the chain
  (`BlocksAndPrecious`: no invalidation, pruning or soft rejection by RPC). They
  share `MarkInvariance`: `MarkInv` says that a linked block is marked as failed only
  if its chain has wrong scripts (`MarkedBad`), that only blocks which spend frozen
  outputs are frozen (`FreezeRight`), that a validation reports what the scripts are
  (`OutcomeRight`), that no block is numbered below -1 (`SequenceInv`), and that the
  scripts of the active chain are right and its frozen blocks known (`TipGood`). They
  also share the classification of steps (`NextKinds`): a step keeps the rank of
  every linked block (`KeepStep`), or moves one block up (`ImproveStep`).
* `ChainQuiescentTipIsBest` and `ChainFallbackCandidate` come from
  `BestInvariance`, if in addition no block spends frozen outputs
  (`FrozenSpend = {}`, which `FindingFrozenFallback.cfg` shows to be needed).
  `BestInv` says that among the candidates there always is a `Reference`: a block
  not worse than the tip, without wrong scripts in its chain, such that every linked
  clean block not worse than it is a candidate (`RankInv`); and that the tip is best
  whenever no activation is under way. Half way through a reorganization the tip
  is worse than before, and better blocks must not have been dropped from the
  candidates: this is what the reference is for. The last activation ends only after it
  found no better block (`FinishesBest`): who gives up for the validation of another
  thread leaves that one active (`GiveUpNotSettled`), and who finds a queue taken or
  the tip moved goes on (`ActivationNotSettled`).
* `ChainQuiescentTipNotFrozen` comes from `FreezeInvariance`, for any blocks that
  spend frozen outputs and any `FreezeDuration`. A tip may be frozen while an
  activation is under way, so the property is not inductive. `FreezeInv` says that
  some candidate always is a `Fallback`: without wrong scripts in its chain, not
  frozen, and not worse than any block of the active chain that is not frozen.
  `FindMostWorkChain` therefore always finds a candidate that is not frozen, and
  when that is the tip the tip is not frozen (`FinishesUnfrozen`). TLC checked
  `FreezeInv` beforehand, with what it needs of `MarkInv`, on the blocks of
  `FindingFrozenFallback.cfg` (8,957,708 states).

`BlockCoinsProofs`: an entry is `Sound` over a coin if its flags tell the truth
about the layer below. Every operation of `CoinsStore` keeps that; writing a sound
entry down a layer shows the same coin; connecting a block in a sound cache gives
the coins of the block, undoing it those of its parent, and rolling it forward
over any mixture of old and new coins those of the goal.

`CoinsDBProofs`: `DBCoinsMatchBestBlock`, `DBViewsAreSnapshots` and
`DBAssertionsHold` from `DBInvariance`. The invariant `DBInv` says for each place
of a thread what it holds (`LockRight`, `MainRight`), that a coin is fetched by one
thread at a time and does not change meanwhile (`FetchRight`), that the base of an
open view is the best block (`BlockRight`), that a span holds what it read and,
once the block is applied, turns the coins of its base into those of its target
(`SpanRight`), and that the cache is sound and shows the best block (`CacheRight`).
A span that was detached keeps what it knows of its base; `TryReattach` compares
the base with the best block, and the commit then is right. `SpanFrame` reduces
`SpanRight` to the thread that moves. That the lock is `SharedMutex` is justified
by `LockRefinement`.

`ChainstateDBProofs`, one lemma per action and then the theorems:
`FlagsAlwaysSound` and `ChainstateImplementsDurable` from
`CoinsInvariance`. The invariant `CoinsInv` says that each of the layers span,
cache, batch, database is sound over the next (`LayersSound`), which of them are
empty in which phase (`Stages`), that what is seen is the coins of the tip, or in a
replay for each output the coin of the block reached or already that of the goal
(`RightCoins`), that the database holds the coins of one block or, while the head
blocks are recorded, for each output the coin of one of the two (`DiskCoins`), and
that undo data holds the coins of the parent (`RightUndo`). The refinement maps
every step of a flush but the first that reaches the disk to a stutter, and a
start-up to one step `Recover`. `StartupFailuresExplained` needs `StartInv` in
addition: the index on disk knows each block the coins on disk may name, because
`FlushStateToDisk` writes it first (`KnownBlocks`); what a replay would roll back
has undo data unless it was pruned with its block (`UndoKept`); and the replay
stays between the old tip, the fork and the new tip (`ReplayPath`).

`TxnValidatorProofs`: `ValidatorParentsFirst`, for every set of transactions, size
of batch and number of threads, also for batches that hold a transaction twice.
`SchedInv` says that each position of a task has its parents through or earlier in
the same task (`TaskInv`), that a position counted as done is through and one
counted as started is through or in a task (`StatusRight`), and that before
`posUnhandled` everything was started (`ScheduleInv`); the scheduler may therefore
stop when nothing is left. The lemmas about sequences (`AtKeeps`, `ConcatRange`,
`SubSeqKeeps`, `VisitedKeeps`) say what taking from queues, sorting results and
collecting orphans keep.

`ValidatorOrphanRetried`, in the same module, holds without any condition on time
limits or repetitions. The property is about the time between batches; what
happens within one needs two invariants. `MinedInv`: the coins are what a chain with
some set of transactions, closed under parents, leaves unspent, none of these is in
the mempool, and a transaction past its checks has its inputs until it is committed.
A transaction that leaves the mempool therefore takes its outputs along
(`InputsGo`); that a new input is of a transaction which just entered is the lemma
`InputsCome`. `OrphanInv`: an orphan that has its inputs had news (a
parent that was accepted in this batch and is, or will be, among the data
collected, or one from outside), was given up, or waits in a queue or at positions
of the batch that are all still to be decided (`Pending`); and a transaction found
without an input has had news if the input is there now. So an orphan whose
parent is accepted by another thread between the check of its inputs and its
entry in the orphan pool is found by the retry. TLC checked both invariants
beforehand, on the run's instance and on one with a line of transactions and more
room in batches, mempool and orphan pool (2,994,837 states).

`TxnConflictProofs`: `ValidatorDetectorExact` and `ValidatorPoolConsistent` hold as
long as no batch has a transaction twice (`NoTwice`), the condition that the third
finding shows to be needed. `VectorRight` says how the detector's vector is
built, each transaction's inputs side by side and no outpoint twice, so that
`removeTxnInputs`, which searches for the first input only, removes the right
ones. `PoolInv` adds to `PoolConsistent` what a thread may rely on between its
checks and the commit: its inputs are still there, and no conflict entered the
mempool, because the detector holds the inputs of each transaction past it.
`ValidatorNoTwice` shows that the condition always holds if no validation runs out
of time (`Slow = {}`): a transaction on the standard queue is then nowhere else
(`TwiceInv`). `ValidatorUntimed` draws the conclusion without a condition on
behaviours.

## 6. Only model-checked

* `QuiescentTipIsBest` and `FallbackCandidate` with frozen outputs, and together
  with `QuiescentTipNotFrozen` with invalidation, pruning, soft rejection or several
  calls of `preciousblock`; `LinkedIffReceived` and `UnlinkedExact` with
  invalidation or pruning. They fail in parts of that setting (section 4), so that
  no simple condition is left to prove.
* `DetectorExact` and `PoolConsistent` where validations run out of time: then
  `NoTwice` is a condition of the theorems, and in `txn_validator` it holds because
  only the parent is slow.
* Everything about `Mempool`: its operators fold over sequences of transactions
  and follow descendants recursively, so that their effect would have to be proved
  by induction over data.

Liveness (`WriteGranted`,
`TryReturns`, `ActivationConverges`, `JobsEnd`, `StartupEnds`, `SlowProcessed`)
stays with TLC, as do statements with `ENABLED` and what needs induction over
data: the proof system does not reach them.

## 7. Not modelled

* In `ChainState`: failures that stop the node (`AbortNode` on disk errors) and
  shutdown tokens; `ChainState` starts when the genesis block is connected.
  `assumevalid` and verdicts "corruption possible", `pindexBestInvalid` and the
  warnings derived from it. The moment inside the freezing of a block when some
  descendants are updated and others are not. The order of the candidates as a
  balanced tree: the code changes the key of an element in place in one spot,
  which a set does not show. `pruneblockchain` prunes any subset of the prunable
  blocks because files in use are skipped.
* Script check queues: a script check is one step that ends. The master and the
  workers inside `CCheckQueue` are not modelled.
* In `CoinsDB` and `ChainstateDB`: scripts of coins that are loaded later and the
  size limits of the cache; the contents of block files (every block has a file of
  its own) and reindexing; torn writes, against which LevelDB's log is taken to
  protect.
* In `Mempool`: transactions stored on disk, frozen outputs, children of
  coinbases, the rolling minimum fee, expiry by time (it removes like an eviction),
  and the block assembler that reads the journal.
* In `TxnValidator`: the number of threads and the priorities of their queues, the
  expiry and hysteresis of the orphan pool, the synchronous validation of sets of
  transactions, the legacy scheduling by `CHAIN_DETECTOR`, non-final transactions,
  and the propagation to peers. Exceptions are thrown by the checks and by the
  commit, not between the commit and `collectTxData` (`validation.cpp:1809-1843`).
* The block download tracker and the state kept per peer: a protocol of its own,
  whose outcome for the rest is the order in which blocks arrive, and `ChainState`
  is checked for every order.
* The time-locked mempool, safe mode, double spend notifications, the Merkle tree
  store and the address manager: parts at the edge, under one lock each, on which
  nothing in the models depends.
* The script interpreter and the consensus rules on a single block, which are
  sequential functions of data, their verdicts being constants here; sockets,
  message encoding, RPC, REST and ZMQ servers, the wallet, and the vendored
  libraries, which are I/O, clients or third-party code.
