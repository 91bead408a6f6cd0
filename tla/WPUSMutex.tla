------------------------------ MODULE WPUSMutex ------------------------------
(***************************************************************************)
(* The write-preferring upgradable shared mutex that guards the coins      *)
(* database (src/src/write_preferring_upgradable_mutex.{h,cpp}).           *)
(*                                                                         *)
(* mMutex is held from the start of every operation to its return or to    *)
(* the wait on the condition variable mTryTakeLock, so each of those       *)
(* sections is one action.  The one step outside mMutex, the early test of *)
(* mWritePending in TryWriteLock, is an action of its own.                 *)
(***************************************************************************)
EXTENDS Integers, FiniteSets

CONSTANT Threads   \* lock users: each owns one WPUSMutex::Lock handle

ASSUME ThreadsAssumption == IsFiniteSet(Threads)

VARIABLES
  mLock,          \* -1: write lock held, 0: free, n > 0: n read locks
  mWritePending,  \* number of write requests that have not returned
  handle,         \* type of the thread's Lock handle
  call,           \* the operation the thread is in
  asleep,         \* threads waiting on mTryTakeLock and not notified since
  fresh           \* ghost: nobody else wrote since the thread took its lock

lockVars == <<mLock, mWritePending, handle, call, asleep, fresh>>

LockType == {"unlocked", "read", "write"}

(* "TryChecked" is between the early test of TryWriteLock and mMutex;      *)
(* "invalidated" is a handle whose TryWriteLock returned false: its owner  *)
(* is expected to release the read lock and do nothing else with it.       *)
Call == {"none", "ReadLock", "WriteLock", "TryChecked", "TryWriteLock", "invalidated"}

LockTypeOK ==
  /\ mLock \in Int
  /\ mWritePending \in Nat
  /\ handle \in [Threads -> LockType]
  /\ call \in [Threads -> Call]
  /\ asleep \subseteq Threads
  /\ fresh \in [Threads -> BOOLEAN]

LockInit ==
  /\ mLock = 0
  /\ mWritePending = 0
  /\ handle = [t \in Threads |-> "unlocked"]
  /\ call = [t \in Threads |-> "none"]
  /\ asleep = {}
  /\ fresh = [t \in Threads |-> TRUE]

-----------------------------------------------------------------------------
(* MakeReadLockHandle and MakeWriteLockHandle, assigned to t's handle.     *)
TakeRead(t, free) ==
  /\ mLock' = free + 1
  /\ handle' = [handle EXCEPT ![t] = "read"]

TakeWrite(t) ==
  /\ mLock' = -1
  /\ handle' = [handle EXCEPT ![t] = "write"]

(* mLock after ReleaseNL; the notify_all of ReleaseNL is asleep' = {}.     *)
Released == IF mLock = -1 THEN 0 ELSE mLock - 1

(* The wait loop goes back to sleep: its predicate is false.               *)
Sleep(t, c) ==
  /\ asleep' = asleep \union {t}
  /\ call' = [call EXCEPT ![t] = c]
  /\ UNCHANGED <<mLock, handle, fresh>>

Return(t) == call' = [call EXCEPT ![t] = "none"]

-----------------------------------------------------------------------------
(* Mutants of CanRead: readers beside a writer; readers ahead of writers.  *)
CanReadDuringWrite == mWritePending = 0
CanReadPastWriters == mLock >= 0

(* ReadLock on an unlocked handle.                                         *)
CanRead == mWritePending = 0 /\ mLock >= 0

ReadAttempt(t) ==
  /\ \/ /\ CanRead
        /\ TakeRead(t, mLock)
        /\ Return(t)
        /\ fresh' = [fresh EXCEPT ![t] = TRUE]
        /\ UNCHANGED asleep
     \/ ~CanRead /\ Sleep(t, "ReadLock")
  /\ UNCHANGED mWritePending

ReadLock(t) ==
  /\ call[t] = "none" /\ handle[t] = "unlocked"
  /\ ReadAttempt(t)

ReadLockWake(t) ==
  /\ call[t] = "ReadLock" /\ t \notin asleep
  /\ ReadAttempt(t)

(* ReadLock on a write handle: the write -> read transition.               *)
Downgrade(t) ==
  /\ call[t] = "none" /\ handle[t] = "write"
  /\ TakeRead(t, Released)
  /\ asleep' = {}
  /\ UNCHANGED <<mWritePending, call, fresh>>

-----------------------------------------------------------------------------
(* WriteLock; pending counts this request (PendingGuard).                  *)
WriteAttempt(t, pending) ==
  \/ /\ mLock = 0
     /\ TakeWrite(t)
     /\ Return(t)
     /\ mWritePending' = pending - 1
     /\ fresh' = [fresh EXCEPT ![t] = TRUE]
     /\ UNCHANGED asleep
  \/ /\ mLock # 0
     /\ mWritePending' = pending
     /\ Sleep(t, "WriteLock")

(* The header asks that no read lock is held when it is requested.         *)
WriteLock(t) ==
  /\ call[t] = "none" /\ handle[t] = "unlocked"
  /\ WriteAttempt(t, mWritePending + 1)

WriteLockWake(t) ==
  /\ call[t] = "WriteLock" /\ t \notin asleep
  /\ WriteAttempt(t, mWritePending)

-----------------------------------------------------------------------------
(* TryWriteLock: the early test, without mMutex.                           *)
TryWriteLock(t) ==
  /\ call[t] = "none" /\ handle[t] = "read"
  /\ call' = [call EXCEPT ![t] =
                IF mWritePending # 0 THEN "invalidated" ELSE "TryChecked"]
  /\ UNCHANGED <<mLock, mWritePending, handle, asleep, fresh>>

(* Mutants of TryAttempt: upgrades beside other readers; gives up instead  *)
(* of waiting for them; waits for them although a WriteLock does, too.     *)
TryAttemptBesideReaders(t, pending) ==
  /\ mLock >= 1
  /\ TakeWrite(t)
  /\ Return(t)
  /\ mWritePending' = pending - 1
  /\ asleep' = {}
  /\ UNCHANGED fresh

TryAttemptNoWait(t, pending) ==
  IF mLock = 1 THEN TryAttemptBesideReaders(t, pending)
  ELSE /\ mWritePending' = pending - 1
       /\ call' = [call EXCEPT ![t] = "invalidated"]
       /\ UNCHANGED <<mLock, handle, asleep, fresh>>

TryAttemptStubborn(t, pending) ==
  IF mLock = 1 THEN TryAttemptBesideReaders(t, pending)
  ELSE mWritePending' = pending /\ Sleep(t, "TryWriteLock")

(* canTakeWriteLock and what follows the wait; pending counts this call.   *)
TryAttempt(t, pending) ==
  \/ /\ pending # 1
     /\ mWritePending' = pending - 1
     /\ call' = [call EXCEPT ![t] = "invalidated"]
     /\ UNCHANGED <<mLock, handle, asleep, fresh>>
  \/ /\ pending = 1 /\ mLock = 1
     /\ TakeWrite(t)
     /\ Return(t)
     /\ mWritePending' = pending - 1
     /\ asleep' = {}
     /\ UNCHANGED fresh
  \/ /\ pending = 1 /\ mLock # 1
     /\ mWritePending' = pending
     /\ Sleep(t, "TryWriteLock")

(* Mutant of TryWriteLockEnter: the request is not counted.                *)
TryWriteLockEnterUncounted(t) ==
  /\ call[t] = "TryChecked"
  /\ TryAttempt(t, mWritePending)

TryWriteLockEnter(t) ==
  /\ call[t] = "TryChecked"
  /\ TryAttempt(t, mWritePending + 1)

TryWriteLockWake(t) ==
  /\ call[t] = "TryWriteLock" /\ t \notin asleep
  /\ TryAttempt(t, mWritePending)

-----------------------------------------------------------------------------
(* Mutant of Release: notify_one instead of notify_all.                    *)
ReleaseNotifyOne(t) ==
  /\ call[t] \in {"none", "invalidated"} /\ handle[t] # "unlocked"
  /\ mLock' = Released
  /\ handle' = [handle EXCEPT ![t] = "unlocked"]
  /\ call' = [call EXCEPT ![t] = "none"]
  /\ IF asleep = {} THEN asleep' = asleep ELSE \E u \in asleep : asleep' = asleep \ {u}
  /\ UNCHANGED <<mWritePending, fresh>>

Release(t) ==
  /\ call[t] \in {"none", "invalidated"} /\ handle[t] # "unlocked"
  /\ mLock' = Released
  /\ handle' = [handle EXCEPT ![t] = "unlocked"]
  /\ call' = [call EXCEPT ![t] = "none"]
  /\ asleep' = {}
  /\ UNCHANGED <<mWritePending, fresh>>

(* The owner of the write lock changes what the lock protects.             *)
Modify(t) ==
  /\ call[t] = "none" /\ handle[t] = "write"
  /\ fresh' = [u \in Threads |-> u = t]
  /\ UNCHANGED <<mLock, mWritePending, handle, call, asleep>>

(* A condition variable may wake a thread for no reason.                   *)
SpuriousWake(t) ==
  /\ t \in asleep
  /\ asleep' = asleep \ {t}
  /\ UNCHANGED <<mLock, mWritePending, handle, call, fresh>>

LockStep(t) ==
  \/ ReadLock(t) \/ ReadLockWake(t) \/ Downgrade(t)
  \/ WriteLock(t) \/ WriteLockWake(t)
  \/ TryWriteLock(t) \/ TryWriteLockEnter(t) \/ TryWriteLockWake(t)
  \/ Release(t) \/ Modify(t) \/ SpuriousWake(t)

LockNext == \E t \in Threads : LockStep(t)

LockSpec == LockInit /\ [][LockNext]_lockVars

(* A thread that was notified, or that is inside an operation, runs on;    *)
(* handles are scope guards, so a holder releases.  Nothing is assumed of  *)
(* new requests or of spurious wake-ups.                                   *)
LockFairness ==
  \A t \in Threads :
    /\ WF_lockVars(ReadLockWake(t))
    /\ WF_lockVars(WriteLockWake(t))
    /\ WF_lockVars(TryWriteLockEnter(t))
    /\ WF_lockVars(TryWriteLockWake(t))
    /\ WF_lockVars(Release(t))

LockFairSpec == LockSpec /\ LockFairness

-----------------------------------------------------------------------------
(* A write lock excludes every other lock: read handles and the write      *)
(* handle never coexist, however upgrades, downgrades and releases race.   *)
MutualExclusion ==
  \A t, u \in Threads :
    handle[t] = "write" /\ u # t => handle[u] = "unlocked"

(* What a thread saw when it took its lock is still what is there, also    *)
(* after TryWriteLock turned its read lock into a write lock: the upgrade  *)
(* leaves no gap in which another writer runs.                             *)
SnapshotStable ==
  \A t \in Threads : handle[t] # "unlocked" => fresh[t]

(* No wake-up is lost: a thread sleeping on mTryTakeLock waits for a lock  *)
(* that somebody else holds or for a write request that is still pending,  *)
(* so a notify_all is still to come.  A sleeping TryWriteLock may have     *)
(* missed that a WriteLock overtook it, but then another reader is left.   *)
NoLostWakeup ==
  \A t \in asleep :
    /\ call[t] = "ReadLock" => ~CanRead
    /\ call[t] = "WriteLock" => mLock # 0
    /\ call[t] = "TryWriteLock" => mLock >= 2

(* An upgrade fails only because of somebody else's write request: when    *)
(* TryWriteLock returns false, another thread is inside WriteLock or       *)
(* TryWriteLock.                                                           *)
FailedTryHasRival ==
  [][\A t \in Threads :
       call[t] # "invalidated" /\ call'[t] = "invalidated"
         => \E u \in Threads \ {t} : call'[u] \in {"WriteLock", "TryWriteLock"}]_lockVars

(* WriteLock is not starved by readers: once requested, a write lock is    *)
(* granted (to this request or to another one).                            *)
WriteGranted ==
  \A t \in Threads :
    call[t] = "WriteLock" ~> \E u \in Threads : handle[u] = "write"

(* TryWriteLock always returns: it either upgrades or gives up, also when  *)
(* a WriteLock arrives while it waits for the other readers.               *)
TryReturns ==
  \A t \in Threads :
    call[t] = "TryWriteLock" ~> call[t] # "TryWriteLock"

Promised == INSTANCE SharedMutex WITH
  held <- handle,
  wanting <- {t \in Threads : call[t] \in {"WriteLock", "TryWriteLock"}},
  refused <- {t \in Threads : call[t] = "invalidated"}

(* The mutex implements SharedMutex: the counters, the wait loops and the  *)
(* early test outside mMutex grant and refuse exactly what the abstract    *)
(* lock allows, in particular a read lock never while a write request is   *)
(* pending, and a refusal never without a rival.                           *)
ImplementsSharedMutex == Promised!MutexSpec
=============================================================================
