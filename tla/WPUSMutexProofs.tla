-------------------------- MODULE WPUSMutexProofs --------------------------
(***************************************************************************)
(* WPUSMutex is correct for any finite set of threads: mutual exclusion,   *)
(* stable snapshots across upgrades, no lost wake-ups, and an upgrade      *)
(* fails only because of a rival write request; and it implements          *)
(* SharedMutex, the lock that CoinsDB is modelled with.                    *)
(***************************************************************************)
EXTENDS WPUSMutex, FiniteSetTheorems, TLAPS

(* Number of threads whose entry in f is one of P.                         *)
Count(f, P) == Cardinality({t \in Threads : f[t] \in P})

PendingCalls == {"WriteLock", "TryWriteLock"}

(* mLock says who holds the lock.                                          *)
LockCount ==
  /\ mLock >= -1
  /\ mLock = -1 => \E t \in Threads : handle[t] = "write"
  /\ mLock >= 0 => /\ \A t \in Threads : handle[t] # "write"
                   /\ mLock = Count(handle, {"read"})

(* mWritePending counts the requests inside WriteLock and TryWriteLock.    *)
PendingCount == mWritePending = Count(call, PendingCalls)

(* What an operation requires of its handle still holds while it waits.    *)
CallsMatchHandles ==
  \A t \in Threads :
    /\ call[t] \in {"ReadLock", "WriteLock"} => handle[t] = "unlocked"
    /\ call[t] \in {"TryChecked", "TryWriteLock", "invalidated"} => handle[t] = "read"

LockInv ==
  /\ LockTypeOK
  /\ LockCount
  /\ PendingCount
  /\ CallsMatchHandles
  /\ MutualExclusion
  /\ SnapshotStable
  /\ NoLostWakeup

-----------------------------------------------------------------------------
(* Counting threads.                                                       *)

(* A count of threads is a natural number.                                 *)
LEMMA CountFinite ==
  ASSUME NEW f, NEW P
  PROVE  /\ IsFiniteSet({t \in Threads : f[t] \in P})
         /\ Count(f, P) \in Nat
<1>1. {t \in Threads : f[t] \in P} \in SUBSET Threads
  OBVIOUS
<1>2. IsFiniteSet({t \in Threads : f[t] \in P})
  BY <1>1, FS_Subset, ThreadsAssumption
<1> QED
  BY <1>2, FS_CardinalityType DEF Count

(* The count is zero when no thread is counted, and only then.             *)
LEMMA CountZero ==
  ASSUME NEW f, NEW P
  PROVE  Count(f, P) = 0 <=> \A t \in Threads : f[t] \notin P
<1> DEFINE S == {t \in Threads : f[t] \in P}
<1>1. IsFiniteSet(S)
  BY CountFinite
<1>2. Cardinality(S) = 0 <=> S = {}
  BY <1>1, FS_EmptySet
<1> QED
  BY <1>2 DEF Count

(* The count is one and x is counted: nobody else is.                      *)
LEMMA CountOne ==
  ASSUME NEW f, NEW P, NEW x \in Threads, f[x] \in P
  PROVE  Count(f, P) = 1 <=> \A t \in Threads \ {x} : f[t] \notin P
<1> DEFINE S == {t \in Threads : f[t] \in P}
<1>1. IsFiniteSet(S)
  BY CountFinite
<1>2. Cardinality(S) = 1 <=> \E y : S = {y}
  BY <1>1, FS_Singleton
<1>3. x \in S
  OBVIOUS
<1>4. (\E y : S = {y}) <=> S = {x}
  BY <1>3
<1>5. S = {x} <=> \A t \in Threads \ {x} : f[t] \notin P
  BY <1>3
<1> QED
  BY <1>2, <1>4, <1>5 DEF Count

(* The same threads are counted.                                           *)
LEMMA CountSame ==
  ASSUME NEW f, NEW g, NEW P, \A u \in Threads : g[u] \in P <=> f[u] \in P
  PROVE  Count(g, P) = Count(f, P)
<1>1. {t \in Threads : g[t] \in P} = {t \in Threads : f[t] \in P}
  OBVIOUS
<1> QED
  BY <1>1 DEF Count

(* One more thread is counted.                                             *)
LEMMA CountUp ==
  ASSUME NEW f, NEW g, NEW P, NEW x \in Threads, f[x] \notin P, g[x] \in P,
         \A u \in Threads \ {x} : g[u] \in P <=> f[u] \in P
  PROVE  Count(g, P) = Count(f, P) + 1
<1> DEFINE S == {t \in Threads : f[t] \in P}
<1>1. {t \in Threads : g[t] \in P} = S \union {x}
  OBVIOUS
<1>2. IsFiniteSet(S)
  BY CountFinite
<1>3. x \notin S
  OBVIOUS
<1>4. Cardinality(S \union {x}) = Cardinality(S) + 1
  BY <1>2, <1>3, FS_AddElement
<1> QED
  BY <1>1, <1>4 DEF Count

(* One thread less is counted.                                             *)
LEMMA CountDown ==
  ASSUME NEW f, NEW g, NEW P, NEW x \in Threads, f[x] \in P, g[x] \notin P,
         \A u \in Threads \ {x} : g[u] \in P <=> f[u] \in P
  PROVE  Count(g, P) = Count(f, P) - 1
<1>1. Count(f, P) = Count(g, P) + 1
  BY CountUp
<1>2. Count(g, P) \in Nat /\ Count(f, P) \in Nat
  BY CountFinite
<1> QED
  BY <1>1, <1>2

-----------------------------------------------------------------------------
(* A read handle is held: mLock is positive and nobody writes.             *)
LEMMA ReaderHolds ==
  ASSUME LockInv, NEW t \in Threads, handle[t] = "read"
  PROVE  mLock >= 1 /\ \A u \in Threads : handle[u] # "write"
<1>1. mLock # -1
  BY DEF LockInv, LockTypeOK, LockCount, MutualExclusion
<1>2. Count(handle, {"read"}) # 0
  BY CountZero
<1> QED
  BY <1>1, <1>2, CountFinite DEF LockInv, LockTypeOK, LockCount

(* The write handle is held: mLock is -1 and nobody else holds anything.   *)
LEMMA WriterHolds ==
  ASSUME LockInv, NEW t \in Threads, handle[t] = "write"
  PROVE  mLock = -1 /\ \A u \in Threads \ {t} : handle[u] = "unlocked"
BY DEF LockInv, LockTypeOK, LockCount, MutualExclusion

(* No write request is pending: nobody is inside WriteLock, TryWriteLock.  *)
LEMMA NonePending ==
  ASSUME LockInv
  PROVE  mWritePending = 0 <=> \A t \in Threads : call[t] \notin PendingCalls
BY CountZero DEF LockInv, PendingCount

(* Every thread starts without a lock.                                     *)
LEMMA LockInvInit == LockInit => LockInv
<1> SUFFICES ASSUME LockInit PROVE LockInv
  OBVIOUS
<1>1. Count(handle, {"read"}) = 0
  BY CountZero DEF LockInit
<1>2. Count(call, PendingCalls) = 0
  BY CountZero DEF LockInit, PendingCalls
<1> QED
  BY <1>1, <1>2 DEF LockInit, LockInv, LockTypeOK, LockType, Call, LockCount,
     PendingCount, CallsMatchHandles, MutualExclusion, SnapshotStable, NoLostWakeup

(* Going back to sleep: only call and asleep change.                       *)
LEMMA SleepStep ==
  ASSUME LockInv, NEW t \in Threads, NEW c \in {"ReadLock", "WriteLock", "TryWriteLock"},
         Sleep(t, c),
         call[t] \in {"none", "TryChecked", c},
         call[t] = "none" => handle[t] = "unlocked" /\ c # "TryWriteLock",
         call[t] = "TryChecked" => c = "TryWriteLock",
         mWritePending' = IF c \in PendingCalls /\ call[t] # c
                            THEN mWritePending + 1 ELSE mWritePending,
         c = "ReadLock" => ~CanRead,
         c = "WriteLock" => mLock # 0,
         c = "TryWriteLock" => mLock # 1
  PROVE  LockInv'
<1> USE DEF LockInv
<1>1. LockTypeOK'
  BY DEF LockTypeOK, Sleep, Call
<1>2. LockCount'
  BY DEF LockCount, Sleep
<1>3. PendingCount'
  <2>1. call'[t] = c /\ \A u \in Threads \ {t} : call'[u] = call[u]
    BY DEF Sleep, LockTypeOK
  <2>2. call[t] \in PendingCalls <=> c \in PendingCalls /\ call[t] = c
    BY DEF PendingCalls
  <2>3. CASE c \in PendingCalls /\ call[t] # c
    <3>1. Count(call', PendingCalls) = Count(call, PendingCalls) + 1
      BY <2>1, <2>2, <2>3, CountUp
    <3> QED
      BY <2>3, <3>1 DEF PendingCount
  <2>4. CASE ~(c \in PendingCalls /\ call[t] # c)
    <3>1. Count(call', PendingCalls) = Count(call, PendingCalls)
      BY <2>1, <2>2, <2>4, CountSame
    <3> QED
      BY <2>4, <3>1 DEF PendingCount
  <2> QED
    BY <2>3, <2>4
<1>4. CallsMatchHandles'
  BY DEF CallsMatchHandles, Sleep, LockTypeOK
<1>5. MutualExclusion' /\ SnapshotStable'
  BY DEF MutualExclusion, SnapshotStable, Sleep
<1>6. NoLostWakeup'
  <2>1. c = "TryWriteLock" => handle[t] = "read"
    BY DEF CallsMatchHandles
  <2>2. c = "TryWriteLock" => mLock >= 2
    BY <2>1, ReaderHolds DEF LockTypeOK
  <2>3. mWritePending' >= mWritePending
    BY DEF LockTypeOK
  <2>4. ~CanRead => ~CanRead'
    BY <2>3 DEF CanRead, Sleep, LockTypeOK
  <2> QED
    BY <2>2, <2>4 DEF NoLostWakeup, Sleep, LockTypeOK
<1> QED
  BY <1>1, <1>2, <1>3, <1>4, <1>5, <1>6

(* ReadLock returns: one more reader, and no write request is pending.     *)
LEMMA ReadStep ==
  ASSUME LockInv, NEW t \in Threads, ReadAttempt(t),
         call[t] \in {"none", "ReadLock"}, handle[t] = "unlocked"
  PROVE  LockInv'
<1> USE DEF LockInv
<1>1. CASE ~CanRead
  <2>1. Sleep(t, "ReadLock") /\ mWritePending' = mWritePending
    BY <1>1 DEF ReadAttempt
  <2> QED
    BY <2>1, <1>1, SleepStep DEF PendingCalls
<1>2. CASE CanRead
  <2>1. /\ TakeRead(t, mLock) /\ Return(t) /\ asleep' = asleep
        /\ fresh' = [fresh EXCEPT ![t] = TRUE] /\ mWritePending' = mWritePending
    BY <1>2 DEF ReadAttempt
  <2>2. mLock >= 0 /\ mLock \in Int /\ mWritePending = 0
    BY <1>2 DEF CanRead, LockTypeOK
  <2>3. /\ handle'[t] = "read" /\ call'[t] = "none" /\ fresh'[t] = TRUE
        /\ \A u \in Threads \ {t} :
             handle'[u] = handle[u] /\ call'[u] = call[u] /\ fresh'[u] = fresh[u]
    BY <2>1 DEF TakeRead, Return, LockTypeOK
  <2>4. LockTypeOK'
    BY <2>1, <2>2 DEF LockTypeOK, LockType, Call, TakeRead, Return
  <2>5. LockCount'
    <3>1. Count(handle', {"read"}) = Count(handle, {"read"}) + 1
      BY <2>3, CountUp
    <3>2. mLock' = mLock + 1
      BY <2>1 DEF TakeRead
    <3> QED
      BY <2>2, <2>3, <3>1, <3>2 DEF LockCount
  <2>6. PendingCount'
    <3>1. Count(call', PendingCalls) = Count(call, PendingCalls)
      BY <2>3, CountSame DEF PendingCalls
    <3> QED
      BY <2>1, <3>1 DEF PendingCount
  <2>7. CallsMatchHandles'
    BY <2>3 DEF CallsMatchHandles
  <2>8. MutualExclusion'
    BY <2>2, <2>3 DEF MutualExclusion, LockCount
  <2>9. SnapshotStable'
    BY <2>3 DEF SnapshotStable
  <2>10. NoLostWakeup'
    <3>1. \A u \in Threads : call[u] \notin PendingCalls
      BY <2>2, NonePending
    <3>2. \A u \in asleep : call[u] # "ReadLock"
      BY <1>2 DEF NoLostWakeup
    <3>3. \A u \in asleep : call'[u] \notin {"ReadLock", "WriteLock", "TryWriteLock"}
      BY <2>3, <3>1, <3>2 DEF PendingCalls, LockTypeOK
    <3> QED
      BY <2>1, <3>3 DEF NoLostWakeup
  <2> QED
    BY <2>4, <2>5, <2>6, <2>7, <2>8, <2>9, <2>10
<1> QED
  BY <1>1, <1>2

(* The write lock becomes a read lock in one step under mMutex.            *)
LEMMA DowngradeStep ==
  ASSUME LockInv, NEW t \in Threads, Downgrade(t)
  PROVE  LockInv'
<1> USE DEF LockInv
<1>1. /\ handle[t] = "write" /\ call[t] = "none" /\ asleep' = {}
      /\ mWritePending' = mWritePending /\ call' = call /\ fresh' = fresh
  BY DEF Downgrade
<1>2. mLock = -1 /\ \A u \in Threads \ {t} : handle[u] = "unlocked"
  BY <1>1, WriterHolds
<1>3. mLock' = 1 /\ handle' = [handle EXCEPT ![t] = "read"]
  BY <1>2 DEF Downgrade, TakeRead, Released
<1>4. handle'[t] = "read" /\ \A u \in Threads \ {t} : handle'[u] = "unlocked"
  BY <1>2, <1>3 DEF LockTypeOK
<1>5. LockTypeOK'
  BY <1>1, <1>3 DEF LockTypeOK, LockType
<1>6. LockCount'
  <2>1. Count(handle', {"read"}) = 1
    BY <1>4, CountOne
  <2> QED
    BY <1>3, <1>4, <2>1 DEF LockCount
<1>7. PendingCount' /\ NoLostWakeup'
  BY <1>1 DEF PendingCount, NoLostWakeup
<1>8. CallsMatchHandles' /\ MutualExclusion' /\ SnapshotStable'
  BY <1>1, <1>2, <1>4 DEF CallsMatchHandles, MutualExclusion, SnapshotStable
<1> QED
  BY <1>5, <1>6, <1>7, <1>8

(* WriteLock returns only when nobody holds the lock.                      *)
LEMMA WriteStep ==
  ASSUME LockInv, NEW t \in Threads, NEW pending, WriteAttempt(t, pending),
         handle[t] = "unlocked",
         \/ call[t] = "none" /\ pending = mWritePending + 1
         \/ call[t] = "WriteLock" /\ pending = mWritePending
  PROVE  LockInv'
<1> USE DEF LockInv
<1>1. CASE mLock # 0
  <2>1. Sleep(t, "WriteLock") /\ mWritePending' = pending
    BY <1>1 DEF WriteAttempt
  <2> QED
    BY <2>1, <1>1, SleepStep DEF PendingCalls
<1>2. CASE mLock = 0
  <2>1. /\ TakeWrite(t) /\ Return(t) /\ asleep' = asleep
        /\ fresh' = [fresh EXCEPT ![t] = TRUE] /\ mWritePending' = pending - 1
    BY <1>2 DEF WriteAttempt
  <2>2. /\ handle'[t] = "write" /\ call'[t] = "none" /\ fresh'[t] = TRUE /\ mLock' = -1
        /\ \A u \in Threads \ {t} :
             handle'[u] = handle[u] /\ call'[u] = call[u] /\ fresh'[u] = fresh[u]
    BY <2>1 DEF TakeWrite, Return, LockTypeOK
  <2>3. \A u \in Threads : handle[u] = "unlocked"
    <3>1. \A u \in Threads : handle[u] # "read"
      BY <1>2, CountZero DEF LockCount
    <3> QED
      BY <1>2, <3>1 DEF LockCount, LockTypeOK, LockType
  <2>4. PendingCount' /\ mWritePending' \in Nat
    <3>1. CASE call[t] = "none"
      <4>1. Count(call', PendingCalls) = Count(call, PendingCalls)
        BY <2>2, <3>1, CountSame DEF PendingCalls
      <4> QED
        BY <2>1, <3>1, <4>1 DEF PendingCount, LockTypeOK
    <3>2. CASE call[t] = "WriteLock"
      <4>1. Count(call', PendingCalls) = Count(call, PendingCalls) - 1
        BY <2>2, <3>2, CountDown DEF PendingCalls
      <4>2. Count(call', PendingCalls) \in Nat
        BY CountFinite
      <4> QED
        BY <2>1, <3>2, <4>1, <4>2 DEF PendingCount, LockTypeOK
    <3> QED
      BY <3>1, <3>2
  <2>5. LockTypeOK'
    BY <2>1, <2>4 DEF LockTypeOK, LockType, Call, TakeWrite, Return
  <2>6. LockCount'
    BY <2>2 DEF LockCount
  <2>7. CallsMatchHandles'
    BY <2>2 DEF CallsMatchHandles
  <2>8. MutualExclusion' /\ SnapshotStable'
    BY <2>2, <2>3 DEF MutualExclusion, SnapshotStable
  <2>9. NoLostWakeup'
    <3>1. \A u \in asleep : call[u] # "TryWriteLock"
      BY <1>2 DEF NoLostWakeup
    <3> QED
      BY <2>1, <2>2, <3>1 DEF NoLostWakeup, CanRead, LockTypeOK
  <2> QED
    BY <2>4, <2>5, <2>6, <2>7, <2>8, <2>9
<1> QED
  BY <1>1, <1>2

(* TryWriteLock under mMutex: gives up, upgrades the last reader, or waits. *)
LEMMA TryStep ==
  ASSUME LockInv, NEW t \in Threads, NEW pending, TryAttempt(t, pending),
         \/ call[t] = "TryChecked" /\ pending = mWritePending + 1
         \/ call[t] = "TryWriteLock" /\ pending = mWritePending
  PROVE  LockInv'
<1> USE DEF LockInv
<1>1. handle[t] = "read"
  BY DEF CallsMatchHandles
<1>2. pending \in Nat
  BY DEF LockTypeOK
<1>3. ASSUME mWritePending' = pending - 1, call'[t] \notin PendingCalls,
             \A u \in Threads \ {t} : call'[u] = call[u]
      PROVE  PendingCount' /\ mWritePending' \in Nat
  <2>1. CASE call[t] = "TryChecked"
    <3>1. Count(call', PendingCalls) = Count(call, PendingCalls)
      BY <1>3, <2>1, CountSame DEF PendingCalls
    <3> QED
      BY <1>3, <2>1, <3>1 DEF PendingCount, LockTypeOK
  <2>2. CASE call[t] = "TryWriteLock"
    <3>1. Count(call', PendingCalls) = Count(call, PendingCalls) - 1
      BY <1>3, <2>2, CountDown DEF PendingCalls
    <3>2. Count(call', PendingCalls) \in Nat
      BY CountFinite
    <3> QED
      BY <1>3, <2>2, <3>1, <3>2 DEF PendingCount, LockTypeOK
  <2> QED
    BY <2>1, <2>2
<1>4. CASE pending # 1
  <2>1. /\ mWritePending' = pending - 1 /\ call' = [call EXCEPT ![t] = "invalidated"]
        /\ mLock' = mLock /\ handle' = handle /\ asleep' = asleep /\ fresh' = fresh
    BY <1>4 DEF TryAttempt
  <2>2. call'[t] = "invalidated" /\ \A u \in Threads \ {t} : call'[u] = call[u]
    BY <2>1 DEF LockTypeOK
  <2>3. PendingCount' /\ mWritePending' \in Nat
    BY <1>3, <2>1, <2>2 DEF PendingCalls
  <2>4. LockTypeOK'
    BY <2>1, <2>3 DEF LockTypeOK, Call
  <2>5. LockCount' /\ MutualExclusion' /\ SnapshotStable'
    BY <2>1 DEF LockCount, MutualExclusion, SnapshotStable
  <2>6. CallsMatchHandles'
    BY <1>1, <2>1, <2>2 DEF CallsMatchHandles
  <2>7. NoLostWakeup'
    <3>1. mWritePending' # 0
      BY <1>2, <1>4, <2>1, <2>3
    <3> QED
      BY <2>1, <2>2, <3>1 DEF NoLostWakeup, CanRead, LockTypeOK
  <2> QED
    BY <2>3, <2>4, <2>5, <2>6, <2>7
<1>5. CASE pending = 1 /\ mLock = 1
  <2>1. /\ TakeWrite(t) /\ Return(t) /\ mWritePending' = pending - 1
        /\ asleep' = {} /\ fresh' = fresh
    BY <1>5 DEF TryAttempt
  <2>2. /\ handle'[t] = "write" /\ call'[t] = "none" /\ mLock' = -1
        /\ \A u \in Threads \ {t} : handle'[u] = handle[u] /\ call'[u] = call[u]
    BY <2>1 DEF TakeWrite, Return, LockTypeOK
  <2>3. \A u \in Threads \ {t} : handle[u] = "unlocked"
    <3>1. Count(handle, {"read"}) = 1
      BY <1>5 DEF LockCount
    <3>2. \A u \in Threads \ {t} : handle[u] # "read"
      BY <1>1, <3>1, CountOne
    <3> QED
      BY <1>5, <3>2 DEF LockCount, LockTypeOK, LockType
  <2>4. PendingCount' /\ mWritePending' \in Nat
    BY <1>3, <2>1, <2>2 DEF PendingCalls
  <2>5. LockTypeOK'
    BY <2>1, <2>4 DEF LockTypeOK, LockType, Call, TakeWrite, Return
  <2>6. LockCount' /\ NoLostWakeup'
    BY <2>1, <2>2 DEF LockCount, NoLostWakeup
  <2>7. CallsMatchHandles'
    BY <2>2 DEF CallsMatchHandles
  <2>8. MutualExclusion' /\ SnapshotStable'
    BY <1>1, <2>1, <2>2, <2>3 DEF MutualExclusion, SnapshotStable
  <2> QED
    BY <2>4, <2>5, <2>6, <2>7, <2>8
<1>6. CASE pending = 1 /\ mLock # 1
  <2>1. Sleep(t, "TryWriteLock") /\ mWritePending' = pending
    BY <1>6 DEF TryAttempt
  <2> QED
    BY <2>1, <1>6, SleepStep DEF PendingCalls
<1> QED
  BY <1>4, <1>5, <1>6

(* A holder releases and notifies everybody.                               *)
LEMMA ReleaseStep ==
  ASSUME LockInv, NEW t \in Threads, Release(t)
  PROVE  LockInv'
<1> USE DEF LockInv
<1>1. /\ handle[t] # "unlocked" /\ call[t] \in {"none", "invalidated"}
      /\ mLock' = Released /\ asleep' = {}
      /\ mWritePending' = mWritePending /\ fresh' = fresh
  BY DEF Release
<1>2. /\ handle'[t] = "unlocked" /\ call'[t] = "none"
      /\ \A u \in Threads \ {t} : handle'[u] = handle[u] /\ call'[u] = call[u]
  BY DEF Release, LockTypeOK
<1>3. LockTypeOK'
  BY <1>1 DEF Release, Released, LockTypeOK, LockType, Call
<1>4. LockCount'
  <2>1. CASE handle[t] = "write"
    <3>1. mLock' = 0 /\ \A u \in Threads : handle'[u] = "unlocked"
      BY <1>1, <1>2, <2>1, WriterHolds DEF Released
    <3>2. Count(handle', {"read"}) = 0
      BY <3>1, CountZero
    <3> QED
      BY <3>1, <3>2 DEF LockCount
  <2>2. CASE handle[t] = "read"
    <3>1. mLock >= 1 /\ \A u \in Threads : handle[u] # "write"
      BY <2>2, ReaderHolds
    <3>2. Count(handle', {"read"}) = Count(handle, {"read"}) - 1
      BY <1>2, <2>2, CountDown
    <3> QED
      BY <1>1, <1>2, <3>1, <3>2 DEF LockCount, Released, LockTypeOK
  <2> QED
    BY <1>1, <2>1, <2>2 DEF LockTypeOK, LockType
<1>5. PendingCount'
  <2>1. Count(call', PendingCalls) = Count(call, PendingCalls)
    BY <1>1, <1>2, CountSame DEF PendingCalls
  <2> QED
    BY <1>1, <2>1 DEF PendingCount
<1>6. CallsMatchHandles' /\ MutualExclusion' /\ SnapshotStable' /\ NoLostWakeup'
  BY <1>1, <1>2 DEF CallsMatchHandles, MutualExclusion, SnapshotStable, NoLostWakeup
<1> QED
  BY <1>3, <1>4, <1>5, <1>6

(* Every step of the lock preserves the invariant.                         *)
LEMMA LockInvNext == LockInv /\ [LockNext]_lockVars => LockInv'
<1> SUFFICES ASSUME LockInv, [LockNext]_lockVars PROVE LockInv'
  OBVIOUS
<1>1. CASE UNCHANGED lockVars
  BY <1>1 DEF lockVars, LockInv, LockTypeOK, LockCount, PendingCount, Count,
     CallsMatchHandles, MutualExclusion, SnapshotStable, NoLostWakeup, CanRead
<1>2. ASSUME NEW t \in Threads, LockStep(t) PROVE LockInv'
  <2>1. CASE ReadLock(t)
    BY <2>1, ReadStep DEF ReadLock
  <2>2. CASE ReadLockWake(t)
    <3>1. handle[t] = "unlocked"
      BY <2>2 DEF ReadLockWake, LockInv, CallsMatchHandles
    <3> QED
      BY <2>2, <3>1, ReadStep DEF ReadLockWake
  <2>3. CASE Downgrade(t)
    BY <2>3, DowngradeStep
  <2>4. CASE WriteLock(t)
    BY <2>4, WriteStep DEF WriteLock
  <2>5. CASE WriteLockWake(t)
    BY <2>5, WriteStep DEF WriteLockWake, LockInv, CallsMatchHandles
  <2>6. CASE TryWriteLock(t)
    <3>1. /\ call[t] = "none" /\ handle[t] = "read"
          /\ UNCHANGED <<mLock, mWritePending, handle, asleep, fresh>>
      BY <2>6 DEF TryWriteLock
    <3>2. /\ call'[t] \in {"TryChecked", "invalidated"}
          /\ \A u \in Threads \ {t} : call'[u] = call[u]
      BY <2>6 DEF TryWriteLock, LockInv, LockTypeOK
    <3>3. LockTypeOK'
      BY <2>6 DEF TryWriteLock, LockInv, LockTypeOK, Call
    <3>4. PendingCount'
      <4>1. Count(call', PendingCalls) = Count(call, PendingCalls)
        BY <3>1, <3>2, CountSame DEF PendingCalls
      <4> QED
        BY <3>1, <4>1 DEF LockInv, PendingCount
    <3>5. LockCount' /\ MutualExclusion' /\ SnapshotStable'
      BY <3>1 DEF LockInv, LockCount, MutualExclusion, SnapshotStable, Count
    <3>6. CallsMatchHandles' /\ NoLostWakeup'
      BY <3>1, <3>2 DEF LockInv, LockTypeOK, CallsMatchHandles, NoLostWakeup, CanRead
    <3> QED
      BY <3>3, <3>4, <3>5, <3>6 DEF LockInv
  <2>7. CASE TryWriteLockEnter(t)
    BY <2>7, TryStep DEF TryWriteLockEnter
  <2>8. CASE TryWriteLockWake(t)
    BY <2>8, TryStep DEF TryWriteLockWake
  <2>9. CASE Release(t)
    BY <2>9, ReleaseStep
  <2>10. CASE Modify(t)
    <3>1. /\ handle[t] = "write"
          /\ UNCHANGED <<mLock, mWritePending, handle, call, asleep>>
          /\ fresh' = [u \in Threads |-> u = t]
      BY <2>10 DEF Modify
    <3>2. SnapshotStable'
      BY <3>1 DEF LockInv, MutualExclusion, SnapshotStable
    <3>3. LockTypeOK'
      BY <3>1 DEF LockInv, LockTypeOK
    <3> QED
      BY <3>1, <3>2, <3>3 DEF LockInv, LockCount, PendingCount, Count,
         CallsMatchHandles, MutualExclusion, NoLostWakeup, CanRead
  <2>11. CASE SpuriousWake(t)
    BY <2>11 DEF SpuriousWake, LockInv, LockTypeOK, LockCount, PendingCount, Count,
       CallsMatchHandles, MutualExclusion, SnapshotStable, NoLostWakeup, CanRead
  <2> QED
    BY <1>2, <2>1, <2>2, <2>3, <2>4, <2>5, <2>6, <2>7, <2>8, <2>9, <2>10, <2>11 DEF LockStep
<1> QED
  BY <1>1, <1>2 DEF LockNext

(* The inductive invariant holds in every reachable state.                 *)
THEOREM LockInvariance == LockSpec => []LockInv
BY LockInvInit, LockInvNext, PTL DEF LockSpec

(* The variables of the lock keep their types.                             *)
THEOREM LockTypeCorrect == LockSpec => []LockTypeOK
<1>1. LockInv => LockTypeOK
  BY DEF LockInv
<1> QED
  BY <1>1, LockInvariance, PTL

(* A write lock excludes every other lock, for any number of threads.      *)
THEOREM LockMutualExclusion == LockSpec => []MutualExclusion
<1>1. LockInv => MutualExclusion
  BY DEF LockInv
<1> QED
  BY <1>1, LockInvariance, PTL

(* No other thread writes between taking a lock and releasing it, whether  *)
(* or not the lock was upgraded or downgraded in between.                  *)
THEOREM LockSnapshotStable == LockSpec => []SnapshotStable
<1>1. LockInv => SnapshotStable
  BY DEF LockInv
<1> QED
  BY <1>1, LockInvariance, PTL

(* Nobody sleeps on the condition variable with its condition satisfied.   *)
THEOREM LockNoLostWakeup == LockSpec => []NoLostWakeup
<1>1. LockInv => NoLostWakeup
  BY DEF LockInv
<1> QED
  BY <1>1, LockInvariance, PTL

(* When TryWriteLock returns false another write request is in progress.   *)
THEOREM LockFailedTryHasRival == LockSpec => FailedTryHasRival
<1> DEFINE Rival(t) == \E u \in Threads \ {t} : call'[u] \in {"WriteLock", "TryWriteLock"}
           Act == \A t \in Threads :
                    call[t] # "invalidated" /\ call'[t] = "invalidated" => Rival(t)
<1>1. ASSUME LockInv, LockInv', [LockNext]_lockVars, NEW t \in Threads,
             call[t] # "invalidated", call'[t] = "invalidated"
      PROVE  Rival(t)
  <2>1. mWritePending' # 0
    <3>1. PICK s \in Threads : LockStep(s)
      BY <1>1 DEF LockNext, lockVars
    <3>2. s = t
      BY <1>1, <3>1 DEF LockStep, ReadLock, ReadLockWake, Downgrade, WriteLock,
         WriteLockWake, TryWriteLock, TryWriteLockEnter, TryWriteLockWake, Release,
         Modify, SpuriousWake, ReadAttempt, WriteAttempt, TryAttempt, Sleep, Return,
         LockInv, LockTypeOK
    <3>3. TryWriteLock(t) \/ TryWriteLockEnter(t) \/ TryWriteLockWake(t)
      BY <1>1, <3>1, <3>2 DEF LockStep, ReadLock, ReadLockWake, Downgrade, WriteLock,
         WriteLockWake, Release, Modify, SpuriousWake, ReadAttempt, WriteAttempt, Sleep,
         Return, LockInv, LockTypeOK
    <3>4. CASE TryWriteLock(t)
      BY <1>1, <3>4 DEF TryWriteLock, LockInv, LockTypeOK
    <3>5. CASE TryWriteLockEnter(t)
      BY <1>1, <3>5 DEF TryWriteLockEnter, TryAttempt, Sleep, Return, LockInv, LockTypeOK
    <3>6. CASE TryWriteLockWake(t)
      BY <1>1, <3>6 DEF TryWriteLockWake, TryAttempt, Sleep, Return, LockInv, LockTypeOK
    <3> QED
      BY <3>3, <3>4, <3>5, <3>6
  <2>2. Count(call', PendingCalls) # 0
    BY <1>1, <2>1 DEF LockInv, PendingCount
  <2>3. \E u \in Threads : call'[u] \in PendingCalls
    BY <2>2, CountZero
  <2> QED
    BY <1>1, <2>3 DEF PendingCalls
<1>2. LockInv /\ LockInv' /\ [LockNext]_lockVars => [Act]_lockVars
  BY <1>1
<1> QED
  BY <1>2, LockInvariance, PTL DEF LockSpec, FailedTryHasRival
-----------------------------------------------------------------------------
(* The refinement: what a step does to the abstract lock.                  *)

Wanting == {t \in Threads : call[t] \in {"WriteLock", "TryWriteLock"}}
Invalidated == {t \in Threads : call[t] = "invalidated"}

(* How the two sets change when the call of one thread does.               *)
LEMMA SetsChange ==
  ASSUME LockInv, NEW t \in Threads, NEW c \in Call,
         call' = [call EXCEPT ![t] = c]
  PROVE  /\ Wanting' = IF c \in {"WriteLock", "TryWriteLock"} THEN Wanting \union {t}
                       ELSE Wanting \ {t}
         /\ Invalidated' = IF c = "invalidated" THEN Invalidated \union {t}
                           ELSE Invalidated \ {t}
<1>1. \A u \in Threads : call'[u] = IF u = t THEN c ELSE call[u]
  BY DEF LockInv, LockTypeOK
<1>2. Wanting' = IF c \in {"WriteLock", "TryWriteLock"} THEN Wanting \union {t}
                 ELSE Wanting \ {t}
  BY <1>1 DEF Wanting
<1>3. Invalidated' = IF c = "invalidated" THEN Invalidated \union {t}
                     ELSE Invalidated \ {t}
  BY <1>1 DEF Invalidated
<1> QED
  BY <1>2, <1>3

(* mWritePending is zero exactly when no request to write is pending.      *)
LEMMA WantingEmpty ==
  ASSUME LockInv PROVE mWritePending = 0 <=> Wanting = {}
BY NonePending DEF Wanting, PendingCalls

(* A step of the abstract lock, in terms of the variables of this one.     *)
LEMMA AbstractSteps ==
  ASSUME NEW t \in Threads,
         \/ /\ handle[t] = "unlocked" /\ t \notin Wanting /\ Wanting = {}
            /\ \A u \in Threads : handle[u] # "write"
            /\ handle' = [handle EXCEPT ![t] = "read"]
            /\ Wanting' = Wanting /\ Invalidated' = Invalidated
         \/ /\ handle[t] # "write" /\ t \notin Wanting \union Invalidated
            /\ Wanting' = Wanting \union {t}
            /\ handle' = handle /\ Invalidated' = Invalidated
         \/ /\ handle[t] # "write" /\ t \notin Invalidated
            /\ \A u \in Threads \ {t} : handle[u] = "unlocked"
            /\ handle' = [handle EXCEPT ![t] = "write"]
            /\ Wanting' = Wanting \ {t} /\ Invalidated' = Invalidated
         \/ /\ handle[t] = "read" /\ t \notin Invalidated
            /\ Wanting \ {t} # {}
            /\ Wanting' = Wanting \ {t}
            /\ Invalidated' = Invalidated \union {t} /\ handle' = handle
         \/ /\ handle[t] = "write"
            /\ handle' = [handle EXCEPT ![t] = "read"]
            /\ Wanting' = Wanting /\ Invalidated' = Invalidated
         \/ /\ handle[t] # "unlocked" /\ t \notin Wanting
            /\ handle' = [handle EXCEPT ![t] = "unlocked"]
            /\ Invalidated' = Invalidated \ {t} /\ Wanting' = Wanting
         \/ handle' = handle /\ Wanting' = Wanting /\ Invalidated' = Invalidated
  PROVE  [Promised!MutexNext]_(Promised!mutexVars)
BY Zenon DEF Promised!MutexNext, Promised!mutexVars, Promised!AcquireRead, Promised!RequestWrite,
   Promised!AcquireWrite, Promised!Alone, Promised!Refuse, Promised!DowngradeToRead,
   Promised!Unlock, Wanting, Invalidated

(* ReadLock takes a read lock, or waits without wanting anything.          *)
LEMMA ReadRefines ==
  ASSUME LockInv, NEW t \in Threads, ReadLock(t) \/ ReadLockWake(t)
  PROVE  [Promised!MutexNext]_(Promised!mutexVars)
<1>1. handle[t] = "unlocked" /\ call[t] \in {"none", "ReadLock"} /\ ReadAttempt(t)
  BY DEF ReadLock, ReadLockWake, LockInv, CallsMatchHandles
<1>2. t \notin Wanting /\ t \notin Invalidated
  BY <1>1 DEF Wanting, Invalidated
<1>3. CASE CanRead /\ TakeRead(t, mLock) /\ Return(t)
  <2>1. Wanting = {}
    BY <1>3, WantingEmpty DEF CanRead
  <2>2. \A u \in Threads : handle[u] # "write"
    BY <1>3 DEF CanRead, LockInv, LockCount
  <2>3. Wanting' = Wanting \ {t} /\ Invalidated' = Invalidated \ {t}
    BY <1>3, SetsChange DEF Return, Call
  <2>4. handle' = [handle EXCEPT ![t] = "read"]
    BY <1>3 DEF TakeRead
  <2> QED
    BY <1>1, <1>2, <2>1, <2>2, <2>3, <2>4, AbstractSteps
<1>4. CASE Sleep(t, "ReadLock")
  <2>1. Wanting' = Wanting \ {t} /\ Invalidated' = Invalidated \ {t} /\ handle' = handle
    BY <1>4, SetsChange DEF Sleep, Call
  <2> QED
    BY <1>2, <2>1, AbstractSteps
<1> QED
  BY <1>1, <1>3, <1>4 DEF ReadAttempt

(* WriteLock is granted when nobody holds a lock, or becomes a request.    *)
LEMMA WriteRefines ==
  ASSUME LockInv, NEW t \in Threads, WriteLock(t) \/ WriteLockWake(t)
  PROVE  [Promised!MutexNext]_(Promised!mutexVars)
<1>1. handle[t] = "unlocked" /\ call[t] \in {"none", "WriteLock"}
  BY DEF WriteLock, WriteLockWake, LockInv, CallsMatchHandles
<1>2. t \notin Invalidated
  BY <1>1 DEF Invalidated
<1>3. CASE mLock = 0 /\ TakeWrite(t) /\ Return(t)
  <2>1. \A u \in Threads : handle[u] \notin {"read"} /\ handle[u] # "write"
    BY <1>3, CountZero DEF LockInv, LockCount
  <2>2. \A u \in Threads \ {t} : handle[u] = "unlocked"
    BY <2>1 DEF LockInv, LockTypeOK, LockType
  <2>3. Wanting' = Wanting \ {t} /\ Invalidated' = Invalidated \ {t}
    BY <1>3, SetsChange DEF Return, Call
  <2>4. handle' = [handle EXCEPT ![t] = "write"]
    BY <1>3 DEF TakeWrite
  <2> QED
    BY <1>1, <1>2, <2>2, <2>3, <2>4, AbstractSteps
<1>4. CASE Sleep(t, "WriteLock")
  <2>1. Wanting' = Wanting \union {t} /\ Invalidated' = Invalidated \ {t} /\ handle' = handle
    BY <1>4, SetsChange DEF Sleep, Call
  <2> QED
    BY <1>1, <1>2, <2>1, AbstractSteps
<1> QED
  BY <1>3, <1>4 DEF WriteLock, WriteLockWake, WriteAttempt

(* An attempt of TryWriteLock is refused because of a rival, granted when  *)
(* the other readers are gone, or stays a request.                         *)
LEMMA TryRefines ==
  ASSUME LockInv, NEW t \in Threads, NEW pending \in Nat, TryAttempt(t, pending),
         \/ call[t] = "TryChecked" /\ pending = mWritePending + 1
         \/ call[t] = "TryWriteLock" /\ pending = mWritePending
  PROVE  [Promised!MutexNext]_(Promised!mutexVars)
<1>1. handle[t] = "read" /\ t \notin Invalidated
  BY DEF LockInv, CallsMatchHandles, Invalidated
<1>2. CASE pending # 1 /\ call' = [call EXCEPT ![t] = "invalidated"] /\ UNCHANGED handle
  <2>1. Wanting \ {t} # {}
    <3>1. CASE call[t] = "TryChecked" /\ pending = mWritePending + 1
      <4>1. mWritePending # 0
        BY <1>2, <3>1 DEF LockInv, LockTypeOK
      <4> QED
        BY <3>1, <4>1, WantingEmpty DEF Wanting
    <3>2. CASE call[t] = "TryWriteLock" /\ pending = mWritePending
      <4>1. Count(call, PendingCalls) # 1 /\ call[t] \in PendingCalls
        BY <1>2, <3>2 DEF LockInv, PendingCount, PendingCalls
      <4>2. PICK u \in Threads \ {t} : call[u] \in PendingCalls
        BY <4>1, CountOne
      <4> QED
        BY <4>2 DEF Wanting, PendingCalls
    <3> QED
      BY <3>1, <3>2
  <2>2. Wanting' = Wanting \ {t} /\ Invalidated' = Invalidated \union {t}
    BY <1>2, SetsChange DEF Call
  <2> QED
    BY <1>1, <1>2, <2>1, <2>2, AbstractSteps
<1>3. CASE mLock = 1 /\ TakeWrite(t) /\ Return(t)
  <2>1. \A u \in Threads \ {t} : handle[u] \notin {"read"} /\ handle[u] # "write"
    BY <1>1, <1>3, CountOne DEF LockInv, LockCount
  <2>2. \A u \in Threads \ {t} : handle[u] = "unlocked"
    BY <2>1 DEF LockInv, LockTypeOK, LockType
  <2>3. Wanting' = Wanting \ {t} /\ Invalidated' = Invalidated \ {t}
    BY <1>3, SetsChange DEF Return, Call
  <2>4. handle' = [handle EXCEPT ![t] = "write"]
    BY <1>3 DEF TakeWrite
  <2> QED
    BY <1>1, <2>2, <2>3, <2>4, AbstractSteps
<1>4. CASE Sleep(t, "TryWriteLock")
  <2>1. Wanting' = Wanting \union {t} /\ Invalidated' = Invalidated \ {t} /\ handle' = handle
    BY <1>4, SetsChange DEF Sleep, Call
  <2> QED
    BY <1>1, <2>1, AbstractSteps
<1> QED
  BY <1>2, <1>3, <1>4 DEF TryAttempt

(* Every step is a step of the abstract lock or leaves it alone.           *)
LEMMA StepRefines ==
  LockInv /\ [LockNext]_lockVars => [Promised!MutexNext]_(Promised!mutexVars)
<1> SUFFICES ASSUME LockInv, [LockNext]_lockVars
             PROVE  [Promised!MutexNext]_(Promised!mutexVars)
  OBVIOUS
<1>1. CASE UNCHANGED lockVars
  BY <1>1 DEF lockVars, Promised!mutexVars
<1>2. ASSUME NEW t \in Threads, LockStep(t) PROVE [Promised!MutexNext]_(Promised!mutexVars)
  <2>1. CASE ReadLock(t) \/ ReadLockWake(t)
    BY <2>1, ReadRefines
  <2>2. CASE Downgrade(t)
    <3>1. /\ handle[t] = "write" /\ handle' = [handle EXCEPT ![t] = "read"]
          /\ call' = call
      BY <2>2 DEF Downgrade, TakeRead
    <3> QED
      BY <3>1, AbstractSteps DEF Wanting, Invalidated
  <2>3. CASE WriteLock(t) \/ WriteLockWake(t)
    BY <2>3, WriteRefines
  <2>4. CASE TryWriteLock(t)
    <3>1. /\ call[t] = "none" /\ handle[t] = "read" /\ handle' = handle
          /\ t \notin Wanting /\ t \notin Invalidated
      BY <2>4 DEF TryWriteLock, Wanting, Invalidated
    <3>2. CASE mWritePending # 0
      <4>1. Wanting' = Wanting \ {t} /\ Invalidated' = Invalidated \union {t}
        BY <2>4, <3>2, SetsChange DEF TryWriteLock, Call
      <4> QED
        BY <3>1, <3>2, <4>1, WantingEmpty, AbstractSteps
    <3>3. CASE mWritePending = 0
      <4>1. Wanting' = Wanting \ {t} /\ Invalidated' = Invalidated \ {t}
        BY <2>4, <3>3, SetsChange DEF TryWriteLock, Call
      <4> QED
        BY <3>1, <4>1, AbstractSteps
    <3> QED
      BY <3>2, <3>3
  <2>5. CASE TryWriteLockEnter(t)
    BY <2>5, TryRefines DEF TryWriteLockEnter, LockInv, LockTypeOK
  <2>6. CASE TryWriteLockWake(t)
    BY <2>6, TryRefines DEF TryWriteLockWake, LockInv, LockTypeOK
  <2>7. CASE Release(t)
    <3>1. /\ handle[t] # "unlocked" /\ handle' = [handle EXCEPT ![t] = "unlocked"]
          /\ t \notin Wanting /\ call' = [call EXCEPT ![t] = "none"]
      BY <2>7 DEF Release, Wanting
    <3>2. Wanting' = Wanting \ {t} /\ Invalidated' = Invalidated \ {t}
      BY <3>1, SetsChange DEF Call
    <3> QED
      BY <3>1, <3>2, AbstractSteps
  <2>8. CASE Modify(t) \/ SpuriousWake(t)
    <3>1. handle' = handle /\ call' = call
      BY <2>8 DEF Modify, SpuriousWake
    <3> QED
      BY <3>1, AbstractSteps DEF Wanting, Invalidated
  <2> QED
    BY <1>2, <2>1, <2>2, <2>3, <2>4, <2>5, <2>6, <2>7, <2>8 DEF LockStep
<1> QED
  BY <1>1, <1>2 DEF LockNext

(* The mutex with its counters, condition variable and early test outside  *)
(* mMutex implements the shared lock with upgrades, for any number of      *)
(* threads.                                                                *)
THEOREM LockRefinement == LockSpec => ImplementsSharedMutex
<1>1. LockInit => Promised!MutexInit
  BY DEF LockInit, Promised!MutexInit
<1> QED
  BY <1>1, StepRefines, LockInvariance, PTL
     DEF LockSpec, ImplementsSharedMutex, Promised!MutexSpec
=============================================================================
