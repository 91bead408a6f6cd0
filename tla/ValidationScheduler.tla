------------------------ MODULE ValidationScheduler ------------------------
(***************************************************************************)
(* The scheduler of one batch of transactions (net/validation_scheduler):  *)
(* it hands the transactions of the batch to the validator threads in      *)
(* topological order, a transaction alone or a chain of transactions as    *)
(* one task, and learns of finished tasks from a queue the threads fill.   *)
(* The map of spenders is built by another thread; until it is ready the   *)
(* scheduler works without it.                                             *)
(*                                                                         *)
(* An outpoint is a pair <<transaction, index>>; Inputs[t] is the set of   *)
(* outpoints that t spends.                                                *)
(***************************************************************************)
EXTENDS Integers, Sequences, FiniteSets

CONSTANTS
  Txs,            \* transactions
  Inputs,         \* [Txs -> set of outpoints]
  MaxToSchedule   \* MAX_TO_SCHEDULE

ASSUME SchedulerAssumption == MaxToSchedule \in Nat \ {0}

VARIABLES
  txs,                  \* the batch
  txStatuses,           \* per position of the batch
  tasks,                \* submitted tasks: sequences of positions
  taskCompletionQueue,  \* tasks the threads reported as finished
  numTasksScheduled,
  posUnhandled,         \* every transaction before it is scheduled
  scanPos,              \* where the scan for candidates goes on
  spendersReady,
  scheduling            \* where Schedule() is: "off", "take" or "scan"

schedulerVars == <<txs, txStatuses, tasks, taskCompletionQueue, numTasksScheduled,
                   posUnhandled, scanPos, spendersReady, scheduling>>

Positions == DOMAIN txs

Parents(t) == {o[1] : o \in Inputs[t]}

\* txIdToPos: the last position at which the batch holds t.
HoldsLast(i, t) == txs[i] = t /\ \A j \in Positions : txs[j] = t => j <= i

\* The positions of the batch that hold a parent of the transaction at i.
ParentPositions(i) ==
  {j \in Positions : \E t \in Parents(txs[i]) : HoldsLast(j, t)}

\* BuildSpendersMap: one link from a position to each position spending it.
Spenders(i) == {j \in Positions : i \in ParentPositions(j)}

\* Mutant: a parent that is being validated counts as done.
StartBesideParent(status, i, prev) ==
  /\ status[i] = "NOT_STARTED"
  /\ \A j \in ParentPositions(i) :
       \/ status[j] # "NOT_STARTED"
       \/ prev # 0 /\ txs[prev] = txs[j]

\* prev: the previous position of the same task, or 0.
CanStartValidation(status, i, prev) ==
  /\ status[i] = "NOT_STARTED"
  /\ \A j \in ParentPositions(i) :
       \/ status[j] = "DONE"
       \/ status[j] = "NOT_STARTED" /\ prev # 0 /\ txs[prev] = txs[j]

\* ScheduleChain: from i a task goes on to the only spender of each transaction
\* for as long as it can start.
ChainsFrom(status, i) ==
  {s \in UNION {[1..n -> Positions] : n \in 1..Len(txs)} :
     /\ s[1] = i
     /\ \A k \in 1..Len(s) - 1 :
          /\ Spenders(s[k]) = {s[k + 1]}
          /\ CanStartValidation(status, s[k + 1], s[k])}

\* The positions of the task that starts at i.
Chain(status, i) ==
  CHOOSE s \in ChainsFrom(status, i) : \A r \in ChainsFrom(status, i) : Len(r) <= Len(s)

NoScheduler ==
  /\ txStatuses' = <<>>
  /\ taskCompletionQueue' = {}
  /\ numTasksScheduled' = 0
  /\ posUnhandled' = 1 /\ scanPos' = 1
  /\ spendersReady' = FALSE
  /\ scheduling' = "off"

SchedulerInit ==
  /\ txs = <<>> /\ txStatuses = <<>>
  /\ tasks = {} /\ taskCompletionQueue = {}
  /\ numTasksScheduled = 0
  /\ posUnhandled = 1 /\ scanPos = 1
  /\ spendersReady = FALSE
  /\ scheduling = "off"

\* A new scheduler for the batch b.
NewScheduler(b) ==
  /\ txs' = b
  /\ txStatuses' = [i \in DOMAIN b |-> "NOT_STARTED"]
  /\ tasks' = {} /\ taskCompletionQueue' = {}
  /\ numTasksScheduled' = 0
  /\ posUnhandled' = 1 /\ scanPos' = 1
  /\ spendersReady' = FALSE
  /\ scheduling' = "take"

Marked(status, is, s) == [i \in Positions |-> IF i \in is THEN s ELSE status[i]]

PositionsOf(ts) == UNION {{t[k] : k \in DOMAIN t} : t \in ts}

\* SubmitTask for every task of ts.
SubmitTasks(status, ts, running) ==
  /\ tasks' = tasks \union ts
  /\ txStatuses' = Marked(status, PositionsOf(ts), "IN_PROGRESS")
  /\ numTasksScheduled' = running + Cardinality(ts)

\* The first position from scanPos on that is not scheduled yet, or the end.
FirstUnhandled(status) ==
  CHOOSE i \in 1..Len(txs) + 1 :
    /\ i >= posUnhandled
    /\ i <= Len(txs) => status[i] = "NOT_STARTED"
    /\ \A j \in posUnhandled..i - 1 : status[j] # "NOT_STARTED"

\* One turn of the loop of Schedule() up to the scan: take the finished tasks,
\* mark their transactions, try the spenders of the last transaction of each,
\* and start a new cycle of the scan when the last one reached the end.
TakeCompletions ==
  /\ scheduling = "take"
  /\ LET done == Marked(txStatuses, PositionsOf(taskCompletionQueue), "DONE")
         ends == {t[Len(t)] : t \in taskCompletionQueue}
         roots == {i \in UNION {Spenders(j) : j \in ends} : CanStartValidation(done, i, 0)}
         started == IF spendersReady THEN {Chain(done, i) : i \in roots} ELSE {}
     IN SubmitTasks(done, started, numTasksScheduled - Cardinality(taskCompletionQueue))
  /\ taskCompletionQueue' = {}
  /\ IF scanPos > Len(txs)
     THEN /\ posUnhandled' = FirstUnhandled(txStatuses')
          /\ scanPos' = posUnhandled'
     ELSE UNCHANGED <<posUnhandled, scanPos>>
  /\ scheduling' = "scan"
  /\ UNCHANGED <<txs, spendersReady>>

\* ScanTransactions: the positions from scanPos on that can start.
Candidates ==
  {i \in Positions : i >= scanPos /\ CanStartValidation(txStatuses, i, 0)}

\* ScanTransactions: submit the next transaction that can start, with the
\* chain that starts at it when the map of spenders is ready.
ScanTransactions ==
  /\ scheduling = "scan"
  /\ numTasksScheduled < MaxToSchedule
  /\ \E i \in Candidates :
       /\ \A j \in Candidates : i <= j
       /\ SubmitTasks(txStatuses, {IF spendersReady THEN Chain(txStatuses, i) ELSE <<i>>},
                      numTasksScheduled)
       /\ scanPos' = i + 1
  /\ UNCHANGED <<txs, taskCompletionQueue, posUnhandled, spendersReady, scheduling>>

\* The scan stops at the end of the batch or with enough tasks submitted, and
\* Schedule() waits for a finished task, but not for longer than 100 ms.
EndScan ==
  /\ scheduling = "scan" /\ posUnhandled <= Len(txs)
  /\ numTasksScheduled >= MaxToSchedule \/ Candidates = {}
  /\ scanPos' = IF numTasksScheduled < MaxToSchedule THEN Len(txs) + 1 ELSE scanPos
  /\ scheduling' = "take"
  /\ UNCHANGED <<txs, txStatuses, tasks, taskCompletionQueue, numTasksScheduled,
                 posUnhandled, spendersReady>>

\* Every transaction is scheduled: Schedule() returns and the scheduler is gone,
\* while the threads may still work on tasks.
EndSchedule ==
  /\ scheduling = "scan" /\ posUnhandled > Len(txs)
  /\ NoScheduler
  /\ UNCHANGED <<txs, tasks>>

Schedule == TakeCompletions \/ ScanTransactions \/ EndScan \/ EndSchedule

\* The thread that builds the map of spenders is through.
BuildSpendersMap ==
  /\ scheduling # "off" /\ ~spendersReady
  /\ spendersReady' = TRUE
  /\ UNCHANGED <<txs, txStatuses, tasks, taskCompletionQueue, numTasksScheduled,
                 posUnhandled, scanPos, scheduling>>

\* Mutant: the thread does not report the task.
MarkNothing(t) ==
  /\ t \in tasks
  /\ tasks' = tasks \ {t}
  /\ UNCHANGED <<txs, txStatuses, taskCompletionQueue, numTasksScheduled, posUnhandled,
                 scanPos, spendersReady, scheduling>>

\* A thread has validated every transaction of the task t and reports it, if
\* the scheduler is still there.
MarkResult(t) ==
  /\ t \in tasks
  /\ tasks' = tasks \ {t}
  /\ taskCompletionQueue' =
       IF scheduling = "off" THEN taskCompletionQueue ELSE taskCompletionQueue \union {t}
  /\ UNCHANGED <<txs, txStatuses, numTasksScheduled, posUnhandled, scanPos,
                 spendersReady, scheduling>>

=============================================================================
