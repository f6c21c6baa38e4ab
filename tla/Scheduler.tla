----------------------------- MODULE Scheduler -----------------------------
(***************************************************************************)
(* internal/scheduler/scheduler.go: one goroutine that runs CleanupLeases  *)
(* and Schedule once at start, then Schedule, CleanupLeases and            *)
(* EnforceMaxRuntime on every tick of its timer.  Each query and each      *)
(* statement or transaction is a step of its own: the API server's         *)
(* handlers run between them.  What a query returned is held in `todo' and *)
(* acted on later, as the code does.                                       *)
(***************************************************************************)
EXTENDS Store

VARIABLES
    pc,            \* the next statement of the goroutine
    booted,        \* the two calls before the timer loop are done
    todo,          \* jobs returned by the last query, not yet handled
    target,        \* the job of the iteration in progress, or NoJob
    bestNode,      \* tryScheduleJob's choice, or NoNode
    selectedGPUs

schedVars == <<pc, booted, todo, target, bestNode, selectedGPUs>>
choiceVars == <<bestNode, selectedGPUs>>

Labels == {"stalled", "retry", "release", "prune", "queue", "decide",
           "allocate", "fail", "enforce", "expire", "close"}

SchedulerTypeOK ==
    /\ pc \in Labels
    /\ booted \in BOOLEAN
    /\ todo \subseteq Jobs
    /\ target \in Jobs \cup {NoJob}
    /\ bestNode \in Nodes \cup {NoNode}
    /\ selectedGPUs \subseteq GPUs

\* Run starts with CleanupLeases.
SchedulerInit ==
    /\ pc = "stalled"
    /\ booted = FALSE
    /\ todo = {}
    /\ target = NoJob
    /\ bestNode = NoNode
    /\ selectedGPUs = {}

-----------------------------------------------------------------------------
(***************************************************************************)
(* CleanupLeases: handleStalledJobs, then pruneExpiredLeases.              *)
(***************************************************************************)
Stalled(j) ==
    /\ jobState[j] \in {"ALLOCATED", "STARTING"}
    /\ \E a \in AllocsOf(j) : lease[a] = Expired

QueryStalled ==
    /\ pc = "stalled"
    /\ todo' = {j \in Jobs : Stalled(j)}
    /\ pc' = "retry"
    /\ UNCHANGED <<booted, target, choiceVars, storeVars>>

RetriesLeftOffByOne(j) == retries[j] <= MaxRetries                  \* mutant
RetriesLeft(j) == retries[j] < MaxRetries

\* The UPDATE of jobs, by id alone: retry_count < 3 requeues the job ...
RetryStalled(j) ==
    /\ pc = "retry" /\ j \in todo
    /\ RetriesLeft(j)
    /\ SetState({j}, "QUEUED")
    /\ retries' = [retries EXCEPT ![j] = @ + 1]
    /\ started' = [started EXCEPT ![j] = -1]
    /\ todo' = todo \ {j}
    /\ target' = j
    /\ pc' = "release"
    /\ UNCHANGED <<booted, choiceVars, allocVars, nodeVars>>

\* ... and otherwise it has failed for good.
GiveUpStalled(j) ==
    /\ pc = "retry" /\ j \in todo
    /\ ~RetriesLeft(j)
    /\ SetState({j}, "FAILED")
    /\ todo' = todo \ {j}
    /\ target' = j
    /\ pc' = "release"
    /\ UNCHANGED <<booted, choiceVars, retries, started, allocVars, nodeVars>>

\* Mutant: the second UPDATE matches no row.
ReleaseStalledNothing ==
    /\ pc = "release"
    /\ target' = NoJob
    /\ pc' = "retry"
    /\ UNCHANGED <<booted, todo, choiceVars, storeVars>>

\* The second statement of the iteration; the lease rows stay.
ReleaseStalled ==
    /\ pc = "release"
    /\ CloseAllocations(AllocsOf(target))
    /\ target' = NoJob
    /\ pc' = "retry"
    /\ UNCHANGED <<booted, todo, choiceVars, jobVars, alloc, lease, nodeVars>>

EndStalled ==
    /\ pc = "retry" /\ todo = {}
    /\ pc' = "prune"
    /\ UNCHANGED <<booted, todo, target, choiceVars, storeVars>>

ExpiredAndClosed == {a \in AllocIds \ open : lease[a] = Expired}    \* mutant
ExpiredLeases == {a \in AllocIds : lease[a] = Expired}

\* A later reading of the clock than the one QueryStalled used.
PruneExpiredLeases ==
    /\ pc = "prune"
    /\ DeleteLeases(ExpiredLeases)
    /\ pc' = IF booted THEN "enforce" ELSE "queue"
    /\ UNCHANGED <<booted, todo, target, choiceVars, jobVars, alloc, open,
                   nodeVars>>

-----------------------------------------------------------------------------
(***************************************************************************)
(* Schedule: the queue is read once, then tried job by job.                *)
(***************************************************************************)
GetQueuedJobs ==
    /\ pc = "queue"
    /\ todo' = {j \in Jobs : jobState[j] = "QUEUED"}
    /\ pc' = "decide"
    /\ UNCHANGED <<booted, target, choiceVars, storeVars>>

\* ORDER BY priority DESC; created_at orders jobs of one priority, and two
\* jobs may have been created in either order.
IsNext(j) == j \in todo /\ \A k \in todo : Priority[k] <= Priority[j]

\* g.health = 'OK' always holds: it is all an agent ever reports.
AvailableAnywhere(n) == {g \in GPUs : ~IsLeased(g)}                  \* mutant
Available(n) == {g \in GPUsOf(n) : ~IsLeased(g)}

FitsWithRoom(j, n) == n \in Up /\ Cardinality(Available(n)) > GPUCount[j]  \* mutant
Fits(j, n) == n \in Up /\ Cardinality(Available(n)) >= GPUCount[j]
BestFit(j, n) ==
    /\ Fits(j, n)
    /\ \A m \in Nodes :
         Fits(j, m) => Cardinality(Available(n)) <= Cardinality(Available(m))

\* Mutant: a cluster with just enough GPUs counts as too small.
UnschedulableOffByOne(j) ==
    /\ Cardinality({g \in GPUs : NodeOf[g] \in Up}) > GPUCount[j]
    /\ Oversize(j)

\* The case of tryScheduleJob that reaches failJob.
Unschedulable(j) ==
    /\ Up # {}
    /\ Cardinality({g \in GPUs : NodeOf[g] \in Up}) >= GPUCount[j]
    /\ \A n \in Up : Cardinality(GPUsOf(n)) < GPUCount[j]
    /\ Oversize(j)

\* tryScheduleJob up to its call of allocateJob.  Only this goroutine adds
\* leases, so what was free for one of its queries is free for the rest.
Place(j) ==
    /\ pc = "decide" /\ IsNext(j)
    /\ \E n \in Nodes :
         /\ BestFit(j, n)
         /\ bestNode' = n
         /\ selectedGPUs' \in {G \in SUBSET Available(n) :
                                  Cardinality(G) = GPUCount[j]}
    /\ todo' = todo \ {j}
    /\ target' = j
    /\ pc' = "allocate"
    /\ UNCHANGED <<booted, storeVars>>

Reject(j) ==
    /\ pc = "decide" /\ IsNext(j)
    /\ Unschedulable(j)
    /\ todo' = todo \ {j}
    /\ target' = j
    /\ pc' = "fail"
    /\ UNCHANGED <<booted, choiceVars, storeVars>>

\* updateJobReason: the job stays in the queue.
KeepWaiting(j) ==
    /\ pc = "decide" /\ IsNext(j)
    /\ ~Unschedulable(j)
    /\ \A n \in Nodes : ~Fits(j, n)
    /\ todo' = todo \ {j}
    /\ UNCHANGED <<pc, booted, target, choiceVars, storeVars>>

\* The transaction of allocateJob; the job's state is not looked at again.
AllocateJob ==
    /\ pc = "allocate"
    /\ FreshIds # {}
    /\ SetState({target}, "ALLOCATED")
    /\ alloc' = [alloc EXCEPT ![NextId] =
                    [job |-> target, node |-> bestNode, gpus |-> selectedGPUs]]
    /\ open' = open \cup {NextId}
    /\ lease' = [lease EXCEPT ![NextId] = LeaseTicks]
    /\ target' = NoJob
    /\ bestNode' = NoNode
    /\ selectedGPUs' = {}
    /\ pc' = "decide"
    /\ UNCHANGED <<booted, todo, retries, started, nodeVars>>

FailJob ==
    /\ pc = "fail"
    /\ SetState({target}, "FAILED")
    /\ target' = NoJob
    /\ pc' = "decide"
    /\ UNCHANGED <<booted, todo, choiceVars, retries, started, allocVars,
                   nodeVars>>

\* The loop of Schedule is over: wait for the timer, or run CleanupLeases.
EndSchedule ==
    /\ pc = "decide" /\ todo = {}
    /\ pc' = IF booted THEN "stalled" ELSE "queue"
    /\ booted' = TRUE
    /\ UNCHANGED <<todo, target, choiceVars, storeVars>>

-----------------------------------------------------------------------------
(***************************************************************************)
(* EnforceMaxRuntime.                                                      *)
(***************************************************************************)
Overtime(j) ==
    /\ jobState[j] \in {"RUNNING", "STARTING"}
    /\ MaxRuntime[j] > 0
    /\ started[j] > MaxRuntime[j]

QueryOvertime ==
    /\ pc = "enforce"
    /\ todo' = {j \in Jobs : Overtime(j)}
    /\ pc' = "expire"
    /\ UNCHANGED <<booted, target, choiceVars, storeVars>>

CancelOvertime(j) ==
    /\ pc = "expire" /\ j \in todo
    /\ SetState({j}, "CANCELED")
    /\ todo' = todo \ {j}
    /\ target' = j
    /\ pc' = "close"
    /\ UNCHANGED <<booted, choiceVars, retries, started, allocVars, nodeVars>>

CloseOvertime ==
    /\ pc = "close"
    /\ CloseAllocations(AllocsOf(target))
    /\ target' = NoJob
    /\ pc' = "expire"
    /\ UNCHANGED <<booted, todo, choiceVars, jobVars, alloc, lease, nodeVars>>

EndOvertime ==
    /\ pc = "expire" /\ todo = {}
    /\ pc' = "queue"
    /\ UNCHANGED <<booted, todo, target, choiceVars, storeVars>>

-----------------------------------------------------------------------------
SchedulerNext ==
    \/ QueryStalled \/ ReleaseStalled \/ EndStalled \/ PruneExpiredLeases
    \/ GetQueuedJobs \/ AllocateJob \/ FailJob \/ EndSchedule
    \/ QueryOvertime \/ CloseOvertime \/ EndOvertime
    \/ \E j \in Jobs :
         \/ RetryStalled(j) \/ GiveUpStalled(j)
         \/ Place(j) \/ Reject(j) \/ KeepWaiting(j)
         \/ CancelOvertime(j)

(***************************************************************************)
(* Statements that fail: the database stays busy for longer than the five  *)
(* seconds of busy_timeout, or cannot be written.  Every error is logged   *)
(* or ignored, nothing of a transaction remains, and the goroutine goes on *)
(* with what follows.                                                      *)
(***************************************************************************)

\* A query, or the one statement of pruneExpiredLeases: the function is left.
AfterQuery == [stalled |-> "prune",
               prune   |-> IF booted THEN "enforce" ELSE "queue",
               queue   |-> IF booted THEN "stalled" ELSE "queue",
               enforce |-> "queue"]

QueryFails ==
    /\ pc \in DOMAIN AfterQuery
    /\ pc' = AfterQuery[pc]
    /\ booted' = (booted \/ pc = "queue")
    /\ UNCHANGED <<todo, target, choiceVars, storeVars>>

\* An UPDATE by handleStalledJobs or EnforceMaxRuntime of the job at hand: its
\* allocation is released all the same.
UpdateFails(j) ==
    /\ pc \in {"retry", "expire"} /\ j \in todo
    /\ todo' = todo \ {j}
    /\ target' = j
    /\ pc' = IF pc = "retry" THEN "release" ELSE "close"
    /\ UNCHANGED <<booted, choiceVars, storeVars>>

\* getClusterStats or updateJobReason: tryScheduleJob gives up on the job.
StatsFail(j) ==
    /\ pc = "decide" /\ IsNext(j)
    /\ todo' = todo \ {j}
    /\ UNCHANGED <<pc, booted, target, choiceVars, storeVars>>

\* The last write of an iteration: the next job has its turn.
AfterTarget == [release |-> "retry", close |-> "expire",
                allocate |-> "decide", fail |-> "decide"]

TargetFails ==
    /\ pc \in DOMAIN AfterTarget
    /\ pc' = AfterTarget[pc]
    /\ target' = NoJob
    /\ bestNode' = NoNode
    /\ selectedGPUs' = {}
    /\ UNCHANGED <<booted, todo, storeVars>>

StatementFails ==
    \/ QueryFails \/ TargetFails
    \/ \E j \in Jobs : UpdateFails(j) \/ StatsFail(j)

\* What a new process starts with.
SchedulerRestart ==
    /\ pc' = "stalled" /\ booted' = FALSE
    /\ todo' = {} /\ target' = NoJob
    /\ bestNode' = NoNode /\ selectedGPUs' = {}
=============================================================================
