---------------------------- MODULE ControlPlane ----------------------------
(***************************************************************************)
(* The controller process: the scheduler's goroutine and the API server's  *)
(* goroutines on one database (cmd/controller/main.go).  The system is     *)
(* their interleaving, with the passing of time and, in RestartSpec, with  *)
(* restarts of the process: a restart loses what the goroutines had read   *)
(* and keeps the database.                                                 *)
(***************************************************************************)
EXTENDS Scheduler, Server

vars == <<storeVars, schedVars, serverVars>>

TypeOK == StoreTypeOK /\ SchedulerTypeOK /\ ServerTypeOK

Init == StoreInit /\ SchedulerInit /\ ServerInit

SchedulerStep == SchedulerNext /\ UNCHANGED serverVars
ServerStep == ServerNext /\ UNCHANGED schedVars
ClockStep == Tick /\ UNCHANGED <<schedVars, serverVars>>

Next == SchedulerStep \/ ServerStep \/ ClockStep

Restart == SchedulerRestart /\ ServerRestart /\ UNCHANGED storeVars

RestartNext == Next \/ Restart

\* A write that fails is one the code may not even notice.
Fault ==
    \/ StatementFails /\ UNCHANGED serverVars
    \/ TransactionFails /\ UNCHANGED schedVars

FaultNext == RestartNext \/ Fault

Spec == Init /\ [][Next]_vars
RestartSpec == Init /\ [][RestartNext]_vars
FaultSpec == Init /\ [][FaultNext]_vars

(***************************************************************************)
(* The scheduler's loop never blocks for good, a listed node and a listed  *)
(* orphan are handled by the goroutine that listed them, and the clock     *)
(* moves on.  Users, agents and their messages owe nothing.                *)
(***************************************************************************)
Fairness ==
    /\ WF_vars(SchedulerStep)
    /\ WF_vars(ClockStep)
    /\ \A n \in Nodes : WF_vars(HandleNodeOffline(n) /\ UNCHANGED schedVars)
    /\ \A c \in Checkers, j \in Jobs :
         WF_vars(MarkJobLost(c, j) /\ UNCHANGED schedVars)

FairSpec == Spec /\ Fairness

-----------------------------------------------------------------------------
(***************************************************************************)
(* Safety.                                                                 *)
(***************************************************************************)

\* No GPU is under two unexpired leases: what the scheduler found free in
\* getClusterStats is still free when allocateJob inserts the new leases,
\* whatever the handlers, the clock and restarts do in between.
LiveLeaseExclusive ==
    \A a, b \in AllocIds :
        /\ lease[a] > 0 /\ lease[b] > 0
        /\ alloc[a].gpus \cap alloc[b].gpus # {}
        => a = b

\* A job has at most one allocation with released_at NULL: a retry closes
\* the old one before the job can be placed again.
OneOpenAllocation ==
    \A a, b \in open : alloc[a].job = alloc[b].job => a = b

\* A job that is back in the queue, has ended by itself or is LOST holds no
\* unexpired lease, so its GPUs can be given to the next job at once.  A
\* CANCELED job may (EnforceMaxRuntime leaves its leases to expire).
FreedWhenDone ==
    \A a \in AllocIds :
        lease[a] >= 0 => jobState[alloc[a].job] \in Active \cup {"CANCELED"}

\* An open allocation belongs to an active job.  The exceptions are the two
\* places where the scheduler writes the job first and the allocation after,
\* and a job whose cancel request overtook its placement.
OpenMeansActive ==
    \A a \in open :
        \/ jobState[alloc[a].job] \in Active \cup {"CANCELED"}
        \/ pc = "release" /\ target = alloc[a].job

\* Every allocation is a whole gang on its node, as many GPUs as the job asked
\* for and none of another node, although what was chosen is inserted some
\* steps later: a launch is never sent with part of a gang or with a mixture
\* of two choices.
WholeGangs ==
    \A a \in AllocIds : alloc[a] # NoRow =>
        /\ Cardinality(alloc[a].gpus) = GPUCount[alloc[a].job]
        /\ \A g \in alloc[a].gpus : NodeOf[g] = alloc[a].node

\* A job is placed at most once more than it was requeued, and requeued at
\* most MaxRetries times, so it is launched at most MaxRetries + 1 times.
AttemptsBounded ==
    \A j \in Jobs :
        /\ Cardinality(AllocsOf(j)) <= retries[j] + 1
        /\ retries[j] <= MaxRetries

-----------------------------------------------------------------------------
(***************************************************************************)
(* The inductive strengthening of the properties above.  It says what the  *)
(* scheduler may still rely on, several steps after it read the database.  *)
(***************************************************************************)
Placing == pc \in {"decide", "allocate", "fail"}

\* The jobs of the pass of Schedule in progress.
InHand == todo \cup (IF pc \in {"allocate", "fail"} THEN {target} ELSE {})

TargetSet ==
    /\ pc \in {"release", "allocate", "fail", "close"} => target \in Jobs \ todo
    /\ pc = "allocate" => bestNode \in Nodes

\* What tryScheduleJob chose is a gang of free GPUs of one node.
ChoiceIsFree ==
    pc = "allocate" =>
        /\ Cardinality(selectedGPUs) = GPUCount[target]
        /\ \A g \in selectedGPUs : NodeOf[g] = bestNode /\ ~IsLeased(g)

\* At most one allocation of a job has lease rows, expired or not.
OneLeasedAllocation ==
    \A a, b \in AllocIds :
        /\ lease[a] # NoLease /\ lease[b] # NoLease
        /\ alloc[a].job = alloc[b].job
        => a = b

\* A job being placed has no lease rows, whatever became of it meanwhile.
InHandIsBare ==
    Placing => \A a \in AllocIds :
        lease[a] # NoLease => alloc[a].job \notin InHand

\* Between two passes of CleanupLeases no queued job has lease rows.
QueuedIsBare ==
    pc \notin {"stalled", "retry", "release", "prune"} =>
        \A a \in AllocIds :
            lease[a] # NoLease => jobState[alloc[a].job] # "QUEUED"

\* The leases of a job that was found stalled stay expired.
StalledIsExpired ==
    pc \in {"retry", "release"} => \A a \in AllocIds :
        lease[a] # NoLease /\ alloc[a].job \in todo => lease[a] = Expired

NewIsUnplaced ==
    \A a \in AllocIds : alloc[a] # NoRow => jobState[alloc[a].job] # "NONE"

LeaseInv ==
    /\ TypeOK /\ TargetSet /\ ChoiceIsFree
    /\ OneLeasedAllocation /\ InHandIsBare /\ QueuedIsBare
    /\ StalledIsExpired /\ NewIsUnplaced
    /\ FreedWhenDone /\ LiveLeaseExclusive

\* A job that may still be placed was requeued after each placement.
Waiting(j) == jobState[j] \in {"NONE", "QUEUED"} \/ (Placing /\ j \in InHand)

AttemptsInv ==
    \A j \in Jobs :
        /\ Cardinality(AllocsOf(j)) <= retries[j] + 1
        /\ Waiting(j) => Cardinality(AllocsOf(j)) <= retries[j]

\* A job being placed has no open allocation.  This, OneOpenAllocation and
\* OpenMeansActive need the process to live on between the two statements
\* of an iteration of handleStalledJobs.
InHandIsDetached ==
    Placing => \A a \in open : alloc[a].job \notin InHand

OpenInv ==
    /\ TypeOK /\ TargetSet /\ NewIsUnplaced
    /\ InHandIsDetached /\ OneOpenAllocation /\ OpenMeansActive

-----------------------------------------------------------------------------
(***************************************************************************)
(* Action properties.                                                      *)
(***************************************************************************)

\* The jobs some goroutine decided about before and will write by id alone.
Decided ==
    (IF pc \in {"retry", "expire", "decide"} THEN todo ELSE {})
    \cup (IF pc \in {"allocate", "fail"} THEN {target} ELSE {})
    \cup (UNION {pendingLost[c] : c \in Checkers})
    \cup cancelQueued \cup cancelActive

\* A job in a terminal state stays there, except by a write that was decided
\* upon earlier and does not look at the state again: no handler and no pass
\* of the scheduler revives a job that it has seen ended.
FinalUnlessDecided ==
    [][\A j \in Jobs :
          jobState[j] \in Terminal /\ jobState'[j] # jobState[j]
          => j \in Decided]_vars

(***************************************************************************)
(* The jobs with an unexpired lease and the GPUs they have it of: the      *)
(* scheduler, the handlers, the clock and restarts implement the exclusive *)
(* pool of GPUPool on this view.                                           *)
(***************************************************************************)
HeldGPUs == [j \in Jobs |->
                UNION {alloc[a].gpus : a \in {b \in AllocsOf(j) : lease[b] > 0}}]

Pool == INSTANCE GPUPool WITH held <- HeldGPUs

\* Every step of the controller grants one job a whole gang of free GPUs on
\* one node, or takes back all the GPUs of some jobs, or changes nothing.
PoolSpec == Pool!Spec

-----------------------------------------------------------------------------
(***************************************************************************)
(* Liveness.                                                               *)
(***************************************************************************)

\* Every lease row is removed in the end, whatever became of the job, the
\* node and the allocation: GPUs are never leaked.
LeasesEnd ==
    \A a \in AllocIds : lease[a] # NoLease ~> lease[a] = NoLease

\* A job does not wait forever while a node that is large enough stays UP,
\* whatever the other jobs hold: nobody renews a lease.  Nor does one that
\* stays larger than every registered node while the cluster as a whole has
\* that many GPUs UP; it is failed.
LargeEnoughUp(j) == \E n \in Up : Cardinality(GPUsOf(n)) >= GPUCount[j]
Hopeless(j) ==
    Oversize(j) /\ Cardinality({g \in GPUs : NodeOf[g] \in Up}) >= GPUCount[j]

QueueMoves ==
    \A j \in Jobs :
        []( /\ jobState[j] = "QUEUED"
            /\ []LargeEnoughUp(j) \/ []Hopeless(j)
            => <>(jobState[j] # "QUEUED"))

-----------------------------------------------------------------------------
(***************************************************************************)
(* What the documents say and the code does not do.                        *)
(***************************************************************************)

\* docs/comparison.md: "If a GPU is dead or the memory is taken, we don't
\* schedule there", so two RUNNING jobs never share a GPU.
RunningExclusive ==
    \A a, b \in open :
        /\ jobState[alloc[a].job] = "RUNNING" /\ jobState[alloc[b].job] = "RUNNING"
        /\ alloc[a].gpus \cap alloc[b].gpus # {}
        => a = b

\* docs/architecture.md, Scheduling Contract, and the comment of
\* handleStalledJobs: a job whose agent does not answer before the lease
\* expires is "stuck" and gets retried or failed.
StuckIsRetried ==
    \A j \in Jobs : jobState[j] = "ALLOCATED" ~> jobState[j] # "ALLOCATED"
=============================================================================
