------------------------------- MODULE Store -------------------------------
(***************************************************************************)
(* The controller's SQLite database: the tables nodes, gpus, jobs,         *)
(* allocations and gpu_leases (internal/db/db.go), and the statements the  *)
(* scheduler and the API server run on them.  SQLite takes one writer at a *)
(* time (_txlock=immediate), so a transaction, or one statement outside a  *)
(* transaction, is one atomic step of the modules that use this one.       *)
(*                                                                         *)
(* Clock readings are stored and compared with a granularity of one second *)
(* (internal/timeutil); a timestamp is kept here as its distance to now,   *)
(* in ticks, and Tick moves the clock by one.  All the lease rows of an    *)
(* allocation are inserted by one transaction with one expires_at and are  *)
(* always deleted together, so `lease' keeps one entry per allocation.     *)
(***************************************************************************)
EXTENDS Integers, FiniteSets

CONSTANTS
    Jobs,          \* job ids
    Nodes,         \* node ids
    GPUs,          \* gpu ids
    AllocIds,      \* allocation ids (fresh UUIDs in the code)
    NodeOf,        \* gpus.node_id
    GPUCount,      \* jobs.gpu_count
    Priority,      \* jobs.priority
    MaxRuntime,    \* jobs.max_runtime_minutes in ticks, 0 for no limit
    LeaseTicks,    \* DefaultLeaseDuration
    StaleTicks,    \* the 20 seconds of the stale node detector
    MaxRetries,    \* the 3 of handleStalledJobs
    Failing,       \* nodes whose heartbeats may stop: an environment bound
    NoRow,         \* "no row with this allocation id"
    NoJob, NoNode

Rows == [job : Jobs, node : Nodes, gpus : SUBSET GPUs]

ASSUME StoreAssumption ==
    /\ NodeOf \in [GPUs -> Nodes]
    /\ GPUCount \in [Jobs -> Nat \ {0}]
    /\ Priority \in [Jobs -> Int]
    /\ MaxRuntime \in [Jobs -> Nat]
    /\ LeaseTicks \in Nat \ {0}
    /\ StaleTicks \in Nat
    /\ MaxRetries \in Nat
    /\ NoRow \notin Rows
    /\ NoJob \notin Jobs
    /\ NoNode \notin Nodes

ASSUME FiniteAssumption == IsFiniteSet(GPUs) /\ IsFiniteSet(AllocIds)

VARIABLES
    jobState,      \* jobs.state, "NONE" before the row exists
    retries,       \* jobs.retry_count
    started,       \* ticks since jobs.started_at, -1 for NULL
    alloc,         \* allocations: [AllocIds -> Rows \cup {NoRow}]
    open,          \* allocations with released_at IS NULL
    lease,         \* ticks until expires_at of the allocation's leases
    nodeStatus,    \* nodes.status, "NONE" before the first heartbeat
    hbAge          \* ticks since nodes.last_heartbeat_at

jobVars == <<jobState, retries, started>>
allocVars == <<alloc, open, lease>>
nodeVars == <<nodeStatus, hbAge>>
storeVars == <<jobVars, allocVars, nodeVars>>

-----------------------------------------------------------------------------
Active == {"ALLOCATED", "STARTING", "RUNNING"}
EndStates == {"SUCCEEDED", "FAILED", "CANCELED"}
Terminal == EndStates \cup {"LOST"}
JobStates == {"NONE", "QUEUED"} \cup Active \cup Terminal

NoLease == -2      \* no rows in gpu_leases
Expired == -1      \* rows with expires_at < now

\* last_heartbeat_at and started_at matter only until a threshold is passed,
\* and started_at is not kept for a job without a limit.
HbCap == StaleTicks + 1
StartedCap(j) == IF MaxRuntime[j] > 0 THEN MaxRuntime[j] + 1 ELSE -1

StoreTypeOK ==
    /\ jobState \in [Jobs -> JobStates]
    /\ retries \in [Jobs -> 0 .. MaxRetries]
    /\ started \in [Jobs -> Int]
    /\ \A j \in Jobs : started[j] \in -1 .. StartedCap(j)
    /\ alloc \in [AllocIds -> Rows \cup {NoRow}]
    /\ open \subseteq {a \in AllocIds : alloc[a] # NoRow}
    /\ lease \in [AllocIds -> NoLease .. LeaseTicks]
    /\ \A a \in AllocIds : alloc[a] = NoRow => lease[a] = NoLease
    /\ nodeStatus \in [Nodes -> {"NONE", "UP", "DOWN"}]
    /\ hbAge \in [Nodes -> 0 .. HbCap]

StoreInit ==
    /\ jobState = [j \in Jobs |-> "NONE"]
    /\ retries = [j \in Jobs |-> 0]
    /\ started = [j \in Jobs |-> -1]
    /\ alloc = [a \in AllocIds |-> NoRow]
    /\ open = {}
    /\ lease = [a \in AllocIds |-> NoLease]
    /\ nodeStatus = [n \in Nodes |-> "NONE"]
    /\ hbAge = [n \in Nodes |-> 0]

-----------------------------------------------------------------------------
(***************************************************************************)
(* Queries.                                                                *)
(***************************************************************************)
AllocsOf(j) == {a \in AllocIds : alloc[a] # NoRow /\ alloc[a].job = j}
AllocsOn(n) == {a \in AllocIds : alloc[a] # NoRow /\ alloc[a].node = n}
OpenJobsOn(n) == {alloc[a].job : a \in open \cap AllocsOn(n)}

Up == {n \in Nodes : nodeStatus[n] = "UP"}
Registered == {n \in Nodes : nodeStatus[n] # "NONE"}
GPUsOf(n) == {g \in GPUs : NodeOf[g] = n}

\* Mutant: a lease in its last second counts as over.
IsLeasedNextTick(g) == \E a \in AllocIds :
    lease[a] > 1 /\ alloc[a] # NoRow /\ g \in alloc[a].gpus

\* l.expires_at > now (getClusterStats)
IsLeased(g) == \E a \in AllocIds :
    lease[a] > 0 /\ alloc[a] # NoRow /\ g \in alloc[a].gpus

\* SELECT COUNT(*) FROM gpus GROUP BY node_id ORDER BY c DESC LIMIT 1 gives
\* a positive number that is smaller than the job's gpu_count.
Oversize(j) ==
    /\ \E n \in Registered : GPUsOf(n) # {}
    /\ \A n \in Registered : Cardinality(GPUsOf(n)) < GPUCount[j]

-----------------------------------------------------------------------------
(***************************************************************************)
(* Statements.  Each names the columns it writes; callers add the rest.    *)
(***************************************************************************)
SetState(S, s) ==
    jobState' = [j \in Jobs |-> IF j \in S THEN s ELSE jobState[j]]

CloseAllocations(A) == open' = open \ A

DeleteLeases(A) ==
    lease' = [a \in AllocIds |-> IF a \in A THEN NoLease ELSE lease[a]]

\* markJobLost and markJobCanceled: state, leases and open allocations of
\* one job in one transaction; the state they overwrite is not checked.
EndJob(j, s) ==
    /\ SetState({j}, s)
    /\ DeleteLeases(AllocsOf(j))
    /\ CloseAllocations(AllocsOf(j))
    /\ UNCHANGED <<retries, started, alloc, nodeVars>>

\* The id uuid.New() gives; AllocIds bounds how many there are.
FreshIds == {a \in AllocIds : alloc[a] = NoRow}
NextId == CHOOSE a \in FreshIds : TRUE

(***************************************************************************)
(* The clock.  Everything that is measured against now gets one tick       *)
(* older; an expired lease and a stale heartbeat stay what they are.  The  *)
(* heartbeats of a node that is not Failing always come in time.           *)
(***************************************************************************)
Tick ==
    /\ lease' = [a \in AllocIds |->
                    IF lease[a] > Expired THEN lease[a] - 1 ELSE lease[a]]
    /\ started' = [j \in Jobs |->
                    IF started[j] \in 0 .. StartedCap(j) - 1
                    THEN started[j] + 1 ELSE started[j]]
    /\ hbAge' = [n \in Nodes |->
                    IF n \in Failing /\ nodeStatus[n] = "UP" /\ hbAge[n] < HbCap
                    THEN hbAge[n] + 1 ELSE hbAge[n]]
    /\ UNCHANGED <<jobState, retries, alloc, open, nodeStatus>>
=============================================================================
