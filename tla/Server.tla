------------------------------- MODULE Server -------------------------------
(***************************************************************************)
(* internal/controller/server.go: the handlers of the REST API, the stale  *)
(* node detector and the reconciler.  Every handler runs in a goroutine of *)
(* its own; what it read in one query and acts on in a later transaction   *)
(* is kept here between the two.                                           *)
(*                                                                         *)
(* Agents are seen through their messages only: a report of running jobs   *)
(* may lag behind and miss any job, and a state update may come at any     *)
(* time for a job that was once placed on a node, since updates carry the  *)
(* job id and no allocation, may be delayed and are not ordered.           *)
(***************************************************************************)
EXTENDS Store

CONSTANTS
    Checkers,      \* reports being reconciled at the same time
    Cancelable     \* jobs whose owners may cancel them: a bound on requests

VARIABLES
    offlining,     \* nodes detectStaleNodes listed and has not handled yet
    pendingLost,   \* jobs a reconciliation found missing, still to be marked
    cancelQueued,  \* jobs whose cancel request has read state QUEUED
    cancelActive   \* jobs whose cancel request goes on to markJobCanceled

cancelVars == <<cancelQueued, cancelActive>>
serverVars == <<offlining, pendingLost, cancelVars>>

ServerTypeOK ==
    /\ offlining \subseteq Nodes
    /\ pendingLost \in [Checkers -> SUBSET Jobs]
    /\ cancelQueued \subseteq Jobs
    /\ cancelActive \subseteq Jobs

ServerInit ==
    /\ offlining = {}
    /\ pendingLost = [c \in Checkers |-> {}]
    /\ cancelQueued = {}
    /\ cancelActive = {}

-----------------------------------------------------------------------------
\* A request for more GPUs than the largest registered node has is refused.
HandleJobSubmit(j) ==
    /\ jobState[j] = "NONE"
    /\ ~Oversize(j)
    /\ SetState({j}, "QUEUED")
    /\ UNCHANGED <<retries, started, allocVars, nodeVars, serverVars>>

\* The transaction of a heartbeat; the first one registers node and GPUs.
HandleHeartbeat(n) ==
    /\ nodeStatus' = [nodeStatus EXCEPT ![n] = "UP"]
    /\ hbAge' = [hbAge EXCEPT ![n] = 0]
    /\ UNCHANGED <<jobVars, allocVars, serverVars>>

\* Jobs the database expects to run on a node.
ExpectedOn(n) ==
    {j \in OpenJobsOn(n) : jobState[j] \in {"RUNNING", "STARTING"}}

\* The comparison that ends a heartbeat and that reconcileNode makes with
\* the agent's answer: expected jobs the agent does not name are orphans.
FindOrphans(c, n) ==
    /\ nodeStatus[n] # "NONE"
    /\ pendingLost[c] = {}
    /\ \E missing \in (SUBSET ExpectedOn(n)) \ {{}} :
         pendingLost' = [pendingLost EXCEPT ![c] = missing]
    /\ UNCHANGED <<storeVars, offlining, cancelVars>>

MarkJobLost(c, j) ==
    /\ j \in pendingLost[c]
    /\ EndJob(j, "LOST")
    /\ pendingLost' = [pendingLost EXCEPT ![c] = @ \ {j}]
    /\ UNCHANGED <<offlining, cancelVars>>

\* The detector is one goroutine: a pass begins when the last one is over.
DetectStaleNodes ==
    /\ offlining = {}
    /\ offlining' = {n \in Up : hbAge[n] > StaleTicks}
    /\ UNCHANGED <<storeVars, pendingLost, cancelVars>>

\* "Find active jobs on this node"
ActiveOn(n) == {j \in OpenJobsOn(n) : jobState[j] \notin EndStates}
AllocsOfAny(J) == {a \in AllocIds : alloc[a] # NoRow /\ alloc[a].job \in J}

\* Mutant: the leases are left to expire.
HandleNodeOfflineOnly(n) ==
    /\ n \in offlining
    /\ nodeStatus' = [nodeStatus EXCEPT ![n] = "DOWN"]
    /\ SetState(ActiveOn(n), "LOST")
    /\ CloseAllocations(AllocsOfAny(ActiveOn(n)) \cup AllocsOn(n))
    /\ offlining' = offlining \ {n}
    /\ UNCHANGED <<retries, started, alloc, lease, hbAge, pendingLost, cancelVars>>

\* One transaction: active jobs of the node are LOST and freed, and what is
\* left open on it is closed (its leases stay).
HandleNodeOffline(n) ==
    LET theirs == AllocsOfAny(ActiveOn(n))
    IN  /\ n \in offlining
        /\ nodeStatus' = [nodeStatus EXCEPT ![n] = "DOWN"]
        /\ SetState(ActiveOn(n), "LOST")
        /\ DeleteLeases(theirs)
        /\ CloseAllocations(theirs \cup AllocsOn(n))
        /\ offlining' = offlining \ {n}
        /\ UNCHANGED <<retries, started, alloc, hbAge, pendingLost, cancelVars>>

\* What agents post: the states of a run.
Reported == {"STARTING", "RUNNING"} \cup EndStates

\* WHERE state NOT IN (...)
TakesUnlessEnded(j) == jobState[j] \notin EndStates                  \* mutant
Takes(j) == jobState[j] \notin Terminal

HandleJobStateUpdate(j, s) ==
    LET took == Takes(j)
    IN  /\ AllocsOf(j) # {}
        /\ jobState' = IF took THEN [jobState EXCEPT ![j] = s] ELSE jobState
        /\ started' = IF /\ took /\ s \in {"STARTING", "RUNNING"}
                         /\ started[j] = -1 /\ MaxRuntime[j] > 0
                      THEN [started EXCEPT ![j] = 0] ELSE started
        /\ IF s \in EndStates
           THEN DeleteLeases(AllocsOf(j)) /\ CloseAllocations(AllocsOf(j))
           ELSE UNCHANGED <<open, lease>>
        /\ UNCHANGED <<retries, alloc, nodeVars, serverVars>>

-----------------------------------------------------------------------------
(***************************************************************************)
(* handleJobCancel reads the state and then takes one of two branches.     *)
(***************************************************************************)
HandleJobCancel(j) ==
    /\ j \in Cancelable
    /\ jobState[j] \notin EndStates \cup {"NONE"}
    /\ IF jobState[j] = "QUEUED"
       THEN cancelQueued' = cancelQueued \cup {j} /\ UNCHANGED cancelActive
       ELSE cancelActive' = cancelActive \cup {j} /\ UNCHANGED cancelQueued
    /\ UNCHANGED <<storeVars, offlining, pendingLost>>

\* "Cancel immediately if not yet allocated": one UPDATE by id.
CancelQueued(j) ==
    /\ j \in cancelQueued
    /\ SetState({j}, "CANCELED")
    /\ cancelQueued' = cancelQueued \ {j}
    /\ UNCHANGED <<retries, started, allocVars, nodeVars, offlining,
                   pendingLost, cancelActive>>

\* markJobCanceled.  A job without any allocation row takes the fallback of
\* the handler instead, which writes the state alone: the same step, since
\* there is nothing to delete or to close.
CancelActive(j) ==
    /\ j \in cancelActive
    /\ EndJob(j, "CANCELED")
    /\ cancelActive' = cancelActive \ {j}
    /\ UNCHANGED <<offlining, pendingLost, cancelQueued>>

-----------------------------------------------------------------------------
ServerNext ==
    \/ DetectStaleNodes
    \/ \E n \in Nodes : \/ HandleHeartbeat(n)
                        \/ HandleNodeOffline(n)
                        \/ \E c \in Checkers : FindOrphans(c, n)
    \/ \E j \in Jobs : \/ HandleJobSubmit(j)
                       \/ \E s \in Reported : HandleJobStateUpdate(j, s)
                       \/ \E c \in Checkers : MarkJobLost(c, j)
                       \/ HandleJobCancel(j) \/ CancelQueued(j)
                       \/ CancelActive(j)

(***************************************************************************)
(* Transactions that fail, as a whole when BEGIN IMMEDIATE does not get    *)
(* the write lock in time or COMMIT fails, or in part: the errors of some  *)
(* statements are only logged, and what succeeded is committed.  Every     *)
(* caller goes on as if nothing had happened.                              *)
(***************************************************************************)

\* Of the statements of EndJob, that on gpu_leases, that on allocations or
\* both may have failed; S is empty if that on jobs has.
EndJobPartly(S, j, s) ==
    /\ SetState(S, s)
    /\ \E A \in {{}, AllocsOf(j)} : DeleteLeases(A)
    /\ \E A \in {{}, AllocsOf(j)} : CloseAllocations(A)
    /\ UNCHANGED <<retries, started, alloc, nodeVars>>

\* markJobLost logs the error of each of its statements.
MarkJobLostFails(c, j) ==
    /\ j \in pendingLost[c]
    /\ \E S \in SUBSET {j} : EndJobPartly(S, j, "LOST")
    /\ pendingLost' = [pendingLost EXCEPT ![c] = @ \ {j}]
    /\ UNCHANGED <<offlining, cancelVars>>

\* handleNodeOffline gives up when a statement on the node fails, and logs the
\* errors of those on its jobs.
NodeOfflinePartly(n) ==
    /\ nodeStatus' = [nodeStatus EXCEPT ![n] = "DOWN"]
    /\ \E J \in SUBSET ActiveOn(n) : SetState(J, "LOST")
    /\ \E J \in SUBSET ActiveOn(n) : DeleteLeases(AllocsOfAny(J))
    /\ \E J \in SUBSET ActiveOn(n) : CloseAllocations(AllocsOfAny(J) \cup AllocsOn(n))
    /\ UNCHANGED <<retries, started, alloc, hbAge>>

NodeOfflineFails(n) ==
    /\ n \in offlining
    /\ NodeOfflinePartly(n) \/ UNCHANGED storeVars
    /\ offlining' = offlining \ {n}
    /\ UNCHANGED <<pendingLost, cancelVars>>

\* The UPDATE of handleJobCancel; and markJobCanceled, which gives up when the
\* UPDATE of the job fails and logs the other errors.
CancelQueuedFails(j) ==
    /\ j \in cancelQueued
    /\ cancelQueued' = cancelQueued \ {j}
    /\ UNCHANGED <<storeVars, offlining, pendingLost, cancelActive>>

CancelActiveFails(j) ==
    /\ j \in cancelActive
    /\ EndJobPartly({j}, j, "CANCELED") \/ UNCHANGED storeVars
    /\ cancelActive' = cancelActive \ {j}
    /\ UNCHANGED <<offlining, pendingLost, cancelQueued>>

TransactionFails ==
    \/ \E n \in Nodes : NodeOfflineFails(n)
    \/ \E j \in Jobs : \/ CancelQueuedFails(j) \/ CancelActiveFails(j)
                       \/ \E c \in Checkers : MarkJobLostFails(c, j)

\* Requests in progress and the passes of the two loops are forgotten.
ServerRestart ==
    /\ offlining' = {}
    /\ pendingLost' = [c \in Checkers |-> {}]
    /\ cancelQueued' = {} /\ cancelActive' = {}
=============================================================================
