------------------------------ MODULE Cluster ------------------------------
(***************************************************************************)
(* The controller and the agents of its nodes: ControlPlane with the       *)
(* launch requests of scheduler.go, the agents of agent.go, what they post *)
(* and report, and the terminate requests of server.go.  ControlPlane lets *)
(* agents report anything; here they report what they do, so that one can  *)
(* ask what the controller's view of a run has to do with the run.         *)
(*                                                                         *)
(* A run is named by the allocation it was launched for.  Agents do not    *)
(* crash here (module Agent is about that), and the shell of a run leaves  *)
(* no child behind, so that Stop always reaches what it stops.             *)
(***************************************************************************)
EXTENDS ControlPlane

CONSTANTS NoRun, NoReport

Reports == [node : Nodes, jobs : SUBSET Jobs]

ASSUME ClusterAssumption == NoRun \notin AllocIds /\ NoReport \notin Reports

VARIABLES
    launching,     \* allocations whose launch request is under way
    terminating,   \* terminate requests under way: <<node, job>>
    activeJobs,    \* per node, the agent's map from job ids to runs
    run,           \* the process of a run
    stage,         \* what the launch goroutine of a run does next
    stopping,      \* runs that have a terminate goroutine
    report         \* list of active jobs that a Checker is to compare

agentVars == <<activeJobs, run, stage, stopping>>
clusterVars == <<launching, terminating, agentVars, report>>
allVars == <<vars, clusterVars>>

Over == {"succeeded", "failed"}

ClusterTypeOK ==
    /\ launching \subseteq AllocIds
    /\ terminating \subseteq Nodes \X Jobs
    /\ activeJobs \in [Nodes -> [Jobs -> AllocIds \cup {NoRun}]]
    /\ run \in [AllocIds -> {"none", "running"} \cup Over]
    /\ stage \in [AllocIds -> {"idle", "started", "starting", "running",
                               "waiting", "ended", "done"}]
    /\ stopping \subseteq AllocIds
    /\ report \in [Checkers -> Reports \cup {NoReport}]

ClusterInit ==
    /\ Init
    /\ launching = {} /\ terminating = {} /\ stopping = {}
    /\ activeJobs = [n \in Nodes |-> [j \in Jobs |-> NoRun]]
    /\ run = [a \in AllocIds |-> "none"]
    /\ stage = [a \in AllocIds |-> "idle"]
    /\ report = [c \in Checkers |-> NoReport]

Goto(a, s) == stage' = [stage EXCEPT ![a] = s]
SetActive(a, entry) ==
    activeJobs' = [activeJobs EXCEPT ![alloc[a].node][alloc[a].job] = entry]

-----------------------------------------------------------------------------
(***************************************************************************)
(* The controller.                                                         *)
(***************************************************************************)

\* allocateJob starts notifyAgentLaunch after its transaction.
Schedule ==
    /\ SchedulerStep
    /\ launching' = launching \cup (FreshIds \ FreshIds')
    /\ UNCHANGED <<terminating, agentVars, report>>

\* The steps of the server that no agent has a part in.
Serve ==
    /\ \/ DetectStaleNodes
       \/ \E n \in Nodes : HandleHeartbeat(n) \/ HandleNodeOffline(n)
       \/ \E j \in Jobs :
            \/ HandleJobSubmit(j) \/ HandleJobCancel(j) \/ CancelQueued(j)
            \/ \E c \in Checkers : MarkJobLost(c, j)
    /\ UNCHANGED <<schedVars, clusterVars>>

\* markJobCanceled and the terminate request that follows; the query for the
\* address takes the node of any allocation the job ever had.
CancelAndTerminate(j) ==
    /\ CancelActive(j)
    /\ \E to \in SUBSET {alloc[a].node : a \in AllocsOf(j)} :
         /\ Cardinality(to) = (IF AllocsOf(j) = {} THEN 0 ELSE 1)
         /\ terminating' = terminating \cup (to \X {j})
    /\ UNCHANGED <<schedVars, launching, agentVars, report>>

TimePasses ==
    /\ ClockStep
    /\ UNCHANGED clusterVars

-----------------------------------------------------------------------------
(***************************************************************************)
(* Launching and waiting.                                                  *)
(***************************************************************************)

\* handleLaunch: runner.Start() has started the command.
HandleLaunch(a) ==
    /\ a \in launching
    /\ launching' = launching \ {a}
    /\ run' = [run EXCEPT ![a] = "running"]
    /\ Goto(a, "started")
    /\ UNCHANGED <<vars, terminating, activeJobs, stopping, report>>

\* The run is entered in the map, in place of an earlier run of the job if
\* there is one; it may be over by then.
Register(a) ==
    /\ stage[a] = "started"
    /\ SetActive(a, a)
    /\ Goto(a, "starting")
    /\ UNCHANGED <<vars, launching, terminating, run, stopping, report>>

\* The node is unknown or does not answer, or the command does not start.
LaunchFails(a) ==
    /\ a \in launching
    /\ launching' = launching \ {a}
    /\ UNCHANGED <<vars, terminating, agentVars, report>>

\* The process ends by itself or by the signals of Stop; a command that is
\* asked to end may still exit with 0.
Exit(a) ==
    /\ run[a] = "running"
    /\ \E r \in Over : run' = [run EXCEPT ![a] = r]
    /\ UNCHANGED <<vars, launching, terminating, activeJobs, stage, stopping,
                   report>>

\* Mutant: the runner is not waited for.
UnregisterAtOnce(a) ==
    /\ stage[a] = "waiting"
    /\ SetActive(a, NoRun)
    /\ Goto(a, "ended")
    /\ UNCHANGED <<vars, launching, terminating, run, stopping, report>>

\* runner.Wait() returns and the entry of the job is deleted, whose ever it is.
Unregister(a) ==
    /\ stage[a] = "waiting" /\ run[a] \in Over
    /\ SetActive(a, NoRun)
    /\ Goto(a, "ended")
    /\ UNCHANGED <<vars, launching, terminating, run, stopping, report>>

\* Mutant: the error of Wait() is ignored.
OutcomeIgnored(a) == "SUCCEEDED"
Outcome(a) == IF run[a] = "succeeded" THEN "SUCCEEDED" ELSE "FAILED"

\* updateJobStatus: the request may fail before the controller has acted on
\* it and is not repeated.
Post(a, s) ==
    \/ HandleJobStateUpdate(alloc[a].job, s) /\ UNCHANGED schedVars
    \/ UNCHANGED vars

PostOf == [starting |-> "STARTING", running |-> "RUNNING"]
NextStage == [starting |-> "running", running |-> "waiting", ended |-> "done"]

PostStage(a) ==
    /\ stage[a] \in DOMAIN NextStage
    /\ Post(a, IF stage[a] = "ended" THEN Outcome(a) ELSE PostOf[stage[a]])
    /\ Goto(a, NextStage[stage[a]])
    /\ UNCHANGED <<launching, terminating, activeJobs, run, stopping, report>>

-----------------------------------------------------------------------------
(***************************************************************************)
(* Terminating.                                                            *)
(***************************************************************************)

\* Mutant: it is not looked whether the job is in the map.
HandleTerminateUnlisted(n, j) ==
    /\ <<n, j>> \in terminating
    /\ terminating' = terminating \ {<<n, j>>}
    /\ stopping' = stopping \cup {activeJobs[n][j]}
    /\ UNCHANGED <<vars, launching, activeJobs, run, stage, report>>

\* handleTerminate: "job not found" leaves nothing to do.  Two requests for
\* one run count as one.
HandleTerminate(n, j) ==
    /\ <<n, j>> \in terminating
    /\ terminating' = terminating \ {<<n, j>>}
    /\ stopping' = stopping \cup ({activeJobs[n][j]} \ {NoRun})
    /\ UNCHANGED <<vars, launching, activeJobs, run, stage, report>>

TerminateFails(n, j) ==
    /\ <<n, j>> \in terminating
    /\ terminating' = terminating \ {<<n, j>>}
    /\ UNCHANGED <<vars, launching, agentVars, report>>

\* Stop() has returned.
PostCanceled(a) ==
    /\ a \in stopping /\ run[a] \in Over
    /\ Post(a, "CANCELED")
    /\ stopping' = stopping \ {a}
    /\ UNCHANGED <<launching, terminating, activeJobs, run, stage, report>>

-----------------------------------------------------------------------------
(***************************************************************************)
(* Reconciling.  A heartbeat carries the list of active jobs, and          *)
(* reconcileNode asks for it; the database is queried later.               *)
(***************************************************************************)
ListActive(c, n) ==
    /\ nodeStatus[n] # "NONE"
    /\ report[c] = NoReport /\ pendingLost[c] = {}
    /\ report' = [report EXCEPT ![c] =
          [node |-> n, jobs |-> {j \in Jobs : activeJobs[n][j] # NoRun}]]
    /\ UNCHANGED <<vars, launching, terminating, agentVars>>

ReportFails(c) ==
    /\ report[c] # NoReport
    /\ report' = [report EXCEPT ![c] = NoReport]
    /\ UNCHANGED <<vars, launching, terminating, agentVars>>

\* Mutants: an ALLOCATED job is expected, or only a RUNNING one is; a job that
\* was ever placed on the node is no zombie.
OrphansOfAnyState(n, named) == OpenJobsOn(n) \ named
OrphansRunning(n, named) ==
    {j \in OpenJobsOn(n) : jobState[j] = "RUNNING"} \ named
ZombiesNeverPlaced(n, named) == named \ {alloc[a].job : a \in AllocsOn(n)}

\* "DB expects job but agent doesn't report it", and the other way round.
Orphans(n, named) == ExpectedOn(n) \ named
Zombies(n, named) == named \ ExpectedOn(n)

\* The code asks for the end of the zombies after it has marked the orphans;
\* the requests may be a little early here.
Reconcile(c) ==
    LET n == report[c].node
        named == report[c].jobs
    IN  /\ report[c] # NoReport
        /\ pendingLost' = [pendingLost EXCEPT ![c] = Orphans(n, named)]
        /\ terminating' = terminating \cup ({n} \X Zombies(n, named))
        /\ report' = [report EXCEPT ![c] = NoReport]
        /\ UNCHANGED <<storeVars, schedVars, offlining, cancelVars, launching,
                       agentVars>>

-----------------------------------------------------------------------------
AgentStep(a) == Register(a) \/ Unregister(a) \/ PostStage(a) \/ PostCanceled(a)

ClusterNext ==
    \/ Schedule \/ Serve \/ TimePasses
    \/ \E j \in Jobs : CancelAndTerminate(j)
    \/ \E a \in AllocIds :
         HandleLaunch(a) \/ LaunchFails(a) \/ Exit(a) \/ AgentStep(a)
    \/ \E n \in Nodes, j \in Jobs : HandleTerminate(n, j) \/ TerminateFails(n, j)
    \/ \E c \in Checkers :
         \/ ReportFails(c) \/ Reconcile(c)
         \/ \E n \in Nodes : ListActive(c, n)

ClusterSpec == ClusterInit /\ [][ClusterNext]_allVars

-----------------------------------------------------------------------------
(***************************************************************************)
(* Fairness.  Besides that of ControlPlane: the goroutines of an agent go  *)
(* on, Stop ends the process, an agent sends its list again and again, and *)
(* the network does not lose everything.  Users, launch requests and jobs  *)
(* owe nothing, and a post may always be lost.                             *)
(***************************************************************************)
ClusterFairness ==
    /\ WF_allVars(Schedule)
    /\ WF_allVars(TimePasses)
    /\ \A n \in Nodes :
         WF_allVars(HandleNodeOffline(n) /\ UNCHANGED <<schedVars, clusterVars>>)
    /\ \A c \in Checkers :
         /\ SF_allVars(Reconcile(c))
         /\ \A j \in Jobs : WF_allVars(MarkJobLost(c, j)
                                       /\ UNCHANGED <<schedVars, clusterVars>>)
    /\ \A n \in Nodes :
         /\ SF_allVars(\E c \in Checkers : ListActive(c, n))
         /\ \A j \in Jobs : SF_allVars(HandleTerminate(n, j))
    /\ \A a \in AllocIds :
         /\ WF_allVars(AgentStep(a))
         /\ WF_allVars(a \in stopping /\ Exit(a))

FairClusterSpec == ClusterSpec /\ ClusterFairness

-----------------------------------------------------------------------------
(***************************************************************************)
(* What the controller's view of a job has to do with its runs.            *)
(***************************************************************************)

\* What agents really report and post is within what ControlPlane lets them,
\* so its properties and theorems hold of the cluster: the comparison of a
\* report that is out of date included.
ControlPlaneAllows == Spec

Listed(a) == activeJobs[alloc[a].node][alloc[a].job] = a

\* Once it is registered, a process that runs is in the list of its agent,
\* where heartbeats name it and terminate requests find it, unless another
\* run of the job was registered there too (the map has one entry per job).
OutOfSightOnlyIfRelaunched ==
    \A a \in AllocIds :
        run[a] = "running" /\ stage[a] # "started" /\ ~Listed(a) =>
            \E b \in AllocIds \ {a} :
                /\ stage[b] \notin {"idle", "started"}
                /\ alloc[b].job = alloc[a].job /\ alloc[b].node = alloc[a].node

\* A job that is SUCCEEDED has a run that exited with 0: no retry, no late or
\* lost post and no kill makes the controller believe so by mistake.
SuccessIsReal ==
    \A j \in Jobs : jobState[j] = "SUCCEEDED" =>
        \E a \in AllocsOf(j) : run[a] = "succeeded"

\* The inductive strengthening of the three properties above: rows, processes,
\* goroutines and entries of the map belong together, and what a report is
\* compared with was registered before.
RunInv ==
    /\ \A a \in AllocIds :
         /\ a \in launching => alloc[a] # NoRow /\ run[a] = "none"
         /\ run[a] # "none" => alloc[a] # NoRow
         /\ stage[a] = "idle" <=> run[a] = "none"
         /\ stage[a] \in {"ended", "done"} => run[a] \in Over
         /\ a \in stopping => run[a] # "none"
    /\ \A n \in Nodes, j \in Jobs : activeJobs[n][j] # NoRun =>
         LET a == activeJobs[n][j]
         IN  run[a] # "none" /\ alloc[a].node = n /\ alloc[a].job = j

ReportInv ==
    \A c \in Checkers : report[c] # NoReport =>
        pendingLost[c] = {} /\ nodeStatus[report[c].node] # "NONE"

ClusterInv ==
    /\ LeaseInv /\ ClusterTypeOK /\ RunInv /\ ReportInv
    /\ OutOfSightOnlyIfRelaunched /\ SuccessIsReal

\* The process of a job that is over in the database is killed in the end,
\* whatever request or post was lost, if its agent lists it.
ZombiesEnd ==
    \A a \in AllocIds :
        /\ run[a] = "running" /\ Listed(a)
        /\ jobState[alloc[a].job] \in Terminal
        ~> \/ run[a] # "running" \/ ~Listed(a)
           \/ jobState[alloc[a].job] \notin Terminal

\* A job does not stay STARTING or RUNNING with the allocation of a run that
\* is over, even if the post of its end is lost, unless another run of the
\* job hides it.
Unnoticed(a) ==
    /\ a \in open /\ run[a] \in Over
    /\ jobState[alloc[a].job] \in {"STARTING", "RUNNING"}

EndIsNoticed ==
    \A a \in AllocIds :
        Unnoticed(a) ~>
            ~Unnoticed(a) \/ activeJobs[alloc[a].node][alloc[a].job] \notin {a, NoRun}

-----------------------------------------------------------------------------
(***************************************************************************)
(* What the documents say and the code does not do.                        *)
(***************************************************************************)

\* handleJobStateUpdate records a CANCELED post as "user_request", and
\* NON_GOALS.md says that a running job "stays until completion or manual
\* cancel": without a request or a time limit no job is CANCELED.
CanceledByRequest ==
    \A j \in Jobs : jobState[j] = "CANCELED" =>
        j \in Cancelable \/ MaxRuntime[j] > 0
=============================================================================
