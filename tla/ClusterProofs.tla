---------------------------- MODULE ClusterProofs ----------------------------
(***************************************************************************)
(* Proofs about Cluster: what agents post and report is within what        *)
(* ControlPlane lets them (ControlPlaneAllows), a running process is in    *)
(* its agent's map, and SUCCEEDED is never wrong.  The argument is that an *)
(* allocation row, once inserted, stays what it is, and that run, goroutine *)
(* and map entry are all of that row (RunInv).                             *)
(***************************************************************************)
EXTENDS AllocationProofs, PoolProofs, Cluster

\* Rows of allocations and nodes are never deleted, or changed in what names
\* their job and node.
LEMMA RowsStay ==
    ASSUME LeaseInv, [Next]_vars
    PROVE  /\ \A a \in AllocIds : alloc[a] # NoRow => alloc'[a] = alloc[a]
           /\ \A n \in Nodes : nodeStatus[n] # "NONE" => nodeStatus'[n] # "NONE"
<1>. USE DEF LeaseInv, TypeOK, StoreTypeOK, storeVars, jobVars, allocVars, nodeVars
<1>1. CASE UNCHANGED vars
  BY <1>1 DEF vars
<1>2. CASE SchedulerStep
  <2>1. CASE AllocateJob
    BY <2>1 DEF AllocateJob, FreshIds, NextId
  <2>2. CASE UNCHANGED <<alloc, nodeStatus>>
    BY <2>2
  <2>3. SchedulerNext => AllocateJob \/ UNCHANGED <<alloc, nodeStatus>>
    BY DEF SchedulerNext, QueryStalled, RetryStalled, GiveUpStalled,
       ReleaseStalled, EndStalled, PruneExpiredLeases, GetQueuedJobs, Place,
       Reject, KeepWaiting, FailJob, EndSchedule, QueryOvertime,
       CancelOvertime, CloseOvertime, EndOvertime
  <2>. QED
    BY <1>2, <2>1, <2>2, <2>3 DEF SchedulerStep
<1>3. CASE ServerStep
  <2>1. UNCHANGED alloc
    BY <1>3 DEF ServerStep, ServerNext, DetectStaleNodes, HandleHeartbeat,
       HandleNodeOffline, FindOrphans, HandleJobSubmit, HandleJobStateUpdate,
       MarkJobLost, EndJob, HandleJobCancel, CancelQueued, CancelActive
  <2>2. ASSUME NEW m \in Nodes, HandleHeartbeat(m) \/ HandleNodeOffline(m)
        PROVE  \A n \in Nodes : nodeStatus[n] # "NONE" => nodeStatus'[n] # "NONE"
    BY <2>2 DEF HandleHeartbeat, HandleNodeOffline
  <2>3. \/ UNCHANGED nodeStatus
        \/ \E m \in Nodes : HandleHeartbeat(m) \/ HandleNodeOffline(m)
    BY <1>3 DEF ServerStep, ServerNext, DetectStaleNodes, FindOrphans,
       HandleJobSubmit, HandleJobStateUpdate, MarkJobLost, EndJob,
       HandleJobCancel, CancelQueued, CancelActive
  <2>. QED
    BY <2>1, <2>2, <2>3
<1>4. CASE ClockStep
  BY <1>4 DEF ClockStep, Tick
<1>. QED
  BY <1>1, <1>2, <1>3, <1>4 DEF Next

-----------------------------------------------------------------------------
\* What an agent's goroutine posts is a state update ControlPlane allows, or
\* it is lost.
LEMMA PostIsUpdate ==
    ASSUME LeaseInv, NEW a \in AllocIds, alloc[a] # NoRow, NEW s \in Reported,
           Post(a, s)
    PROVE  \/ UNCHANGED vars
           \/ \E j \in Jobs : HandleJobStateUpdate(j, s) /\ UNCHANGED schedVars
  BY DEF Post, LeaseInv, TypeOK, StoreTypeOK, Rows

\* Every step of the cluster is one of ControlPlane or does not touch it.
LEMMA ClusterStep ==
    ASSUME LeaseInv, ClusterTypeOK, RunInv, ReportInv, [ClusterNext]_allVars
    PROVE  [Next]_vars
<1>1. ASSUME NEW s \in Reported, NEW j \in Jobs, HandleJobStateUpdate(j, s),
             UNCHANGED schedVars
      PROVE  Next
  BY <1>1 DEF Next, ServerStep, ServerNext
<1>2. CASE Schedule
  BY <1>2 DEF Schedule, Next
<1>3. CASE Serve
  BY <1>3 DEF Serve, Next, ServerStep, ServerNext
<1>4. CASE TimePasses
  BY <1>4 DEF TimePasses, Next
<1>5. ASSUME NEW j \in Jobs, CancelAndTerminate(j) PROVE Next
  BY <1>5 DEF CancelAndTerminate, Next, ServerStep, ServerNext
<1>6. ASSUME NEW a \in AllocIds, PostStage(a) PROVE [Next]_vars
  <2>1. alloc[a] # NoRow
    BY <1>6 DEF PostStage, NextStage, RunInv, ClusterTypeOK
  <2>2. /\ Outcome(a) \in Reported /\ PostOf.starting \in Reported
        /\ PostOf.running \in Reported
    BY DEF Outcome, PostOf, Reported, EndStates
  <2>3. \E s \in Reported : Post(a, s)
    BY <1>6, <2>2 DEF PostStage, NextStage, PostOf
  <2>. QED
    BY <1>1, <2>1, <2>3, PostIsUpdate
<1>7. ASSUME NEW a \in AllocIds, PostCanceled(a) PROVE [Next]_vars
  <2>1. alloc[a] # NoRow /\ "CANCELED" \in Reported
    BY <1>7 DEF PostCanceled, RunInv, Over, Reported, EndStates
  <2>2. Post(a, "CANCELED")
    BY <1>7 DEF PostCanceled
  <2>. QED
    BY <1>1, <2>1, <2>2, PostIsUpdate
<1>8. ASSUME NEW c \in Checkers, Reconcile(c) PROVE [Next]_vars
  <2>. DEFINE n == report[c].node
              missing == Orphans(n, report[c].jobs)
  <2>1. /\ n \in Nodes /\ nodeStatus[n] # "NONE" /\ pendingLost[c] = {}
        /\ missing \in SUBSET ExpectedOn(n)
    BY <1>8 DEF Reconcile, ReportInv, ClusterTypeOK, Reports, Orphans
  <2>2. /\ pendingLost' = [pendingLost EXCEPT ![c] = missing]
        /\ UNCHANGED <<storeVars, schedVars, offlining, cancelVars>>
    BY <1>8 DEF Reconcile
  <2>3. CASE missing = {}
    <3>1. pendingLost' = pendingLost
      BY <2>1, <2>2, <2>3 DEF LeaseInv, TypeOK, ServerTypeOK
    <3>. QED
      BY <2>2, <3>1 DEF vars, serverVars
  <2>4. CASE missing # {}
    <3>1. FindOrphans(c, n) /\ UNCHANGED schedVars
      BY <2>1, <2>2, <2>4 DEF FindOrphans
    <3>. QED
      BY <2>1, <3>1 DEF Next, ServerStep, ServerNext
  <2>. QED
    BY <2>3, <2>4
<1>9. ASSUME NEW a \in AllocIds,
             \/ HandleLaunch(a) \/ LaunchFails(a) \/ Exit(a)
             \/ Register(a) \/ Unregister(a)
      PROVE  UNCHANGED vars
  BY <1>9 DEF HandleLaunch, LaunchFails, Exit, Register, Unregister
<1>10. ASSUME NEW n \in Nodes, NEW j \in Jobs,
              HandleTerminate(n, j) \/ TerminateFails(n, j)
       PROVE  UNCHANGED vars
  BY <1>10 DEF HandleTerminate, TerminateFails
<1>11. ASSUME NEW c \in Checkers, NEW n \in Nodes,
              ListActive(c, n) \/ ReportFails(c)
       PROVE  UNCHANGED vars
  BY <1>11 DEF ListActive, ReportFails
<1>12. ASSUME NEW c \in Checkers, ReportFails(c) PROVE UNCHANGED vars
  BY <1>12 DEF ReportFails
<1>13. CASE UNCHANGED allVars
  BY <1>13 DEF allVars
<1>. QED
  BY <1>2, <1>3, <1>4, <1>5, <1>6, <1>7, <1>8, <1>9, <1>10, <1>11, <1>12,
     <1>13 DEF ClusterNext, AgentStep

-----------------------------------------------------------------------------
\* What becomes of the agents and of launch requests.  In each step of the
\* cluster either the agents stay as they are, or alloc does and one run moves.
LEMMA ClusterTypes ==
    ASSUME LeaseInv, ClusterTypeOK, RunInv, [ClusterNext]_allVars
    PROVE  ClusterTypeOK'
<1>. USE ClusterAssumption DEF ClusterTypeOK, agentVars, clusterVars, Over,
       SetActive, Goto
<1>1. \A a \in AllocIds :
        alloc[a] # NoRow => alloc[a].node \in Nodes /\ alloc[a].job \in Jobs
  BY DEF LeaseInv, TypeOK, StoreTypeOK, Rows
<1>2. CASE Schedule
  BY <1>2 DEF Schedule, FreshIds
<1>3. CASE Serve \/ TimePasses \/ UNCHANGED allVars
  BY <1>3 DEF Serve, TimePasses, allVars
<1>4. ASSUME NEW j \in Jobs, CancelAndTerminate(j) PROVE ClusterTypeOK'
  <2>1. {alloc[a].node : a \in AllocsOf(j)} \subseteq Nodes
    BY <1>1 DEF AllocsOf
  <2>2. terminating' \subseteq Nodes \X Jobs
    BY <1>4, <2>1 DEF CancelAndTerminate
  <2>. QED
    BY <1>4, <2>2 DEF CancelAndTerminate
<1>5. ASSUME NEW a \in AllocIds, HandleLaunch(a) PROVE ClusterTypeOK'
  BY <1>1, <1>5 DEF HandleLaunch, RunInv
<1>6. ASSUME NEW a \in AllocIds, LaunchFails(a) PROVE ClusterTypeOK'
  BY <1>6 DEF LaunchFails
<1>7. ASSUME NEW a \in AllocIds, Exit(a) PROVE ClusterTypeOK'
  BY <1>7 DEF Exit
<1>8. ASSUME NEW a \in AllocIds, Register(a) \/ Unregister(a)
      PROVE  ClusterTypeOK'
  <2>1. alloc[a].node \in Nodes /\ alloc[a].job \in Jobs
    BY <1>1, <1>8 DEF Register, Unregister, RunInv
  <2>2. CASE Register(a)
    BY <2>1, <2>2 DEF Register
  <2>3. CASE Unregister(a)
    BY <2>1, <2>3 DEF Unregister
  <2>. QED
    BY <1>8, <2>2, <2>3
<1>9. ASSUME NEW a \in AllocIds, PostStage(a) PROVE ClusterTypeOK'
  BY <1>9 DEF PostStage, NextStage
<1>10. ASSUME NEW a \in AllocIds, PostCanceled(a) PROVE ClusterTypeOK'
  BY <1>10 DEF PostCanceled
<1>11. ASSUME NEW n \in Nodes, NEW j \in Jobs,
              HandleTerminate(n, j) \/ TerminateFails(n, j)
       PROVE  ClusterTypeOK'
  BY <1>11 DEF HandleTerminate, TerminateFails
<1>12. ASSUME NEW c \in Checkers, NEW n \in Nodes, ListActive(c, n)
       PROVE  ClusterTypeOK'
  BY <1>12 DEF ListActive, Reports
<1>13. ASSUME NEW c \in Checkers, ReportFails(c) PROVE ClusterTypeOK'
  BY <1>13 DEF ReportFails
<1>14. ASSUME NEW c \in Checkers, Reconcile(c) PROVE ClusterTypeOK'
  BY <1>14 DEF Reconcile, Reports, Zombies
<1>. QED
  BY <1>2, <1>3, <1>4, <1>5, <1>6, <1>7, <1>8, <1>9, <1>10, <1>11, <1>12,
     <1>13, <1>14 DEF ClusterNext, AgentStep

\* A step that leaves the agents alone.
LEMMA RunsKept ==
    ASSUME RunInv, OutOfSightOnlyIfRelaunched, ClusterTypeOK,
           UNCHANGED <<activeJobs, run, stage>>, stopping' \subseteq stopping,
           launching' \subseteq launching \cup (FreshIds \ FreshIds'),
           \A a \in AllocIds : alloc[a] # NoRow => alloc'[a] = alloc[a]
    PROVE  RunInv' /\ OutOfSightOnlyIfRelaunched'
<1>1. \A a \in AllocIds : run[a] # "none" => alloc[a] # NoRow /\ alloc'[a] = alloc[a]
  BY DEF RunInv
<1>2. ASSUME NEW a \in launching' PROVE alloc'[a] # NoRow /\ run[a] = "none"
  BY <1>1, <1>2 DEF FreshIds, RunInv, ClusterTypeOK
<1>3. RunInv'
  BY <1>1, <1>2, ClusterAssumption DEF RunInv, ClusterTypeOK
<1>4. OutOfSightOnlyIfRelaunched'
  BY <1>1 DEF OutOfSightOnlyIfRelaunched, Listed, RunInv
<1>. QED
  BY <1>3, <1>4

\* A command that is started is not in the map yet.
LEMMA RunsOfHandleLaunch ==
    ASSUME LeaseInv, ClusterTypeOK, RunInv, OutOfSightOnlyIfRelaunched,
           NEW a \in AllocIds, HandleLaunch(a)
    PROVE  RunInv' /\ OutOfSightOnlyIfRelaunched'
<1>1. /\ alloc[a] # NoRow /\ run[a] = "none" /\ stage[a] = "idle"
      /\ UNCHANGED <<alloc, activeJobs, stopping>>
      /\ launching' = launching \ {a}
  BY DEF RunInv, HandleLaunch, vars, storeVars, allocVars
<1>2. /\ run'[a] = "running" /\ stage'[a] = "started"
      /\ \A b \in AllocIds \ {a} : run'[b] = run[b] /\ stage'[b] = stage[b]
  BY DEF HandleLaunch, Goto, ClusterTypeOK
<1>3. RunInv'
  BY <1>1, <1>2, ClusterAssumption DEF RunInv, ClusterTypeOK, Over
<1>4. OutOfSightOnlyIfRelaunched'
  BY <1>1, <1>2 DEF OutOfSightOnlyIfRelaunched, Listed
<1>. QED
  BY <1>3, <1>4

\* A run that is entered in the map may take the place of another, whose job
\* and node it has.
LEMMA RunsOfRegister ==
    ASSUME LeaseInv, ClusterTypeOK, RunInv, OutOfSightOnlyIfRelaunched,
           NEW a \in AllocIds, Register(a)
    PROVE  RunInv' /\ OutOfSightOnlyIfRelaunched'
<1>. DEFINE n == alloc[a].node
            j == alloc[a].job
<1>1. /\ run[a] # "none" /\ alloc[a] # NoRow /\ stage[a] = "started"
      /\ n \in Nodes /\ j \in Jobs /\ UNCHANGED <<alloc, run, launching, stopping>>
  BY DEF LeaseInv, TypeOK, StoreTypeOK, Rows, RunInv, Register, vars,
     storeVars, allocVars
<1>2. /\ stage'[a] = "starting"
      /\ \A b \in AllocIds \ {a} : stage'[b] = stage[b]
      /\ activeJobs'[n][j] = a
      /\ \A m \in Nodes, i \in Jobs :
           m # n \/ i # j => activeJobs'[m][i] = activeJobs[m][i]
  BY <1>1 DEF Register, SetActive, Goto, ClusterTypeOK
<1>3. RunInv'
  BY <1>1, <1>2, ClusterAssumption DEF RunInv, ClusterTypeOK
<1>4. ASSUME NEW b \in AllocIds, run'[b] = "running", stage'[b] # "started",
             ~Listed(b)'
      PROVE  \E d \in AllocIds \ {b} :
                /\ stage'[d] \notin {"idle", "started"}
                /\ alloc'[d].job = alloc'[b].job /\ alloc'[d].node = alloc'[b].node
  <2>1. b # a
    BY <1>1, <1>2, <1>4 DEF Listed
  <2>2. /\ run[b] = "running" /\ stage[b] # "started"
        /\ alloc[b].node \in Nodes /\ alloc[b].job \in Jobs
    BY <1>1, <1>2, <1>4, <2>1 DEF RunInv, LeaseInv, TypeOK, StoreTypeOK, Rows
  <2>3. CASE alloc[b].node = n /\ alloc[b].job = j
    BY <1>1, <1>2, <2>1, <2>3
  <2>4. CASE ~(alloc[b].node = n /\ alloc[b].job = j)
    <3>1. ~Listed(b)
      BY <1>1, <1>2, <1>4, <2>2, <2>4 DEF Listed
    <3>. QED
      BY <1>1, <1>2, <2>2, <3>1 DEF OutOfSightOnlyIfRelaunched
  <2>. QED
    BY <2>3, <2>4
<1>. QED
  BY <1>3, <1>4 DEF OutOfSightOnlyIfRelaunched

\* A run that is over is taken from the map, and with it, perhaps, a later one.
LEMMA RunsOfUnregister ==
    ASSUME LeaseInv, ClusterTypeOK, RunInv, OutOfSightOnlyIfRelaunched,
           NEW a \in AllocIds, Unregister(a)
    PROVE  RunInv' /\ OutOfSightOnlyIfRelaunched'
<1>. DEFINE n == alloc[a].node
            j == alloc[a].job
<1>1. /\ run[a] \in Over /\ run[a] # "none" /\ stage[a] = "waiting"
      /\ alloc[a] # NoRow
      /\ n \in Nodes /\ j \in Jobs /\ UNCHANGED <<alloc, run, launching, stopping>>
  BY DEF LeaseInv, TypeOK, StoreTypeOK, Rows, RunInv, Unregister, vars,
     storeVars, allocVars, Over
<1>2. /\ stage'[a] = "ended"
      /\ \A b \in AllocIds \ {a} : stage'[b] = stage[b]
      /\ activeJobs'[n][j] = NoRun
      /\ \A m \in Nodes, i \in Jobs :
           m # n \/ i # j => activeJobs'[m][i] = activeJobs[m][i]
  BY <1>1 DEF Unregister, SetActive, Goto, ClusterTypeOK
<1>3. RunInv'
  BY <1>1, <1>2, ClusterAssumption DEF RunInv, ClusterTypeOK
<1>4. ASSUME NEW b \in AllocIds, run'[b] = "running", stage'[b] # "started",
             ~Listed(b)'
      PROVE  \E d \in AllocIds \ {b} :
                /\ stage'[d] \notin {"idle", "started"}
                /\ alloc'[d].job = alloc'[b].job /\ alloc'[d].node = alloc'[b].node
  <2>1. b # a
    BY <1>1, <1>4 DEF Over
  <2>2. /\ run[b] = "running" /\ stage[b] # "started"
        /\ alloc[b].node \in Nodes /\ alloc[b].job \in Jobs
    BY <1>1, <1>2, <1>4, <2>1 DEF RunInv, LeaseInv, TypeOK, StoreTypeOK, Rows
  <2>3. CASE alloc[b].node = n /\ alloc[b].job = j
    BY <1>1, <1>2, <2>1, <2>3
  <2>4. CASE ~(alloc[b].node = n /\ alloc[b].job = j)
    <3>1. ~Listed(b)
      BY <1>1, <1>2, <1>4, <2>2, <2>4 DEF Listed
    <3>. QED
      BY <1>1, <1>2, <2>2, <3>1 DEF OutOfSightOnlyIfRelaunched
  <2>. QED
    BY <2>3, <2>4
<1>. QED
  BY <1>3, <1>4 DEF OutOfSightOnlyIfRelaunched

\* The other steps of an agent keep alloc and the map.
LEMMA RunsOfAgent ==
    ASSUME LeaseInv, ClusterTypeOK, RunInv, OutOfSightOnlyIfRelaunched,
           NEW a \in AllocIds, Exit(a) \/ PostStage(a) \/ PostCanceled(a)
    PROVE  RunInv' /\ OutOfSightOnlyIfRelaunched'
<1>. USE DEF ClusterTypeOK, RunInv, Over, Goto
<1>1. UNCHANGED <<alloc, activeJobs, launching>>
  BY DEF Exit, PostStage, PostCanceled, Post, HandleJobStateUpdate, vars,
     storeVars, allocVars
<1>2. /\ \A b \in AllocIds : run[b] = "none" <=> run'[b] = "none"
      /\ \A b \in AllocIds : run'[b] = "running" => run[b] = "running"
      /\ \A b \in AllocIds : run[b] \in Over => run'[b] \in Over
  BY DEF Exit, PostStage, PostCanceled
<1>3. \A b \in AllocIds :
        /\ stage[b] = "idle" <=> stage'[b] = "idle"
        /\ stage'[b] \in {"ended", "done"} => stage[b] \in {"ended", "done"}
        /\ stage'[b] = "started" <=> stage[b] = "started"
  BY DEF Exit, PostStage, PostCanceled, NextStage
<1>4. stopping' \subseteq stopping
  BY DEF Exit, PostStage, PostCanceled
<1>5. RunInv'
  BY <1>1, <1>2, <1>3, <1>4
<1>6. OutOfSightOnlyIfRelaunched'
  BY <1>1, <1>2, <1>3 DEF OutOfSightOnlyIfRelaunched, Listed
<1>. QED
  BY <1>5, <1>6

LEMMA RunsInductive ==
    ASSUME LeaseInv, ClusterTypeOK, RunInv, ReportInv,
           OutOfSightOnlyIfRelaunched, [ClusterNext]_allVars
    PROVE  RunInv' /\ OutOfSightOnlyIfRelaunched'
<1>1. \A a \in AllocIds : alloc[a] # NoRow => alloc'[a] = alloc[a]
  BY ClusterStep, RowsStay
<1>. USE DEF clusterVars, agentVars
<1>2. CASE Schedule
  BY <1>1, <1>2, RunsKept DEF Schedule
<1>3. CASE Serve \/ TimePasses \/ UNCHANGED allVars
  BY <1>1, <1>3, RunsKept DEF Serve, TimePasses, allVars
<1>4. ASSUME NEW j \in Jobs, CancelAndTerminate(j)
      PROVE  RunInv' /\ OutOfSightOnlyIfRelaunched'
  BY <1>1, <1>4, RunsKept DEF CancelAndTerminate
<1>5. ASSUME NEW n \in Nodes, NEW j \in Jobs, HandleTerminate(n, j)
      PROVE  RunInv' /\ OutOfSightOnlyIfRelaunched'
  <2>1. UNCHANGED <<alloc, launching, activeJobs, run, stage>>
    BY <1>5 DEF HandleTerminate, vars, storeVars, allocVars
  <2>2. \A a \in stopping' : run[a] # "none"
    BY <1>5 DEF HandleTerminate, RunInv, ClusterTypeOK
  <2>3. RunInv'
    BY <2>1, <2>2 DEF RunInv
  <2>4. OutOfSightOnlyIfRelaunched'
    BY <2>1 DEF OutOfSightOnlyIfRelaunched, Listed
  <2>. QED
    BY <2>3, <2>4
<1>6. ASSUME NEW a \in AllocIds, LaunchFails(a)
      PROVE  RunInv' /\ OutOfSightOnlyIfRelaunched'
  BY <1>1, <1>6, RunsKept DEF LaunchFails
<1>7. ASSUME NEW n \in Nodes, NEW j \in Jobs, TerminateFails(n, j)
      PROVE  RunInv' /\ OutOfSightOnlyIfRelaunched'
  BY <1>1, <1>7, RunsKept DEF TerminateFails
<1>8. ASSUME NEW c \in Checkers, NEW n \in Nodes, ListActive(c, n)
      PROVE  RunInv' /\ OutOfSightOnlyIfRelaunched'
  BY <1>1, <1>8, RunsKept DEF ListActive
<1>9. ASSUME NEW c \in Checkers, ReportFails(c) \/ Reconcile(c)
      PROVE  RunInv' /\ OutOfSightOnlyIfRelaunched'
  BY <1>1, <1>9, RunsKept DEF ReportFails, Reconcile
<1>. QED
  BY <1>2, <1>3, <1>4, <1>5, <1>6, <1>7, <1>8, <1>9, RunsOfHandleLaunch,
     RunsOfRegister, RunsOfUnregister, RunsOfAgent DEF ClusterNext, AgentStep

-----------------------------------------------------------------------------
\* A Checker compares a report with nothing else in hand.
LEMMA ReportInductive ==
    ASSUME LeaseInv, ClusterTypeOK, RunInv, ReportInv, [ClusterNext]_allVars
    PROVE  ReportInv'
<1>1. \A n \in Nodes : nodeStatus[n] # "NONE" => nodeStatus'[n] # "NONE"
  BY ClusterStep, RowsStay
<1>2. \A c \in Checkers : report[c] # NoReport => report[c].node \in Nodes
  BY DEF ClusterTypeOK, Reports
<1>. USE DEF ClusterTypeOK, LeaseInv, TypeOK, ServerTypeOK, clusterVars
<1>3. ASSUME UNCHANGED report,
             \A c \in Checkers : pendingLost'[c] \subseteq pendingLost[c]
      PROVE  ReportInv'
  BY <1>1, <1>2, <1>3 DEF ReportInv
<1>4. CASE Schedule \/ TimePasses \/ UNCHANGED allVars
  BY <1>3, <1>4 DEF Schedule, SchedulerStep, TimePasses, ClockStep, allVars, vars,
     serverVars
<1>5. CASE Serve
  <2>1. UNCHANGED report
    BY <1>5 DEF Serve
  <2>2. ASSUME NEW c \in Checkers, NEW j \in Jobs, MarkJobLost(c, j)
        PROVE  \A d \in Checkers : pendingLost'[d] \subseteq pendingLost[d]
    BY <2>2 DEF MarkJobLost
  <2>3. \/ UNCHANGED pendingLost
        \/ \E c \in Checkers, j \in Jobs : MarkJobLost(c, j)
    BY <1>5 DEF Serve, DetectStaleNodes, HandleHeartbeat, HandleNodeOffline,
       HandleJobSubmit, HandleJobCancel, CancelQueued, serverVars
  <2>. QED
    BY <1>3, <2>1, <2>2, <2>3
<1>6. CASE \E j \in Jobs : CancelAndTerminate(j)
  BY <1>3, <1>6 DEF CancelAndTerminate, CancelActive
<1>7. ASSUME NEW a \in AllocIds, \/ HandleLaunch(a) \/ LaunchFails(a) \/ Exit(a)
                                \/ Register(a) \/ Unregister(a)
      PROVE  ReportInv'
  BY <1>3, <1>7 DEF HandleLaunch, LaunchFails, Exit, Register, Unregister,
     vars, serverVars
<1>8. ASSUME NEW a \in AllocIds, PostStage(a) \/ PostCanceled(a)
      PROVE  ReportInv'
  BY <1>3, <1>8 DEF PostStage, PostCanceled, Post, HandleJobStateUpdate, vars,
     serverVars
<1>9. ASSUME NEW n \in Nodes, NEW j \in Jobs,
             HandleTerminate(n, j) \/ TerminateFails(n, j)
      PROVE  ReportInv'
  BY <1>3, <1>9 DEF HandleTerminate, TerminateFails, vars, serverVars
<1>10. ASSUME NEW c \in Checkers, NEW n \in Nodes, ListActive(c, n)
       PROVE  ReportInv'
  BY <1>10 DEF ListActive, ReportInv, vars, serverVars, storeVars, nodeVars
<1>11. ASSUME NEW c \in Checkers, ReportFails(c) PROVE ReportInv'
  BY <1>11 DEF ReportFails, ReportInv, vars, serverVars, storeVars, nodeVars
<1>12. ASSUME NEW c \in Checkers, Reconcile(c) PROVE ReportInv'
  BY <1>12 DEF Reconcile, ReportInv, storeVars, nodeVars
<1>. QED
  BY <1>4, <1>5, <1>6, <1>7, <1>8, <1>9, <1>10, <1>11, <1>12 DEF ClusterNext,
     AgentStep

-----------------------------------------------------------------------------
\* No step of the controller by itself makes a job SUCCEEDED.
LEMMA NoOtherSuccess ==
    ASSUME LeaseInv, NEW j \in Jobs, jobState'[j] = "SUCCEEDED",
           \/ Schedule \/ Serve \/ TimePasses \/ UNCHANGED jobState
           \/ \E i \in Jobs : CancelAndTerminate(i)
    PROVE  jobState[j] = "SUCCEEDED"
<1>. USE DEF LeaseInv, TypeOK, StoreTypeOK, storeVars, jobVars, SetState, EndJob
<1>1. CASE Schedule
  BY <1>1 DEF Schedule, SchedulerStep, SchedulerNext, QueryStalled,
     RetryStalled, GiveUpStalled, ReleaseStalled, EndStalled,
     PruneExpiredLeases, GetQueuedJobs, Place, Reject, KeepWaiting,
     AllocateJob, FailJob, EndSchedule, QueryOvertime, CancelOvertime,
     CloseOvertime, EndOvertime
<1>2. CASE Serve
  BY <1>2 DEF Serve, DetectStaleNodes, HandleHeartbeat, HandleNodeOffline,
     HandleJobSubmit, HandleJobCancel, CancelQueued, MarkJobLost
<1>3. CASE TimePasses
  BY <1>3 DEF TimePasses, ClockStep, Tick
<1>4. CASE \E i \in Jobs : CancelAndTerminate(i)
  BY <1>4 DEF CancelAndTerminate, CancelActive
<1>. QED
  BY <1>1, <1>2, <1>3, <1>4

\* The post that makes it SUCCEEDED is that of a run that exited with 0.
LEMMA SuccessInductive ==
    ASSUME LeaseInv, ClusterTypeOK, RunInv, ReportInv, SuccessIsReal,
           [ClusterNext]_allVars
    PROVE  SuccessIsReal'
<1>1. \A a \in AllocIds : alloc[a] # NoRow => alloc'[a] = alloc[a]
  BY ClusterStep, RowsStay
<1>2. \A a \in AllocIds : run[a] = "succeeded" => run'[a] = "succeeded"
  <2>1. ASSUME NEW b \in AllocIds, HandleLaunch(b) \/ Exit(b)
        PROVE  \A a \in AllocIds : run[a] = "succeeded" => run'[a] = "succeeded"
    BY <2>1 DEF HandleLaunch, Exit, ClusterTypeOK, RunInv
  <2>2. UNCHANGED run \/ \E b \in AllocIds : HandleLaunch(b) \/ Exit(b)
    BY DEF ClusterNext, Schedule, Serve, CancelAndTerminate, TimePasses,
       LaunchFails, AgentStep, Register, Unregister, PostStage, PostCanceled,
       HandleTerminate, TerminateFails, ListActive, ReportFails, Reconcile,
       clusterVars, agentVars, allVars
  <2>. QED
    BY <2>1, <2>2
<1>. SUFFICES ASSUME NEW j \in Jobs, jobState'[j] = "SUCCEEDED"
              PROVE  \E a \in AllocsOf(j)' : run'[a] = "succeeded"
  BY DEF SuccessIsReal
<1>3. CASE jobState[j] = "SUCCEEDED"
  BY <1>1, <1>2, <1>3 DEF SuccessIsReal, AllocsOf
<1>4. CASE jobState[j] # "SUCCEEDED"
  <2>1. PICK a \in AllocIds : PostStage(a) \/ PostCanceled(a)
    BY <1>4, NoOtherSuccess DEF ClusterNext, AgentStep, HandleLaunch,
       LaunchFails, Exit, Register, Unregister, HandleTerminate, TerminateFails,
       ListActive, ReportFails, Reconcile, vars, allVars, storeVars, jobVars
  <2>2. alloc[a] # NoRow /\ alloc[a].job \in Jobs
    BY <2>1 DEF PostStage, PostCanceled, NextStage, RunInv, ClusterTypeOK, Over,
       LeaseInv, TypeOK, StoreTypeOK, Rows
  <2>3. ASSUME NEW s, Post(a, s) PROVE alloc[a].job = j /\ s = "SUCCEEDED"
    BY <1>4, <2>2, <2>3 DEF Post, HandleJobStateUpdate, vars, storeVars, jobVars,
       LeaseInv, TypeOK, StoreTypeOK
  <2>4. CASE PostCanceled(a)
    BY <2>3, <2>4 DEF PostCanceled
  <2>5. CASE PostStage(a)
    <3>1. stage[a] = "ended" /\ Outcome(a) = "SUCCEEDED"
      BY <2>3, <2>5 DEF PostStage, PostOf, NextStage
    <3>2. run[a] = "succeeded"
      BY <3>1 DEF Outcome
    <3>. QED
      BY <1>1, <1>2, <2>2, <2>3, <2>5, <3>2 DEF AllocsOf, PostStage
  <2>. QED
    BY <2>1, <2>4, <2>5
<1>. QED
  BY <1>3, <1>4

-----------------------------------------------------------------------------
LEMMA ClusterInvInit == ClusterInit => ClusterInv
<1>. SUFFICES ASSUME ClusterInit PROVE ClusterInv
  OBVIOUS
<1>. USE ClusterAssumption DEF ClusterInit
<1>1. LeaseInv
  BY LeaseInit
<1>2. ClusterTypeOK
  BY DEF ClusterTypeOK
<1>3. RunInv /\ ReportInv /\ OutOfSightOnlyIfRelaunched
  BY DEF RunInv, ReportInv, OutOfSightOnlyIfRelaunched
<1>4. SuccessIsReal
  BY DEF SuccessIsReal, Init, StoreInit
<1>. QED
  BY <1>1, <1>2, <1>3, <1>4 DEF ClusterInv

\* The inductive invariant of controller and agents.
THEOREM ClusterCorrect == ClusterSpec => []ClusterInv
<1>1. ClusterInv /\ [ClusterNext]_allVars => ClusterInv'
  <2>. SUFFICES ASSUME ClusterInv, [ClusterNext]_allVars PROVE ClusterInv'
    OBVIOUS
  <2>1. [RestartNext]_vars
    BY ClusterStep DEF ClusterInv, RestartNext
  <2>2. LeaseInv'
    BY <2>1, LeaseInductive DEF ClusterInv
  <2>. QED
    BY <2>2, ClusterTypes, RunsInductive, ReportInductive, SuccessInductive
       DEF ClusterInv
<1>. QED
  BY <1>1, ClusterInvInit, PTL DEF ClusterSpec

\* Launches, posts, reports and terminate requests of real agents are steps
\* ControlPlane allows: what holds of Spec holds of the cluster.
THEOREM ClusterIsControlPlane == ClusterSpec => ControlPlaneAllows
<1>1. ClusterInit => Init
  BY DEF ClusterInit
<1>2. ClusterInv /\ [ClusterNext]_allVars => [Next]_vars
  BY ClusterStep DEF ClusterInv
<1>. QED
  BY <1>1, <1>2, ClusterCorrect, PTL DEF ClusterSpec, ControlPlaneAllows, Spec

\* The variables of controller and agents keep their types.
THEOREM ClusterTypeCorrect == ClusterSpec => []ClusterTypeOK
<1>1. ClusterInv => ClusterTypeOK
  BY DEF ClusterInv
<1>. QED
  BY <1>1, ClusterCorrect, PTL

\* A process nobody relaunched the job of is in the map while it runs.
THEOREM RunsAreInSight == ClusterSpec => []OutOfSightOnlyIfRelaunched
<1>1. ClusterInv => OutOfSightOnlyIfRelaunched
  BY DEF ClusterInv
<1>. QED
  BY <1>1, ClusterCorrect, PTL

\* No post that is late, lost, or of another run makes a job SUCCEEDED unless
\* one of its runs exited with 0.
THEOREM NoFalseSuccess == ClusterSpec => []SuccessIsReal
<1>1. ClusterInv => SuccessIsReal
  BY DEF ClusterInv
<1>. QED
  BY <1>1, ClusterCorrect, PTL

-----------------------------------------------------------------------------
(***************************************************************************)
(* What ControlPlane promises with agents that report anything it keeps    *)
(* with the agents there are.                                              *)
(***************************************************************************)

\* GPUs are exclusive and free after the end, a job has one open allocation
\* and a bounded number of them, and final states are final, with real agents.
THEOREM ClusterInherits ==
    ClusterSpec => /\ []LiveLeaseExclusive /\ []FreedWhenDone
                   /\ []OneOpenAllocation /\ []OpenMeansActive
                   /\ []AttemptsBounded
                   /\ FinalUnlessDecided
<1>1. ControlPlaneAllows => RestartSpec
  BY SpecIsRestartSpec DEF ControlPlaneAllows
<1>2. ControlPlaneAllows => []OneOpenAllocation /\ []OpenMeansActive
  BY OneOpen, OpenIsActive, PTL DEF ControlPlaneAllows
<1>. QED
  BY <1>1, <1>2, ClusterIsControlPlane, ExclusiveLeases, GPUsFreedWhenDone,
     BoundedAttempts, FinalStates, PTL

\* The leases of the cluster are a gang-allocated exclusive pool.
THEOREM ClusterImplementsPool == ClusterSpec => PoolSpec
<1>1. ControlPlaneAllows => RestartSpec
  BY SpecIsRestartSpec DEF ControlPlaneAllows
<1>. QED
  BY <1>1, ClusterIsControlPlane, ImplementsPool, PTL

-----------------------------------------------------------------------------
\* The runs of a job that agents started, ended ones included.
RunsOf(j) == {a \in AllocIds : run[a] # "none" /\ alloc[a].job = j}

\* The command of a job is started at most MaxRetries + 1 times, whatever is
\* lost, late or repeated between controller and agents.
LaunchesBounded == \A j \in Jobs : Cardinality(RunsOf(j)) <= MaxRetries + 1

\* Agents start no command the controller did not place.
THEOREM BoundedLaunches == ClusterSpec => []LaunchesBounded
<1>1. ClusterInv /\ AttemptsBounded => LaunchesBounded
  <2>. SUFFICES ASSUME ClusterInv, AttemptsBounded, NEW j \in Jobs
                PROVE  Cardinality(RunsOf(j)) <= MaxRetries + 1
    BY DEF LaunchesBounded
  <2>1. RunsOf(j) \subseteq AllocsOf(j)
    BY DEF ClusterInv, RunInv, RunsOf, AllocsOf
  <2>2. IsFiniteSet(AllocsOf(j))
    BY FiniteAssumption, FS_Subset DEF AllocsOf
  <2>3. Cardinality(RunsOf(j)) <= Cardinality(AllocsOf(j))
    BY <2>1, <2>2, FS_Subset
  <2>4. IsFiniteSet(RunsOf(j))
    BY <2>1, <2>2, FS_Subset
  <2>5. Cardinality(RunsOf(j)) \in Nat /\ Cardinality(AllocsOf(j)) \in Nat
    BY <2>2, <2>4, FS_CardinalityType
  <2>6. retries[j] \in Nat /\ MaxRetries \in Nat
    BY StoreAssumption DEF ClusterInv, LeaseInv, TypeOK, StoreTypeOK
  <2>. QED
    BY <2>3, <2>5, <2>6 DEF AttemptsBounded
<1>. QED
  BY <1>1, ClusterCorrect, ClusterInherits, PTL
=============================================================================
