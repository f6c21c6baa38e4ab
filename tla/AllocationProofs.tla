--------------------------- MODULE AllocationProofs ---------------------------
(***************************************************************************)
(* Proofs about the allocations of ControlPlane: how many a job may have,  *)
(* which may be open, and who may overwrite the state of a finished job.   *)
(* AttemptsInv is kept by restarts.  OpenInv is not: it needs the process  *)
(* to survive the two statements of an iteration of handleStalledJobs.     *)
(***************************************************************************)
EXTENDS LeaseProofs, FiniteSetTheorems

\* A step that inserts no allocation keeps AttemptsInv, provided that a job
\* only starts to wait for a placement when its retry count is raised.
LEMMA AttemptsKept ==
    ASSUME TypeOK, TypeOK', AttemptsInv, UNCHANGED alloc,
           \A j \in Jobs : retries'[j] >= retries[j],
           \A j \in Jobs : Waiting(j)' => Waiting(j) \/ retries'[j] > retries[j]
    PROVE  AttemptsInv'
<1>. SUFFICES ASSUME NEW j \in Jobs
              PROVE  /\ Cardinality(AllocsOf(j)') <= retries'[j] + 1
                     /\ Waiting(j)' => Cardinality(AllocsOf(j)') <= retries'[j]
  BY DEF AttemptsInv
<1>1. AllocsOf(j)' = AllocsOf(j)
  BY DEF AllocsOf
<1>2. /\ Cardinality(AllocsOf(j)) \in Nat
      /\ retries[j] \in Nat /\ retries'[j] \in Nat
  <2>1. IsFiniteSet(AllocsOf(j))
    BY FiniteAssumption, FS_Subset DEF AllocsOf
  <2>. QED
    BY <2>1, FS_CardinalityType, StoreAssumption DEF TypeOK, StoreTypeOK
<1>. QED
  BY <1>1, <1>2 DEF AttemptsInv

\* allocateJob inserts one allocation, for a job that was waiting for it.
LEMMA AttemptsOfAllocateJob ==
    ASSUME TypeOK, TargetSet, AttemptsInv, AllocateJob
    PROVE  AttemptsInv'
<1>. SUFFICES ASSUME NEW j \in Jobs
              PROVE  /\ Cardinality(AllocsOf(j)') <= retries'[j] + 1
                     /\ Waiting(j)' => Cardinality(AllocsOf(j)') <= retries'[j]
  BY DEF AttemptsInv
<1>1. /\ NextId \in AllocIds /\ alloc[NextId] = NoRow
      /\ target \in Jobs \ todo
      /\ alloc'[NextId] = [job |-> target, node |-> bestNode, gpus |-> selectedGPUs]
      /\ \A a \in AllocIds \ {NextId} : alloc'[a] = alloc[a]
  BY StoreAssumption DEF AllocateJob, FreshIds, NextId, TargetSet, TypeOK, StoreTypeOK
<1>2. alloc'[NextId] # NoRow
  BY <1>1, StoreAssumption DEF TypeOK, SchedulerTypeOK, TargetSet, AllocateJob, Rows
<1>3. retries' = retries /\ retries[j] \in Nat
  BY StoreAssumption DEF AllocateJob, TypeOK, StoreTypeOK
<1>4. IsFiniteSet(AllocsOf(j))
  BY FiniteAssumption, FS_Subset DEF AllocsOf
<1>5. Cardinality(AllocsOf(j)) \in Nat
  BY <1>4, FS_CardinalityType
<1>6. CASE j = target
  <2>1. AllocsOf(j)' = AllocsOf(j) \cup {NextId} /\ NextId \notin AllocsOf(j)
    BY <1>1, <1>2, <1>6 DEF AllocsOf
  <2>2. Cardinality(AllocsOf(j)') = Cardinality(AllocsOf(j)) + 1
    BY <2>1, <1>4, FS_AddElement
  <2>3. Waiting(j)
    BY <1>6 DEF AllocateJob, Waiting, Placing, InHand
  <2>4. ~Waiting(j)'
    BY <1>1, <1>6 DEF AllocateJob, Waiting, InHand, SetState, Placing
  <2>. QED
    BY <2>2, <2>3, <2>4, <1>3, <1>5 DEF AttemptsInv
<1>7. CASE j # target
  <2>1. AllocsOf(j)' = AllocsOf(j)
    BY <1>1, <1>7 DEF AllocsOf
  <2>2. Waiting(j)' => Waiting(j)
    BY <1>7 DEF AllocateJob, Waiting, Placing, InHand, SetState
  <2>. QED
    BY <2>1, <2>2, <1>3 DEF AttemptsInv
<1>. QED
  BY <1>6, <1>7

LEMMA AttemptsInductive ==
    ASSUME TypeOK, TypeOK', TargetSet, AttemptsInv, [RestartNext]_vars
    PROVE  AttemptsInv'
<1>. USE StoreAssumption DEF Waiting, Placing, InHand, TypeOK, TargetSet,
       StoreTypeOK, SchedulerTypeOK, ServerTypeOK, Active, EndStates,
       Terminal, jobVars, allocVars, nodeVars, storeVars, schedVars,
       choiceVars, cancelVars, serverVars, vars, SetState, CloseAllocations,
       DeleteLeases, EndJob
<1>1. CASE UNCHANGED <<jobVars, allocVars, schedVars>>
  BY <1>1, AttemptsKept
<1>2. CASE QueryStalled /\ UNCHANGED serverVars
  BY <1>2, AttemptsKept DEF QueryStalled
<1>3. ASSUME NEW j \in Jobs, RetryStalled(j), UNCHANGED serverVars
      PROVE  AttemptsInv'
  BY <1>3, AttemptsKept DEF RetryStalled, RetriesLeft
<1>4. ASSUME NEW j \in Jobs, GiveUpStalled(j), UNCHANGED serverVars
      PROVE  AttemptsInv'
  BY <1>4, AttemptsKept DEF GiveUpStalled, RetriesLeft
<1>5. CASE ReleaseStalled /\ UNCHANGED serverVars
  BY <1>5, AttemptsKept DEF ReleaseStalled
<1>6. CASE EndStalled /\ UNCHANGED serverVars
  BY <1>6, AttemptsKept DEF EndStalled
<1>7. CASE PruneExpiredLeases /\ UNCHANGED serverVars
  BY <1>7, AttemptsKept DEF PruneExpiredLeases, ExpiredLeases
<1>8. CASE GetQueuedJobs /\ UNCHANGED serverVars
  BY <1>8, AttemptsKept DEF GetQueuedJobs
<1>9. ASSUME NEW j \in Jobs, Place(j), UNCHANGED serverVars
      PROVE  AttemptsInv'
  BY <1>9, AttemptsKept DEF Place, IsNext
<1>10. ASSUME NEW j \in Jobs, Reject(j), UNCHANGED serverVars
      PROVE  AttemptsInv'
  BY <1>10, AttemptsKept DEF Reject, IsNext
<1>11. ASSUME NEW j \in Jobs, KeepWaiting(j), UNCHANGED serverVars
      PROVE  AttemptsInv'
  BY <1>11, AttemptsKept DEF KeepWaiting, IsNext
<1>12. CASE AllocateJob /\ UNCHANGED serverVars
  BY <1>12, AttemptsOfAllocateJob
<1>13. CASE FailJob /\ UNCHANGED serverVars
  BY <1>13, AttemptsKept DEF FailJob
<1>14. CASE EndSchedule /\ UNCHANGED serverVars
  BY <1>14, AttemptsKept DEF EndSchedule
<1>15. CASE QueryOvertime /\ UNCHANGED serverVars
  BY <1>15, AttemptsKept DEF QueryOvertime
<1>16. ASSUME NEW j \in Jobs, CancelOvertime(j), UNCHANGED serverVars
      PROVE  AttemptsInv'
  BY <1>16, AttemptsKept DEF CancelOvertime
<1>17. CASE CloseOvertime /\ UNCHANGED serverVars
  BY <1>17, AttemptsKept DEF CloseOvertime
<1>18. CASE EndOvertime /\ UNCHANGED serverVars
  BY <1>18, AttemptsKept DEF EndOvertime
<1>19. ASSUME NEW j \in Jobs, HandleJobSubmit(j), UNCHANGED schedVars
      PROVE  AttemptsInv'
  BY <1>19, AttemptsKept DEF HandleJobSubmit
<1>20. ASSUME NEW c \in Checkers, NEW j \in Jobs, MarkJobLost(c, j), UNCHANGED
       schedVars
      PROVE  AttemptsInv'
  BY <1>20, AttemptsKept DEF MarkJobLost
<1>21. ASSUME NEW n \in Nodes, HandleNodeOffline(n), UNCHANGED schedVars
      PROVE  AttemptsInv'
  BY <1>21, AttemptsKept DEF HandleNodeOffline, ActiveOn, AllocsOfAny, OpenJobsOn
<1>22. ASSUME NEW j \in Jobs, NEW s \in Reported, HandleJobStateUpdate(j, s),
       UNCHANGED schedVars
      PROVE  AttemptsInv'
  BY <1>22, AttemptsKept DEF HandleJobStateUpdate, Takes, Reported
<1>23. ASSUME NEW j \in Jobs, CancelQueued(j), UNCHANGED schedVars
      PROVE  AttemptsInv'
  BY <1>23, AttemptsKept DEF CancelQueued
<1>24. ASSUME NEW j \in Jobs, CancelActive(j), UNCHANGED schedVars
      PROVE  AttemptsInv'
  BY <1>24, AttemptsKept DEF CancelActive
<1>25. CASE ClockStep
  BY <1>25, AttemptsKept DEF ClockStep, Tick
<1>26. CASE Restart
  BY <1>26, AttemptsKept DEF Restart, SchedulerRestart, ServerRestart
<1>. QED
  BY <1>1, <1>2, <1>3, <1>4, <1>5, <1>6, <1>7, <1>8, <1>9, <1>10, <1>11,
     <1>12, <1>13, <1>14, <1>15, <1>16, <1>17, <1>18, <1>19, <1>20, <1>21,
     <1>22, <1>23, <1>24, <1>25, <1>26 DEF RestartNext, Next, SchedulerStep,
     SchedulerNext, ServerStep, ServerNext, HandleHeartbeat, FindOrphans,
     DetectStaleNodes, HandleJobCancel, storeVars, vars

\* A job is placed at most once more than it was requeued, hence at most
\* MaxRetries + 1 times, also when the controller restarts in between.
THEOREM BoundedAttempts == RestartSpec => []AttemptsBounded
<1>1. Init => AttemptsInv
  <2>. SUFFICES ASSUME Init, NEW j \in Jobs
                PROVE  AllocsOf(j) = {} /\ retries[j] = 0
    BY FS_EmptySet DEF AttemptsInv
  <2>. QED
    BY DEF Init, StoreInit, AllocsOf
<1>2. LeaseInv /\ LeaseInv' /\ AttemptsInv /\ [RestartNext]_vars => AttemptsInv'
  BY AttemptsInductive DEF LeaseInv
<1>3. LeaseInv /\ AttemptsInv => AttemptsBounded
  BY StoreAssumption DEF LeaseInv, TypeOK, StoreTypeOK, AttemptsInv, AttemptsBounded
<1>. QED
  BY <1>1, <1>2, <1>3, LeaseCorrect, PTL DEF RestartSpec

-----------------------------------------------------------------------------
LEMMA OpenInductive ==
    ASSUME LeaseInv, LeaseInv', OpenInv, [Next]_vars
    PROVE  OpenInv'
<1>. TypeOK' /\ TargetSet' /\ NewIsUnplaced'
  BY DEF LeaseInv
<1>. USE StoreAssumption DEF OpenInv, TypeOK, TargetSet, StoreTypeOK,
       SchedulerTypeOK, ServerTypeOK, Placing, InHand, Active, EndStates,
       Terminal, Rows, jobVars, allocVars, nodeVars, storeVars, schedVars,
       choiceVars, cancelVars, serverVars, vars, SetState, CloseAllocations,
       DeleteLeases, EndJob
<1>1. CASE UNCHANGED <<jobVars, allocVars, schedVars>>
  BY <1>1 DEF InHandIsDetached, OneOpenAllocation, OpenMeansActive
<1>2. CASE QueryStalled /\ UNCHANGED serverVars
  BY <1>2 DEF QueryStalled, InHandIsDetached, OneOpenAllocation,
     OpenMeansActive
<1>3. ASSUME NEW j \in Jobs, RetryStalled(j), UNCHANGED serverVars
      PROVE  OpenInv'
  BY <1>3 DEF RetryStalled, RetriesLeft, InHandIsDetached, OneOpenAllocation,
     OpenMeansActive
<1>4. ASSUME NEW j \in Jobs, GiveUpStalled(j), UNCHANGED serverVars
      PROVE  OpenInv'
  BY <1>4 DEF GiveUpStalled, RetriesLeft, InHandIsDetached, OneOpenAllocation,
     OpenMeansActive
<1>5. CASE ReleaseStalled /\ UNCHANGED serverVars
  BY <1>5 DEF ReleaseStalled, AllocsOf, InHandIsDetached, OneOpenAllocation,
     OpenMeansActive
<1>6. CASE EndStalled /\ UNCHANGED serverVars
  BY <1>6 DEF EndStalled, InHandIsDetached, OneOpenAllocation, OpenMeansActive
<1>7. CASE PruneExpiredLeases /\ UNCHANGED serverVars
  BY <1>7 DEF PruneExpiredLeases, ExpiredLeases, InHandIsDetached, OneOpenAllocation,
     OpenMeansActive
<1>8. CASE GetQueuedJobs /\ UNCHANGED serverVars
  BY <1>8 DEF GetQueuedJobs, InHandIsDetached, OneOpenAllocation,
     OpenMeansActive
<1>9. ASSUME NEW j \in Jobs, Place(j), UNCHANGED serverVars
      PROVE  OpenInv'
  BY <1>9 DEF Place, IsNext, InHandIsDetached, OneOpenAllocation,
     OpenMeansActive
<1>10. ASSUME NEW j \in Jobs, Reject(j), UNCHANGED serverVars
      PROVE  OpenInv'
  BY <1>10 DEF Reject, IsNext, InHandIsDetached, OneOpenAllocation,
     OpenMeansActive
<1>11. ASSUME NEW j \in Jobs, KeepWaiting(j), UNCHANGED serverVars
      PROVE  OpenInv'
  BY <1>11 DEF KeepWaiting, IsNext, InHandIsDetached, OneOpenAllocation,
     OpenMeansActive
<1>12. CASE AllocateJob /\ UNCHANGED serverVars
  <2>1. /\ NextId \in AllocIds /\ alloc[NextId] = NoRow /\ NextId \notin open
        /\ target \in Jobs \ todo /\ target \in InHand
    BY <1>12 DEF AllocateJob, FreshIds, NextId
  <2>2. /\ alloc'[NextId].job = target
        /\ \A a \in AllocIds \ {NextId} : alloc'[a] = alloc[a]
        /\ open' = open \cup {NextId}
        /\ jobState'[target] = "ALLOCATED"
        /\ \A j \in Jobs \ {target} : jobState'[j] = jobState[j]
        /\ pc = "allocate" /\ pc' = "decide" /\ todo' = todo
    BY <1>12, <2>1 DEF AllocateJob
  <2>3. InHandIsDetached' /\ OneOpenAllocation'
    BY <2>1, <2>2 DEF InHandIsDetached, OneOpenAllocation
  <2>4. OpenMeansActive'
    BY <2>1, <2>2 DEF OpenMeansActive
  <2>. QED
    BY <2>3, <2>4
<1>13. CASE FailJob /\ UNCHANGED serverVars
  BY <1>13 DEF FailJob, InHandIsDetached, OneOpenAllocation, OpenMeansActive
<1>14. CASE EndSchedule /\ UNCHANGED serverVars
  BY <1>14 DEF EndSchedule, InHandIsDetached, OneOpenAllocation,
     OpenMeansActive
<1>15. CASE QueryOvertime /\ UNCHANGED serverVars
  BY <1>15 DEF QueryOvertime, InHandIsDetached, OneOpenAllocation,
     OpenMeansActive
<1>16. ASSUME NEW j \in Jobs, CancelOvertime(j), UNCHANGED serverVars
      PROVE  OpenInv'
  BY <1>16 DEF CancelOvertime, InHandIsDetached, OneOpenAllocation,
     OpenMeansActive
<1>17. CASE CloseOvertime /\ UNCHANGED serverVars
  BY <1>17 DEF CloseOvertime, AllocsOf, InHandIsDetached, OneOpenAllocation,
     OpenMeansActive
<1>18. CASE EndOvertime /\ UNCHANGED serverVars
  BY <1>18 DEF EndOvertime, InHandIsDetached, OneOpenAllocation,
     OpenMeansActive
<1>19. ASSUME NEW j \in Jobs, HandleJobSubmit(j), UNCHANGED schedVars
      PROVE  OpenInv'
  BY <1>19 DEF HandleJobSubmit, NewIsUnplaced, InHandIsDetached,
     OneOpenAllocation, OpenMeansActive
<1>20. ASSUME NEW c \in Checkers, NEW j \in Jobs, MarkJobLost(c, j), UNCHANGED
       schedVars
      PROVE  OpenInv'
  BY <1>20 DEF MarkJobLost, AllocsOf, InHandIsDetached, OneOpenAllocation,
     OpenMeansActive
<1>21. ASSUME NEW n \in Nodes, HandleNodeOffline(n), UNCHANGED schedVars
      PROVE  OpenInv'
  <2>. DEFINE lost == {j \in OpenJobsOn(n) : jobState[j] \notin EndStates}
  <2>1. /\ alloc' = alloc /\ pc' = pc /\ target' = target /\ todo' = todo
        /\ open' \subseteq open
        /\ \A a \in open' : alloc[a].job \notin lost
        /\ \A j \in Jobs \ lost : jobState'[j] = jobState[j]
    BY <1>21 DEF HandleNodeOffline, ActiveOn, AllocsOfAny
  <2>2. InHandIsDetached' /\ OneOpenAllocation'
    BY <2>1 DEF InHandIsDetached, OneOpenAllocation
  <2>3. OpenMeansActive'
    BY <2>1 DEF OpenMeansActive
  <2>. QED
    BY <2>2, <2>3
<1>22. ASSUME NEW j \in Jobs, NEW s \in Reported, HandleJobStateUpdate(j, s),
       UNCHANGED schedVars
      PROVE  OpenInv'
  BY <1>22 DEF HandleJobStateUpdate, Takes, Reported, AllocsOf, InHandIsDetached,
     OneOpenAllocation, OpenMeansActive
<1>23. ASSUME NEW j \in Jobs, CancelQueued(j), UNCHANGED schedVars
      PROVE  OpenInv'
  BY <1>23 DEF CancelQueued, InHandIsDetached, OneOpenAllocation,
     OpenMeansActive
<1>24. ASSUME NEW j \in Jobs, CancelActive(j), UNCHANGED schedVars
      PROVE  OpenInv'
  BY <1>24 DEF CancelActive, AllocsOf, InHandIsDetached, OneOpenAllocation,
     OpenMeansActive
<1>25. CASE ClockStep
  BY <1>25 DEF ClockStep, Tick, InHandIsDetached, OneOpenAllocation,
     OpenMeansActive
<1>. QED
  BY <1>1, <1>2, <1>3, <1>4, <1>5, <1>6, <1>7, <1>8, <1>9, <1>10, <1>11,
     <1>12, <1>13, <1>14, <1>15, <1>16, <1>17, <1>18, <1>19, <1>20, <1>21,
     <1>22, <1>23, <1>24, <1>25 DEF Next, SchedulerStep, SchedulerNext,
     ServerStep, ServerNext, HandleHeartbeat, FindOrphans, DetectStaleNodes,
     HandleJobCancel, storeVars, vars

LEMMA OpenInit == Init => OpenInv
  BY LeaseInit DEF LeaseInv, OpenInv, Init, StoreInit, SchedulerInit, Placing,
     InHandIsDetached, OneOpenAllocation, OpenMeansActive

THEOREM OpenCorrect == Spec => []OpenInv
  BY OpenInit, OpenInductive, LeaseCorrect, SpecIsRestartSpec, PTL DEF Spec

\* As long as the controller does not restart, no job has two allocations
\* that are not released.
THEOREM OneOpen == Spec => []OneOpenAllocation
<1>1. OpenInv => OneOpenAllocation
  BY DEF OpenInv
<1>. QED
  BY <1>1, OpenCorrect, PTL

\* ... and an allocation that is not released belongs to an active job, but
\* for the exceptions OpenMeansActive names.
THEOREM OpenIsActive == Spec => []OpenMeansActive
<1>1. OpenInv => OpenMeansActive
  BY DEF OpenInv
<1>. QED
  BY <1>1, OpenCorrect, PTL

-----------------------------------------------------------------------------
\* Only a write that was decided upon before takes a finished job out of its
\* state; every other statement respects it, restarts included.
LEMMA FinalStep ==
    ASSUME TypeOK, TargetSet, [RestartNext]_vars, NEW j \in Jobs,
           jobState[j] \in Terminal, jobState'[j] # jobState[j]
    PROVE  j \in Decided
<1>. USE DEF Active, EndStates, Terminal, JobStates, TypeOK, TargetSet,
       StoreTypeOK, SchedulerTypeOK, ServerTypeOK, jobVars, allocVars,
       nodeVars, storeVars, schedVars, choiceVars, cancelVars, serverVars,
       vars, SetState, CloseAllocations, DeleteLeases, EndJob
<1>1. CASE UNCHANGED <<jobVars, allocVars, schedVars>>
  BY <1>1
<1>2. CASE QueryStalled /\ UNCHANGED serverVars
  BY <1>2 DEF QueryStalled, Decided
<1>3. ASSUME NEW k \in Jobs, RetryStalled(k), UNCHANGED serverVars
      PROVE  j \in Decided
  BY <1>3 DEF RetryStalled, RetriesLeft, Decided
<1>4. ASSUME NEW k \in Jobs, GiveUpStalled(k), UNCHANGED serverVars
      PROVE  j \in Decided
  BY <1>4 DEF GiveUpStalled, RetriesLeft, Decided
<1>5. CASE ReleaseStalled /\ UNCHANGED serverVars
  BY <1>5 DEF ReleaseStalled, Decided
<1>6. CASE EndStalled /\ UNCHANGED serverVars
  BY <1>6 DEF EndStalled, Decided
<1>7. CASE PruneExpiredLeases /\ UNCHANGED serverVars
  BY <1>7 DEF PruneExpiredLeases, ExpiredLeases, Decided
<1>8. CASE GetQueuedJobs /\ UNCHANGED serverVars
  BY <1>8 DEF GetQueuedJobs, Decided
<1>9. ASSUME NEW k \in Jobs, Place(k), UNCHANGED serverVars
      PROVE  j \in Decided
  BY <1>9 DEF Place, Decided
<1>10. ASSUME NEW k \in Jobs, Reject(k), UNCHANGED serverVars
      PROVE  j \in Decided
  BY <1>10 DEF Reject, Decided
<1>11. ASSUME NEW k \in Jobs, KeepWaiting(k), UNCHANGED serverVars
      PROVE  j \in Decided
  BY <1>11 DEF KeepWaiting, Decided
<1>12. CASE AllocateJob /\ UNCHANGED serverVars
  BY <1>12 DEF AllocateJob, Decided
<1>13. CASE FailJob /\ UNCHANGED serverVars
  BY <1>13 DEF FailJob, Decided
<1>14. CASE EndSchedule /\ UNCHANGED serverVars
  BY <1>14 DEF EndSchedule, Decided
<1>15. CASE QueryOvertime /\ UNCHANGED serverVars
  BY <1>15 DEF QueryOvertime, Decided
<1>16. ASSUME NEW k \in Jobs, CancelOvertime(k), UNCHANGED serverVars
      PROVE  j \in Decided
  BY <1>16 DEF CancelOvertime, Decided
<1>17. CASE CloseOvertime /\ UNCHANGED serverVars
  BY <1>17 DEF CloseOvertime, Decided
<1>18. CASE EndOvertime /\ UNCHANGED serverVars
  BY <1>18 DEF EndOvertime, Decided
<1>19. ASSUME NEW k \in Jobs, HandleJobSubmit(k), UNCHANGED schedVars
      PROVE  j \in Decided
  BY <1>19 DEF HandleJobSubmit, Decided
<1>20. ASSUME NEW c \in Checkers, NEW k \in Jobs, MarkJobLost(c, k), UNCHANGED
       schedVars
      PROVE  j \in Decided
  BY <1>20 DEF MarkJobLost, Decided
<1>21. ASSUME NEW n \in Nodes, HandleNodeOffline(n), UNCHANGED schedVars
      PROVE  j \in Decided
  BY <1>21 DEF HandleNodeOffline, ActiveOn, AllocsOfAny, OpenJobsOn, Decided
<1>22. ASSUME NEW k \in Jobs, NEW s \in Reported, HandleJobStateUpdate(k, s),
       UNCHANGED schedVars
      PROVE  j \in Decided
  BY <1>22 DEF HandleJobStateUpdate, Takes, Decided
<1>23. ASSUME NEW k \in Jobs, CancelQueued(k), UNCHANGED schedVars
      PROVE  j \in Decided
  BY <1>23 DEF CancelQueued, Decided
<1>24. ASSUME NEW k \in Jobs, CancelActive(k), UNCHANGED schedVars
      PROVE  j \in Decided
  BY <1>24 DEF CancelActive, Decided
<1>25. CASE ClockStep
  BY <1>25 DEF ClockStep, Tick, Decided
<1>26. CASE Restart
  BY <1>26 DEF Restart, SchedulerRestart, ServerRestart, Decided
<1>. QED
  BY <1>1, <1>2, <1>3, <1>4, <1>5, <1>6, <1>7, <1>8, <1>9, <1>10, <1>11,
     <1>12, <1>13, <1>14, <1>15, <1>16, <1>17, <1>18, <1>19, <1>20, <1>21,
     <1>22, <1>23, <1>24, <1>25, <1>26 DEF RestartNext, Next, SchedulerStep,
     SchedulerNext, ServerStep, ServerNext, HandleHeartbeat, FindOrphans,
     DetectStaleNodes, HandleJobCancel, storeVars, vars

THEOREM FinalStates == RestartSpec => FinalUnlessDecided
<1>1. LeaseInv /\ [RestartNext]_vars =>
        [\A j \in Jobs : jobState[j] \in Terminal /\ jobState'[j] # jobState[j]
                          => j \in Decided]_vars
  BY FinalStep DEF LeaseInv
<1>. QED
  BY <1>1, LeaseCorrect, PTL DEF RestartSpec, FinalUnlessDecided
=============================================================================
