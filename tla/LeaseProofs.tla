----------------------------- MODULE LeaseProofs -----------------------------
(***************************************************************************)
(* Proofs about the leases of ControlPlane, with restarts of the process.  *)
(* LeaseInv is inductive: what a pass of the scheduler read stays true     *)
(* enough until it writes.                                                 *)
(*   - A job in hand has no lease rows (InHandIsBare), so allocateJob      *)
(*     cannot give it a second set; no handler adds any, and the scheduler *)
(*     itself found none, because the pass of CleanupLeases before the     *)
(*     query deleted the rows of every job it requeued (QueuedIsBare).     *)
(*   - The leases of a stalled job were all expired when the pass saw them *)
(*     (OneLeasedAllocation) and stay so (StalledIsExpired): requeueing    *)
(*     it cannot leave a live lease behind (FreedWhenDone).                *)
(*   - The chosen GPUs stay free until they are leased (ChoiceIsFree).     *)
(***************************************************************************)
EXTENDS ControlPlane, TLAPS

\* Every step keeps the types, and a target while a statement about it is due.
LEMMA TypeInductive ==
    ASSUME TypeOK, TargetSet, [RestartNext]_vars
    PROVE  TypeOK' /\ TargetSet'
<1>. USE StoreAssumption DEF TypeOK, TargetSet, StoreTypeOK, SchedulerTypeOK,
       ServerTypeOK, JobStates, Active, Terminal, EndStates, Labels,
       StartedCap, HbCap, NoLease, Expired, jobVars, allocVars, nodeVars,
       storeVars, schedVars, choiceVars, cancelVars, serverVars, vars,
       SetState, CloseAllocations, DeleteLeases, EndJob
<1>1. CASE QueryStalled /\ UNCHANGED serverVars
  BY <1>1 DEF QueryStalled
<1>2. ASSUME NEW j \in Jobs, RetryStalled(j), UNCHANGED serverVars
      PROVE  TypeOK' /\ TargetSet'
  BY <1>2 DEF RetryStalled, RetriesLeft
<1>3. ASSUME NEW j \in Jobs, GiveUpStalled(j), UNCHANGED serverVars
      PROVE  TypeOK' /\ TargetSet'
  BY <1>3 DEF GiveUpStalled, RetriesLeft
<1>4. CASE ReleaseStalled /\ UNCHANGED serverVars
  BY <1>4 DEF ReleaseStalled
<1>5. CASE EndStalled /\ UNCHANGED serverVars
  BY <1>5 DEF EndStalled
<1>6. CASE PruneExpiredLeases /\ UNCHANGED serverVars
  BY <1>6 DEF PruneExpiredLeases, ExpiredLeases
<1>7. CASE GetQueuedJobs /\ UNCHANGED serverVars
  BY <1>7 DEF GetQueuedJobs
<1>8. ASSUME NEW j \in Jobs, Place(j), UNCHANGED serverVars
      PROVE  TypeOK' /\ TargetSet'
  BY <1>8 DEF Place, IsNext, Available, GPUsOf
<1>9. ASSUME NEW j \in Jobs, Reject(j), UNCHANGED serverVars
      PROVE  TypeOK' /\ TargetSet'
  BY <1>9 DEF Reject, IsNext
<1>10. ASSUME NEW j \in Jobs, KeepWaiting(j), UNCHANGED serverVars
      PROVE  TypeOK' /\ TargetSet'
  BY <1>10 DEF KeepWaiting, IsNext
<1>11. CASE AllocateJob /\ UNCHANGED serverVars
  BY <1>11 DEF AllocateJob, FreshIds, NextId, Rows
<1>12. CASE FailJob /\ UNCHANGED serverVars
  BY <1>12 DEF FailJob
<1>13. CASE EndSchedule /\ UNCHANGED serverVars
  BY <1>13 DEF EndSchedule
<1>14. CASE QueryOvertime /\ UNCHANGED serverVars
  BY <1>14 DEF QueryOvertime
<1>15. ASSUME NEW j \in Jobs, CancelOvertime(j), UNCHANGED serverVars
      PROVE  TypeOK' /\ TargetSet'
  BY <1>15 DEF CancelOvertime
<1>16. CASE CloseOvertime /\ UNCHANGED serverVars
  BY <1>16 DEF CloseOvertime
<1>17. CASE EndOvertime /\ UNCHANGED serverVars
  BY <1>17 DEF EndOvertime
<1>18. ASSUME NEW j \in Jobs, HandleJobSubmit(j), UNCHANGED schedVars
      PROVE  TypeOK' /\ TargetSet'
  BY <1>18 DEF HandleJobSubmit
<1>19. ASSUME NEW n \in Nodes, HandleHeartbeat(n), UNCHANGED schedVars
      PROVE  TypeOK' /\ TargetSet'
  BY <1>19 DEF HandleHeartbeat
<1>20. ASSUME NEW c \in Checkers, NEW n \in Nodes, FindOrphans(c, n),
       UNCHANGED schedVars
      PROVE  TypeOK' /\ TargetSet'
  BY <1>20 DEF FindOrphans, ExpectedOn, OpenJobsOn, AllocsOn, Rows
<1>21. ASSUME NEW c \in Checkers, NEW j \in Jobs, MarkJobLost(c, j), UNCHANGED
       schedVars
      PROVE  TypeOK' /\ TargetSet'
  BY <1>21 DEF MarkJobLost
<1>22. CASE DetectStaleNodes /\ UNCHANGED schedVars
  BY <1>22 DEF DetectStaleNodes, Up
<1>23. ASSUME NEW n \in Nodes, HandleNodeOffline(n), UNCHANGED schedVars
      PROVE  TypeOK' /\ TargetSet'
  BY <1>23 DEF HandleNodeOffline, ActiveOn, AllocsOfAny, OpenJobsOn, AllocsOn
<1>24. ASSUME NEW j \in Jobs, NEW s \in Reported, HandleJobStateUpdate(j, s),
       UNCHANGED schedVars
      PROVE  TypeOK' /\ TargetSet'
  BY <1>24 DEF HandleJobStateUpdate, Takes, Reported
<1>25. ASSUME NEW j \in Jobs, HandleJobCancel(j), UNCHANGED schedVars
      PROVE  TypeOK' /\ TargetSet'
  BY <1>25 DEF HandleJobCancel
<1>26. ASSUME NEW j \in Jobs, CancelQueued(j), UNCHANGED schedVars
      PROVE  TypeOK' /\ TargetSet'
  BY <1>26 DEF CancelQueued
<1>27. ASSUME NEW j \in Jobs, CancelActive(j), UNCHANGED schedVars
      PROVE  TypeOK' /\ TargetSet'
  BY <1>27 DEF CancelActive
<1>28. CASE ClockStep
  BY <1>28 DEF ClockStep, Tick
<1>29. CASE Restart
  BY <1>29 DEF Restart, SchedulerRestart, ServerRestart
<1>30. CASE UNCHANGED vars
  BY <1>30 DEF vars
<1>. QED
  BY <1>1, <1>2, <1>3, <1>4, <1>5, <1>6, <1>7, <1>8, <1>9, <1>10, <1>11,
     <1>12, <1>13, <1>14, <1>15, <1>16, <1>17, <1>18, <1>19, <1>20, <1>21,
     <1>22, <1>23, <1>24, <1>25, <1>26, <1>27, <1>28, <1>29, <1>30 DEF
     RestartNext, Next, SchedulerStep, SchedulerNext, ServerStep, ServerNext

\* Every step keeps the inductive invariant.
LEMMA LeaseInductive ==
    ASSUME LeaseInv, [RestartNext]_vars
    PROVE  LeaseInv'
<1>. TypeOK' /\ TargetSet'
  BY TypeInductive DEF LeaseInv
<1>. USE StoreAssumption DEF LeaseInv, TypeOK, TargetSet, StoreTypeOK,
       SchedulerTypeOK, ServerTypeOK, JobStates, Active, Terminal, EndStates,
       Labels, Placing, InHand, IsLeased, NoLease, Expired, Rows, jobVars,
       allocVars, nodeVars, storeVars, schedVars, choiceVars, cancelVars,
       serverVars, vars, SetState, CloseAllocations, DeleteLeases, EndJob
<1>1. CASE UNCHANGED <<jobVars, allocVars, schedVars>>
  BY <1>1 DEF ChoiceIsFree, OneLeasedAllocation, InHandIsBare, QueuedIsBare,
     StalledIsExpired, NewIsUnplaced, FreedWhenDone, LiveLeaseExclusive
<1>2. CASE QueryStalled /\ UNCHANGED serverVars
  BY <1>2 DEF QueryStalled, Stalled, AllocsOf, ChoiceIsFree,
     OneLeasedAllocation, InHandIsBare, QueuedIsBare, StalledIsExpired,
     NewIsUnplaced, FreedWhenDone, LiveLeaseExclusive
<1>3. ASSUME NEW j \in Jobs, RetryStalled(j), UNCHANGED serverVars
      PROVE  LeaseInv'
  <2>1. ChoiceIsFree'
    BY <1>3 DEF RetryStalled, RetriesLeft, ChoiceIsFree
  <2>2. OneLeasedAllocation'
    BY <1>3 DEF RetryStalled, RetriesLeft, OneLeasedAllocation
  <2>3. InHandIsBare'
    BY <1>3 DEF RetryStalled, RetriesLeft, InHandIsBare
  <2>4. QueuedIsBare'
    BY <1>3 DEF RetryStalled, RetriesLeft, QueuedIsBare
  <2>5. StalledIsExpired'
    BY <1>3 DEF RetryStalled, RetriesLeft, StalledIsExpired
  <2>6. NewIsUnplaced'
    BY <1>3 DEF RetryStalled, RetriesLeft, NewIsUnplaced
  <2>7. FreedWhenDone'
    BY <1>3 DEF RetryStalled, RetriesLeft, FreedWhenDone, StalledIsExpired
  <2>8. LiveLeaseExclusive'
    BY <1>3 DEF RetryStalled, RetriesLeft, LiveLeaseExclusive
  <2>. QED
    BY <2>1, <2>2, <2>3, <2>4, <2>5, <2>6, <2>7, <2>8
<1>4. ASSUME NEW j \in Jobs, GiveUpStalled(j), UNCHANGED serverVars
      PROVE  LeaseInv'
  <2>1. ChoiceIsFree'
    BY <1>4 DEF GiveUpStalled, RetriesLeft, ChoiceIsFree
  <2>2. OneLeasedAllocation'
    BY <1>4 DEF GiveUpStalled, RetriesLeft, OneLeasedAllocation
  <2>3. InHandIsBare'
    BY <1>4 DEF GiveUpStalled, RetriesLeft, InHandIsBare
  <2>4. QueuedIsBare'
    BY <1>4 DEF GiveUpStalled, RetriesLeft, QueuedIsBare
  <2>5. StalledIsExpired'
    BY <1>4 DEF GiveUpStalled, RetriesLeft, StalledIsExpired
  <2>6. NewIsUnplaced'
    BY <1>4 DEF GiveUpStalled, RetriesLeft, NewIsUnplaced
  <2>7. FreedWhenDone'
    BY <1>4 DEF GiveUpStalled, RetriesLeft, FreedWhenDone, StalledIsExpired
  <2>8. LiveLeaseExclusive'
    BY <1>4 DEF GiveUpStalled, RetriesLeft, LiveLeaseExclusive
  <2>. QED
    BY <2>1, <2>2, <2>3, <2>4, <2>5, <2>6, <2>7, <2>8
<1>5. CASE ReleaseStalled /\ UNCHANGED serverVars
  BY <1>5 DEF ReleaseStalled, AllocsOf, ChoiceIsFree, OneLeasedAllocation,
     InHandIsBare, QueuedIsBare, StalledIsExpired, NewIsUnplaced,
     FreedWhenDone, LiveLeaseExclusive
<1>6. CASE EndStalled /\ UNCHANGED serverVars
  BY <1>6 DEF EndStalled, ChoiceIsFree, OneLeasedAllocation, InHandIsBare,
     QueuedIsBare, StalledIsExpired, NewIsUnplaced, FreedWhenDone,
     LiveLeaseExclusive
<1>7. CASE PruneExpiredLeases /\ UNCHANGED serverVars
  <2>1. \A a \in AllocIds :
          lease'[a] # NoLease => lease[a] >= 0 /\ lease'[a] = lease[a]
    <3>1. TAKE a \in AllocIds
    <3>2. lease'[a] = IF lease[a] = Expired THEN NoLease ELSE lease[a]
      BY <1>7 DEF PruneExpiredLeases, ExpiredLeases
    <3>3. lease[a] \in NoLease .. LeaseTicks
      OBVIOUS
    <3>. QED
      BY ONLY <3>2, <3>3, StoreAssumption DEF NoLease, Expired
  <2>2. /\ alloc' = alloc /\ jobState' = jobState /\ todo' = todo
        /\ pc' \in {"enforce", "queue"}
    BY <1>7 DEF PruneExpiredLeases, ExpiredLeases
  <2>3. QueuedIsBare'
    BY <2>1, <2>2 DEF QueuedIsBare, FreedWhenDone
  <2>. QED
    BY <2>1, <2>2, <2>3 DEF ChoiceIsFree, OneLeasedAllocation, InHandIsBare,
       StalledIsExpired, NewIsUnplaced, FreedWhenDone, LiveLeaseExclusive
<1>8. CASE GetQueuedJobs /\ UNCHANGED serverVars
  BY <1>8 DEF GetQueuedJobs, ChoiceIsFree, OneLeasedAllocation, InHandIsBare,
     QueuedIsBare, StalledIsExpired, NewIsUnplaced, FreedWhenDone,
     LiveLeaseExclusive
<1>9. ASSUME NEW j \in Jobs, Place(j), UNCHANGED serverVars
      PROVE  LeaseInv'
  BY <1>9 DEF Place, IsNext, Available, GPUsOf, BestFit, ChoiceIsFree,
     OneLeasedAllocation, InHandIsBare, QueuedIsBare, StalledIsExpired,
     NewIsUnplaced, FreedWhenDone, LiveLeaseExclusive
<1>10. ASSUME NEW j \in Jobs, Reject(j), UNCHANGED serverVars
      PROVE  LeaseInv'
  BY <1>10 DEF Reject, IsNext, ChoiceIsFree, OneLeasedAllocation,
     InHandIsBare, QueuedIsBare, StalledIsExpired, NewIsUnplaced,
     FreedWhenDone, LiveLeaseExclusive
<1>11. ASSUME NEW j \in Jobs, KeepWaiting(j), UNCHANGED serverVars
      PROVE  LeaseInv'
  BY <1>11 DEF KeepWaiting, IsNext, ChoiceIsFree, OneLeasedAllocation,
     InHandIsBare, QueuedIsBare, StalledIsExpired, NewIsUnplaced,
     FreedWhenDone, LiveLeaseExclusive
<1>12. CASE AllocateJob /\ UNCHANGED serverVars
  <2>1. /\ NextId \in AllocIds /\ alloc[NextId] = NoRow /\ lease[NextId] = NoLease
        /\ target \in Jobs /\ target \in InHand /\ target \notin todo
    BY <1>12 DEF AllocateJob, FreshIds, NextId
  <2>2. /\ alloc'[NextId] = [job |-> target, node |-> bestNode,
                              gpus |-> selectedGPUs]
        /\ lease'[NextId] = LeaseTicks
        /\ \A a \in AllocIds \ {NextId} :
             alloc'[a] = alloc[a] /\ lease'[a] = lease[a]
        /\ jobState'[target] = "ALLOCATED"
        /\ \A j \in Jobs \ {target} : jobState'[j] = jobState[j]
        /\ pc = "allocate" /\ pc' = "decide" /\ todo' = todo
    BY <1>12, <2>1 DEF AllocateJob
  <2>3. ChoiceIsFree' /\ StalledIsExpired' /\ QueuedIsBare' /\ NewIsUnplaced'
    BY <2>1, <2>2 DEF ChoiceIsFree, StalledIsExpired, QueuedIsBare, NewIsUnplaced
  <2>4. OneLeasedAllocation'
    BY <2>1, <2>2 DEF OneLeasedAllocation, InHandIsBare
  <2>5. InHandIsBare'
    BY <2>1, <2>2 DEF InHandIsBare
  <2>6. FreedWhenDone'
    BY <2>1, <2>2 DEF FreedWhenDone, InHandIsBare
  <2>7. LiveLeaseExclusive'
    BY <2>1, <2>2 DEF LiveLeaseExclusive, ChoiceIsFree
  <2>. QED
    BY <2>3, <2>4, <2>5, <2>6, <2>7
<1>13. CASE FailJob /\ UNCHANGED serverVars
  <2>1. ChoiceIsFree'
    BY <1>13 DEF FailJob, ChoiceIsFree
  <2>2. OneLeasedAllocation'
    BY <1>13 DEF FailJob, OneLeasedAllocation
  <2>3. InHandIsBare'
    BY <1>13 DEF FailJob, InHandIsBare
  <2>4. QueuedIsBare'
    BY <1>13 DEF FailJob, QueuedIsBare
  <2>5. StalledIsExpired'
    BY <1>13 DEF FailJob, StalledIsExpired
  <2>6. NewIsUnplaced'
    BY <1>13 DEF FailJob, NewIsUnplaced
  <2>7. FreedWhenDone'
    BY <1>13 DEF FailJob, FreedWhenDone, InHandIsBare
  <2>8. LiveLeaseExclusive'
    BY <1>13 DEF FailJob, LiveLeaseExclusive
  <2>. QED
    BY <2>1, <2>2, <2>3, <2>4, <2>5, <2>6, <2>7, <2>8
<1>14. CASE EndSchedule /\ UNCHANGED serverVars
  BY <1>14 DEF EndSchedule, ChoiceIsFree, OneLeasedAllocation, InHandIsBare,
     QueuedIsBare, StalledIsExpired, NewIsUnplaced, FreedWhenDone,
     LiveLeaseExclusive
<1>15. CASE QueryOvertime /\ UNCHANGED serverVars
  BY <1>15 DEF QueryOvertime, ChoiceIsFree, OneLeasedAllocation, InHandIsBare,
     QueuedIsBare, StalledIsExpired, NewIsUnplaced, FreedWhenDone,
     LiveLeaseExclusive
<1>16. ASSUME NEW j \in Jobs, CancelOvertime(j), UNCHANGED serverVars
      PROVE  LeaseInv'
  <2>1. ChoiceIsFree'
    BY <1>16 DEF CancelOvertime, ChoiceIsFree
  <2>2. OneLeasedAllocation'
    BY <1>16 DEF CancelOvertime, OneLeasedAllocation
  <2>3. InHandIsBare'
    BY <1>16 DEF CancelOvertime, InHandIsBare
  <2>4. QueuedIsBare'
    BY <1>16 DEF CancelOvertime, QueuedIsBare
  <2>5. StalledIsExpired'
    BY <1>16 DEF CancelOvertime, StalledIsExpired
  <2>6. NewIsUnplaced'
    BY <1>16 DEF CancelOvertime, NewIsUnplaced
  <2>7. FreedWhenDone'
    BY <1>16 DEF CancelOvertime, FreedWhenDone
  <2>8. LiveLeaseExclusive'
    BY <1>16 DEF CancelOvertime, LiveLeaseExclusive
  <2>. QED
    BY <2>1, <2>2, <2>3, <2>4, <2>5, <2>6, <2>7, <2>8
<1>17. CASE CloseOvertime /\ UNCHANGED serverVars
  BY <1>17 DEF CloseOvertime, AllocsOf, ChoiceIsFree, OneLeasedAllocation,
     InHandIsBare, QueuedIsBare, StalledIsExpired, NewIsUnplaced,
     FreedWhenDone, LiveLeaseExclusive
<1>18. CASE EndOvertime /\ UNCHANGED serverVars
  BY <1>18 DEF EndOvertime, ChoiceIsFree, OneLeasedAllocation, InHandIsBare,
     QueuedIsBare, StalledIsExpired, NewIsUnplaced, FreedWhenDone,
     LiveLeaseExclusive
<1>19. ASSUME NEW j \in Jobs, HandleJobSubmit(j), UNCHANGED schedVars
      PROVE  LeaseInv'
  <2>1. ChoiceIsFree'
    BY <1>19 DEF HandleJobSubmit, ChoiceIsFree
  <2>2. OneLeasedAllocation'
    BY <1>19 DEF HandleJobSubmit, OneLeasedAllocation
  <2>3. InHandIsBare'
    BY <1>19 DEF HandleJobSubmit, InHandIsBare
  <2>4. QueuedIsBare'
    BY <1>19 DEF HandleJobSubmit, QueuedIsBare, NewIsUnplaced
  <2>5. StalledIsExpired'
    BY <1>19 DEF HandleJobSubmit, StalledIsExpired
  <2>6. NewIsUnplaced'
    BY <1>19 DEF HandleJobSubmit, NewIsUnplaced
  <2>7. FreedWhenDone'
    BY <1>19 DEF HandleJobSubmit, FreedWhenDone, NewIsUnplaced
  <2>8. LiveLeaseExclusive'
    BY <1>19 DEF HandleJobSubmit, LiveLeaseExclusive
  <2>. QED
    BY <2>1, <2>2, <2>3, <2>4, <2>5, <2>6, <2>7, <2>8
<1>20. ASSUME NEW c \in Checkers, NEW j \in Jobs, MarkJobLost(c, j), UNCHANGED
       schedVars
      PROVE  LeaseInv'
  <2>1. ChoiceIsFree'
    BY <1>20 DEF MarkJobLost, ChoiceIsFree, AllocsOf
  <2>2. OneLeasedAllocation'
    BY <1>20 DEF MarkJobLost, OneLeasedAllocation, AllocsOf
  <2>3. InHandIsBare'
    BY <1>20 DEF MarkJobLost, InHandIsBare, AllocsOf
  <2>4. QueuedIsBare'
    BY <1>20 DEF MarkJobLost, QueuedIsBare, AllocsOf
  <2>5. StalledIsExpired'
    BY <1>20 DEF MarkJobLost, StalledIsExpired, AllocsOf
  <2>6. NewIsUnplaced'
    BY <1>20 DEF MarkJobLost, NewIsUnplaced, AllocsOf
  <2>7. FreedWhenDone'
    BY <1>20 DEF MarkJobLost, FreedWhenDone, AllocsOf
  <2>8. LiveLeaseExclusive'
    BY <1>20 DEF MarkJobLost, LiveLeaseExclusive, AllocsOf
  <2>. QED
    BY <2>1, <2>2, <2>3, <2>4, <2>5, <2>6, <2>7, <2>8
<1>21. ASSUME NEW n \in Nodes, HandleNodeOffline(n), UNCHANGED schedVars
      PROVE  LeaseInv'
  <2>1. ChoiceIsFree'
    BY <1>21 DEF HandleNodeOffline, ActiveOn, AllocsOfAny, ChoiceIsFree, OpenJobsOn, AllocsOn
  <2>2. OneLeasedAllocation'
    BY <1>21 DEF HandleNodeOffline, ActiveOn, AllocsOfAny, OneLeasedAllocation,
       OpenJobsOn, AllocsOn
  <2>3. InHandIsBare'
    BY <1>21 DEF HandleNodeOffline, ActiveOn, AllocsOfAny, InHandIsBare, OpenJobsOn, AllocsOn
  <2>4. QueuedIsBare'
    BY <1>21 DEF HandleNodeOffline, ActiveOn, AllocsOfAny, QueuedIsBare, OpenJobsOn, AllocsOn
  <2>5. StalledIsExpired'
    BY <1>21 DEF HandleNodeOffline, ActiveOn, AllocsOfAny, StalledIsExpired, OpenJobsOn, AllocsOn
  <2>6. NewIsUnplaced'
    BY <1>21 DEF HandleNodeOffline, ActiveOn, AllocsOfAny, NewIsUnplaced, OpenJobsOn, AllocsOn
  <2>7. FreedWhenDone'
    BY <1>21 DEF HandleNodeOffline, ActiveOn, AllocsOfAny, FreedWhenDone, OpenJobsOn, AllocsOn
  <2>8. LiveLeaseExclusive'
    BY <1>21 DEF HandleNodeOffline, ActiveOn, AllocsOfAny, LiveLeaseExclusive, OpenJobsOn, AllocsOn
  <2>. QED
    BY <2>1, <2>2, <2>3, <2>4, <2>5, <2>6, <2>7, <2>8
<1>22. ASSUME NEW j \in Jobs, NEW s \in Reported, HandleJobStateUpdate(j, s),
       UNCHANGED schedVars
      PROVE  LeaseInv'
  BY <1>22 DEF HandleJobStateUpdate, Takes, Reported, AllocsOf, ChoiceIsFree,
     OneLeasedAllocation, InHandIsBare, QueuedIsBare, StalledIsExpired,
     NewIsUnplaced, FreedWhenDone, LiveLeaseExclusive
<1>23. ASSUME NEW j \in Jobs, CancelQueued(j), UNCHANGED schedVars
      PROVE  LeaseInv'
  <2>1. ChoiceIsFree'
    BY <1>23 DEF CancelQueued, ChoiceIsFree
  <2>2. OneLeasedAllocation'
    BY <1>23 DEF CancelQueued, OneLeasedAllocation
  <2>3. InHandIsBare'
    BY <1>23 DEF CancelQueued, InHandIsBare
  <2>4. QueuedIsBare'
    BY <1>23 DEF CancelQueued, QueuedIsBare
  <2>5. StalledIsExpired'
    BY <1>23 DEF CancelQueued, StalledIsExpired
  <2>6. NewIsUnplaced'
    BY <1>23 DEF CancelQueued, NewIsUnplaced
  <2>7. FreedWhenDone'
    BY <1>23 DEF CancelQueued, FreedWhenDone
  <2>8. LiveLeaseExclusive'
    BY <1>23 DEF CancelQueued, LiveLeaseExclusive
  <2>. QED
    BY <2>1, <2>2, <2>3, <2>4, <2>5, <2>6, <2>7, <2>8
<1>24. ASSUME NEW j \in Jobs, CancelActive(j), UNCHANGED schedVars
      PROVE  LeaseInv'
  <2>1. ChoiceIsFree'
    BY <1>24 DEF CancelActive, ChoiceIsFree, AllocsOf
  <2>2. OneLeasedAllocation'
    BY <1>24 DEF CancelActive, OneLeasedAllocation, AllocsOf
  <2>3. InHandIsBare'
    BY <1>24 DEF CancelActive, InHandIsBare, AllocsOf
  <2>4. QueuedIsBare'
    BY <1>24 DEF CancelActive, QueuedIsBare, AllocsOf
  <2>5. StalledIsExpired'
    BY <1>24 DEF CancelActive, StalledIsExpired, AllocsOf
  <2>6. NewIsUnplaced'
    BY <1>24 DEF CancelActive, NewIsUnplaced, AllocsOf
  <2>7. FreedWhenDone'
    BY <1>24 DEF CancelActive, FreedWhenDone, AllocsOf
  <2>8. LiveLeaseExclusive'
    BY <1>24 DEF CancelActive, LiveLeaseExclusive, AllocsOf
  <2>. QED
    BY <2>1, <2>2, <2>3, <2>4, <2>5, <2>6, <2>7, <2>8
<1>25. CASE ClockStep
  BY <1>25 DEF ClockStep, Tick, ChoiceIsFree, OneLeasedAllocation,
     InHandIsBare, QueuedIsBare, StalledIsExpired, NewIsUnplaced,
     FreedWhenDone, LiveLeaseExclusive
<1>26. CASE Restart
  BY <1>26 DEF Restart, SchedulerRestart, ServerRestart, ChoiceIsFree,
     OneLeasedAllocation, InHandIsBare, QueuedIsBare, StalledIsExpired,
     NewIsUnplaced, FreedWhenDone, LiveLeaseExclusive
<1>. QED
  BY <1>1, <1>2, <1>3, <1>4, <1>5, <1>6, <1>7, <1>8, <1>9, <1>10, <1>11,
     <1>12, <1>13, <1>14, <1>15, <1>16, <1>17, <1>18, <1>19, <1>20, <1>21,
     <1>22, <1>23, <1>24, <1>25, <1>26 DEF RestartNext, Next, SchedulerStep,
     SchedulerNext, ServerStep, ServerNext, HandleHeartbeat, FindOrphans,
     DetectStaleNodes, HandleJobCancel, storeVars, vars

LEMMA LeaseInit == Init => LeaseInv
<1>. SUFFICES ASSUME Init PROVE LeaseInv
  OBVIOUS
<1>. USE DEF Init, StoreInit, SchedulerInit, ServerInit
<1>1. StoreTypeOK
  BY StoreAssumption DEF StoreTypeOK, JobStates, HbCap, StartedCap, NoLease
<1>2. SchedulerTypeOK /\ ServerTypeOK
  BY DEF SchedulerTypeOK, ServerTypeOK, Labels
<1>3. /\ TargetSet /\ ChoiceIsFree /\ InHandIsBare /\ QueuedIsBare
      /\ StalledIsExpired
  BY DEF TargetSet, ChoiceIsFree, InHandIsBare, QueuedIsBare, StalledIsExpired,
     Placing
<1>4. OneLeasedAllocation /\ NewIsUnplaced
  BY DEF OneLeasedAllocation, NewIsUnplaced
<1>5. FreedWhenDone /\ LiveLeaseExclusive
  BY DEF FreedWhenDone, LiveLeaseExclusive, NoLease
<1>. QED
  BY <1>1, <1>2, <1>3, <1>4, <1>5 DEF LeaseInv, TypeOK

\* The inductive invariant holds in every state, restarts included.
THEOREM LeaseCorrect == RestartSpec => []LeaseInv
  BY LeaseInit, LeaseInductive, PTL DEF RestartSpec

-----------------------------------------------------------------------------
\* The variables keep their types: a retry count never passes MaxRetries, a
\* node is only chosen where one is expected, a released allocation has a row.
THEOREM TypeCorrect == RestartSpec => []TypeOK
<1>1. LeaseInv => TypeOK
  BY DEF LeaseInv
<1>. QED
  BY <1>1, LeaseCorrect, PTL

\* allocateJob never puts a GPU under a second unexpired lease.
THEOREM ExclusiveLeases == RestartSpec => []LiveLeaseExclusive
<1>1. LeaseInv => LiveLeaseExclusive
  BY DEF LeaseInv
<1>. QED
  BY <1>1, LeaseCorrect, PTL

\* A job that is queued again, has ended by itself or is LOST holds no lease
\* that keeps its GPUs from the next job.
THEOREM GPUsFreedWhenDone == RestartSpec => []FreedWhenDone
<1>1. LeaseInv => FreedWhenDone
  BY DEF LeaseInv
<1>. QED
  BY <1>1, LeaseCorrect, PTL

\* A run without restarts is a run of RestartSpec.
LEMMA SpecIsRestartSpec == Spec => RestartSpec
<1>1. [Next]_vars => [RestartNext]_vars
  BY DEF RestartNext
<1>. QED
  BY <1>1, PTL DEF Spec, RestartSpec
=============================================================================
