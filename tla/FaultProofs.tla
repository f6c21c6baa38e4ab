----------------------------- MODULE FaultProofs -----------------------------
(***************************************************************************)
(* Proofs about ControlPlane when statements and transactions fail.  Much  *)
(* of LeaseInv is lost then: a prune that fails leaves expired rows of a   *)
(* job that is placed again.  What remains is that one goroutine places    *)
(* jobs and looks at all leases before it does (ChoiceIsFree), and that    *)
(* the count of retries is raised by the statement that requeues.          *)
(* Transactions that are committed in part close allocations, delete lease *)
(* rows and write states that were decided upon, no more (PartialWrite).   *)
(***************************************************************************)
EXTENDS AllocationProofs

ExclusiveInv == TypeOK /\ TargetSet /\ ChoiceIsFree /\ LiveLeaseExclusive

\* A step that leases nothing new, keeps the allocations and makes no new
\* choice keeps ExclusiveInv.
LEMMA ExclusiveKept ==
    ASSUME ExclusiveInv, TypeOK', TargetSet', UNCHANGED alloc,
           \A a \in AllocIds : lease'[a] > 0 => lease[a] > 0,
           pc' = "allocate" =>
               pc = "allocate" /\ UNCHANGED <<target, bestNode, selectedGPUs>>
    PROVE  ExclusiveInv'
<1>1. ChoiceIsFree'
  BY DEF ExclusiveInv, ChoiceIsFree, IsLeased
<1>2. LiveLeaseExclusive'
  BY DEF ExclusiveInv, LiveLeaseExclusive
<1>. QED
  BY <1>1, <1>2 DEF ExclusiveInv

\* tryScheduleJob chooses among the GPUs without an unexpired lease.
LEMMA ExclusiveOfPlace ==
    ASSUME ExclusiveInv, TypeOK', TargetSet', NEW j \in Jobs, Place(j)
    PROVE  ExclusiveInv'
<1>. USE DEF Place, storeVars, jobVars, allocVars, nodeVars
<1>1. PICK n \in Nodes : /\ bestNode' = n
                         /\ selectedGPUs' \subseteq Available(n)
                         /\ Cardinality(selectedGPUs') = GPUCount[j]
  OBVIOUS
<1>2. UNCHANGED <<alloc, lease>> /\ target' = j
  OBVIOUS
<1>3. ChoiceIsFree'
  BY <1>1, <1>2 DEF ChoiceIsFree, Available, GPUsOf, IsLeased
<1>4. LiveLeaseExclusive'
  BY <1>2 DEF ExclusiveInv, LiveLeaseExclusive
<1>. QED
  BY <1>3, <1>4 DEF ExclusiveInv

\* allocateJob leases what was chosen.
LEMMA ExclusiveOfAllocateJob ==
    ASSUME ExclusiveInv, TypeOK', TargetSet', AllocateJob
    PROVE  ExclusiveInv'
<1>1. /\ NextId \in AllocIds /\ alloc[NextId] = NoRow /\ lease[NextId] = NoLease
      /\ alloc'[NextId] = [job |-> target, node |-> bestNode,
                            gpus |-> selectedGPUs]
      /\ \A a \in AllocIds \ {NextId} :
           alloc'[a] = alloc[a] /\ lease'[a] = lease[a]
  BY DEF ExclusiveInv, TypeOK, StoreTypeOK, AllocateJob, FreshIds, NextId
<1>2. \A g \in selectedGPUs : ~IsLeased(g)
  BY DEF ExclusiveInv, ChoiceIsFree, AllocateJob
<1>3. \A a \in AllocIds : lease[a] > 0 => alloc[a] # NoRow
  BY DEF ExclusiveInv, TypeOK, StoreTypeOK, NoLease
<1>4. LiveLeaseExclusive'
  BY <1>1, <1>2, <1>3 DEF ExclusiveInv, LiveLeaseExclusive, IsLeased
<1>5. ChoiceIsFree'
  BY DEF AllocateJob, ChoiceIsFree
<1>. QED
  BY <1>4, <1>5 DEF ExclusiveInv

\* What a transaction commits although it fails in part: jobs may be LOST or
\* CANCELED, leases deleted and allocations closed, and nothing else.
PartialWrite ==
    /\ \E S \in SUBSET Jobs, s \in {"LOST", "CANCELED"} : SetState(S, s)
    /\ \E A \in SUBSET AllocIds : DeleteLeases(A)
    /\ \E A \in SUBSET AllocIds : CloseAllocations(A)
    /\ nodeStatus' \in {nodeStatus} \cup {[nodeStatus EXCEPT ![n] = "DOWN"] : n \in Nodes}
    /\ UNCHANGED <<retries, started, alloc, hbAge>>

\* A statement of the scheduler that fails leaves the database alone, and a
\* transaction of the server that fails makes a partial write at most.
LEMMA FaultWrites ==
    ASSUME Fault
    PROVE  UNCHANGED storeVars \/ (PartialWrite /\ UNCHANGED schedVars)
<1>1. CASE StatementFails
  BY <1>1 DEF StatementFails, QueryFails, TargetFails, UpdateFails, StatsFail
<1>2. CASE TransactionFails /\ UNCHANGED schedVars
  <2>1. ASSUME NEW j \in Jobs, NEW S \in SUBSET {j}, NEW s \in {"LOST", "CANCELED"},
               EndJobPartly(S, j, s)
        PROVE  PartialWrite
    <3>1. S \in SUBSET Jobs /\ AllocsOf(j) \in SUBSET AllocIds /\ {} \in SUBSET AllocIds
      BY DEF AllocsOf
    <3>2. \A A \in {{}, AllocsOf(j)} : A \in SUBSET AllocIds
      BY <3>1
    <3>. QED
      BY <2>1, <3>1, <3>2 DEF EndJobPartly, PartialWrite, nodeVars
  <2>2. ASSUME NEW n \in Nodes, NodeOfflinePartly(n)
        PROVE  PartialWrite
    <3>1. \A J : SetState(J, "LOST") => SetState(J \cap Jobs, "LOST")
      BY DEF SetState
    <3>2. \E S \in SUBSET Jobs, s \in {"LOST", "CANCELED"} : SetState(S, s)
      BY <2>2, <3>1 DEF NodeOfflinePartly
    <3>3. \A J : AllocsOfAny(J) \in SUBSET AllocIds
      BY DEF AllocsOfAny
    <3>4. \A J : AllocsOfAny(J) \cup AllocsOn(n) \in SUBSET AllocIds
      BY DEF AllocsOfAny, AllocsOn
    <3>. QED
      BY <2>2, <3>2, <3>3, <3>4 DEF NodeOfflinePartly, PartialWrite
  <2>3. ASSUME NEW n \in Nodes, NodeOfflineFails(n)
        PROVE  UNCHANGED storeVars \/ PartialWrite
    BY <2>2, <2>3 DEF NodeOfflineFails
  <2>4. ASSUME NEW j \in Jobs, CancelQueuedFails(j)
        PROVE  UNCHANGED storeVars
    BY <2>4 DEF CancelQueuedFails
  <2>5. ASSUME NEW j \in Jobs, CancelActiveFails(j)
        PROVE  UNCHANGED storeVars \/ PartialWrite
    BY <2>1, <2>5 DEF CancelActiveFails
  <2>6. ASSUME NEW j \in Jobs, NEW c \in Checkers, MarkJobLostFails(c, j)
        PROVE  PartialWrite
    BY <2>1, <2>6 DEF MarkJobLostFails
  <2>. QED
    BY <1>2, <2>3, <2>4, <2>5, <2>6 DEF TransactionFails
<1>. QED
  BY <1>1, <1>2 DEF Fault

\* A partial write keeps the types of the tables.
LEMMA PartialTypes ==
    ASSUME StoreTypeOK, PartialWrite
    PROVE  StoreTypeOK'
<1>. USE DEF StoreTypeOK, PartialWrite
<1>1. jobState' \in [Jobs -> JobStates]
  <2>1. PICK S \in SUBSET Jobs, s \in {"LOST", "CANCELED"} : SetState(S, s)
    OBVIOUS
  <2>2. s \in JobStates
    BY DEF JobStates, Terminal, EndStates
  <2>. QED
    BY <2>1, <2>2 DEF SetState
<1>2. open' \subseteq open
  BY DEF CloseAllocations
<1>3. /\ lease' \in [AllocIds -> NoLease .. LeaseTicks]
      /\ \A a \in AllocIds : alloc'[a] = NoRow => lease'[a] = NoLease
  <2>1. NoLease \in NoLease .. LeaseTicks
    BY StoreAssumption DEF NoLease
  <2>. QED
    BY <2>1 DEF DeleteLeases
<1>4. nodeStatus' \in [Nodes -> {"NONE", "UP", "DOWN"}]
  OBVIOUS
<1>5. UNCHANGED <<retries, started, alloc, hbAge>>
  OBVIOUS
<1>. QED
  BY <1>1, <1>2, <1>3, <1>4, <1>5 DEF StartedCap

\* A failure leaves the types alone.
LEMMA FaultTypes ==
    ASSUME TypeOK, TargetSet, Fault
    PROVE  TypeOK' /\ TargetSet'
<1>. USE DEF TypeOK, TargetSet, SchedulerTypeOK, ServerTypeOK, Labels,
       schedVars, choiceVars, serverVars, cancelVars
<1>2. StoreTypeOK'
  <2>1. CASE UNCHANGED storeVars
    BY <2>1 DEF StoreTypeOK, storeVars, jobVars, allocVars, nodeVars
  <2>. QED
    BY <2>1, FaultWrites, PartialTypes
<1>3. CASE StatementFails /\ UNCHANGED serverVars
  <2>1. CASE QueryFails
    <3>1. pc' \in {"prune", "enforce", "queue", "stalled"}
      BY ONLY <2>1, TypeOK DEF QueryFails, AfterQuery, TypeOK, SchedulerTypeOK
    <3>2. booted' \in BOOLEAN
      BY ONLY <2>1, Zenon DEF QueryFails
    <3>3. UNCHANGED <<todo, target, bestNode, selectedGPUs>>
      BY <2>1 DEF QueryFails
    <3>. QED
      BY <1>2, <1>3, <3>1, <3>2, <3>3
  <2>2. CASE TargetFails
    <3>1. pc' \in {"retry", "expire", "decide"}
      BY ONLY <2>2 DEF TargetFails, AfterTarget
    <3>2. /\ target' = NoJob /\ bestNode' = NoNode /\ selectedGPUs' = {}
          /\ UNCHANGED <<booted, todo>>
      BY <2>2 DEF TargetFails
    <3>. QED
      BY <1>2, <1>3, <3>1, <3>2
  <2>3. ASSUME NEW j \in Jobs, UpdateFails(j)
        PROVE  SchedulerTypeOK' /\ TargetSet'
    BY <1>3, <2>3 DEF UpdateFails
  <2>4. ASSUME NEW j \in Jobs, StatsFail(j)
        PROVE  SchedulerTypeOK' /\ TargetSet'
    BY <1>3, <2>4 DEF StatsFail
  <2>. QED
    BY <1>2, <1>3, <2>1, <2>2, <2>3, <2>4 DEF StatementFails
<1>4. CASE TransactionFails /\ UNCHANGED schedVars
  <2>1. ServerTypeOK'
    BY <1>4 DEF TransactionFails, NodeOfflineFails, CancelQueuedFails,
       CancelActiveFails, MarkJobLostFails
  <2>. QED
    BY <1>2, <1>4, <2>1
<1>. QED
  BY <1>3, <1>4 DEF Fault

\* What the scheduler does next after a failure; no choice is made.
LEMMA FaultKeepsChoice ==
    ASSUME TypeOK, Fault, pc' = "allocate"
    PROVE  UNCHANGED <<pc, target, bestNode, selectedGPUs>>
<1>1. CASE StatementFails
  BY <1>1 DEF StatementFails, QueryFails, AfterQuery, TargetFails, AfterTarget,
     UpdateFails, StatsFail, choiceVars, TypeOK, SchedulerTypeOK
<1>2. CASE TransactionFails /\ UNCHANGED schedVars
  BY <1>2 DEF schedVars
<1>. QED
  BY <1>1, <1>2 DEF Fault

-----------------------------------------------------------------------------
\* Every step, restarts and failures included, keeps ExclusiveInv.
LEMMA ExclusiveInductive ==
    ASSUME ExclusiveInv, [FaultNext]_vars
    PROVE  ExclusiveInv'
<1>1. TypeOK' /\ TargetSet'
  BY TypeInductive, FaultTypes DEF ExclusiveInv, FaultNext
<1>. USE <1>1, StoreAssumption DEF ExclusiveInv, TypeOK, TargetSet, StoreTypeOK,
       NoLease, Expired, jobVars, allocVars, nodeVars, storeVars, schedVars,
       choiceVars, vars, CloseAllocations, DeleteLeases, EndJob
<1>2. CASE UNCHANGED vars
  BY <1>2, ExclusiveKept
<1>3. CASE SchedulerStep
  <2>1. ASSUME NEW j \in Jobs, Place(j) PROVE ExclusiveInv'
    BY <2>1, ExclusiveOfPlace
  <2>2. CASE AllocateJob
    BY <2>2, ExclusiveOfAllocateJob
  <2>3. CASE PruneExpiredLeases
    BY <2>3, ExclusiveKept DEF PruneExpiredLeases, ExpiredLeases
  <2>4. ASSUME UNCHANGED <<alloc, lease>>, pc' # "allocate" PROVE ExclusiveInv'
    BY <2>4, ExclusiveKept
  <2>5. CASE \/ QueryStalled \/ ReleaseStalled \/ EndStalled
             \/ GetQueuedJobs \/ FailJob \/ EndSchedule
             \/ QueryOvertime \/ CloseOvertime \/ EndOvertime
    BY <2>4, <2>5 DEF QueryStalled, ReleaseStalled, EndStalled, GetQueuedJobs,
       FailJob, EndSchedule, QueryOvertime, CloseOvertime, EndOvertime
  <2>6. ASSUME NEW j \in Jobs, \/ RetryStalled(j) \/ GiveUpStalled(j)
                              \/ Reject(j) \/ KeepWaiting(j) \/ CancelOvertime(j)
        PROVE  ExclusiveInv'
    BY <2>4, <2>6 DEF RetryStalled, GiveUpStalled, Reject, KeepWaiting,
       CancelOvertime
  <2>. QED
    BY <1>3, <2>1, <2>2, <2>3, <2>5, <2>6 DEF SchedulerStep, SchedulerNext
<1>4. CASE ServerStep
  <2>1. UNCHANGED <<alloc, schedVars>>
    BY <1>4 DEF ServerStep, ServerNext, DetectStaleNodes, HandleHeartbeat,
       HandleNodeOffline, FindOrphans, HandleJobSubmit, HandleJobStateUpdate,
       MarkJobLost, HandleJobCancel, CancelQueued, CancelActive
  <2>2. ASSUME NEW a \in AllocIds PROVE lease'[a] \in {lease[a], NoLease}
    <3>1. CASE \/ DetectStaleNodes
               \/ \E n \in Nodes : \/ HandleHeartbeat(n)
                                   \/ \E c \in Checkers : FindOrphans(c, n)
               \/ \E j \in Jobs : \/ HandleJobSubmit(j) \/ HandleJobCancel(j)
                                  \/ CancelQueued(j)
      BY <3>1 DEF DetectStaleNodes, HandleHeartbeat, FindOrphans,
         HandleJobSubmit, HandleJobCancel, CancelQueued
    <3>2. ASSUME NEW n \in Nodes, HandleNodeOffline(n)
          PROVE  lease'[a] \in {lease[a], NoLease}
      BY <3>2 DEF HandleNodeOffline
    <3>3. ASSUME NEW j \in Jobs, NEW s \in Reported, HandleJobStateUpdate(j, s)
          PROVE  lease'[a] \in {lease[a], NoLease}
      BY <3>3 DEF HandleJobStateUpdate
    <3>4. ASSUME NEW j \in Jobs, CancelActive(j) \/ \E c \in Checkers : MarkJobLost(c, j)
          PROVE  lease'[a] \in {lease[a], NoLease}
      BY <3>4 DEF CancelActive, MarkJobLost
    <3>. QED
      BY <1>4, <3>1, <3>2, <3>3, <3>4 DEF ServerStep, ServerNext
  <2>3. ASSUME NEW a \in AllocIds PROVE lease'[a] > 0 => lease[a] > 0
    BY <2>2
  <2>. QED
    BY <2>1, <2>3, ExclusiveKept
<1>5. CASE ClockStep
  BY <1>5, ExclusiveKept DEF ClockStep, Tick
<1>6. CASE Restart
  BY <1>6, ExclusiveKept DEF Restart, SchedulerRestart
<1>7. CASE Fault
  <2>1. UNCHANGED alloc
    BY <1>7, FaultWrites DEF PartialWrite
  <2>2. ASSUME NEW a \in AllocIds PROVE lease'[a] > 0 => lease[a] > 0
    BY <1>7, FaultWrites DEF PartialWrite
  <2>3. pc' = "allocate" =>
          pc = "allocate" /\ UNCHANGED <<target, bestNode, selectedGPUs>>
    BY <1>7, FaultKeepsChoice
  <2>. QED
    BY <2>1, <2>2, <2>3, ExclusiveKept
<1>. QED
  BY <1>2, <1>3, <1>4, <1>5, <1>6, <1>7 DEF FaultNext, RestartNext, Next

\* A job does not begin to wait because a statement failed.
LEMMA AttemptsOfFault ==
    ASSUME TypeOK, TypeOK', TargetSet, AttemptsInv, Fault
    PROVE  AttemptsInv'
<1>1. /\ UNCHANGED <<retries, alloc>>
      /\ \A j \in Jobs : jobState'[j] \in {jobState[j], "LOST", "CANCELED"}
  BY FaultWrites DEF PartialWrite, SetState, storeVars, jobVars, allocVars
<1>2. ASSUME NEW j \in Jobs, Waiting(j)' PROVE Waiting(j)
  <2>. USE <1>1, <1>2 DEF Waiting, Placing, InHand, schedVars, choiceVars, TypeOK,
         SchedulerTypeOK
  <2>1. CASE StatementFails
    BY <2>1 DEF StatementFails, QueryFails, AfterQuery, TargetFails, AfterTarget,
       UpdateFails, StatsFail, IsNext
  <2>2. CASE TransactionFails /\ UNCHANGED schedVars
    BY <2>2
  <2>. QED
    BY <2>1, <2>2 DEF Fault
<1>. QED
  BY <1>1, <1>2, AttemptsKept, StoreAssumption DEF TypeOK, StoreTypeOK

-----------------------------------------------------------------------------
\* The inductive invariant of leases holds although writes fail.
THEOREM ExclusiveCorrect == FaultSpec => []ExclusiveInv
<1>1. Init => ExclusiveInv
  BY LeaseInit DEF LeaseInv, ExclusiveInv
<1>. QED
  BY <1>1, ExclusiveInductive, PTL DEF FaultSpec

\* The variables keep their types although writes fail.
THEOREM TypesDespiteFaults == FaultSpec => []TypeOK
<1>1. ExclusiveInv => TypeOK
  BY DEF ExclusiveInv
<1>. QED
  BY <1>1, ExclusiveCorrect, PTL

\* No statement of the scheduler or of a handler that fails, and no restart,
\* makes allocateJob put a GPU under a second unexpired lease.
THEOREM ExclusiveDespiteFaults == FaultSpec => []LiveLeaseExclusive
<1>1. ExclusiveInv => LiveLeaseExclusive
  BY DEF ExclusiveInv
<1>. QED
  BY <1>1, ExclusiveCorrect, PTL

-----------------------------------------------------------------------------
\* Rows of allocations are inserted by allocateJob and not changed by anyone.
LEMMA OnlyAllocateJobInserts ==
    ASSUME [FaultNext]_vars
    PROVE  AllocateJob \/ UNCHANGED alloc
<1>. USE DEF vars, storeVars, jobVars, allocVars, nodeVars
<1>1. CASE UNCHANGED vars
  BY <1>1
<1>2. CASE SchedulerStep
  BY <1>2 DEF SchedulerStep, SchedulerNext, QueryStalled, RetryStalled,
     GiveUpStalled, ReleaseStalled, EndStalled, PruneExpiredLeases,
     GetQueuedJobs, Place, Reject, KeepWaiting, FailJob, EndSchedule,
     QueryOvertime, CancelOvertime, CloseOvertime, EndOvertime
<1>3. CASE ServerStep
  BY <1>3 DEF ServerStep, ServerNext, DetectStaleNodes, HandleHeartbeat,
     HandleNodeOffline, FindOrphans, HandleJobSubmit, HandleJobStateUpdate,
     MarkJobLost, EndJob, HandleJobCancel, CancelQueued, CancelActive
<1>4. CASE ClockStep
  BY <1>4 DEF ClockStep, Tick
<1>5. CASE Restart
  BY <1>5 DEF Restart
<1>6. CASE Fault
  BY <1>6, FaultWrites DEF PartialWrite
<1>. QED
  BY <1>1, <1>2, <1>3, <1>4, <1>5, <1>6 DEF FaultNext, RestartNext, Next

\* An allocation is a whole gang of one node, whatever fails between the
\* choice of the GPUs and the transaction that inserts it.
THEOREM GangsDespiteFaults == FaultSpec => []WholeGangs
<1>1. Init => WholeGangs
  BY DEF Init, StoreInit, WholeGangs
<1>2. ASSUME ExclusiveInv, WholeGangs, [FaultNext]_vars
      PROVE  WholeGangs'
  <2>1. CASE UNCHANGED alloc
    BY <1>2, <2>1 DEF WholeGangs
  <2>2. CASE AllocateJob
    <3>1. /\ NextId \in AllocIds
          /\ alloc'[NextId] = [job |-> target, node |-> bestNode,
                                gpus |-> selectedGPUs]
          /\ \A a \in AllocIds \ {NextId} : alloc'[a] = alloc[a]
      BY <1>2, <2>2 DEF ExclusiveInv, TypeOK, StoreTypeOK, AllocateJob,
         FreshIds, NextId
    <3>2. /\ Cardinality(selectedGPUs) = GPUCount[target]
          /\ \A g \in selectedGPUs : NodeOf[g] = bestNode
      BY <1>2, <2>2 DEF ExclusiveInv, ChoiceIsFree, AllocateJob
    <3>. QED
      BY <1>2, <3>1, <3>2 DEF WholeGangs
  <2>. QED
    BY <1>2, <2>1, <2>2, OnlyAllocateJobInserts
<1>. QED
  BY <1>1, <1>2, ExclusiveCorrect, PTL DEF FaultSpec

\* No failure revives a job, a partial one included: terminal states stay
\* final in the same sense as without failures.
THEOREM FinalDespiteFaults == FaultSpec => FinalUnlessDecided
<1>1. ASSUME ExclusiveInv, [FaultNext]_vars, NEW j \in Jobs,
             jobState[j] \in Terminal, jobState'[j] # jobState[j]
      PROVE  j \in Decided
  <2>1. CASE [RestartNext]_vars
    BY <1>1, <2>1, FinalStep DEF ExclusiveInv
  <2>2. CASE Fault
    <3>1. CASE StatementFails
      BY <1>1, <3>1 DEF StatementFails, QueryFails, TargetFails, UpdateFails,
         StatsFail, storeVars, jobVars
    <3>2. ASSUME NEW n \in Nodes, NodeOfflineFails(n)
          PROVE  j \in Decided
      <4>1. j \in ActiveOn(n) => jobState[j] = "LOST"
        BY <1>1 DEF ActiveOn, Terminal
      <4>2. jobState'[j] = jobState[j] \/ (j \in ActiveOn(n) /\ jobState'[j] = "LOST")
        BY <3>2 DEF NodeOfflineFails, NodeOfflinePartly, SetState, storeVars, jobVars
      <4>. QED
        BY <1>1, <4>1, <4>2
    <3>3. ASSUME NEW i \in Jobs, NEW c \in Checkers, MarkJobLostFails(c, i)
          PROVE  j \in Decided
      BY <1>1, <3>3 DEF MarkJobLostFails, EndJobPartly, SetState, Decided
    <3>4. ASSUME NEW i \in Jobs, CancelActiveFails(i)
          PROVE  j \in Decided
      BY <1>1, <3>4 DEF CancelActiveFails, EndJobPartly, SetState, Decided,
         storeVars, jobVars
    <3>5. ASSUME NEW i \in Jobs, CancelQueuedFails(i)
          PROVE  j \in Decided
      BY <1>1, <3>5 DEF CancelQueuedFails, storeVars, jobVars
    <3>. QED
      BY <2>2, <3>1, <3>2, <3>3, <3>4, <3>5 DEF Fault, TransactionFails
  <2>. QED
    BY <1>1, <2>1, <2>2 DEF FaultNext
<1>2. ExclusiveInv /\ [FaultNext]_vars =>
        [\A j \in Jobs : jobState[j] \in Terminal /\ jobState'[j] # jobState[j]
                          => j \in Decided]_vars
  BY <1>1
<1>. QED
  BY <1>2, ExclusiveCorrect, PTL DEF FaultSpec, FinalUnlessDecided

-----------------------------------------------------------------------------
\* AttemptsInv is kept by statements that fail.
THEOREM AttemptsCorrect == FaultSpec => []AttemptsInv
<1>1. Init => AttemptsInv
  <2>. SUFFICES ASSUME Init, NEW j \in Jobs
                PROVE  AllocsOf(j) = {} /\ retries[j] = 0
    BY FS_EmptySet DEF AttemptsInv
  <2>. QED
    BY DEF Init, StoreInit, AllocsOf
<1>2. /\ ExclusiveInv /\ ExclusiveInv' /\ AttemptsInv
      /\ [FaultNext]_vars
      => AttemptsInv'
  BY AttemptsInductive, AttemptsOfFault DEF ExclusiveInv, FaultNext
<1>. QED
  BY <1>1, <1>2, ExclusiveCorrect, PTL DEF FaultSpec

\* An UPDATE that fails, of the job or of its allocation, never buys a job one
\* more attempt.
THEOREM AttemptsDespiteFaults == FaultSpec => []AttemptsBounded
<1>1. ExclusiveInv /\ AttemptsInv => AttemptsBounded
  BY StoreAssumption DEF ExclusiveInv, TypeOK, StoreTypeOK, AttemptsInv,
     AttemptsBounded
<1>. QED
  BY <1>1, ExclusiveCorrect, AttemptsCorrect, PTL

-----------------------------------------------------------------------------
(***************************************************************************)
(* AllocIds stands for the ids uuid.New() gives, of which there is no end. *)
(* MaxRetries + 1 for each job are enough for the model never to wait for  *)
(* one: the allocations of a job can be numbered up to its attempts, so    *)
(* that job and number tell all of them apart.                             *)
(***************************************************************************)

\* What the count of a job's allocations says of its ids.
LEMMA Numbering ==
    ASSUME TypeOK, AttemptsInv, NEW j \in Jobs,
           NEW m \in Nat, Cardinality(AllocsOf(j)) <= m
    PROVE  \E f \in [AllocsOf(j) -> 1 .. m] : IsInjective(f)
<1>1. IsFiniteSet(AllocsOf(j))
  BY FiniteAssumption, FS_Subset DEF AllocsOf
<1>2. LET n == Cardinality(AllocsOf(j))
      IN  n \in Nat /\ IsFiniteSet(1 .. n) /\ Cardinality(1 .. n) = n
  BY <1>1, FS_CardinalityType, FS_Interval
<1>3. ExistsBijection(AllocsOf(j), 1 .. Cardinality(AllocsOf(j)))
  BY <1>1, <1>2, FS_SameCardinalityBij
<1>4. PICK f \in Bijection(AllocsOf(j), 1 .. Cardinality(AllocsOf(j))) : TRUE
  BY <1>3 DEF ExistsBijection
<1>5. /\ f \in [AllocsOf(j) -> 1 .. Cardinality(AllocsOf(j))]
      /\ IsInjective(f)
  BY <1>4 DEF Bijection, Injection
<1>6. 1 .. Cardinality(AllocsOf(j)) \subseteq 1 .. m
  BY <1>2
<1>. QED
  BY <1>5, <1>6

\* Of a job that is being placed one number is not used yet.
LEMMA OneIdLeft ==
    ASSUME TypeOK, TargetSet, AttemptsInv, IsFiniteSet(Jobs),
           Cardinality(AllocIds) >= Cardinality(Jobs) * (MaxRetries + 1),
           pc = "allocate"
    PROVE  FreshIds # {}
<1>. SUFFICES ASSUME FreshIds = {}
              PROVE  FALSE
  OBVIOUS
<1>. DEFINE Attempts == 1 .. MaxRetries + 1
            Left == (Jobs \X Attempts) \ {<<target, MaxRetries + 1>>}
            Upto(j) == IF j = target THEN MaxRetries ELSE MaxRetries + 1
            Numbers(j) == {f \in [AllocsOf(j) -> 1 .. Upto(j)] : IsInjective(f)}
            number == [j \in Jobs |-> CHOOSE f \in Numbers(j) : TRUE]
            place == [a \in AllocIds |-> <<alloc[a].job, number[alloc[a].job][a]>>]
<1>0. MaxRetries \in Nat /\ target \in Jobs
  BY StoreAssumption DEF TargetSet
<1>1. ASSUME NEW j \in Jobs
      PROVE  number[j] \in Numbers(j)
  <2>1. /\ Cardinality(AllocsOf(j)) \in Nat
        /\ retries[j] \in Nat /\ retries[j] <= MaxRetries
    <3>1. IsFiniteSet(AllocsOf(j))
      BY FiniteAssumption, FS_Subset DEF AllocsOf
    <3>. QED
      BY <3>1, <1>0, FS_CardinalityType DEF TypeOK, StoreTypeOK
  <2>2. /\ Cardinality(AllocsOf(j)) <= retries[j] + 1
        /\ j = target => Cardinality(AllocsOf(j)) <= retries[j]
    BY DEF AttemptsInv, Waiting, Placing, InHand
  <2>3. Upto(j) \in Nat /\ Cardinality(AllocsOf(j)) <= Upto(j)
    BY <1>0, <2>1, <2>2
  <2>. HIDE DEF Upto
  <2>4. \E f \in Numbers(j) : TRUE
    BY <2>3, Numbering
  <2>. QED
    BY <2>4
<1>2. ASSUME NEW a \in AllocIds
      PROVE  alloc[a].job \in Jobs /\ a \in AllocsOf(alloc[a].job)
  BY DEF FreshIds, TypeOK, StoreTypeOK, Rows, AllocsOf
<1>3. ASSUME NEW a \in AllocIds
      PROVE  place[a] \in Left
  <2>. DEFINE j == alloc[a].job
  <2>1. /\ j \in Jobs
        /\ number[j][a] \in 1 .. Upto(j)
    BY <1>1, <1>2
  <2>2. /\ number[j][a] \in Attempts
        /\ j = target => number[j][a] # MaxRetries + 1
    BY <1>0, <2>1
  <2>. QED
    BY <2>1, <2>2
<1>4. ASSUME NEW a \in AllocIds, NEW b \in AllocIds, place[a] = place[b]
      PROVE  a = b
  <2>. HIDE DEF number
  <2>0. /\ place[a] = <<alloc[a].job, number[alloc[a].job][a]>>
        /\ place[b] = <<alloc[b].job, number[alloc[b].job][b]>>
    OBVIOUS
  <2>. HIDE DEF place
  <2>p. \A p, q, r, s : <<p, q>> = <<r, s>> => p = r /\ q = s
    OBVIOUS
  <2>q. <<alloc[a].job, number[alloc[a].job][a]>>
          = <<alloc[b].job, number[alloc[b].job][b]>>
    BY <1>4, <2>0, Zenon
  <2>1. /\ alloc[a].job = alloc[b].job
        /\ number[alloc[a].job][a] = number[alloc[b].job][b]
    BY <2>p, <2>q, Zenon
  <2>2. number[alloc[a].job][a] = number[alloc[a].job][b]
    BY <2>1, Zenon
  <2>3. a \in AllocsOf(alloc[a].job) /\ b \in AllocsOf(alloc[a].job)
    BY <1>2, <2>1
  <2>4. alloc[a].job \in Jobs
    BY <1>2
  <2>. QED
    BY <1>1, <2>2, <2>3, <2>4 DEF IsInjective
<1>5. place \in Injection(AllocIds, Left)
  <2>1. place \in [AllocIds -> Left]
    BY <1>3
  <2>2. IsInjective(place)
    BY <1>4 DEF IsInjective
  <2>. QED
    BY <2>1, <2>2 DEF Injection
<1>. HIDE DEF place
<1>6. /\ IsFiniteSet(Left)
      /\ Cardinality(Left) = Cardinality(Jobs) * (MaxRetries + 1) - 1
  <2>1. IsFiniteSet(Attempts) /\ Cardinality(Attempts) = MaxRetries + 1
    BY <1>0, FS_Interval
  <2>2. <<target, MaxRetries + 1>> \in Jobs \X Attempts
    BY <1>0
  <2>. HIDE DEF Attempts
  <2>3. /\ IsFiniteSet(Jobs \X Attempts)
        /\ Cardinality(Jobs \X Attempts) = Cardinality(Jobs) * (MaxRetries + 1)
    BY <2>1, FS_Product
  <2>. QED
    BY <2>2, <2>3, FS_RemoveElement
<1>. HIDE DEF Left
<1>7. Cardinality(AllocIds) <= Cardinality(Left)
  BY <1>5, <1>6, FS_Injection
<1>8. Cardinality(Left) \in Nat /\ Cardinality(AllocIds) \in Nat
  BY <1>6, FiniteAssumption, FS_CardinalityType
<1>9. Cardinality(Jobs) * (MaxRetries + 1) \in Nat
  BY <1>0, FS_CardinalityType
<1>. DEFINE Bound == Cardinality(Jobs) * (MaxRetries + 1)
<1>10. /\ Bound \in Nat /\ Cardinality(AllocIds) >= Bound
       /\ Cardinality(Left) = Bound - 1
  BY <1>6, <1>9
<1>. HIDE DEF Bound
<1>. QED
  BY <1>7, <1>8, <1>10

\* With MaxRetries + 1 ids for each job the guard of AllocateJob on fresh ids,
\* which the code does not have, never keeps the scheduler waiting.
THEOREM IdsSuffice ==
    ASSUME IsFiniteSet(Jobs),
           Cardinality(AllocIds) >= Cardinality(Jobs) * (MaxRetries + 1)
    PROVE  FaultSpec => [](pc = "allocate" => FreshIds # {})
<1>1. ExclusiveInv /\ AttemptsInv => (pc = "allocate" => FreshIds # {})
  BY OneIdLeft DEF ExclusiveInv
<1>. QED
  BY <1>1, ExclusiveCorrect, AttemptsCorrect, PTL
=============================================================================
