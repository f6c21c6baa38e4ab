----------------------------- MODULE PoolProofs -----------------------------
(***************************************************************************)
(* ControlPlane implements GPUPool on HeldGPUs, restarts included.  Only   *)
(* allocateJob adds an unexpired lease, and it does so for a job without   *)
(* any and of GPUs that are free: a Grant.  Every other step can only end  *)
(* leases, and since one allocation at most of a job is leased, a job that *)
(* loses GPUs loses them all: a Release.                                   *)
(***************************************************************************)
EXTENDS LeaseProofs

Leased(j) == {a \in AllocsOf(j) : lease[a] > 0}

\* A job holds nothing or the GPUs of its one leased allocation.
LEMMA HeldIsOneGang ==
    ASSUME LeaseInv, NEW j \in Jobs, NEW a \in Leased(j)
    PROVE  HeldGPUs[j] = alloc[a].gpus
<1>1. \A b \in Leased(j) : b = a
  BY DEF Leased, AllocsOf, LeaseInv, OneLeasedAllocation, NoLease
<1>2. HeldGPUs[j] = UNION {alloc[b].gpus : b \in Leased(j)}
  BY DEF HeldGPUs, Leased
<1>. QED
  BY <1>1, <1>2

LEMMA HeldNothing ==
    ASSUME NEW j \in Jobs, Leased(j) = {}
    PROVE  HeldGPUs[j] = {}
  BY DEF HeldGPUs, Leased

\* A step that only ends leases gives back all the GPUs of some jobs.
LEMMA EndingLeasesReleases ==
    ASSUME LeaseInv, LeaseInv', UNCHANGED alloc,
           \A a \in AllocIds : lease'[a] > 0 => lease[a] > 0
    PROVE  Pool!Next
<1>. DEFINE S == {j \in Jobs : Leased(j)' = {}}
<1>1. ASSUME NEW j \in Jobs
      PROVE  HeldGPUs'[j] = IF j \in S THEN {} ELSE HeldGPUs[j]
  <2>1. CASE j \in S
    BY <2>1, HeldNothing DEF Leased, HeldGPUs
  <2>2. CASE j \notin S
    <3>1. PICK a : a \in Leased(j)'
      BY <2>2
    <3>2. a \in Leased(j)
      BY <3>1 DEF Leased, AllocsOf
    <3>3. HeldGPUs[j] = alloc[a].gpus
      BY <3>2, HeldIsOneGang
    <3>4. HeldGPUs'[j] = alloc'[a].gpus
      <4>1. \A b \in Leased(j)' : b = a
        BY <3>1 DEF Leased, AllocsOf, LeaseInv, OneLeasedAllocation, NoLease
      <4>2. HeldGPUs'[j] = UNION {alloc'[b].gpus : b \in Leased(j)'}
        BY DEF HeldGPUs, Leased
      <4>. QED
        BY <3>1, <4>1, <4>2
    <3>. QED
      BY <2>2, <3>3, <3>4
  <2>. QED
    BY <2>1, <2>2
<1>2. HeldGPUs' = [j \in Jobs |-> IF j \in S THEN {} ELSE HeldGPUs[j]]
  <2>1. HeldGPUs' = [j \in Jobs |-> HeldGPUs'[j]]
    BY DEF HeldGPUs
  <2>. QED
    BY <1>1, <2>1
<1>. QED
  BY <1>2 DEF Pool!Next, Pool!Release

\* allocateJob grants a gang.
LEMMA AllocateJobGrants ==
    ASSUME LeaseInv, LeaseInv', AllocateJob
    PROVE  Pool!Next
<1>0. PICK t \in Jobs : t = target
  BY DEF AllocateJob, LeaseInv, TargetSet
<1>1. /\ NextId \in AllocIds /\ alloc[NextId] = NoRow
      /\ bestNode \in Nodes /\ selectedGPUs \in SUBSET GPUs
      /\ alloc'[NextId] = [job |-> t, node |-> bestNode, gpus |-> selectedGPUs]
      /\ \A a \in AllocIds \ {NextId} : alloc'[a] = alloc[a] /\ lease'[a] = lease[a]
      /\ lease'[NextId] = LeaseTicks /\ LeaseTicks > 0
  BY <1>0, StoreAssumption DEF AllocateJob, FreshIds, NextId, LeaseInv, TargetSet,
     TypeOK, StoreTypeOK, SchedulerTypeOK
<1>2. Leased(t) = {}
  BY <1>0 DEF AllocateJob, LeaseInv, InHandIsBare, Placing, InHand, Leased, AllocsOf,
     NoLease
<1>3. alloc'[NextId] # NoRow
  BY <1>1, StoreAssumption DEF Rows
<1>4. Leased(t)' = {NextId}
  <2>1. NextId \in Leased(t)'
    BY <1>1, <1>3 DEF Leased, AllocsOf
  <2>2. ASSUME NEW b \in Leased(t)', b # NextId
        PROVE  FALSE
    BY <1>1, <1>2, <2>2 DEF Leased, AllocsOf
  <2>. QED
    BY <2>1, <2>2
<1>5. \A j \in Jobs \ {t} : Leased(j)' = Leased(j)
  BY <1>1, <1>3 DEF Leased, AllocsOf
<1>6. HeldGPUs'[t] = selectedGPUs
  <2>1. HeldGPUs'[t] = UNION {alloc'[b].gpus : b \in Leased(t)'}
    BY <1>1 DEF HeldGPUs, Leased
  <2>. QED
    BY <1>1, <1>4, <2>1
<1>7. ASSUME NEW j \in Jobs \ {t}
      PROVE  HeldGPUs'[j] = HeldGPUs[j]
  <2>1. /\ HeldGPUs'[j] = UNION {alloc'[b].gpus : b \in Leased(j)'}
        /\ HeldGPUs[j] = UNION {alloc[b].gpus : b \in Leased(j)}
    BY DEF HeldGPUs, Leased
  <2>2. \A b \in Leased(j) : alloc'[b] = alloc[b]
    BY <1>1 DEF Leased, AllocsOf
  <2>. QED
    BY <1>5, <2>1, <2>2
<1>8. HeldGPUs' = [HeldGPUs EXCEPT ![t] = selectedGPUs]
  <2>1. /\ HeldGPUs' = [j \in Jobs |-> HeldGPUs'[j]]
        /\ HeldGPUs = [j \in Jobs |-> HeldGPUs[j]]
    BY DEF HeldGPUs
  <2>. QED
    BY <1>1, <1>6, <1>7, <2>1
<1>9. selectedGPUs \in SUBSET Pool!Free
  <2>1. SUFFICES ASSUME NEW g \in selectedGPUs, NEW j \in Jobs, g \in HeldGPUs[j]
                 PROVE  FALSE
    BY <1>1 DEF Pool!Free
  <2>2. PICK a \in Leased(j) : g \in alloc[a].gpus
    BY <2>1 DEF HeldGPUs, Leased
  <2>3. IsLeased(g)
    BY <2>2 DEF IsLeased, Leased, AllocsOf
  <2>. QED
    BY <2>3 DEF AllocateJob, LeaseInv, ChoiceIsFree
<1>10. /\ Cardinality(selectedGPUs) = GPUCount[t]
       /\ \A g \in selectedGPUs : NodeOf[g] = bestNode
  BY <1>0 DEF AllocateJob, LeaseInv, ChoiceIsFree
<1>11. HeldGPUs[t] = {}
  BY <1>1, <1>2, HeldNothing
<1>12. Pool!Grant(t)
  <2>1. \E n \in Nodes, G \in SUBSET Pool!Free :
          /\ Cardinality(G) = GPUCount[t]
          /\ \A g \in G : NodeOf[g] = n
          /\ HeldGPUs' = [HeldGPUs EXCEPT ![t] = G]
    BY ONLY <1>1, <1>8, <1>9, <1>10
  <2>. QED
    BY ONLY <2>1, <1>11 DEF Pool!Grant, Pool!Cardinality, Cardinality
<1>. QED
  BY <1>1, <1>12 DEF Pool!Next

LEMMA PoolStep ==
    ASSUME LeaseInv, LeaseInv', [RestartNext]_vars
    PROVE  [Pool!Next]_HeldGPUs
<1>1. CASE UNCHANGED <<alloc, lease>>
  <2>1. UNCHANGED HeldGPUs
    BY <1>1 DEF HeldGPUs, AllocsOf
  <2>. QED
    BY <2>1
<1>2. CASE AllocateJob
  BY <1>2, AllocateJobGrants
<1>3. CASE UNCHANGED alloc /\ \A a \in AllocIds : lease'[a] > 0 => lease[a] > 0
  BY <1>3, EndingLeasesReleases
<1>4. CASE PruneExpiredLeases
  BY <1>4, <1>3 DEF PruneExpiredLeases, ExpiredLeases, DeleteLeases, LeaseInv, TypeOK,
     StoreTypeOK, NoLease, Expired
<1>5. ASSUME NEW c \in Checkers, NEW j \in Jobs, MarkJobLost(c, j)
      PROVE  [Pool!Next]_HeldGPUs
  BY <1>5, <1>3 DEF MarkJobLost, EndJob, DeleteLeases, LeaseInv, TypeOK,
     StoreTypeOK, NoLease, Expired
<1>6. ASSUME NEW n \in Nodes, HandleNodeOffline(n)
      PROVE  [Pool!Next]_HeldGPUs
  BY <1>6, <1>3 DEF HandleNodeOffline, DeleteLeases, LeaseInv, TypeOK,
     StoreTypeOK, NoLease, Expired
<1>7. ASSUME NEW j \in Jobs, NEW s \in Reported, HandleJobStateUpdate(j, s)
      PROVE  [Pool!Next]_HeldGPUs
  BY <1>7, <1>3 DEF HandleJobStateUpdate, Takes, DeleteLeases, LeaseInv, TypeOK,
     StoreTypeOK, NoLease, Expired
<1>8. ASSUME NEW j \in Jobs, CancelActive(j)
      PROVE  [Pool!Next]_HeldGPUs
  BY <1>8, <1>3 DEF CancelActive, EndJob, DeleteLeases, LeaseInv, TypeOK,
     StoreTypeOK, NoLease, Expired
<1>9. CASE ClockStep
  BY <1>9, <1>3 DEF ClockStep, Tick, LeaseInv, TypeOK, StoreTypeOK, NoLease,
     Expired
<1>. QED
  BY <1>1, <1>2, <1>3, <1>4, <1>5, <1>6, <1>7, <1>8, <1>9 DEF RestartNext,
     Next, SchedulerStep, SchedulerNext, ServerStep, ServerNext, Restart,
     vars, storeVars, allocVars, QueryStalled, RetryStalled, GiveUpStalled,
     ReleaseStalled, EndStalled, GetQueuedJobs, Place, Reject, KeepWaiting,
     FailJob, EndSchedule, QueryOvertime, CancelOvertime, CloseOvertime,
     EndOvertime, HandleJobSubmit, HandleHeartbeat, FindOrphans,
     DetectStaleNodes, HandleJobCancel, CancelQueued

\* Leases are a gang-allocated exclusive pool: see GPUPool.
THEOREM ImplementsPool == RestartSpec => PoolSpec
<1>1. Init => Pool!Init
  BY DEF Init, StoreInit, Pool!Init, HeldGPUs, AllocsOf, NoLease
<1>. QED
  BY <1>1, PoolStep, LeaseCorrect, PTL DEF RestartSpec, PoolSpec, Pool!Spec
=============================================================================
