------------------------------ MODULE GPUPool ------------------------------
(***************************************************************************)
(* What the controller promises about GPUs: an exclusive pool with gang    *)
(* allocation.  A job gets all the GPUs it asked for at once, free ones,   *)
(* and all on one node ("Each job must fit on a single node",              *)
(* NON_GOALS.md), or none; it gets no more while it holds some; and it     *)
(* gives all of them back at once.  Several jobs may give back in one      *)
(* step, as when their leases run out in the same second.                  *)
(***************************************************************************)
EXTENDS Integers, FiniteSets

CONSTANTS Jobs, Nodes, GPUs, NodeOf, GPUCount

VARIABLE held      \* the GPUs each job has an unexpired lease of

Free == GPUs \ UNION {held[j] : j \in Jobs}

Init == held = [j \in Jobs |-> {}]

Grant(j) ==
    /\ held[j] = {}
    /\ \E n \in Nodes, G \in SUBSET Free :
         /\ Cardinality(G) = GPUCount[j]
         /\ \A g \in G : NodeOf[g] = n
         /\ held' = [held EXCEPT ![j] = G]

Release(S) == held' = [j \in Jobs |-> IF j \in S THEN {} ELSE held[j]]

Next == \/ \E j \in Jobs : Grant(j)
        \/ \E S \in SUBSET Jobs : Release(S)

Spec == Init /\ [][Next]_held
=============================================================================
