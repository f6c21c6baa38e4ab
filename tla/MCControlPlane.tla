--------------------------- MODULE MCControlPlane ---------------------------
(* Small instances of ControlPlane for TLC. *)
EXTENDS ControlPlane

CONSTANTS j1, j2, j3, n1, n2, g1, g2, g3

\* gpus.node_id
AllOnFirst == [g \in GPUs |-> n1]
TwoAndOne == [g \in GPUs |-> IF g = g3 THEN n2 ELSE n1]

\* jobs.gpu_count; the last is more than a node has and not more than both
OneEach == [j \in Jobs |-> 1]
OneTwoThree == [j \in Jobs |-> IF j = j1 THEN 1 ELSE IF j = j2 THEN 2 ELSE 3]

\* jobs.priority
SamePriority == [j \in Jobs |-> 0]
SecondFirst == [j \in Jobs |-> IF j = j2 THEN 1 ELSE 0]

\* jobs.max_runtime_minutes
Unlimited == [j \in Jobs |-> 0]
FirstLimited == [j \in Jobs |-> IF j = j1 THEN 1 ELSE 0]
=============================================================================
