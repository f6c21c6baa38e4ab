----------------------------- MODULE MCCluster -----------------------------
(* Small instances of Cluster for TLC: one node with one GPU. *)
EXTENDS Cluster

CONSTANTS j1, n1, g1

AllOnFirst == [g \in GPUs |-> n1]
OneEach == [j \in Jobs |-> 1]
SamePriority == [j \in Jobs |-> 0]
Unlimited == [j \in Jobs |-> 0]
=============================================================================
