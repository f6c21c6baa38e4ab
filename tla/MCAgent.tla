------------------------------ MODULE MCAgent ------------------------------
(* Small instances of Agent for TLC. *)
EXTENDS Agent

CONSTANTS j1, l1, l2

\* A job that is launched again on the node, where its first launch may run.
Relaunched == [l \in Launches |-> j1]

\* The launches of the job are interchangeable, and what is shown of one holds
\* of both: it competes with the other for a.mu and for the entry of the job.

\* The end of a launch is reported, whatever becomes of the other one.
EndIsReported == ReportsEnd(l1)

\* A terminate request that finds a running shell ends it.
StopEndsShell == StopsShell(l1)
=============================================================================
