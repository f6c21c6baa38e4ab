------------------------------- MODULE Journal -------------------------------
(***************************************************************************)
(* What the event manager promises to whoever reads the table events: rows *)
(* are only added, at most a batch of them in one transaction, in the      *)
(* order in which their events were emitted and none for an event that was *)
(* not or that is already there.  Any event may be missing.                *)
(***************************************************************************)
EXTENDS Integers, SequencesExt

CONSTANT BatchSize

VARIABLES
    emitted,       \* how many events were emitted; they are numbered from 1
    recorded       \* the rows

vars == <<emitted, recorded>>

Init == emitted = 0 /\ recorded = <<>>

Emit ==
    /\ emitted' = emitted + 1
    /\ UNCHANGED recorded

Record ==
    /\ IsPrefix(recorded, recorded')
    /\ Len(recorded') <= Len(recorded) + BatchSize
    /\ \A i, k \in DOMAIN recorded' : i < k => recorded'[i] < recorded'[k]
    /\ \A i \in DOMAIN recorded' : recorded'[i] \in 1 .. emitted
    /\ UNCHANGED emitted

Next == Emit \/ Record

Spec == Init /\ [][Next]_vars
=============================================================================
