------------------------------ MODULE LogStream ------------------------------
(***************************************************************************)
(* What the agent and the server promise to a client that reads the log of *)
(* a job: the log only grows, and not any more once the job is over; the   *)
(* client is sent the log from its beginning, in order, and nothing of it  *)
(* twice; nothing is sent after the end of the stream.  The stream may end *)
(* anywhere, and how much of the log has been sent is up to the system.    *)
(***************************************************************************)
EXTENDS SequencesExt

VARIABLES
    log,
    closed,        \* the job is over
    got,           \* what the client has been sent
    ended          \* the stream has ended

vars == <<log, closed, got, ended>>

Init ==
    /\ log = <<>> /\ closed = FALSE
    /\ got = <<>> /\ ended = FALSE

Grow ==
    /\ ~closed
    /\ IsPrefix(log, log')
    /\ UNCHANGED <<closed, got, ended>>

Close ==
    /\ ~closed /\ closed' = TRUE
    /\ UNCHANGED <<log, got, ended>>

Send ==
    /\ ~ended
    /\ IsPrefix(got, got') /\ IsPrefix(got', log)
    /\ UNCHANGED <<log, closed, ended>>

End ==
    /\ ~ended /\ ended' = TRUE
    /\ UNCHANGED <<log, closed, got>>

Next == Grow \/ Close \/ Send \/ End

Spec == Init /\ [][Next]_vars
=============================================================================
