------------------------------- MODULE Agent -------------------------------
(***************************************************************************)
(* The agent of one node: internal/agent/agent.go and runner.go.  A launch *)
(* is one request to run a job; it has a process group, a runner while the *)
(* agent that started or recovered it lives, a goroutine that waits for    *)
(* the end and reports it, and, when the job is terminated, a second one.  *)
(* The agent may crash at any time and be started again; the processes of  *)
(* its jobs survive that, and what it knew of them is in agent_state.json. *)
(*                                                                         *)
(* A launch stands for the process id as well: ids are not reused here.    *)
(***************************************************************************)
EXTENDS Integers

CONSTANTS
    Jobs,          \* job ids
    Launches,      \* launch requests this node receives
    JobOf,         \* the job of a launch request
    None,          \* no entry
    Torn,          \* a state file that does not parse
    MaxCrashes     \* bound: crashes of the agent

ASSUME AgentAssumption ==
    /\ JobOf \in [Launches -> Jobs]
    /\ None \notin Launches
    /\ Torn \notin [Jobs -> Launches \cup {None}]
    /\ MaxCrashes \in Nat

VARIABLES
    group,         \* live processes of a launch: the shell, its children
    doomed,        \* those that were sent SIGKILL and have not ended yet
    up,            \* the agent is running
    activeJobs,    \* the map of the agent: job id to (the runner of) a launch
    file,          \* agent_state.json, or Torn: truncated and not written
    saved,         \* history: the last attempt to write it succeeded
    holder,        \* the launch whose goroutine holds a.mu to save, or None
    own,           \* launches whose runner has a cmd: started, not recovered
    watched,       \* launches that have a runner in this agent process
    finished,      \* finishedChan of the runner is closed
    stage,         \* where the launch goroutine is
    stop,          \* where the terminate goroutine is
    crashes

procVars == <<group, doomed, crashes>>
mapVars == <<activeJobs, file, saved, holder>>
runnerVars == <<own, watched, finished>>
vars == <<procVars, up, mapVars, runnerVars, stage, stop>>

Nothing == [j \in Jobs |-> None]

Stages == {"idle", "started", "saving", "starting", "running", "waiting",
           "ended", "resaving", "reporting", "done", "died"}
Stops == {"none", "asked", "grace", "graceNoGroup", "killed", "reporting"}

TypeOK ==
    /\ group \in [Launches -> SUBSET {"shell", "child"}]
    /\ doomed \in [Launches -> SUBSET {"shell", "child"}]
    /\ \A l \in Launches : doomed[l] \subseteq group[l]
    /\ up \in BOOLEAN /\ saved \in BOOLEAN
    /\ activeJobs \in [Jobs -> Launches \cup {None}]
    /\ file \in [Jobs -> Launches \cup {None}] \cup {Torn}
    /\ holder \in Launches \cup {None}
    /\ own \subseteq watched /\ watched \subseteq Launches
    /\ finished \subseteq watched
    /\ stage \in [Launches -> Stages]
    /\ stop \in [Launches -> Stops]
    /\ crashes \in 0 .. MaxCrashes

Init ==
    /\ group = [l \in Launches |-> {}] /\ doomed = group
    /\ up = TRUE
    /\ activeJobs = Nothing /\ holder = None
    /\ file = Nothing /\ saved = TRUE
    /\ own = {} /\ watched = {} /\ finished = {}
    /\ stage = [l \in Launches |-> "idle"]
    /\ stop = [l \in Launches |-> "none"]
    /\ crashes = 0

Alive(l) == "shell" \in group[l]
Goto(l, s) == stage' = [stage EXCEPT ![l] = s]
StopGoto(l, s) == stop' = [stop EXCEPT ![l] = s]

-----------------------------------------------------------------------------
(***************************************************************************)
(* handleLaunch and the goroutine it starts.                               *)
(***************************************************************************)

\* runner.Start() has succeeded.  A shell command may leave children.
Start(l) ==
    /\ up /\ stage[l] = "idle"
    /\ \E G \in {{"shell"}, {"shell", "child"}} :
         group' = [group EXCEPT ![l] = G]
    /\ own' = own \cup {l} /\ watched' = watched \cup {l}
    /\ Goto(l, "started")
    /\ UNCHANGED <<doomed, crashes, up, mapVars, finished, stop>>

\* a.mu is taken and the map is changed.
Change(l, entry, s) ==
    /\ up /\ holder = None
    /\ activeJobs' = [activeJobs EXCEPT ![JobOf[l]] = entry]
    /\ holder' = l
    /\ Goto(l, s)
    /\ UNCHANGED <<procVars, up, file, saved, runnerVars, stop>>

Register(l) == stage[l] = "started" /\ Change(l, l, "saving")

\* os.WriteFile has opened the file, which truncates it.
Truncate(l) ==
    /\ holder = l /\ file # Torn
    /\ file' = Torn
    /\ UNCHANGED <<procVars, up, activeJobs, saved, holder, runnerVars, stage, stop>>

\* a.mu is released, whether the file could be written or not.
Release(l) ==
    /\ holder = l
    /\ holder' = None
    /\ Goto(l, IF stage[l] = "saving" THEN "starting" ELSE "reporting")
    /\ UNCHANGED <<procVars, up, activeJobs, runnerVars, stop>>

\* Mutant: what is written was collected before the map was changed.
SaveOldState(l) ==
    /\ file = Torn /\ file' = [activeJobs EXCEPT ![JobOf[l]] = None]
    /\ saved' = TRUE
    /\ Release(l)

\* The file is written.
SaveState(l) ==
    /\ file = Torn /\ file' = activeJobs
    /\ saved' = TRUE
    /\ Release(l)

\* It could not be opened, or not be written to the end; nobody looks at the
\* error.
SaveFails(l) ==
    /\ saved' = FALSE
    /\ Release(l)
    /\ UNCHANGED file

\* updateJobStatus: one request, not repeated if it fails.
NextStage == [starting |-> "running", running |-> "waiting", reporting |-> "done"]

UpdateJobStatus(l) ==
    /\ up /\ stage[l] \in DOMAIN NextStage
    /\ Goto(l, NextStage[stage[l]])
    /\ UNCHANGED <<procVars, up, mapVars, runnerVars, stop>>

\* Mutant: the end of the runner is not waited for.
WaitReturnsAtOnce(l) ==
    /\ up /\ stage[l] = "waiting"
    /\ Goto(l, "ended")
    /\ UNCHANGED <<procVars, up, mapVars, runnerVars, stop>>

\* runner.Wait() returns.
WaitReturns(l) ==
    /\ up /\ stage[l] = "waiting" /\ l \in finished
    /\ Goto(l, "ended")
    /\ UNCHANGED <<procVars, up, mapVars, runnerVars, stop>>

\* Mutant: the map is changed and not saved.
UnregisterUnsaved(l) ==
    /\ up /\ holder = None /\ stage[l] = "ended"
    /\ activeJobs' = [activeJobs EXCEPT ![JobOf[l]] = None]
    /\ Goto(l, "reporting")
    /\ UNCHANGED <<procVars, up, file, saved, holder, runnerVars, stop>>

\* The entry is deleted by job id.
Unregister(l) == stage[l] = "ended" /\ Change(l, None, "resaving")

-----------------------------------------------------------------------------
(***************************************************************************)
(* Runners and processes.                                                  *)
(***************************************************************************)

\* Mutants: nobody calls cmd.Wait(), and a channel is closed without a runner.
FinishRecoveredOnly(l) ==
    /\ up /\ l \in watched \ (finished \cup own)
    /\ ~Alive(l)
    /\ finished' = finished \cup {l}
    /\ UNCHANGED <<procVars, up, mapVars, own, watched, stage, stop>>

FinishUnwatched(l) ==
    /\ up /\ l \notin finished
    /\ ~Alive(l)
    /\ finished' = finished \cup {l}
    /\ UNCHANGED <<procVars, up, mapVars, own, watched, stage, stop>>

\* cmd.Wait() has reaped the shell and has read its output to the end, for
\* which a child that kept the output open must have ended too; a recovered
\* runner polls the shell's process id alone.
Finish(l) ==
    /\ up /\ l \in watched \ finished
    /\ ~Alive(l)
    /\ finished' = finished \cup {l}
    /\ UNCHANGED <<procVars, up, mapVars, own, watched, stage, stop>>

\* A process ends by itself, by a signal or because its output is broken.
Exit(l, p) ==
    /\ p \in group[l]
    /\ group' = [group EXCEPT ![l] = @ \ {p}]
    /\ doomed' = [doomed EXCEPT ![l] = @ \ {p}]
    /\ UNCHANGED <<crashes, up, mapVars, runnerVars, stage, stop>>

-----------------------------------------------------------------------------
(***************************************************************************)
(* handleTerminate and JobRunner.Stop.                                     *)
(***************************************************************************)

\* Every request starts a goroutine; here one at a time for each runner.
HandleTerminate(l) ==
    /\ up /\ holder = None
    /\ activeJobs[JobOf[l]] = l
    /\ stop[l] = "none"
    /\ StopGoto(l, "asked")
    /\ UNCHANGED <<procVars, up, mapVars, runnerVars, stage>>

\* Stop of a finished own runner returns at once; otherwise SIGTERM is sent.
\* Getpgid does not know a shell that has ended and was reaped, and Stop
\* then falls back on signals to the process alone.
Terminate(l) ==
    /\ up /\ stop[l] = "asked"
    /\ \/ l \in own \cap finished /\ StopGoto(l, "reporting")
       \/ l \notin own \cap finished /\ StopGoto(l, "grace")
       \/ l \in own \ finished /\ ~Alive(l) /\ StopGoto(l, "graceNoGroup")
    /\ UNCHANGED <<procVars, up, mapVars, runnerVars, stage>>

InGrace(l) == stop[l] \in {"grace", "graceNoGroup"}

\* finishedChan is closed before the five seconds are over, or after a kill.
StopReturns(l) ==
    /\ up /\ l \in finished
    /\ InGrace(l) \/ stop[l] = "killed"
    /\ StopGoto(l, "reporting")
    /\ UNCHANGED <<procVars, up, mapVars, runnerVars, stage>>

Doom(l, P) == doomed' = [doomed EXCEPT ![l] = @ \cup (P \cap group[l])]

\* Mutant: a recovered job is only asked to end.
KillOwn(l) ==
    /\ up /\ InGrace(l)
    /\ IF l \in own /\ stop[l] = "grace" THEN Doom(l, {"shell", "child"})
       ELSE UNCHANGED doomed
    /\ StopGoto(l, IF l \in own THEN "killed" ELSE "reporting")
    /\ UNCHANGED <<group, crashes, up, mapVars, runnerVars, stage>>

\* SIGKILL, to the group of an own runner and to the shell of a recovered
\* one.  It takes effect later; only the end of an own one is waited for.
Kill(l) ==
    /\ up /\ InGrace(l)
    /\ CASE l \notin own -> Doom(l, {"shell"})
         [] l \in own /\ stop[l] = "grace" -> Doom(l, {"shell", "child"})
         [] OTHER -> UNCHANGED doomed
    /\ StopGoto(l, IF l \in own THEN "killed" ELSE "reporting")
    /\ UNCHANGED <<group, crashes, up, mapVars, runnerVars, stage>>

\* updateJobStatus(CANCELED)
ReportCanceled(l) ==
    /\ up /\ stop[l] = "reporting"
    /\ StopGoto(l, "none")
    /\ UNCHANGED <<procVars, up, mapVars, runnerVars, stage>>

-----------------------------------------------------------------------------
(***************************************************************************)
(* Crash and recovery.                                                     *)
(***************************************************************************)
Crash ==
    /\ up /\ crashes < MaxCrashes
    /\ up' = FALSE
    /\ crashes' = crashes + 1
    /\ activeJobs' = Nothing /\ holder' = None
    /\ own' = {} /\ watched' = {} /\ finished' = {}
    /\ stage' = [l \in Launches |->
                    IF stage[l] = "idle" THEN "idle" ELSE "died"]
    /\ stop' = [l \in Launches |-> "none"]
    /\ UNCHANGED <<group, doomed, file, saved>>

\* loadState recovers the entries whose process answers to signal 0.
LoadState ==
    LET entry(j) == IF file = Torn THEN None ELSE file[j]
        alive == {j \in Jobs : entry(j) # None /\ Alive(entry(j))}
    IN  /\ ~up
        /\ up' = TRUE
        /\ activeJobs' = [j \in Jobs |-> IF j \in alive THEN entry(j) ELSE None]
        /\ watched' = {entry(j) : j \in alive}
        /\ saved' = TRUE
        /\ UNCHANGED <<procVars, file, holder, own, finished, stage, stop>>

-----------------------------------------------------------------------------
Goroutine(l) ==
    \/ Register(l) \/ Truncate(l) \/ SaveState(l) \/ SaveFails(l)
    \/ UpdateJobStatus(l) \/ WaitReturns(l) \/ Unregister(l)

Stopping(l) ==
    Terminate(l) \/ StopReturns(l) \/ Kill(l) \/ ReportCanceled(l)

Next ==
    \/ \E l \in Launches :
         \/ Start(l) \/ Goroutine(l) \/ Finish(l)
         \/ Exit(l, "shell") \/ Exit(l, "child")
         \/ HandleTerminate(l) \/ Stopping(l)
    \/ Crash \/ LoadState

Spec == Init /\ [][Next]_vars

\* What happens to a launch without anybody asking: its goroutine runs,
\* cmd.Wait() returns when nothing of the group is left, and the kernel ends
\* what was sent SIGKILL.
Unasked(l) ==
    \/ Goroutine(l)
    \/ Finish(l) /\ (l \in own => group[l] = {})
    \/ \E p \in doomed[l] : Exit(l, p)

\* Goroutines run and requests to the controller end.  The unasked steps of a
\* launch are finitely many, so that none of them needs fairness of its own,
\* and a.mu is free in the end for whoever waits for it.  Jobs need not end,
\* and the agent need not come back.
Fairness == \A l \in Launches : WF_vars(Unasked(l)) /\ WF_vars(Stopping(l))

FairSpec == Spec /\ Fairness

-----------------------------------------------------------------------------
(***************************************************************************)
(* What the agent can be relied on for.                                    *)
(***************************************************************************)

\* A process that the agent started and has registered stays in its list, so
\* that heartbeats name it and a terminate request finds it, whatever the
\* goroutines of other jobs do: only another launch of the same job here can
\* take the entry, which is kept by job id, from a running process.
Tracked ==
    \A l \in own :
        Alive(l) /\ stage[l] # "started" =>
            \/ activeJobs[JobOf[l]] = l
            \/ \E k \in own \ {l} : JobOf[k] = JobOf[l] /\ stage[k] # "started"

\* Whenever nobody is saving, and unless the last write failed, the file
\* knows what the map knows, so that a crash then loses no registered job:
\* one good write makes up for all that failed before it.
FileCovers ==
    up /\ holder = None /\ saved =>
        \A l \in Launches : activeJobs[JobOf[l]] = l =>
            file # Torn /\ file[JobOf[l]] = l

\* Unless the last write failed, the file has forgotten a job whose end is
\* reported: no crash brings it back.
EndedIsForgotten ==
    saved => \A l \in Launches : stage[l] \in {"reporting", "done"} =>
                 file = Torn \/ file[JobOf[l]] # l

\* The agent sends its SIGKILL to a recovered shell and goes on.
LeftDying(l) == l \notin own /\ "shell" \in doomed[l]

\* The goroutine that waits for a job reports its end only when the shell has
\* ended, and the one that stops it reports CANCELED only when the shell has
\* ended or, for a recovered job, has been sent SIGKILL, whichever of the
\* ways of Stop it took: the controller gives the GPUs to the next job upon
\* such a report.
ReportedEndIsReal ==
    \A l \in Launches :
        /\ stage[l] \in {"reporting", "done"} => ~Alive(l)
        /\ stop[l] = "reporting" => ~Alive(l) \/ LeftDying(l)

\* The inductive strengthening.
DownIsBlank ==
    ~up => /\ own = {} /\ finished = {} /\ holder = None
           /\ activeJobs = Nothing
           /\ \A l \in Launches : stage[l] \in {"idle", "died"}

IdleIsNew ==
    \A l \in Launches : stage[l] = "idle" => group[l] = {} /\ l \notin watched

GoroutineHasRunner == \A l \in Launches : stage[l] \notin {"idle", "died"} => l \in own

Over(l) == stage[l] \in {"ended", "resaving", "reporting", "done"}

EndedIsOver == \A l \in Launches : l \in finished \/ Over(l) => ~Alive(l)

EndedIsUnlisted ==
    \A l \in Launches :
        Over(l) /\ stage[l] # "ended" => activeJobs[JobOf[l]] # l

HolderSaves == holder # None => stage[holder] \in {"saving", "resaving"}

\* Map and file name launches that were made, so that none is terminated
\* before its shell was started.
ListedIsStarted ==
    /\ \A j \in Jobs : activeJobs[j] # None => stage[activeJobs[j]] # "idle"
    /\ file # Torn => \A j \in Jobs : file[j] # None => stage[file[j]] # "idle"

StoppedIsStarted == \A l \in Launches : stage[l] = "idle" => stop[l] = "none"

StoppedIsOver ==
    \A l \in Launches :
        /\ stop[l] = "graceNoGroup" => ~Alive(l)
        /\ stop[l] = "reporting" => ~Alive(l) \/ LeftDying(l)

StopInv == ListedIsStarted /\ StoppedIsStarted /\ StoppedIsOver

AgentInv ==
    /\ TypeOK /\ DownIsBlank /\ IdleIsNew /\ GoroutineHasRunner /\ EndedIsOver
    /\ EndedIsUnlisted /\ HolderSaves /\ FileCovers /\ EndedIsForgotten
    /\ Tracked /\ StopInv

\* The end of a launch that the agent started is reported, unless it crashes.
ReportsEnd(l) ==
    l \in own /\ group[l] = {} ~> stage[l] = "done" \/ l \notin own

\* A terminate request for a job whose shell runs ends the shell, recovered
\* or not, unless the agent crashes first.
StopsShell(l) == stop[l] = "asked" ~> ~Alive(l) \/ ~up

-----------------------------------------------------------------------------
(***************************************************************************)
(* What the documents say and the code does not do.                        *)
(***************************************************************************)

\* CHANGELOG.md 0.1.1: "agent state persistence and recovery to handle agent
\* restarts without losing track of running jobs".  To keep track of a job
\* the agent must notice its end, and no longer name it in its heartbeats.
RecoveredEndIsSeen ==
    \A l \in Launches :
        l \in watched \ own /\ group[l] = {} ~> activeJobs[JobOf[l]] # l
=============================================================================
