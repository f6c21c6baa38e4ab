---------------------------- MODULE AgentProofs ----------------------------
(***************************************************************************)
(* Proofs about one agent, across its crashes and recoveries and the       *)
(* writes of its file that fail.  AgentInv is inductive.  A launch leaves  *)
(* the map only after its shell has ended (EndedIsOver) or behind another  *)
(* launch of the same job (Tracked), the goroutine that removes it tries   *)
(* to save the map before it reports (EndedIsUnlisted, HolderSaves), and   *)
(* nothing of a dead agent's memory is left when the next one loads the    *)
(* file (DownIsBlank).                                                     *)
(***************************************************************************)
EXTENDS Agent, TLAPS

\* Every step keeps the types.
LEMMA AgentTypes ==
    ASSUME TypeOK, DownIsBlank, IdleIsNew, [Next]_vars
    PROVE  TypeOK'
<1>. USE AgentAssumption DEF TypeOK, DownIsBlank, Stages, Stops, Goto, StopGoto,
       procVars, mapVars, runnerVars, vars
<1>1. ASSUME NEW l \in Launches, Start(l)
      PROVE  TypeOK'
  <2>1. PICK G \in {{"shell"}, {"shell", "child"}} : group' = [group EXCEPT ![l] = G]
    BY <1>1 DEF Start
  <2>2. \A k \in Launches : doomed'[k] \subseteq group'[k]
    <3>1. doomed' = doomed /\ group[l] = {}
      BY <1>1 DEF Start, IdleIsNew
    <3>. QED
      BY <2>1, <3>1
  <2>. QED
    BY <1>1, <2>1, <2>2 DEF Start
<1>2. ASSUME NEW l \in Launches, Register(l)
      PROVE  TypeOK'
  BY <1>2 DEF Register, Change
<1>3. ASSUME NEW l \in Launches, Truncate(l) \/ SaveState(l) \/ SaveFails(l)
      PROVE  TypeOK'
  BY <1>3 DEF Truncate, SaveState, SaveFails, Release
<1>4. ASSUME NEW l \in Launches, UpdateJobStatus(l)
      PROVE  TypeOK'
  BY <1>4 DEF UpdateJobStatus, NextStage
<1>5. ASSUME NEW l \in Launches, WaitReturns(l)
      PROVE  TypeOK'
  BY <1>5 DEF WaitReturns
<1>6. ASSUME NEW l \in Launches, Unregister(l)
      PROVE  TypeOK'
  BY <1>6 DEF Unregister, Change
<1>7. ASSUME NEW l \in Launches, Finish(l)
      PROVE  TypeOK'
  BY <1>7 DEF Finish
<1>8. ASSUME NEW l \in Launches, NEW p \in {"shell", "child"}, Exit(l, p)
      PROVE  TypeOK'
  BY <1>8 DEF Exit
<1>9. ASSUME NEW l \in Launches, HandleTerminate(l)
      PROVE  TypeOK'
  BY <1>9 DEF HandleTerminate
<1>10. ASSUME NEW l \in Launches, Terminate(l)
      PROVE  TypeOK'
  BY <1>10 DEF Terminate
<1>11. ASSUME NEW l \in Launches, StopReturns(l)
      PROVE  TypeOK'
  BY <1>11 DEF StopReturns, InGrace
<1>12. ASSUME NEW l \in Launches, Kill(l)
      PROVE  TypeOK'
  BY <1>12 DEF Kill, InGrace, Doom
<1>13. ASSUME NEW l \in Launches, ReportCanceled(l)
      PROVE  TypeOK'
  BY <1>13 DEF ReportCanceled
<1>14. CASE Crash
  <2>1. /\ stage' \in [Launches -> Stages] /\ stop' \in [Launches -> Stops]
        /\ activeJobs' \in [Jobs -> Launches \cup {None}]
    BY <1>14 DEF Crash, Nothing
  <2>2. crashes' \in 0 .. MaxCrashes
    BY <1>14 DEF Crash
  <2>. QED
    BY <1>14, <2>1, <2>2 DEF Crash
<1>15. CASE LoadState
  BY <1>15 DEF LoadState, Nothing
<1>16. CASE UNCHANGED vars
  BY <1>16
<1>. QED
  BY <1>1, <1>2, <1>3, <1>4, <1>5, <1>6, <1>7, <1>8, <1>9, <1>10, <1>11,
     <1>12, <1>13, <1>14, <1>15, <1>16
     DEF Next, Goroutine, Stopping

\* Every step keeps what is said of goroutines, runners and processes.
LEMMA AgentControl ==
    ASSUME AgentInv, [Next]_vars
    PROVE  /\ DownIsBlank' /\ IdleIsNew' /\ GoroutineHasRunner'
           /\ EndedIsOver' /\ EndedIsUnlisted' /\ HolderSaves'
<1>. DEFINE Control == /\ DownIsBlank /\ IdleIsNew /\ GoroutineHasRunner
                       /\ EndedIsOver /\ EndedIsUnlisted /\ HolderSaves
<1>. USE AgentAssumption DEF AgentInv, TypeOK, DownIsBlank, IdleIsNew,
       GoroutineHasRunner, EndedIsOver, EndedIsUnlisted, HolderSaves, Over,
       Alive, Goto, StopGoto,
       procVars, mapVars, runnerVars, vars
<1>1. ASSUME NEW l \in Launches, Start(l)
      PROVE  Control'
  BY <1>1 DEF Start
<1>2. ASSUME NEW l \in Launches, Register(l)
      PROVE  Control'
  BY <1>2 DEF Register, Change
<1>3. ASSUME NEW l \in Launches, Truncate(l) \/ SaveState(l) \/ SaveFails(l)
      PROVE  Control'
  BY <1>3 DEF Truncate, SaveState, SaveFails, Release
<1>4. ASSUME NEW l \in Launches, UpdateJobStatus(l)
      PROVE  Control'
  BY <1>4 DEF UpdateJobStatus, NextStage
<1>5. ASSUME NEW l \in Launches, WaitReturns(l)
      PROVE  Control'
  BY <1>5 DEF WaitReturns
<1>6. ASSUME NEW l \in Launches, Unregister(l)
      PROVE  Control'
  BY <1>6 DEF Unregister, Change
<1>7. ASSUME NEW l \in Launches, Finish(l)
      PROVE  Control'
  BY <1>7 DEF Finish
<1>8. ASSUME NEW l \in Launches, NEW p \in {"shell", "child"}, Exit(l, p)
      PROVE  Control'
  BY <1>8 DEF Exit
<1>9. ASSUME NEW l \in Launches, HandleTerminate(l)
      PROVE  Control'
  BY <1>9 DEF HandleTerminate
<1>10. ASSUME NEW l \in Launches, Terminate(l)
      PROVE  Control'
  BY <1>10 DEF Terminate
<1>11. ASSUME NEW l \in Launches, StopReturns(l)
      PROVE  Control'
  BY <1>11 DEF StopReturns, InGrace
<1>12. ASSUME NEW l \in Launches, Kill(l)
      PROVE  Control'
  BY <1>12 DEF Kill, InGrace, Doom
<1>13. ASSUME NEW l \in Launches, ReportCanceled(l)
      PROVE  Control'
  BY <1>13 DEF ReportCanceled
<1>14. CASE Crash
  BY <1>14 DEF Crash, Nothing
<1>15. CASE LoadState
  BY <1>15 DEF LoadState, Nothing
<1>16. CASE UNCHANGED vars
  BY <1>16
<1>. QED
  BY <1>1, <1>2, <1>3, <1>4, <1>5, <1>6, <1>7, <1>8, <1>9, <1>10, <1>11,
     <1>12, <1>13, <1>14, <1>15, <1>16
     DEF Next, Goroutine, Stopping

\* Every step keeps what is said of the state file.
LEMMA AgentFile ==
    ASSUME AgentInv, [Next]_vars
    PROVE  FileCovers' /\ EndedIsForgotten'
<1>. USE AgentAssumption DEF AgentInv, TypeOK, DownIsBlank, EndedIsUnlisted,
       HolderSaves, FileCovers, EndedIsForgotten, Over, Goto, StopGoto,
       procVars, mapVars, runnerVars, vars
<1>1. ASSUME NEW l \in Launches, Start(l)
      PROVE  FileCovers' /\ EndedIsForgotten'
  BY <1>1 DEF Start
<1>2. ASSUME NEW l \in Launches, Register(l)
      PROVE  FileCovers' /\ EndedIsForgotten'
  BY <1>2 DEF Register, Change
<1>3. ASSUME NEW l \in Launches, Truncate(l) \/ SaveState(l) \/ SaveFails(l)
      PROVE  FileCovers' /\ EndedIsForgotten'
  BY <1>3 DEF Truncate, SaveState, SaveFails, Release
<1>4. ASSUME NEW l \in Launches, UpdateJobStatus(l)
      PROVE  FileCovers' /\ EndedIsForgotten'
  BY <1>4 DEF UpdateJobStatus, NextStage
<1>5. ASSUME NEW l \in Launches, WaitReturns(l)
      PROVE  FileCovers' /\ EndedIsForgotten'
  BY <1>5 DEF WaitReturns
<1>6. ASSUME NEW l \in Launches, Unregister(l)
      PROVE  FileCovers' /\ EndedIsForgotten'
  BY <1>6 DEF Unregister, Change
<1>7. ASSUME NEW l \in Launches, Finish(l)
      PROVE  FileCovers' /\ EndedIsForgotten'
  BY <1>7 DEF Finish
<1>8. ASSUME NEW l \in Launches, NEW p \in {"shell", "child"}, Exit(l, p)
      PROVE  FileCovers' /\ EndedIsForgotten'
  BY <1>8 DEF Exit
<1>9. ASSUME NEW l \in Launches, HandleTerminate(l)
      PROVE  FileCovers' /\ EndedIsForgotten'
  BY <1>9 DEF HandleTerminate
<1>10. ASSUME NEW l \in Launches, Terminate(l)
      PROVE  FileCovers' /\ EndedIsForgotten'
  BY <1>10 DEF Terminate
<1>11. ASSUME NEW l \in Launches, StopReturns(l)
      PROVE  FileCovers' /\ EndedIsForgotten'
  BY <1>11 DEF StopReturns, InGrace
<1>12. ASSUME NEW l \in Launches, Kill(l)
      PROVE  FileCovers' /\ EndedIsForgotten'
  BY <1>12 DEF Kill, InGrace, Doom
<1>13. ASSUME NEW l \in Launches, ReportCanceled(l)
      PROVE  FileCovers' /\ EndedIsForgotten'
  BY <1>13 DEF ReportCanceled
<1>14. CASE Crash
  BY <1>14 DEF Crash, Nothing
<1>15. CASE LoadState
  BY <1>15 DEF LoadState, Nothing
<1>16. CASE UNCHANGED vars
  BY <1>16
<1>. QED
  BY <1>1, <1>2, <1>3, <1>4, <1>5, <1>6, <1>7, <1>8, <1>9, <1>10, <1>11,
     <1>12, <1>13, <1>14, <1>15, <1>16
     DEF Next, Goroutine, Stopping

\* Every step keeps what is said of Stop and of what is terminated.
LEMMA AgentStop ==
    ASSUME AgentInv, [Next]_vars
    PROVE  StopInv'
<1>. USE AgentAssumption DEF AgentInv, TypeOK, DownIsBlank, IdleIsNew,
       EndedIsOver, HolderSaves, StopInv, ListedIsStarted, StoppedIsStarted,
       StoppedIsOver, LeftDying, Over, Alive, Goto, StopGoto, procVars, mapVars,
       runnerVars, vars
<1>1. ASSUME NEW l \in Launches, Start(l)
      PROVE  StopInv'
  BY <1>1 DEF Start
<1>2. ASSUME NEW l \in Launches, Register(l)
      PROVE  StopInv'
  BY <1>2 DEF Register, Change
<1>3. ASSUME NEW l \in Launches, Truncate(l) \/ SaveState(l) \/ SaveFails(l)
      PROVE  StopInv'
  BY <1>3 DEF Truncate, SaveState, SaveFails, Release
<1>4. ASSUME NEW l \in Launches, UpdateJobStatus(l)
      PROVE  StopInv'
  BY <1>4 DEF UpdateJobStatus, NextStage
<1>5. ASSUME NEW l \in Launches, WaitReturns(l)
      PROVE  StopInv'
  BY <1>5 DEF WaitReturns
<1>6. ASSUME NEW l \in Launches, Unregister(l)
      PROVE  StopInv'
  BY <1>6 DEF Unregister, Change
<1>7. ASSUME NEW l \in Launches, Finish(l)
      PROVE  StopInv'
  BY <1>7 DEF Finish
<1>8. ASSUME NEW l \in Launches, NEW p \in {"shell", "child"}, Exit(l, p)
      PROVE  StopInv'
  BY <1>8 DEF Exit
<1>9. ASSUME NEW l \in Launches, HandleTerminate(l)
      PROVE  StopInv'
  BY <1>9 DEF HandleTerminate
<1>10. ASSUME NEW l \in Launches, Terminate(l)
      PROVE  StopInv'
  BY <1>10 DEF Terminate
<1>11. ASSUME NEW l \in Launches, StopReturns(l)
      PROVE  StopInv'
  BY <1>11 DEF StopReturns, InGrace
<1>12. ASSUME NEW l \in Launches, Kill(l)
      PROVE  StopInv'
  BY <1>12 DEF Kill, InGrace, Doom
<1>13. ASSUME NEW l \in Launches, ReportCanceled(l)
      PROVE  StopInv'
  BY <1>13 DEF ReportCanceled
<1>14. CASE Crash
  BY <1>14 DEF Crash, Nothing
<1>15. CASE LoadState
  BY <1>15 DEF LoadState, Nothing
<1>16. CASE UNCHANGED vars
  BY <1>16
<1>. QED
  BY <1>1, <1>2, <1>3, <1>4, <1>5, <1>6, <1>7, <1>8, <1>9, <1>10, <1>11,
     <1>12, <1>13, <1>14, <1>15, <1>16
     DEF Next, Goroutine, Stopping

\* A step hides a running process only behind another launch of the job.
LEMMA AgentTracked ==
    ASSUME AgentInv, [Next]_vars
    PROVE  Tracked'
<1>. USE AgentAssumption DEF AgentInv, TypeOK, DownIsBlank, IdleIsNew,
       GoroutineHasRunner, EndedIsOver, HolderSaves, Tracked, Over, Alive, Goto,
       StopGoto, procVars, mapVars, runnerVars, vars
<1>1. ASSUME NEW l \in Launches, Start(l)
      PROVE  Tracked'
  BY <1>1 DEF Start
<1>2. ASSUME NEW l \in Launches, Register(l)
      PROVE  Tracked'
  BY <1>2 DEF Register, Change
<1>3. ASSUME NEW l \in Launches, Truncate(l) \/ SaveState(l) \/ SaveFails(l)
      PROVE  Tracked'
  BY <1>3 DEF Truncate, SaveState, SaveFails, Release
<1>4. ASSUME NEW l \in Launches, UpdateJobStatus(l)
      PROVE  Tracked'
  BY <1>4 DEF UpdateJobStatus, NextStage
<1>5. ASSUME NEW l \in Launches, WaitReturns(l)
      PROVE  Tracked'
  BY <1>5 DEF WaitReturns
<1>6. ASSUME NEW l \in Launches, Unregister(l)
      PROVE  Tracked'
  BY <1>6 DEF Unregister, Change
<1>7. ASSUME NEW l \in Launches, Finish(l)
      PROVE  Tracked'
  BY <1>7 DEF Finish
<1>8. ASSUME NEW l \in Launches, NEW p \in {"shell", "child"}, Exit(l, p)
      PROVE  Tracked'
  BY <1>8 DEF Exit
<1>9. ASSUME NEW l \in Launches, HandleTerminate(l)
      PROVE  Tracked'
  BY <1>9 DEF HandleTerminate
<1>10. ASSUME NEW l \in Launches, Terminate(l)
      PROVE  Tracked'
  BY <1>10 DEF Terminate
<1>11. ASSUME NEW l \in Launches, StopReturns(l)
      PROVE  Tracked'
  BY <1>11 DEF StopReturns, InGrace
<1>12. ASSUME NEW l \in Launches, Kill(l)
      PROVE  Tracked'
  BY <1>12 DEF Kill, InGrace, Doom
<1>13. ASSUME NEW l \in Launches, ReportCanceled(l)
      PROVE  Tracked'
  BY <1>13 DEF ReportCanceled
<1>14. CASE Crash
  BY <1>14 DEF Crash, Nothing
<1>15. CASE LoadState
  BY <1>15 DEF LoadState, Nothing
<1>16. CASE UNCHANGED vars
  BY <1>16
<1>. QED
  BY <1>1, <1>2, <1>3, <1>4, <1>5, <1>6, <1>7, <1>8, <1>9, <1>10, <1>11,
     <1>12, <1>13, <1>14, <1>15, <1>16
     DEF Next, Goroutine, Stopping

\* The inductive invariant holds in every state.
THEOREM AgentCorrect == Spec => []AgentInv
<1>1. Init => AgentInv
  BY AgentAssumption DEF Init, AgentInv, TypeOK, DownIsBlank, IdleIsNew,
     GoroutineHasRunner, EndedIsOver, EndedIsUnlisted, HolderSaves, FileCovers,
     EndedIsForgotten, Tracked, StopInv, ListedIsStarted, StoppedIsStarted,
     StoppedIsOver, Over, Alive, Nothing, Stages, Stops
<1>2. AgentInv /\ [Next]_vars => AgentInv'
  <2>. SUFFICES ASSUME AgentInv, [Next]_vars
                PROVE  AgentInv'
    OBVIOUS
  <2>1. TypeOK'
    BY AgentTypes DEF AgentInv
  <2>. QED
    BY <2>1, AgentControl, AgentFile, AgentStop, AgentTracked DEF AgentInv
<1>. QED
  BY <1>1, <1>2, PTL DEF Spec

-----------------------------------------------------------------------------
\* Goroutines, processes, map and file keep their types across crashes.
THEOREM AgentTypeCorrect == Spec => []TypeOK
<1>1. AgentInv => TypeOK
  BY DEF AgentInv
<1>. QED
  BY <1>1, AgentCorrect, PTL

\* Between two saves the file lists every job that the map lists, unless the
\* last write failed.
THEOREM FileIsCurrent == Spec => []FileCovers
<1>1. AgentInv => FileCovers
  BY DEF AgentInv
<1>. QED
  BY <1>1, AgentCorrect, PTL

\* A job whose end has been reported is not in the file, unless the last write
\* failed.
THEOREM NoRevival == Spec => []EndedIsForgotten
<1>1. AgentInv => EndedIsForgotten
  BY DEF AgentInv
<1>. QED
  BY <1>1, AgentCorrect, PTL

\* An end is reported only of a shell that has ended, and a cancellation of
\* one that has ended or, if it was recovered, has been sent SIGKILL, whatever
\* Stop, the runner and recovery do at the same time.
THEOREM NoPrematureEnd == Spec => []ReportedEndIsReal
<1>1. AgentInv => ReportedEndIsReal
  BY DEF AgentInv, EndedIsOver, StopInv, StoppedIsOver, ReportedEndIsReal, Over
<1>. QED
  BY <1>1, AgentCorrect, PTL

\* A registered process stays in the list of its agent, whatever is launched,
\* ended and saved at the same time, unless its own job is launched again.
THEOREM RunningIsTracked == Spec => []Tracked
<1>1. AgentInv => Tracked
  BY DEF AgentInv
<1>. QED
  BY <1>1, AgentCorrect, PTL
=============================================================================
