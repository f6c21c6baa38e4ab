# Verification of Angarium

TLA+ models of the Angarium GPU job queue (the Go code under `src/`), TLC runs
on small instances of them, and TLAPS proofs for every instance.

## 1. The system

| Component | Code | State | Operations |
|---|---|---|---|
| Scheduler | `internal/scheduler/scheduler.go` | what its last query returned | every 2 s, in one goroutine: `Schedule`, `CleanupLeases`, `EnforceMaxRuntime`; a goroutine per launch request |
| API server | `internal/controller/server.go` | what a handler has read and not yet acted on | submit, cancel, list, logs, events (users); heartbeat, state update (agents); stale node detector (10 s); reconciler (30 s) |
| Database | `internal/db/db.go`, `internal/models`, `internal/timeutil` | nodes, gpus, jobs, allocations, gpu_leases, events | SQLite, one writer at a time |
| Event manager | `internal/events/events.go` | channel of 1000, batch of 100 | `Emit`, one goroutine that writes batches, `Close` |
| Agent | `internal/agent/agent.go` | `activeJobs`, `agent_state.json` | launch, terminate, running, logs, heartbeat (5 s), recovery at start |
| Job runner | `internal/agent/runner.go` | process group, `finishedChan` | `Start`, `Wait`, `Stop`, a 50 MB limit on logs |
| GPU inventory, auth, config, CLI | `internal/agent/nvidia.go`, `internal/auth`, ... | none that lasts | input, checks and formatting around the above |

They interact as follows. Users call the API server. The server and the
scheduler share nothing but the database (and the event channel): each query
and each statement or transaction is atomic, and anything may happen between
two of them. The scheduler asks an agent to launch a job and does not wait for
it; agents post the states of their jobs (`STARTING`, `RUNNING`, then an end
state) and send heartbeats that name their active jobs; the server compares
these, and the answers of agents it polls, with the database, marks missing
jobs `LOST` and asks agents to terminate jobs it does not expect. It asks for
the same after a cancel. It passes on an agent's log of a job to the client.
Heartbeats and polls come again; no other message is repeated when it is lost.

What is hard here: the state of a job is read in one statement and overwritten
by id in a later one; leases expire by a clock that is read several times in
one pass; updates name a job and not one of its runs; controllers and agents
restart in the middle of two writes, and writes fail; agents drop a job from
their list before they report its end; processes outlive the agent. The hazards,
each at its line with the properties aimed at it, are listed in `PROJECT.json`.

What makes each component correct:

- **Scheduler and server**: GPUs are granted exclusively, as a whole gang on one
  node, and come back when the job is over; a job has one open allocation; it is
  retried at most three times; a job that has ended is not revived; leases are
  never leaked and no job waits forever for a reason the code could resolve.
- **Event manager**: what is recorded is in order and recorded once; loss
  happens by whole batches; nothing accepted stays in memory.
- **Agent and runner**: the agent lists what it runs; the state file agrees with
  the map; ends are reported; a terminate request ends the job; a log is the
  output up to its limit.
- **All of it**: a job is `SUCCEEDED` only if a run of it was; no process outlives
  its job and no job its process.

## 2. Modules

| Module | Models | Depends on |
|---|---|---|
| `Store` | the tables and the statements run on them, the clock | |
| `Scheduler` | the scheduler's goroutine, a step for each statement, and failing statements | `Store` |
| `Server` | the handlers and the two loops of the server, and transactions that fail | `Store` |
| `ControlPlane` | the controller process: their interleaving, time, restarts, faults; its properties | `Scheduler`, `Server`, `GPUPool` |
| `GPUPool` | abstract: an exclusive pool with gang allocation | |
| `Cluster` | the controller, the agents of its nodes and the messages between them | `ControlPlane` |
| `EventManager` | the event channel and its writer | `Journal` |
| `Journal` | abstract: a table that batches of events are appended to | |
| `Agent` | one agent, its runners and processes, crash and recovery | |
| `Logs` | the log file of a run, its limit, a reader and the proxy | `LogStream` |
| `LogStream` | abstract: an append-only log and what a client of it is sent | |
| `MCControlPlane`, `MCCluster`, `MCAgent` | constants of the runs | |
| `LeaseProofs`, `AllocationProofs`, `PoolProofs`, `FaultProofs` | theorems about `ControlPlane` | TLAPS |
| `ClusterProofs` | theorems about `Cluster` | `AllocationProofs`, `PoolProofs` |
| `AgentProofs`, `EventProofs`, `LogProofs` | theorems about `Agent`, `EventManager` and `Logs` | TLAPS |

Three specifications of the controller share one `Next`: `Spec` (no restart, no
fault), `RestartSpec` (the process restarts at any step) and `FaultSpec` (any
statement or transaction may fail as well).

Operators that follow a comment "Mutant" are broken variants of their
neighbours, each with a mistake that could be made in the code. No specification
uses them; they serve to see that a property fails when the code is wrong.

### Store, Scheduler, Server, ControlPlane

One variable per column that some code decides upon: `jobState`, `retries`,
`started` (jobs), `alloc` (job, node and GPUs of an allocation), `open`
(`released_at IS NULL`), `lease` (`expires_at` of the allocation's lease rows),
`nodeStatus`, `hbAge` (nodes). Columns that nothing reads to decide (`reason`,
`finished_at`, `status` of allocations, memory figures) are left out. So is
`gpus.health`: both GPU providers report `OK` and nothing else (`nvidia.go:52`,
`inventory.go:37`), so the filter on it selects everything.

*Time.* A timestamp is kept as its distance to now in ticks, so that the state
space is finite: `lease[a]` counts down from `LeaseTicks`; at 0 the lease is no
longer held (`expires_at > now` fails) but not yet expired (`expires_at < now`
fails too); at -1 it is expired; -2 stands for no rows. The one second
granularity of `timeutil.Format` makes the middle case real. Started and
heartbeat ages stop at the first value that passes their threshold.

*Atomicity.* A transaction is one step (`_txlock=immediate`), and so is a single
statement outside one. `Scheduler` has a program counter, `pc`, and holds in
`todo`, `target`, `bestNode` and `selectedGPUs` what the Go code holds in local
variables. The queries of `getClusterStats` are merged with the decision they
lead to: only this goroutine adds leases, so a GPU that was free for one query
is free for the next, and `Place` may choose any smallest node that fits and any
of its free GPUs, where the code takes the first in row order. Handlers of the
server that read and later write have a variable for what they have read:
`offlining` (stale node detector), `pendingLost` (reports being compared),
`cancelQueued` and `cancelActive` (cancel requests).

*Agents as seen from the controller.* In `ControlPlane` a report may miss any
expected job, because reports lag behind, and a state update may arrive at any
time for any job that was once placed. This covers late, duplicated, reordered
and lost messages; it is deliberately more than one correct agent does. `Cluster`
replaces it by what agents do.

*Faults.* SQLite is busy for longer than `busy_timeout`, or the disk is full. Every
statement of the scheduler and every transaction of the server has an action in
which it changes nothing and its goroutine goes on as the code does: it ignores
the error (`handleStalledJobs`, `EnforceMaxRuntime`), or logs it and takes the
next job, or leaves the function. `markJobLost`, `handleNodeOffline` and
`markJobCanceled` log the errors of single statements and commit the others:
`MarkJobLostFails`, `NodeOfflineFails` and `CancelActiveFails` leave out any of
these, for any of the jobs concerned, or do nothing at all. Handlers of requests whose first statement
fails answer with an error and change nothing, which is a stutter.

*Left out.* Handlers that only read, and formatting.

### Cluster

A run is named by the allocation it was launched for. `launching` and
`terminating` are the requests on their way to agents; `activeJobs`, `run` and
`stage` are an agent's map, its processes and what `handleLaunch` and its
goroutine do next; a process that has been started (`HandleLaunch`) is in the map
only after a step of its own (`Register`), before which it may even end. `report` is the list that a heartbeat carries or `reconcileNode` has asked
for, compared with the database in a later step. Requests, reports and posts
may each be lost; a post that is lost is not repeated. The agents' own actions
call the handlers of `Server`, so every step of the cluster is to be a step of
`ControlPlane` (`ControlPlaneAllows`).

What is assumed: agents do not crash (`Agent` is about that) and a shell leaves no
child behind, so `Stop` reaches what it stops. The request for the end of a
zombie may be sent a little early, before the orphans are marked. Two terminate
requests for one run count as one, which then posts `CANCELED` once; the second
post of the code would meet a terminal state. A post that times out at the agent
is either acted on at once or not at all.

### GPUPool

`held[j]` is the set of GPUs that a job has an unexpired lease of. `Grant` gives
a job that holds nothing exactly `gpu_count` free GPUs of one node; `Release`
takes everything from a set of jobs. `ControlPlane` instantiates it with
`held <- HeldGPUs`. That leases are granted whole and exclusively is what the
system promises; that a *running* job keeps them is not, see section 4.

### EventManager

Events are numbers in the order of `Emit`, so order, loss and duplication can be
read off the table. `select` is a choice among enabled actions.

`Journal` is what remains for a reader of the table `events`, whatever channel,
batch, failures and crashes do in between: rows are appended, no more than a
batch at once, in the order of `Emit`, and none twice. `EventManager`
instantiates it with `recorded <- Recorded`. What is lost is not its subject;
`LostByBatch` is about that.

### Agent

A launch is one launch request and stands for its process id too. `group` are
the live processes of its process group: the shell and possibly a child.
`own` and `watched` tell started from recovered runners; `finished` is the closed
`finishedChan`; `stage` and `stop` are where the goroutines of the launch and of a
terminate request are. `holder` is the goroutine that holds `a.mu` while the file
is being written. `Truncate` leaves the file `Torn`; then `SaveState` writes it, or
`SaveFails` leaves it as it is, old if it could not even be opened: the code does
not look at the error of `os.WriteFile` and releases `a.mu`. `doomed` are the
processes that were sent SIGKILL and have not ended yet: of a job it started the
agent waits for the end, of a recovered one it does not. `saved` is not in the code: it remembers
whether the last write went well. A crash
empties everything but the processes and the file. Processes do survive an
agent that is killed on its own; a crash of the machine is not modelled, nor
is the reuse of a process id.

### Logs

The bytes of the output are numbered, so a file or a stream shows by itself what
is missing, repeated or out of order; the truncation note is one byte long. One
run and one reader: `handleLogs` with and without `follow`, at any moment of the
run, and `handleJobLogs` that reads it in pieces. Writes to the file may be
short, the client may leave, and the connection to the agent may break. `owed` is
not in the code: it remembers that the log was being followed, with a look at
`activeJobs` still to come, while the job was registered.

`LogStream` is what the two ends of this chain have to do with each other: a log
that only grows, and not after the job is over, and a client that is sent it
from the start, in order, nothing twice and nothing after the end of the stream.
`Logs` instantiates it with the file and what the client has got; limit, offsets
and what is on the wire are not in it.

## 3. Runs

All bounds are constants of the configurations. `AllocIds` bounds the number of
allocations, of which the code has as many as it likes: with (retries + 1) per
job it never blocks `AllocateJob`, whatever fails (`IdsSuffice`, proved), and
all runs have as many except `gangs`, which has two for three jobs of which the
third is never placed. `MaxRetries` is 0, 1 or 2 instead of 3,
`LeaseTicks` 1 instead of 60, `StaleTicks` 0 instead of 20: with them every
order of the scheduler's steps and the ticks that matter (before, in and after
the second in which a lease ends) is reached. `Failing` are the nodes whose
heartbeats may stop, `Cancelable` the jobs whose owners may cancel,
`Checkers` the number of reports compared at the same time.

| Run | Instance | Shows |
|---|---|---|
| `two_jobs` | two jobs, one GPU of a node that may fail, one retry, cancels and posts at any moment | `LiveLeaseExclusive`, `OneOpenAllocation`, `FreedWhenDone`, `OpenMeansActive`, `FinalUnlessDecided` |
| `gangs` | jobs of 1, 2 and 3 GPUs on nodes of 2 and 1, no retry, fair | `WholeGangs`; `PoolSpec`, the refinement; `LeasesEnd`, `QueueMoves` |
| `faults` | one job with a run time limit and two retries, a failing node, restarts and faults, whole or partial, at any step | `TypeOK`, `LiveLeaseExclusive`, `AttemptsBounded` |
| `cluster` | one job with a retry, every message may be lost | `ClusterTypeOK`, `OutOfSightOnlyIfRelaunched`, `SuccessIsReal`, `ControlPlaneAllows` |
| `cluster_liveness` | one job, a cancel at any moment, fair | `ZombiesEnd`, `EndIsNoticed` |
| `events` | six events, channel and batch of two, a crash | `TypeOK`, `InOrderOnce`, `LostByBatch`, `JournalSpec` (the refinement), `Drained` |
| `agent_crashes` | two launches of one job, one crash, failing writes of the state file | `TypeOK`, `Tracked`, `FileCovers`, `EndedIsForgotten`, `ReportedEndIsReal`, `EndIsReported`, `StopEndsShell` |
| `logs` | seven bytes in writes of up to three, a limit of four | `TypeOK`, `LogIsCut`, `StreamIsPrefix`, `EndIsWhole`, `StreamSpec` (the refinement), `FollowerGetsAll` |
| `double_booking`, `prune_race`, `recovered_never_ends`, `unrequested_cancel` | | section 4 |

In `gangs` the third job is larger than every node and not than both, so it must
be failed, and two allocations are enough for the other two. A lease is the only
thing one job does to another, so `cluster` has one job: it is placed twice on
one node, which is what late posts, late reports and the shared map entry need.
`two_jobs` has the node that is marked `DOWN` while a job is being placed on it;
reports compared late are left to `faults` and `cluster`, and to the proofs.
In `agent_crashes` the two launches are of one job, since they then compete for
the entry of the map as well as for the mutex; launches of two jobs do less to
each other, and the invariants are proved for any number of both. They are interchangeable, so the liveness properties are checked for
one of them. In `logs` seven bytes reach every case of `LimitWriter`: a write that ends at the
limit, one that crosses it, and one after either.

Deadlock is checked for the control plane and the cluster, which can always go
on. It is not checked for `EventManager`, whose events are bounded and which ends
with `Close`, nor for `Agent` and `Logs`, which have nothing to do once their
launches or the log are over.

*Fairness.* In `ControlPlane`: the scheduler's loop (it never blocks for good),
the clock, and the handling of a node or an orphan by the goroutine that listed
it. Users and agents owe nothing, so no liveness property there depends on a
message. In `Cluster`, besides: the goroutines of an agent go on; a process that
is being stopped ends (`Stop` sends SIGKILL after its grace period); an agent sends
its list again and again, every 5 seconds, and of infinitely many such lists, and
of infinitely many terminate requests for a job, one is received (strong
fairness). Posts, launch requests, users and jobs still owe nothing. In
`EventManager`: weak fairness of the loop, and strong fairness of the timer and of
`done`, since Go's `select` picks among ready cases at random. In `Agent`: what a
launch does without being asked goes on (its goroutine runs, `cmd.Wait()` returns
once nothing of the group is left, a process that was sent SIGKILL ends), and so do the
goroutines of terminate requests. Weak fairness is enough for the mutex: a
launch changes the map twice, so that `a.mu` is free in the end for whoever waits.
Jobs need not end and agents need not come back. In `Logs`: the goroutines
of the agent and of the server; the command need not end.

`QueueMoves` says that a queued job leaves the queue if a node that is large
enough stays UP from some time on, whatever other jobs hold, or if the job stays
larger than every node while that many GPUs are UP in total (it is failed). It
speaks of a fixed set of jobs: an endless stream of small jobs of the same
priority could keep a large one waiting.

## 4. Where the code and its documents disagree

Each of these is a run that TLC ends with a counterexample.

- `double_booking`: leases are never renewed, so a running job's GPU is
  granted again a minute after placement (`docs/comparison.md:23`).
- `prune_race`: a lease that runs out between the two clock readings of
  `CleanupLeases` is deleted unseen, and its job stays `ALLOCATED` for good
  (`scheduler.go:336`).
- `recovered_never_ends`: nobody waits for a recovered job; its end is not
  reported and it stays in `activeJobs` (`CHANGELOG.md:25`).
- `unrequested_cancel`: a heartbeat between the launch of a job and its `STARTING`
  post takes the job for a zombie; the agent kills it and the controller records
  a cancel by the user (`NON_GOALS.md:6`, `server.go:616`).

Known from reading the code and visible in how the properties are qualified, but
without a run of their own:

- A job canceled between `getQueuedJobs` and `allocateJob` is placed and launched
  all the same (`scheduler.go:222`; `OpenMeansActive` and `FinalUnlessDecided`
  except it). `markJobLost` and `markJobCanceled` overwrite an end state that was
  posted after their caller read the job.
- A job that succeeded may be recorded as `LOST`: its entry is deleted before the
  post (`agent.go:104`). Two launches of one job share an entry of `activeJobs`,
  which hides one of them (`Tracked` and `OutOfSightOnlyIfRelaunched` except it).
- `Stop` of a job whose shell has exited while a child keeps the output open
  reaches no process and waits without end (`runner.go:193`; `StopEndsShell` is
  about the shell). `Stop` of a recovered job signals the shell and not its group
  and does not wait for the end of what it kills (`runner.go:158`), so a child may
  outlive the `CANCELED` post that frees its GPU, and the shell may still be dying
  (`ReportedEndIsReal` is about the shell and says so).
- A crash between `runner.Start` and the end of the save loses a job (`FileCovers`
  starts there). Between the start and the registration the process is in no list
  (`Tracked`, `OutOfSightOnlyIfRelaunched`).
- A write of the state file that fails is not noticed (`agent.go:328`): until the
  next one, a crash loses the jobs registered since, or brings back one whose end
  was reported (`FileCovers` and `EndedIsForgotten` are for `saved`).
- A transaction that is committed without one of its statements leaves a job
  `LOST` with its leases, or active without them (`server.go:274`); `FreedWhenDone`,
  `OpenMeansActive` and `PoolSpec` are not for `FaultSpec`.
- If the prune fails, a job that is requeued and placed again is requeued once
  more with live leases: `FreedWhenDone` and `PoolSpec` are for `RestartSpec` and
  not for `FaultSpec`.
- `reconcileNode` takes a job with two open allocations on one node for missing
  at its second row (`server.go:253`); it takes a restart or a failed write for
  there to be two.
- A job larger than every node *and* than all nodes that are UP together is kept
  waiting (`QueueMoves` excepts it).
- `Close` of the event manager does not drain the channel (`Drained` excepts
  `done`).
- A follower that comes after `os.Create` and before the job is registered gets an
  empty log (`FollowerGetsAll` and `EndIsWhole` start at registration; one that
  has looked once before it is sent what there is and no more). A write that ends exactly
  at the limit hides all that follows without the note (`LogIsCut` says so). A
  broken connection to an agent looks like the end of the log.

## 5. Proofs

Proved by TLAPS for every value of the constants that satisfies the assumptions
named in `Store` (`StoreAssumption`, `FiniteAssumption`), `Cluster`
(`ClusterAssumption`), `Agent` (`AgentAssumption`), `EventManager`
(`EventAssumption`) and `Logs` (`LogsAssumption`). Every invariant and every
action property that a passing run checks is a theorem, and so are the four
refinements.

*Control plane.*

- `LeaseProofs`: `LeaseInv` is inductive for `RestartSpec`. Exclusive leases need
  to know what the scheduler still relies on several steps after it looked:
  `ChoiceIsFree` (the chosen GPUs are a free gang of the chosen node until
  they are leased), and for one leased allocation per job `InHandIsBare`,
  `QueuedIsBare` and `StalledIsExpired` (a job is requeued only when its leases
  have expired, and they are pruned before the queue is read again). Hence
  `TypeOK`, `LiveLeaseExclusive` and `FreedWhenDone`, restarts included.
- `AllocationProofs`: `AttemptsInv` (a job that may still be placed was requeued
  after each placement) gives `AttemptsBounded`, restarts included. `OpenInv`
  gives `OneOpenAllocation` and `OpenMeansActive` for `Spec`: with a restart
  between the two statements of `handleStalledJobs` both are false.
  `FinalUnlessDecided` is an action property proved from the type invariant.
- `PoolProofs`: every step of the controller is a grant, a release or a stutter of
  `GPUPool`, from `LeaseInv`.
- `FaultProofs`: when writes fail most of `LeaseInv` is lost, because pruning may
  not have happened. `ExclusiveInv` is what remains, the types and
  `ChoiceIsFree`, and it is inductive for `FaultSpec` by itself: exclusive leases
  depend on nothing but that one goroutine adds leases. It gives `WholeGangs`
  too, since only `allocateJob` inserts allocations and rows do not change.
  Whatever a transaction leaves out, it only deletes leases, closes allocations
  and writes states that were decided upon (`PartialWrite`, `FaultWrites`).
  So `AttemptsInv` survives faults, hence `AttemptsBounded`, and
  `FinalUnlessDecided` holds as well.
  `IdsSuffice` is about the model: the allocations of a job can be numbered up
  to its attempts, and of a job that is being placed one number is left, so with
  `Cardinality(Jobs) * (MaxRetries + 1)` ids, which is its hypothesis, some id
  is fresh whenever `allocateJob` needs one.

*Cluster.*

- `ClusterProofs`: every step of the cluster is a step of `ControlPlane`
  (`ClusterIsControlPlane`). The step that needs an argument is a report compared
  late: `ReportInv`. Hence what is proved of `Spec` and of `RestartSpec` holds with
  real agents (`ClusterInherits`, `ClusterImplementsPool`). `ClusterInv` ties
  rows, processes, goroutines and map entries together (`RunInv`) and gives
  `OutOfSightOnlyIfRelaunched` and `SuccessIsReal`: a `SUCCEEDED` post comes from the goroutine of a run that
  exited with 0, and nothing else makes a job `SUCCEEDED`. The two together give
  `BoundedLaunches`: each run is of a row of its own, so that what bounds the rows
  of a job bounds how often its command is started. No run checks this one: in the
  small instances the number of ids bounds it already.

*Agent, events, logs.*

- `AgentProofs`: `AgentInv` is inductive; hence `TypeOK`, `Tracked` (for any number
  of launches of a job), `FileCovers` and `EndedIsForgotten`. The last three are
  parts of it: what the file says follows from what the map says when a write
  goes well. `StopInv` is its part about `Stop`: only a launch that was started
  can be asked to stop, and whichever path its goroutine takes to its post, the
  shell has ended or is a recovered one that was killed; hence
  `ReportedEndIsReal`.
- `EventProofs`: table, batch and channel are three stretches of the events, each
  in order and before the next (`OrderInv`). `InOrderOnce` follows, and so does
  `LostByBatch`: no event is in two of them, so a failed write loses all of its
  batch and nothing else. A written batch is therefore in order, after all rows and
  of emitted events, which is what the refinement of `Journal` needs.
- `LogProofs`: `LogInv` is inductive. Of the writer it says that until the limit is
  crossed the file is exactly what `LimitWriter` has counted (`Uncut`), what a
  crossing leaves behind (`CutOnce`), and that without an error nothing was
  skipped before (`AllWritten`). `LogIsCut` alone is not inductive:
  it does not relate `written` to the length of a file that a short write has left
  behind. Of the reader it says that what the client has, what is on the wire and
  what has not been read are stretches of the file, which appending keeps true.
  `FollowInv` adds that a reader which finds a job gone that was there looks at
  a closed file next, from which `EndIsWhole` follows, the safety half of
  `FollowerGetsAll`. That client and file are a `LogStream` follows, from lemmas about prefixes
  and stretches of sequences that are stated once.

Only model-checked: liveness (`LeasesEnd`, `QueueMoves`, `ZombiesEnd`,
`EndIsNoticed`, `Drained`, `EndIsReported`, `StopEndsShell`, `FollowerGetsAll`),
since liveness under fairness and `ENABLED` are out of the prover's reach.
Induction over data and `RECURSIVE` operators are out of its reach too; no module
here declares one.

## 6. Plan

1. `Cluster`: the second post of two terminate requests, and agents that crash
   and recover.
2. The false orphan of a job with two open allocations (`server.go:253`) as a
   property of `Reconcile`, which needs `Cluster` with faults.

## Not modelled

- The reuse of a process id after a reboot (`agent.go:351`): which process gets
  which id is the kernel's affair.
- Two writers of one log after a relaunch on the same node (`runner.go:88`).
- Rows of `gpus` that outlive their GPU: the set of GPUs of a node is a constant.
- Authentication, configuration, the command line client, the HTTP client, GPU
  inventory and system metrics: they keep no state of the running system and
  change it only through the operations above.
