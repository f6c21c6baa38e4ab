---------------------------- MODULE EventManager ----------------------------
(***************************************************************************)
(* internal/events/events.go: handlers and the scheduler drop events into  *)
(* a bounded channel without ever waiting; one goroutine gathers them into *)
(* batches and writes each batch to the table events in a transaction.     *)
(*                                                                         *)
(* Events are numbered in the order of Emit, so what reached the table is  *)
(* compared with what was emitted by looking at the numbers alone.         *)
(***************************************************************************)
EXTENDS Integers, Sequences, SequencesExt

CONSTANTS
    ChanCap,       \* the 1000 slots of the channel
    BatchSize,     \* 100
    MaxEvents,     \* bound: events emitted in a behaviour
    MaxCrashes     \* bound: ends of the process without Close

ASSUME EventAssumption ==
    /\ ChanCap \in Nat \ {0}
    /\ BatchSize \in Nat \ {0}
    /\ MaxEvents \in Nat
    /\ MaxCrashes \in Nat

VARIABLES
    next,          \* the number of the next event
    in,            \* the channel's buffer
    batch,         \* the goroutine's local batch
    table,         \* rows of the table events
    pc,            \* the goroutine: at its select, in writeBatch, or returned
    done,          \* the channel done is closed
    crashes

vars == <<next, in, batch, table, pc, done, crashes>>

Init ==
    /\ next = 1
    /\ in = <<>> /\ batch = <<>> /\ table = <<>>
    /\ pc = "select" /\ done = FALSE
    /\ crashes = 0

-----------------------------------------------------------------------------
\* Mutant: the send is tried again after the buffer was found full.
EmitOverCap ==
    /\ next <= MaxEvents
    /\ in' = Append(in, next)
    /\ next' = next + 1
    /\ UNCHANGED <<batch, table, pc, done, crashes>>

\* select { case em.in <- event: default: }: a full buffer drops the event.
Emit ==
    /\ next <= MaxEvents
    /\ in' = IF Len(in) < ChanCap THEN Append(in, next) ELSE in
    /\ next' = next + 1
    /\ UNCHANGED <<batch, table, pc, done, crashes>>

\* Mutant: a full batch is flushed before the event is appended to it.
ReceiveAfterFlush ==
    /\ pc = "select" /\ in # <<>>
    /\ in' = Tail(in)
    /\ IF Len(batch) + 1 >= BatchSize
       THEN pc' = "write" /\ UNCHANGED batch
       ELSE batch' = Append(batch, Head(in)) /\ UNCHANGED pc
    /\ UNCHANGED <<next, table, done, crashes>>

\* case evt := <-em.in
Receive ==
    /\ pc = "select" /\ in # <<>>
    /\ batch' = Append(batch, Head(in))
    /\ in' = Tail(in)
    /\ pc' = IF Len(batch') >= BatchSize THEN "write" ELSE "select"
    /\ UNCHANGED <<next, table, done, crashes>>

\* Mutant: the timer flushes full batches only.
TickerFiresIfFull ==
    /\ pc = "select" /\ Len(batch) >= BatchSize
    /\ pc' = "write"
    /\ UNCHANGED <<next, in, batch, table, done, crashes>>

\* case <-ticker.C; a flush of nothing returns at once.
TickerFires ==
    /\ pc = "select" /\ batch # <<>>
    /\ pc' = "write"
    /\ UNCHANGED <<next, in, batch, table, done, crashes>>

\* case <-em.done
ExitLoop ==
    /\ pc = "select" /\ done
    /\ pc' = IF batch = <<>> THEN "returned" ELSE "lastWrite"
    /\ UNCHANGED <<next, in, batch, table, done, crashes>>

Writing == pc \in {"write", "lastWrite"}
AfterWrite == IF pc = "write" THEN "select" ELSE "returned"

\* Mutant: the batch is kept after it was written.
WriteBatchAgain ==
    /\ Writing
    /\ table' = table \o batch
    /\ pc' = AfterWrite
    /\ UNCHANGED <<next, in, batch, done, crashes>>

\* writeBatch commits all of the batch ...
WriteBatch ==
    /\ Writing
    /\ table' = table \o batch
    /\ batch' = <<>>
    /\ pc' = AfterWrite
    /\ UNCHANGED <<next, in, done, crashes>>

\* Mutant: what could not be written is queued again.
WriteFailsRequeued ==
    /\ Writing
    /\ in' = in \o batch
    /\ batch' = <<>>
    /\ pc' = AfterWrite
    /\ UNCHANGED <<next, table, done, crashes>>

\* ... or rolls back, and flush drops the batch all the same.
WriteFails ==
    /\ Writing
    /\ batch' = <<>>
    /\ pc' = AfterWrite
    /\ UNCHANGED <<next, in, table, done, crashes>>

\* Close closes done and then waits for the goroutine to return.
Close ==
    /\ ~done
    /\ done' = TRUE
    /\ UNCHANGED <<next, in, batch, table, pc, crashes>>

\* log.Fatal in main, or a crash: no deferred Close runs.  The next process
\* starts with an empty channel.
Crash ==
    /\ crashes < MaxCrashes
    /\ crashes' = crashes + 1
    /\ in' = <<>> /\ batch' = <<>>
    /\ pc' = "select" /\ done' = FALSE
    /\ UNCHANGED <<next, table>>

-----------------------------------------------------------------------------
Loop == Receive \/ TickerFires \/ ExitLoop \/ WriteBatch \/ WriteFails

Next == Emit \/ Loop \/ Close \/ Crash

Spec == Init /\ [][Next]_vars

\* The goroutine never stops in the middle, and select, which picks one of
\* the ready cases at random, picks each of them sooner or later.
Fairness ==
    /\ WF_vars(Loop)
    /\ SF_vars(TickerFires)
    /\ SF_vars(ExitLoop)

FairSpec == Spec /\ Fairness

-----------------------------------------------------------------------------
Numbers == 1 .. MaxEvents

TypeOK ==
    /\ next \in 1 .. MaxEvents + 1
    /\ in \in Seq(Numbers) /\ Len(in) <= ChanCap
    /\ batch \in Seq(Numbers) /\ Len(batch) <= BatchSize
    /\ table \in Seq(Numbers)
    /\ pc \in {"select", "write", "lastWrite", "returned"}
    /\ done \in BOOLEAN
    /\ crashes \in 0 .. MaxCrashes

\* Whatever is shed, fails to be written or is lost in a crash, the rest is
\* recorded in the order of the calls of Emit, each event once.
InOrderOnce ==
    LET all == table \o batch \o in
    IN  /\ \A i, k \in DOMAIN all : i < k => all[i] < all[k]
        /\ \A i \in DOMAIN all : all[i] < next

\* The loop loses nothing one event at a time: a step that is not a crash
\* keeps every event that was accepted, or drops exactly the batch that
\* could not be written.
InFlight == ToSet(batch) \cup ToSet(in)
LostByBatch ==
    [][crashes' = crashes =>
          LET lost == InFlight \ (InFlight' \cup ToSet(table'))
          IN  lost # {} => Writing /\ lost = ToSet(batch)]_vars

\* The table is a Journal: what readers have seen of it stays, and nothing is
\* added in front of it, whatever fails and however often the process ends.
Recorded == INSTANCE Journal WITH emitted <- next - 1, recorded <- table
JournalSpec == Recorded!Spec

\* An accepted event does not stay in memory: it is written or its batch
\* fails, unless Close or a crash comes first.
Drained ==
    \A e \in Numbers : e \in InFlight ~> e \notin InFlight \/ done
=============================================================================
