-------------------------------- MODULE Logs --------------------------------
(***************************************************************************)
(* The log of one run and one reader of it: LimitWriter of runner.go, which *)
(* puts the output of the command into a file of limited size, handleLogs  *)
(* of agent.go, which sends the file and follows it while the job is       *)
(* active, and handleJobLogs of server.go, which passes on to the client   *)
(* what the agent sends.                                                   *)
(*                                                                         *)
(* The bytes of the output are numbered from 1, so that what is missing,   *)
(* repeated or out of order in a file or a stream can be read off it; the  *)
(* truncation note counts as one byte.                                     *)
(***************************************************************************)
EXTENDS Integers, SequencesExt

CONSTANTS
    Limit,         \* MaxLogSize
    MaxWrite,      \* bound: the largest write of a command
    MaxOutput,     \* bound: what a command writes in all
    BufSize,       \* the buffer of handleJobLogs
    Note           \* "[LOG LIMIT EXCEEDED - TRUNCATED]"

ASSUME LogsAssumption ==
    /\ Limit \in Nat /\ MaxOutput \in Nat
    /\ MaxWrite \in Nat \ {0} /\ BufSize \in Nat \ {0}
    /\ Note \notin Nat

VARIABLES
    proc,          \* the command: "new", "running", "over" (the file is closed)
    entry,         \* its entry in activeJobs: "none", "listed", "deleted"
    output,        \* bytes the command has written
    file,          \* the log file
    written,       \* LimitWriter.written
    failed,        \* a write to the file was short
    reader,        \* where handleLogs is
    at,            \* offset of the reader in the file
    owed,          \* history: the log is followed, and was while the job was listed
    wire,          \* sent by the agent and not yet passed on
    client,        \* what the client has got
    stream         \* the client's stream: "open", "left", "cut", "ended"

writerVars == <<output, file, written, failed>>
runVars == <<proc, entry>>
readerVars == <<reader, at, owed>>
streamVars == <<wire, client, stream>>
vars == <<runVars, writerVars, readerVars, streamVars>>

\* Where handleLogs is when it follows the log and is going to look again
\* whether the job is active.
Following == {"first", "tick", "check"}

Bytes(m, n) == [i \in 1 .. n - m |-> m + i]
Content == Seq(1 .. MaxOutput \cup {Note})

TypeOK ==
    /\ proc \in {"new", "running", "over"}
    /\ entry \in {"none", "listed", "deleted"}
    /\ output \in 0 .. MaxOutput
    /\ {file, wire, client} \subseteq Content
    /\ written \in 0 .. Limit + MaxWrite - 1
    /\ failed \in BOOLEAN
    /\ reader \in {"idle", "once", "last", "done"} \cup Following
    /\ at \in 0 .. Len(file)
    /\ owed \in BOOLEAN
    /\ stream \in {"open", "left", "cut", "ended"}

Init ==
    /\ proc = "new" /\ entry = "none"
    /\ output = 0 /\ file = <<>> /\ written = 0 /\ failed = FALSE
    /\ reader = "idle" /\ at = 0 /\ owed = FALSE
    /\ wire = <<>> /\ client = <<>> /\ stream = "open"

-----------------------------------------------------------------------------
(***************************************************************************)
(* The run.  The file exists before the job is in the map; the process has *)
(* ended and the file is closed before it is deleted from the map.         *)
(***************************************************************************)
Start ==
    /\ proc = "new" /\ proc' = "running"
    /\ UNCHANGED <<entry, writerVars, readerVars, streamVars>>

Register ==
    /\ proc # "new" /\ entry = "none" /\ entry' = "listed"
    /\ owed' = (reader \in Following)
    /\ UNCHANGED <<proc, writerVars, reader, at, streamVars>>

Exit ==
    /\ proc = "running" /\ proc' = "over"
    /\ UNCHANGED <<entry, writerVars, readerVars, streamVars>>

\* Mutant: nobody waits for the end of the job.
UnregisterNever == entry = "listed" /\ UNCHANGED vars

Unregister ==
    /\ proc = "over" /\ entry = "listed" /\ entry' = "deleted"
    /\ UNCHANGED <<proc, writerVars, readerVars, streamVars>>

-----------------------------------------------------------------------------
(***************************************************************************)
(* LimitWriter.Write of the next k bytes.  Every write to the file may be  *)
(* short, as when the disk is full.                                        *)
(***************************************************************************)
Discard(k) ==
    /\ written >= Limit
    /\ UNCHANGED <<file, written, failed>>

\* Mutants: a write that just fits is taken for one that does not, and a log
\* that has been cut is cut again.
CutAtLimit(k) ==
    /\ written < Limit /\ written + k >= Limit
    /\ file' = file \o Bytes(output, output + Limit - written) \o <<Note>>
    /\ written' = written + k
    /\ UNCHANGED failed

CutAgain(k) ==
    /\ written + k > Limit
    /\ file' = file \o Bytes(output, output + Limit - written) \o <<Note>>
    /\ written' = written + k
    /\ UNCHANGED failed

\* What is left of the limit, and the note; the errors of both are ignored.
\* A reader between the two sees a prefix of this.
Cut(k) ==
    /\ written < Limit /\ written + k > Limit
    /\ \E n \in 0 .. Limit - written, note \in {<<>>, <<Note>>} :
         /\ file' = file \o Bytes(output, output + n) \o note
         /\ failed' = (n < Limit - written \/ note = <<>>)
    /\ written' = written + k

Through(k) ==
    /\ written + k <= Limit
    /\ \E n \in 0 .. k :
         /\ file' = file \o Bytes(output, output + n)
         /\ written' = written + n
         /\ failed' = (n < k)

\* A short write that is not hidden by Cut is an error, at which os/exec stops
\* copying: nobody reads the output of the command any more.
CopyingStopped == failed /\ written < Limit

\* Mutant: cmd.Wait() does not wait for the copying of the output.
WriteLate(k) ==
    /\ proc # "new"
    /\ ~CopyingStopped
    /\ output + k <= MaxOutput
    /\ Discard(k) \/ Cut(k) \/ Through(k)
    /\ output' = output + k
    /\ UNCHANGED <<runVars, readerVars, streamVars>>

Write(k) ==
    /\ proc = "running"
    /\ ~CopyingStopped
    /\ output + k <= MaxOutput
    /\ Discard(k) \/ Cut(k) \/ Through(k)
    /\ output' = output + k
    /\ UNCHANGED <<runVars, readerVars, streamVars>>

-----------------------------------------------------------------------------
(***************************************************************************)
(* handleLogs.                                                             *)
(***************************************************************************)

\* Without the file the answer is 404.
HandleLogs ==
    /\ proc # "new" /\ reader = "idle"
    /\ reader' \in {"once", "first"}
    /\ owed' = (reader' \in Following /\ entry = "listed")
    /\ UNCHANGED <<at, runVars, writerVars, streamVars>>

AfterCopy == [once |-> "done", first |-> "tick", tick |-> "check", last |-> "done"]

\* Mutant: the file is read from its start at every tick.
CopyFromStart ==
    /\ reader \in DOMAIN AfterCopy
    /\ wire' = wire \o file
    /\ at' = Len(file)
    /\ reader' = AfterCopy[reader]
    /\ UNCHANGED <<owed, runVars, writerVars, client, stream>>

\* io.Copy(w, f) up to the present end of the file.
Copy ==
    /\ reader \in DOMAIN AfterCopy
    /\ wire' = wire \o SubSeq(file, at + 1, Len(file))
    /\ at' = Len(file)
    /\ reader' = AfterCopy[reader]
    /\ UNCHANGED <<owed, runVars, writerVars, client, stream>>

\* Mutant: what was copied before the job was seen to be inactive is enough.
CheckActiveAndStop ==
    /\ reader = "check"
    /\ reader' = IF entry = "listed" THEN "tick" ELSE "done"
    /\ UNCHANGED <<at, owed, runVars, writerVars, streamVars>>

CheckActive ==
    /\ reader = "check"
    /\ reader' = IF entry = "listed" THEN "tick" ELSE "last"
    /\ UNCHANGED <<at, owed, runVars, writerVars, streamVars>>

-----------------------------------------------------------------------------
(***************************************************************************)
(* handleJobLogs.                                                          *)
(***************************************************************************)

\* resp.Body.Read returns what there is, at most a buffer; the error of a
\* client that has left is ignored and the agent is read to its end.
PassOn(k) ==
    /\ k \in 1 .. Len(wire)
    /\ client' = IF stream = "open" THEN client \o SubSeq(wire, 1, k) ELSE client
    /\ wire' = SubSeq(wire, k + 1, Len(wire))
    /\ UNCHANGED <<stream, runVars, writerVars, readerVars>>

EndStream ==
    /\ reader = "done" /\ wire = <<>> /\ stream = "open"
    /\ stream' = "ended"
    /\ UNCHANGED <<wire, client, runVars, writerVars, readerVars>>

ClientLeaves ==
    /\ stream = "open" /\ stream' = "left"
    /\ UNCHANGED <<wire, client, runVars, writerVars, readerVars>>

\* The connection to the agent breaks: the context of handleLogs is done, and
\* the client's stream ends as if this were the end of the log.
ConnectionBreaks ==
    /\ reader # "idle" /\ stream = "open"
    /\ stream' = "cut"
    /\ reader' = "done"
    /\ wire' = <<>>
    /\ UNCHANGED <<at, owed, client, runVars, writerVars>>

-----------------------------------------------------------------------------
Run == Start \/ Register \/ Exit \/ Unregister \/ \E k \in 1 .. MaxWrite : Write(k)
Agent == HandleLogs \/ Copy \/ CheckActive
Proxy == EndStream \/ \E k \in 1 .. BufSize : PassOn(k)
Environment == ClientLeaves \/ ConnectionBreaks

Next == Run \/ Agent \/ Proxy \/ Environment

Spec == Init /\ [][Next]_vars

\* The goroutines of agent and server go on; the command need not end.
Fairness ==
    /\ WF_vars(Unregister)
    /\ WF_vars(Copy \/ CheckActive)
    /\ WF_vars(Proxy)

FairSpec == Spec /\ Fairness

-----------------------------------------------------------------------------
\* The file holds the first bytes of the output, no more than the limit, each
\* once and in order, and at most one note, at its end.  If no write failed,
\* the note is there if and only if a write crossed the limit, and only such a
\* write, or one that comes after the limit was hit exactly, loses anything.
LogIsCut ==
    \E n \in 0 .. Limit :
        /\ file \in {Bytes(0, n), Bytes(0, n) \o <<Note>>}
        /\ ~failed => file = IF written <= Limit THEN Bytes(0, written)
                             ELSE Bytes(0, Limit) \o <<Note>>
        /\ ~failed /\ written < Limit => n = output

\* The client gets a prefix of the log, and, unless it leaves or the
\* connection breaks, all that the agent has read from the file so far is with
\* the client or on the way to it.
StreamIsPrefix ==
    /\ IsPrefix(client, file)
    /\ stream \in {"open", "ended"} => client \o wire = SubSeq(file, 1, at)

\* The inductive strengthening of the two: until the limit is crossed the
\* file is what LimitWriter counted, and the client, what is on the way to it
\* and what has not been read yet are three stretches of the file.
Uncut == written <= Limit => file = Bytes(0, written) /\ written <= output

CutOnce ==
    written > Limit =>
        \E n \in 0 .. Limit, note \in {<<>>, <<Note>>} :
            /\ file = Bytes(0, n) \o note
            /\ ~failed => n = Limit /\ note = <<Note>>

AllWritten == ~failed /\ written < Limit => written = output

ReaderDone ==
    /\ stream \in {"cut", "ended"} => reader = "done" /\ wire = <<>>
    /\ proc = "new" => file = <<>> /\ reader = "idle" /\ written = 0
    /\ reader = "idle" => at = 0

LogInv ==
    /\ TypeOK /\ Uncut /\ CutOnce /\ AllWritten
    /\ ReaderDone /\ StreamIsPrefix

\* The file, the process and the client's stream are a LogStream.
Promised == INSTANCE LogStream WITH
    log <- file, closed <- (proc = "over"), got <- client,
    ended <- (stream # "open")

\* Nothing rewrites what is in the file, or writes to it once the process has
\* ended; and whatever the reader, the proxy and a broken connection do, the
\* client is sent the file from its beginning and nothing of it twice.
StreamSpec == Promised!Spec

\* If the log was followed while the job was registered, a stream that ends
\* without a break has given the client all of it, however late the last bytes
\* were written: what is seen of activeJobs is older than what is read next.
EndIsWhole == owed /\ stream = "ended" => client = file

\* Its inductive strengthening: such a reader looks for the last time at a
\* file that is closed.
FollowInv ==
    /\ entry = "deleted" => proc = "over"
    /\ owed => entry # "none" /\ reader \in Following \cup {"last", "done"}
    /\ owed /\ reader = "last" => proc = "over"
    /\ owed /\ reader = "done" /\ stream \in {"open", "ended"} =>
         proc = "over" /\ at = Len(file)

\* A client that follows the log of a registered job gets all of it, to the
\* last byte before the end of the process, and then the stream ends: the
\* file is closed before the entry is deleted, and read once more after.
FollowerGetsAll ==
    /\ reader \in Following \cup {"last"}
    /\ entry = "listed" /\ proc = "over"
    ~> \/ stream = "ended" /\ client = file
       \/ stream \in {"left", "cut"}
=============================================================================
