---------------------------- MODULE UsageLogWriter ----------------------------
(***************************************************************************)
(* The asynchronous writer of usage logs between the handlers that fill it *)
(* and the shutdown that flushes it: usageLogWriter (recordingWriter has   *)
(* the same queue, worker and close), serve's shutdown, and the watch that *)
(* reports drops.                                                          *)
(*                                                                         *)
(* enqueue reads the closed flag and sends in two steps; close sets the    *)
(* flag and wakes the worker, which empties the queue and ends.            *)
(***************************************************************************)
EXTENDS Integers, Sequences, FiniteSets

CONSTANTS
    Records,        \* usage logs, each of a request of its own
    Capacity,       \* usageLogQueueSize
    MaxFailures     \* bound on inserts that fail

ASSUME WriterAssumption ==
    IsFiniteSet(Records) /\ Capacity \in Nat \ {0} /\ MaxFailures \in Nat

VARIABLES
    handler,        \* of a record: where its request is
    queue,          \* usageLogWriter.queue
    worker,         \* run: its outer loop, its final emptying, or done
    writing,        \* records in its hands, none or one
    written, unwritten,     \* usage_logs; records whose insert failed
    dropped,        \* usageLogWriter.dropped
    closed, stopped,        \* the flag; stopCh is closed
    server,         \* where serve is
    patient,        \* srv.Shutdown has waited for every request
    late,           \* history: records sent after closed was set
    lastSeen        \* of startUsageLogDropWatch

queueVars == <<queue, late>>
workerVars == <<worker, writing, written, unwritten>>
closeVars == <<closed, stopped, server, patient>>
writerVars == <<handler, queueVars, workerVars, dropped, closeVars, lastSeen>>

Stage == {"none", "running", "sending", "ended"}
WorkerState == {"select", "drain", "done"}
\* "flushed", "abandoned" and "failed" are ends of the process.
ServerState == {"serving", "draining", "closing", "flushing",
                "flushed", "abandoned", "failed"}

Alive == server \in {"serving", "draining", "closing", "flushing"}
Ended == {r \in Records : handler[r] = "ended"}
Queued == {queue[i] : i \in DOMAIN queue}

-----------------------------------------------------------------------------
(* Handlers: finishLog and enqueue *)

Arrive(r) ==
    /\ server = "serving" /\ handler[r] = "none"
    /\ handler' = [handler EXCEPT ![r] = "running"]
    /\ UNCHANGED <<queueVars, workerVars, dropped, closeVars, lastSeen>>

\* Mutant: a record refused because the writer is closed is not counted.
ReadClosedUncounted(r) ==
    /\ Alive /\ handler[r] = "running"
    /\ handler' = [handler EXCEPT ![r] = IF closed THEN "ended" ELSE "sending"]
    /\ UNCHANGED <<queueVars, workerVars, dropped, closeVars, lastSeen>>

ReadClosed(r) ==
    /\ Alive /\ handler[r] = "running"
    /\ handler' = [handler EXCEPT ![r] = IF closed THEN "ended" ELSE "sending"]
    /\ dropped' = IF closed THEN dropped + 1 ELSE dropped
    /\ UNCHANGED <<queueVars, workerVars, closeVars, lastSeen>>

\* The non-blocking send.
Send(r) ==
    /\ Alive /\ handler[r] = "sending"
    /\ handler' = [handler EXCEPT ![r] = "ended"]
    /\ IF Len(queue) < Capacity
       THEN /\ queue' = Append(queue, r)
            /\ late' = IF closed THEN late \cup {r} ELSE late
            /\ UNCHANGED dropped
       ELSE dropped' = dropped + 1 /\ UNCHANGED queueVars
    /\ UNCHANGED <<workerVars, closeVars, lastSeen>>

-----------------------------------------------------------------------------
(* The worker *)

\* In either loop; with a record and the stop signal both there, select takes
\* either.
Take ==
    /\ Alive /\ worker # "done" /\ writing = {} /\ queue # <<>>
    /\ writing' = {Head(queue)}
    /\ queue' = Tail(queue)
    /\ UNCHANGED <<handler, late, worker, written, unwritten, dropped, closeVars, lastSeen>>

Write ==
    /\ Alive /\ writing # {}
    /\ \/ written' = written \cup writing /\ UNCHANGED unwritten
       \/ /\ Cardinality(unwritten) < MaxFailures
          /\ unwritten' = unwritten \cup writing
          /\ UNCHANGED written
    /\ writing' = {}
    /\ UNCHANGED <<handler, queueVars, worker, dropped, closeVars, lastSeen>>

\* Mutant: the stop signal ends the worker at once.
SeeStopAndEnd ==
    /\ Alive /\ worker = "select" /\ writing = {} /\ stopped
    /\ worker' = "done"
    /\ UNCHANGED <<handler, queueVars, writing, written, unwritten, dropped, closeVars,
                   lastSeen>>

SeeStop ==
    /\ Alive /\ worker = "select" /\ writing = {} /\ stopped
    /\ worker' = "drain"
    /\ UNCHANGED <<handler, queueVars, writing, written, unwritten, dropped, closeVars,
                   lastSeen>>

WorkerEnds ==
    /\ Alive /\ worker = "drain" /\ writing = {} /\ queue = <<>>
    /\ worker' = "done"
    /\ UNCHANGED <<handler, queueVars, writing, written, unwritten, dropped, closeVars,
                   lastSeen>>

-----------------------------------------------------------------------------
(* serve: shutdown and close *)

\* SIGTERM: no new requests from here on.
BeginShutdown ==
    /\ server = "serving" /\ server' = "draining"
    /\ UNCHANGED <<handler, queueVars, workerVars, dropped, closed, stopped, patient, lastSeen>>

\* The listener fails: serve returns without shutdown.
ListenFails ==
    /\ server = "serving" /\ server' = "failed"
    /\ UNCHANGED <<handler, queueVars, workerVars, dropped, closed, stopped, patient, lastSeen>>

\* srv.Shutdown returns when no request is running, or at its deadline.
ShutdownReturns ==
    /\ server = "draining" /\ server' = "closing"
    /\ patient' = \A r \in Records : handler[r] \in {"none", "ended"}
    /\ UNCHANGED <<handler, queueVars, workerVars, dropped, closed, stopped, lastSeen>>

\* close: the flag, then the channel.
SetClosed ==
    /\ server = "closing" /\ ~closed
    /\ closed' = TRUE
    /\ UNCHANGED <<handler, queueVars, workerVars, dropped, stopped, server, patient, lastSeen>>

\* Mutant: the worker is never told to stop.
CloseStopChMissing ==
    /\ server = "closing" /\ closed
    /\ server' = "flushing"
    /\ UNCHANGED <<handler, queueVars, workerVars, dropped, closed, stopped, patient, lastSeen>>

CloseStopCh ==
    /\ server = "closing" /\ closed
    /\ stopped' = TRUE /\ server' = "flushing"
    /\ UNCHANGED <<handler, queueVars, workerVars, dropped, closed, patient, lastSeen>>

Flushed ==
    /\ server = "flushing" /\ worker = "done"
    /\ server' = "flushed"
    /\ UNCHANGED <<handler, queueVars, workerVars, dropped, closed, stopped, patient, lastSeen>>

FlushTimesOut ==
    /\ server = "flushing" /\ server' = "abandoned"
    /\ UNCHANGED <<handler, queueVars, workerVars, dropped, closed, stopped, patient, lastSeen>>

\* Mutant: only the first drops are seen.
WatchFirstDrops ==
    /\ Alive /\ dropped > lastSeen /\ lastSeen = 0
    /\ lastSeen' = dropped
    /\ UNCHANGED <<handler, queueVars, workerVars, dropped, closeVars>>

\* A round of startUsageLogDropWatch that raises its alert.
WatchDrops ==
    /\ Alive /\ dropped > lastSeen
    /\ lastSeen' = dropped
    /\ UNCHANGED <<handler, queueVars, workerVars, dropped, closeVars>>

-----------------------------------------------------------------------------
WriterInit ==
    /\ handler = [r \in Records |-> "none"]
    /\ queue = <<>> /\ late = {}
    /\ worker = "select" /\ writing = {} /\ written = {} /\ unwritten = {}
    /\ dropped = 0 /\ lastSeen = 0
    /\ closed = FALSE /\ stopped = FALSE
    /\ server = "serving" /\ patient = FALSE

Handle(r) == ReadClosed(r) \/ Send(r)
Worker == Take \/ Write \/ SeeStop \/ WorkerEnds
Stop == ShutdownReturns \/ SetClosed \/ CloseStopCh \/ Flushed

WriterNext ==
    \/ \E r \in Records : Arrive(r) \/ Handle(r)
    \/ Worker
    \/ BeginShutdown \/ ListenFails \/ Stop \/ FlushTimesOut
    \/ WatchDrops

WriterSpec == WriterInit /\ [][WriterNext]_writerVars

\* Each insert has a deadline of its own, so the worker goes on; the watch runs
\* every minute. That the flush's deadline passes is not required: the other
\* ways to end must suffice when every insert ends.
WriterFairness ==
    /\ \A r \in Records : WF_writerVars(Handle(r))
    /\ WF_writerVars(Worker) /\ WF_writerVars(Stop) /\ WF_writerVars(WatchDrops)

WriterFairSpec == WriterSpec /\ WriterFairness

-----------------------------------------------------------------------------
QueueOK ==
    /\ queue \in Seq(Records) /\ Len(queue) <= Capacity
    /\ late \subseteq Records

WorkerOK ==
    /\ worker \in WorkerState
    /\ writing \subseteq Records
    /\ written \subseteq Records /\ unwritten \subseteq Records
    /\ worker = "done" => writing = {}

ServerOK ==
    /\ server \in ServerState
    /\ closed \in BOOLEAN /\ stopped \in BOOLEAN /\ patient \in BOOLEAN
    /\ stopped => closed
    /\ closed => server \notin {"serving", "draining", "failed"}
    /\ worker # "select" => stopped

WriterTypeOK ==
    /\ handler \in [Records -> Stage]
    /\ QueueOK /\ WorkerOK /\ ServerOK
    /\ dropped \in Nat /\ lastSeen \in Nat

(* Safety *)

\* Every record whose handler is through is in the queue, in the worker's hands,
\* written, reported as unwritten, or counted as dropped.
RecordsAccounted ==
    Cardinality(Ended) =
        Len(queue) + Cardinality(writing \cup written \cup unwritten) + dropped

\* What was in the queue before close is not left behind when the worker ends,
\* however many handlers still send.
AcceptedAreFlushed == worker = "done" => Queued \subseteq late

\* After an orderly shutdown nothing is missing: every record was written,
\* reported as unwritten, or counted as dropped.
OrderlyStopLosesNothing ==
    server = "flushed" /\ patient
    => Cardinality(Ended) = Cardinality(written \cup unwritten) + dropped

(* Liveness *)

\* A shutdown ends without the flush's deadline, as inserts end.
ShutdownEnds == server = "draining" ~> ~Alive

\* Drops are reported while the process lives.
DropsReported == \A n \in 1..Cardinality(Records) :
    dropped >= n ~> lastSeen >= n \/ ~Alive
=============================================================================
