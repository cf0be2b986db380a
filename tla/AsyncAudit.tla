------------------------------ MODULE AsyncAudit ------------------------------
(***************************************************************************)
(* internal/asyncaudit: the queue-backed audit writer behind request_audit *)
(* and outbound_audit.  Each record is stored by a goroutine of its own    *)
(* (a request handler or an outbound call); one worker goroutine writes    *)
(* the queued records to Postgres; one goroutine closes the repository     *)
(* during shutdown.  An action is one atomic step of one goroutine, so     *)
(* that every interleaving the read-write mutex, the channel and the       *)
(* gauge permit is a behaviour.                                            *)
(***************************************************************************)
EXTENDS Integers, Sequences, FiniteSets, SequencesExt

CONSTANTS
    Records,    \* the records handed to Store, one goroutine each
    QueueSize,  \* the capacity of the channel
    NoJob       \* the worker holds no record

ASSUME RecordsAssumption == IsFiniteSet(Records) /\ NoJob \notin Records
ASSUME QueueSizeAssumption == QueueSize \in Nat \ {0}

Results == {"enqueued", "stored", "write_error", "dropped_shutdown", "dropped_queue_full"}

VARIABLES
    queue,         \* the contents of the channel
    writer,        \* the mutex's writer side: "none", "waiting" or "held"
    shut,          \* what is closed: "repo" (repo.closed), "queue", "stopWorkerCh"
    pc,            \* pc[r]: where the goroutine that stores r is
    depth,         \* depth[r]: the queue length that goroutine has read
    worker,        \* where the worker is
    job,           \* the record the worker holds, or NoJob
    workerDepth,   \* the queue length the worker has read
    closer,        \* where Close is
    gauge,         \* the queue_depth gauge
    recordsTotal,  \* recordsTotal[r][res]: how often res was counted for r
    accepted,      \* history: the records sent to the channel, in order
    lateWrites     \* history: writes that ended after the stop signal

storeVars == <<pc, depth>>
workerVars == <<worker, job, workerDepth>>
closeVars == <<writer, shut, closer>>
vars == <<queue, storeVars, workerVars, closeVars, gauge, recordsTotal, accepted, lateWrites>>

-----------------------------------------------------------------------------
StorePC == {"idle", "called", "locked", "open", "sent", "measured", "rejected", "full",
            "fullMeasured", "done"}
WorkerPC == {"check", "recv", "received", "measured", "writing", "stored", "failed",
             "drain", "dropped", "dropMeasured", "done"}
\* The worker has received a record and not yet counted its result.
Holding == {"received", "measured", "writing", "stored", "failed"}
ClosePC == {"idle", "acquiring", "marked", "waiting", "stopping", "returned"}

QueueTypeOK ==
    /\ queue \in Seq(Records) /\ Len(queue) <= QueueSize
    /\ accepted \in Seq(Records)

StoreTypeOK == pc \in [Records -> StorePC] /\ depth \in [Records -> 0..QueueSize]

WorkerTypeOK ==
    /\ worker \in WorkerPC
    /\ job \in IF worker \in Holding THEN Records ELSE {NoJob}
    /\ workerDepth \in 0..QueueSize
    /\ lateWrites \in Nat

CloseTypeOK ==
    /\ closer \in ClosePC
    /\ writer \in {"none", "waiting", "held"}
    /\ shut \subseteq {"repo", "queue", "stopWorkerCh"}

MetricsTypeOK ==
    /\ gauge \in 0..QueueSize
    /\ recordsTotal \in [Records -> [Results -> Nat]]

\* The type invariant.
TypeOK == QueueTypeOK /\ StoreTypeOK /\ WorkerTypeOK /\ CloseTypeOK /\ MetricsTypeOK

Init ==
    /\ queue = <<>> /\ accepted = <<>>
    /\ pc = [r \in Records |-> "idle"]
    /\ depth = [r \in Records |-> 0]
    /\ worker = "check" /\ job = NoJob /\ workerDepth = 0
    /\ closer = "idle" /\ writer = "none"
    /\ shut = {}
    /\ gauge = 0
    /\ recordsTotal = [r \in Records |-> [res \in Results |-> 0]]
    /\ lateWrites = 0

\* The goroutines that hold the read side of the mutex.
Readers == {r \in Records : pc[r] \in {"locked", "open", "sent", "measured"}}

Goto(r, from, to) == pc[r] = from /\ pc' = [pc EXCEPT ![r] = to]

Observe(r, res) == recordsTotal' = [recordsTotal EXCEPT ![r][res] = @ + 1]

histories == <<accepted, lateWrites>>
metrics == <<gauge, recordsTotal>>

-----------------------------------------------------------------------------
(* Store, run by the goroutine of r. *)

\* A step of Store that only moves its goroutine (and the lock) on.
StoreMove(r, from, to) ==
    Goto(r, from, to) /\ UNCHANGED <<queue, depth, workerVars, closeVars, metrics, histories>>

StoreCall(r) == StoreMove(r, "idle", "called")

\* A waiting writer blocks new readers of a sync.RWMutex.
StoreRLock(r) == writer = "none" /\ StoreMove(r, "called", "locked")

\* Mutant: Store forgets to look at closed.
StoreIgnoreClosed(r) == StoreMove(r, "locked", "open")

StoreCheckClosed(r) == StoreMove(r, "locked", IF "repo" \in shut THEN "rejected" ELSE "open")

StoreRejected(r) ==
    /\ Goto(r, "rejected", "done")
    /\ Observe(r, "dropped_shutdown")
    /\ UNCHANGED <<queue, depth, workerVars, closeVars, gauge, histories>>

Send(r) ==
    /\ Goto(r, "open", "sent")
    /\ queue' = Append(queue, r)
    /\ accepted' = Append(accepted, r)
    /\ UNCHANGED <<depth, workerVars, closeVars, metrics, lateWrites>>

StoreSend(r) == Len(queue) < QueueSize /\ Send(r)

\* Mutant: the select has no default branch, so that a full queue blocks Store.
StoreBlocksWhenFull(r) == FALSE

\* The default branch of the select releases the lock before it counts.
StoreQueueFull(r) == Len(queue) = QueueSize /\ StoreMove(r, "open", "full")

\* Count the result and read the queue length: still under the read lock
\* after a send, without it when the queue was full.
StoreCount(r) ==
    /\ \/ Goto(r, "sent", "measured") /\ Observe(r, "enqueued")
       \/ Goto(r, "full", "fullMeasured") /\ Observe(r, "dropped_queue_full")
    /\ depth' = [depth EXCEPT ![r] = Len(queue)]
    /\ UNCHANGED <<queue, workerVars, closeVars, gauge, histories>>

\* Set the gauge to the length read before; after a send, unlock too.
StoreSetDepth(r) ==
    /\ Goto(r, "measured", "done") \/ Goto(r, "fullMeasured", "done")
    /\ gauge' = depth[r]
    /\ depth' = [depth EXCEPT ![r] = 0]
    /\ UNCHANGED <<queue, workerVars, closeVars, recordsTotal, histories>>

Store(r) ==
    \/ StoreCall(r) \/ StoreRLock(r) \/ StoreCheckClosed(r) \/ StoreRejected(r)
    \/ StoreSend(r) \/ StoreQueueFull(r) \/ StoreCount(r) \/ StoreSetDepth(r)

-----------------------------------------------------------------------------
(* runWorker. *)

WorkerMove(from, to) == worker = from /\ worker' = to

\* shouldStopWorker, up to the drain.
CheckStop(next) ==
    /\ WorkerMove("check", next)
    /\ UNCHANGED <<queue, storeVars, job, workerDepth, closeVars, metrics, histories>>

\* Mutant: the worker leaves without draining the queue.
WorkerStopNoDrain == CheckStop(IF "stopWorkerCh" \in shut THEN "done" ELSE "recv")

\* Mutant: the worker does not look at the stop signal.
WorkerIgnoreStop == CheckStop("recv")

WorkerCheckStop == CheckStop(IF "stopWorkerCh" \in shut THEN "drain" ELSE "recv")

WorkerReceive ==
    /\ queue # <<>>
    /\ WorkerMove("recv", "received")
    /\ job' = Head(queue)
    /\ queue' = Tail(queue)
    /\ UNCHANGED <<storeVars, workerDepth, closeVars, metrics, histories>>

WorkerMeasure ==
    /\ WorkerMove("received", "measured") \/ WorkerMove("dropped", "dropMeasured")
    /\ workerDepth' = Len(queue)
    /\ UNCHANGED <<queue, storeVars, job, closeVars, metrics, histories>>

WorkerSetDepth ==
    /\ WorkerMove("measured", "writing") \/ WorkerMove("dropMeasured", "drain")
    /\ gauge' = workerDepth
    /\ workerDepth' = 0
    /\ UNCHANGED <<queue, storeVars, job, closeVars, recordsTotal, histories>>

\* params.Store returns: the insert succeeded, failed, or met the write timeout.
WorkerWrite ==
    /\ WorkerMove("writing", "stored") \/ WorkerMove("writing", "failed")
    /\ lateWrites' = IF "stopWorkerCh" \in shut THEN lateWrites + 1 ELSE lateWrites
    /\ UNCHANGED <<queue, storeVars, job, workerDepth, closeVars, metrics, accepted>>

CountStored ==
    WorkerMove("stored", "check") /\ Observe(job, "stored") /\ job' = NoJob

CountError(next) == WorkerMove("failed", next) /\ Observe(job, "write_error")

\* Mutant: the worker returns after a failed write.
WorkerCountAndLeave ==
    /\ CountStored \/ (CountError("done") /\ job' = NoJob)
    /\ UNCHANGED <<queue, storeVars, workerDepth, closeVars, gauge, histories>>

\* Mutant: no continue after a failed write.
WorkerCountNoContinue ==
    /\ CountStored \/ (CountError("stored") /\ job' = job)
    /\ UNCHANGED <<queue, storeVars, workerDepth, closeVars, gauge, histories>>

WorkerCount ==
    /\ CountStored \/ (CountError("check") /\ job' = NoJob)
    /\ UNCHANGED <<queue, storeVars, workerDepth, closeVars, gauge, histories>>

\* dropQueuedJobs.
WorkerDrop ==
    /\ queue # <<>>
    /\ WorkerMove("drain", "dropped")
    /\ queue' = Tail(queue)
    /\ Observe(Head(queue), "dropped_shutdown")
    /\ UNCHANGED <<storeVars, job, workerDepth, closeVars, gauge, histories>>

\* The worker leaves: the channel is closed and empty.  The stop signal comes
\* after close(queue), so the drain, too, ends only then, and its default
\* branch (an open, empty channel) is dead.
WorkerLeave ==
    /\ queue = <<>>
    /\ ("queue" \in shut /\ WorkerMove("recv", "done")) \/ WorkerMove("drain", "done")
    /\ gauge' = 0
    /\ UNCHANGED <<queue, storeVars, job, workerDepth, closeVars, recordsTotal, histories>>

Worker ==
    \/ WorkerCheckStop \/ WorkerReceive \/ WorkerMeasure \/ WorkerSetDepth
    \/ WorkerWrite \/ WorkerCount \/ WorkerDrop \/ WorkerLeave

-----------------------------------------------------------------------------
(* Close, run once (closeOnce). *)

CloseMove(from, to) ==
    closer = from /\ closer' = to /\ UNCHANGED <<queue, storeVars, workerVars, recordsTotal, histories>>

CloseLock ==
    /\ CloseMove("idle", "acquiring")
    /\ writer' = "waiting"
    /\ UNCHANGED <<shut, gauge>>

\* Mutant: closed is set without taking the lock.
CloseMarkUnlocked ==
    /\ CloseMove("acquiring", "marked")
    /\ writer' = "held"
    /\ shut' = shut \cup {"repo"}
    /\ UNCHANGED gauge

CloseMark ==
    /\ Readers = {}
    /\ CloseMove("acquiring", "marked")
    /\ writer' = "held"
    /\ shut' = shut \cup {"repo"}
    /\ UNCHANGED gauge

\* Close the channels and unlock.
Unlock(channels) ==
    /\ CloseMove("marked", "waiting")
    /\ shut' = shut \cup channels
    /\ writer' = "none"
    /\ UNCHANGED gauge

\* Mutant: the channel is never closed.
CloseQueueLeftOpen == Unlock({})

CloseQueue == Unlock({"queue"})

\* The shutdown timer fires.
CloseTimeout ==
    /\ CloseMove("waiting", "stopping")
    /\ shut' = shut \cup {"stopWorkerCh"}
    /\ UNCHANGED <<writer, gauge>>

Join(from) ==
    /\ CloseMove(from, "returned")
    /\ gauge' = 0
    /\ UNCHANGED <<writer, shut>>

CloseJoin == worker = "done" /\ (Join("waiting") \/ Join("stopping"))

Close == CloseLock \/ CloseMark \/ CloseQueue \/ CloseTimeout \/ CloseJoin

-----------------------------------------------------------------------------
\* Every record has been handed in and shutdown is over.
Terminated ==
    /\ closer = "returned"
    /\ \A r \in Records : pc[r] = "done"
    /\ UNCHANGED vars

Next == (\E r \in Records : Store(r)) \/ Worker \/ Close \/ Terminated

Spec == Init /\ [][Next]_vars

\* A call to Store, once made, and a call to Close, once made, keep running.
\* Nobody has to make them.
CallerFairness ==
    /\ \A r \in Records : WF_vars(pc[r] # "idle" /\ Store(r))
    /\ WF_vars(closer # "idle" /\ Close)

\* The worker may be stuck: the database need not answer.
FairSpec == Spec /\ CallerFairness

\* The worker goroutine is scheduled and the write timeout ends every write.
WorkerFairness == WF_vars(Worker)

-----------------------------------------------------------------------------
(* Properties. *)

\* Store never reaches its select with the channel closed: sending there
\* would panic in a request goroutine.
NoSendOnClosedQueue == \A r \in Records : pc[r] = "open" => "queue" \notin shut

Counted(r, res) == recordsTotal[r][res] > 0

\* The results that say what finally became of a record.
Fates == Results \ {"enqueued"}

\* No result is counted twice for a record and no record meets two fates;
\* only a record sent to the channel is counted as enqueued, and such a
\* record is never reported as dropped for a full queue.
AtMostOneFate ==
    \A r \in Records :
        /\ \A res \in Results : recordsTotal[r][res] <= 1
        /\ \A f, g \in Fates : Counted(r, f) /\ Counted(r, g) => f = g
        /\ Counted(r, "enqueued") \/ Counted(r, "stored") \/ Counted(r, "write_error")
               => r \in ToSet(accepted) /\ ~Counted(r, "dropped_queue_full")

\* Close returns only after the worker has left with nothing in its hands:
\* shutdown closes the database pool next.
QuietAfterClose == closer = "returned" => worker = "done" /\ job = NoJob /\ queue = <<>>

\* Once Close has returned, the worker is gone, every record whose Store has
\* returned has met a fate, and enqueued was counted exactly for those the
\* channel took: the records_total series add up after shutdown.
NoRecordLost ==
    /\ QuietAfterClose
    /\ closer = "returned" =>
           \A r \in Records : pc[r] = "done" =>
               /\ \E f \in Fates : Counted(r, f)
               /\ Counted(r, "enqueued") <=> r \in ToSet(accepted)

\* After the shutdown timer fires at most one more write is waited for, so
\* Close takes at most the shutdown timeout plus one write timeout.
OneLateWrite == lateWrites <= 1

\* Close, once called, returns, as long as writes end.
CloseReturns == WorkerFairness => (closer # "idle" ~> closer = "returned")

\* Every record the channel takes is written or dropped, never forgotten, as
\* long as writes end.
AcceptedIsSettled ==
    WorkerFairness =>
        \A r \in Records : r \in ToSet(accepted) ~> \E f \in Fates : Counted(r, f)

\* Store returns whether or not the worker makes progress: auditing never
\* blocks the request that is audited.
StoreReturns == \A r \in Records : pc[r] = "called" ~> pc[r] = "done"

\* The gauge is 0 after shutdown, although its value is read and set in two
\* steps: whoever could set an old value is waited for, except a Store that
\* found the queue full, which has given up the lock.
DepthZeroAfterShutdown ==
    closer = "returned" => gauge = 0 \/ \E r \in Records : Counted(r, "dropped_queue_full")

-----------------------------------------------------------------------------
(* The repository implements AuditQueue. *)

InHand == IF worker \in Holding THEN 1 ELSE 0

Fate(r) == CHOOSE f \in Fates : Counted(r, f)

Abstract == INSTANCE AuditQueue WITH
    WriteResults <- {"stored", "write_error"},
    accepted <- accepted,
    outcomes <- [i \in 1..(Len(accepted) - Len(queue) - InHand) |-> Fate(accepted[i])],
    phase <- IF closer = "returned" THEN "closed" ELSE IF "repo" \in shut THEN "closing" ELSE "open"

\* Records meet their outcomes exactly once and in the order in which the
\* channel took them, and nothing is dropped before shutdown.
ImplementsAuditQueue == Abstract!Spec
=============================================================================
