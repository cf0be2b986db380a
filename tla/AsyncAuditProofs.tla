--------------------------- MODULE AsyncAuditProofs ---------------------------
(***************************************************************************)
(* Theorems about AsyncAudit, for every set of records and every capacity: *)
(* first its invariants and action properties, then that it implements     *)
(* AuditQueue, where each step of Store, of the worker or of Close is a    *)
(* step of AuditQueue or leaves what AuditQueue sees as it is.             *)
(***************************************************************************)
EXTENDS AsyncAudit, SequenceTheorems, TLAPS

-----------------------------------------------------------------------------
(* Type correctness. *)

\* Counting a result keeps the counters natural numbers.
LEMMA ObserveTyped ==
    ASSUME NEW r \in Records, NEW res \in Results, MetricsTypeOK, Observe(r, res)
    PROVE  recordsTotal' \in [Records -> [Results -> Nat]]
  BY DEF MetricsTypeOK, Observe

\* The steps of Store keep the types.
LEMMA StoreTyped ==
    ASSUME TypeOK, NEW r \in Records, Store(r)
    PROVE  TypeOK'
<1> USE DEF TypeOK, QueueTypeOK, StoreTypeOK, WorkerTypeOK, CloseTypeOK, MetricsTypeOK,
        workerVars, closeVars, metrics, histories
<1>1. CASE StoreCall(r) \/ StoreRLock(r) \/ StoreCheckClosed(r) \/ StoreQueueFull(r)
  BY <1>1 DEF StoreCall, StoreRLock, StoreCheckClosed, StoreQueueFull, StoreMove, Goto, StorePC
<1>2. CASE StoreRejected(r)
  <2>1. recordsTotal' \in [Records -> [Results -> Nat]]
    BY <1>2, ObserveTyped DEF StoreRejected, Results
  <2>2. QED
    BY <1>2, <2>1 DEF StoreRejected, Goto, StorePC
<1>3. CASE StoreSend(r)
  <2>1. QueueTypeOK' /\ StoreTypeOK'
    BY <1>3, QueueSizeAssumption DEF StoreSend, Send, Goto, StorePC
  <2>2. WorkerTypeOK' /\ CloseTypeOK' /\ MetricsTypeOK'
    BY <1>3 DEF StoreSend, Send
  <2>3. QED
    BY <2>1, <2>2
<1>4. CASE StoreCount(r)
  <2>1. recordsTotal' \in [Records -> [Results -> Nat]]
    BY <1>4, ObserveTyped DEF StoreCount, Results
  <2>2. pc' \in [Records -> StorePC]
    BY <1>4 DEF StoreCount, Goto, StorePC
  <2>3. Len(queue) \in 0..QueueSize
    BY QueueSizeAssumption
  <2>4. depth' \in [Records -> 0..QueueSize]
    BY <1>4, <2>3 DEF StoreCount
  <2>5. QED
    BY <1>4, <2>1, <2>2, <2>4 DEF StoreCount
<1>5. CASE StoreSetDepth(r)
  <2>1. StoreTypeOK' /\ MetricsTypeOK'
    BY <1>5, QueueSizeAssumption DEF StoreSetDepth, Goto, StorePC
  <2>2. QED
    BY <1>5, <2>1 DEF StoreSetDepth
<1>6. QED
  BY <1>1, <1>2, <1>3, <1>4, <1>5 DEF Store

\* The steps of the worker keep the types.
LEMMA WorkerTyped ==
    ASSUME TypeOK, Worker
    PROVE  TypeOK'
<1> USE RecordsAssumption, QueueSizeAssumption
    DEF TypeOK, QueueTypeOK, StoreTypeOK, WorkerTypeOK, CloseTypeOK, MetricsTypeOK,
        storeVars, closeVars, metrics, histories, WorkerMove, WorkerPC, Holding
<1>1. CASE WorkerCheckStop
  BY <1>1 DEF WorkerCheckStop, CheckStop
<1>2. CASE WorkerReceive
  <2>1. QueueTypeOK' /\ WorkerTypeOK'
    BY <1>2 DEF WorkerReceive
  <2>2. QED
    BY <1>2, <2>1 DEF WorkerReceive
<1>3. CASE WorkerMeasure
  <2>1. WorkerTypeOK'
    BY <1>3 DEF WorkerMeasure
  <2>2. QED
    BY <1>3, <2>1 DEF WorkerMeasure
<1>4. CASE WorkerSetDepth
  <2>1. WorkerTypeOK' /\ MetricsTypeOK'
    BY <1>4 DEF WorkerSetDepth
  <2>2. QED
    BY <1>4, <2>1 DEF WorkerSetDepth
<1>5. CASE WorkerWrite
  <2>1. WorkerTypeOK'
    BY <1>5 DEF WorkerWrite
  <2>2. QED
    BY <1>5, <2>1 DEF WorkerWrite
<1>6. CASE WorkerCount
  <2>1. recordsTotal' \in [Records -> [Results -> Nat]]
    BY <1>6, ObserveTyped DEF WorkerCount, CountStored, CountError, Results
  <2>2. WorkerTypeOK'
    BY <1>6 DEF WorkerCount, CountStored, CountError
  <2>3. QED
    BY <1>6, <2>1, <2>2 DEF WorkerCount
<1>7. CASE WorkerDrop
  <2>1. Head(queue) \in Records
    BY <1>7 DEF WorkerDrop
  <2>2. recordsTotal' \in [Records -> [Results -> Nat]]
    BY <1>7, <2>1, ObserveTyped DEF WorkerDrop, Results
  <2>3. QueueTypeOK' /\ WorkerTypeOK'
    BY <1>7 DEF WorkerDrop
  <2>4. QED
    BY <1>7, <2>2, <2>3 DEF WorkerDrop
<1>8. CASE WorkerLeave
  BY <1>8 DEF WorkerLeave
<1>9. QED
  BY <1>1, <1>2, <1>3, <1>4, <1>5, <1>6, <1>7, <1>8 DEF Worker

\* The steps of Close keep the types.
LEMMA CloseTyped ==
    ASSUME TypeOK, Close
    PROVE  TypeOK'
<1>1. CloseTypeOK'
  BY DEF TypeOK, CloseTypeOK, ClosePC, Close, CloseLock, CloseMark, CloseQueue,
         CloseTimeout, CloseJoin, CloseMove, Unlock, Join
<1>2. gauge' = gauge \/ gauge' = 0
  BY DEF Close, CloseLock, CloseMark, CloseQueue, CloseTimeout, CloseJoin, Unlock, Join
<1>3. MetricsTypeOK'
  BY <1>2, QueueSizeAssumption
     DEF TypeOK, MetricsTypeOK, Close, CloseLock, CloseMark, CloseQueue, CloseTimeout,
         CloseJoin, CloseMove, Unlock, Join
<1>4. QueueTypeOK' /\ StoreTypeOK' /\ WorkerTypeOK'
  BY DEF TypeOK, QueueTypeOK, StoreTypeOK, WorkerTypeOK, storeVars, workerVars, histories,
         Close, CloseLock, CloseMark, CloseQueue, CloseTimeout, CloseJoin, CloseMove,
         Unlock, Join
<1>5. QED
  BY <1>1, <1>3, <1>4 DEF TypeOK

\* The type invariant holds for every set of records and every queue size.
THEOREM TypeCorrect == Spec => []TypeOK
<1>1. Init => TypeOK
  BY RecordsAssumption, QueueSizeAssumption
     DEF Init, TypeOK, QueueTypeOK, StoreTypeOK, WorkerTypeOK, CloseTypeOK, MetricsTypeOK,
         StorePC, WorkerPC, Holding, ClosePC
<1>2. TypeOK /\ [Next]_vars => TypeOK'
  <2>1. TypeOK /\ UNCHANGED vars => TypeOK'
    BY DEF TypeOK, QueueTypeOK, StoreTypeOK, WorkerTypeOK, CloseTypeOK, MetricsTypeOK,
           vars, storeVars, workerVars, closeVars, metrics, histories
  <2>2. QED
    BY <2>1, StoreTyped, WorkerTyped, CloseTyped DEF Next, Terminated
<1>3. QED
  BY <1>1, <1>2, PTL DEF Spec

-----------------------------------------------------------------------------
(* The inductive invariant. *)

\* Close moves the lock and what it has closed along in step with its own
\* progress, and a goroutine past its check of closed still holds the lock
\* that Close needs to change it.
LockInv ==
    /\ writer = CASE closer = "acquiring" -> "waiting"
                  [] closer = "marked" -> "held"
                  [] OTHER -> "none"
    /\ "repo" \in shut <=> closer \notin {"idle", "acquiring"}
    /\ "queue" \in shut <=> closer \in {"waiting", "stopping", "returned"}
    /\ "stopWorkerCh" \in shut => closer \in {"stopping", "returned"}
    /\ \A r \in Records : pc[r] \in {"open", "sent", "measured"} => "repo" \notin shut

\* The worker drains only when told to stop, leaves only an empty and closed
\* queue, and has ended at most one write since the stop signal: none while
\* it can still begin one.
StopInv ==
    /\ worker \in {"drain", "dropped", "dropMeasured"} => "stopWorkerCh" \in shut
    /\ worker = "done" => "queue" \in shut /\ queue = <<>>
    /\ closer = "returned" => worker = "done"
    /\ lateWrites <= IF /\ "stopWorkerCh" \in shut
                        /\ worker \notin {"recv", "received", "measured", "writing"}
                     THEN 1 ELSE 0

\* The number of accepted records that have met their fate.
SettledCount == Len(accepted) - Len(queue) - InHand

\* How many fates were counted for an accepted record.
FateCount(r) ==
    recordsTotal[r]["stored"] + recordsTotal[r]["write_error"] + recordsTotal[r]["dropped_shutdown"]

\* What was counted for a record that Store has taken so far and, if the
\* channel did not take it, all that ever will be.
RecordInv(r) ==
    /\ r \in ToSet(accepted) =>
           /\ pc[r] \in {"sent", "measured", "done"}
           /\ pc[r] = "sent" => recordsTotal[r]["enqueued"] = 0
           /\ pc[r] # "sent" => recordsTotal[r]["enqueued"] = 1
           /\ recordsTotal[r]["dropped_queue_full"] = 0
    /\ r \notin ToSet(accepted) =>
           /\ pc[r] \notin {"sent", "measured"}
           /\ recordsTotal[r]["enqueued"] = 0
           /\ recordsTotal[r]["stored"] = 0
           /\ recordsTotal[r]["write_error"] = 0
           /\ recordsTotal[r]["dropped_queue_full"] + recordsTotal[r]["dropped_shutdown"]
                  = IF pc[r] \in {"fullMeasured", "done"} THEN 1 ELSE 0

CountInv == \A r \in Records : RecordInv(r)

\* The accepted records are, in order: those that met exactly one fate, the
\* one in the worker's hands, and those in the queue, which met none yet.
QueueInv ==
    /\ SettledCount >= 0
    /\ \A i, j \in 1..Len(accepted) : accepted[i] = accepted[j] => i = j
    /\ \A i \in 1..Len(queue) : queue[i] = accepted[Len(accepted) - Len(queue) + i]
    /\ worker \in Holding => job = accepted[Len(accepted) - Len(queue)]
    /\ \A i \in 1..Len(accepted) :
           FateCount(accepted[i]) = IF i <= SettledCount THEN 1 ELSE 0

IInv == TypeOK /\ LockInv /\ StopInv /\ CountInv /\ QueueInv

-----------------------------------------------------------------------------
(* The lock. *)

\* Every step keeps LockInv.
LEMMA LockStep ==
    ASSUME TypeOK, LockInv, [Next]_vars
    PROVE  LockInv'
<1>1. ASSUME NEW r \in Records, Store(r)
      PROVE  LockInv'
  <2>1. UNCHANGED closeVars
    BY <1>1 DEF Store, StoreCall, StoreRLock, StoreCheckClosed, StoreRejected, StoreSend,
                StoreQueueFull, StoreCount, StoreSetDepth, StoreMove, Send
  <2>2. ASSUME NEW q \in Records, pc'[q] \in {"open", "sent", "measured"}
        PROVE  "repo" \notin shut
    <3> USE DEF TypeOK, StoreTypeOK, Goto, StoreMove
    <3>1. CASE StoreCheckClosed(r)
      BY <2>2, <3>1 DEF LockInv, StoreCheckClosed
    <3>2. CASE StoreSend(r) \/ StoreCount(r)
      BY <2>2, <3>2 DEF LockInv, StoreSend, Send, StoreCount
    <3>3. CASE \/ StoreCall(r) \/ StoreRLock(r) \/ StoreRejected(r)
               \/ StoreQueueFull(r) \/ StoreSetDepth(r)
      BY <2>2, <3>3
         DEF LockInv, StoreCall, StoreRLock, StoreRejected, StoreQueueFull, StoreSetDepth
    <3>4. QED
      BY <1>1, <3>1, <3>2, <3>3 DEF Store
  <2>3. QED
    BY <2>1, <2>2 DEF LockInv, closeVars
<1>2. CASE Worker
  BY <1>2 DEF LockInv, Worker, WorkerCheckStop, CheckStop, WorkerReceive, WorkerMeasure,
              WorkerSetDepth, WorkerWrite, WorkerCount, WorkerDrop, WorkerLeave,
              storeVars, closeVars
<1>3. CASE Close
  <2>1. \A r \in Records : pc'[r] \in {"open", "sent", "measured"} => "repo" \notin shut'
    BY <1>3 DEF LockInv, Close, CloseLock, CloseMark, CloseQueue, CloseTimeout, CloseJoin,
                CloseMove, Unlock, Join, storeVars, Readers
  <2>2. QED
    BY <1>3, <2>1 DEF LockInv, Close, CloseLock, CloseMark, CloseQueue, CloseTimeout,
                      CloseJoin, CloseMove, Unlock, Join
<1>4. CASE UNCHANGED vars
  BY <1>4 DEF LockInv, vars, storeVars, closeVars
<1>5. QED
  BY <1>1, <1>2, <1>3, <1>4 DEF Next, Terminated

\* Store never sends on the closed channel: the goroutine that closes it waits
\* for the goroutines that have seen closed false.
THEOREM NeverSendsOnClosedQueue == Spec => []NoSendOnClosedQueue
<1>1. Init => LockInv
  BY DEF Init, LockInv
<1>2. LockInv => NoSendOnClosedQueue
  BY DEF LockInv, NoSendOnClosedQueue
<1>3. QED
  BY <1>1, <1>2, LockStep, TypeCorrect, PTL DEF Spec

-----------------------------------------------------------------------------
(* Shutdown. *)

\* Every step keeps StopInv.
LEMMA StopStep ==
    ASSUME TypeOK, LockInv, StopInv, [Next]_vars
    PROVE  StopInv'
<1>1. ASSUME NEW r \in Records, Store(r)
      PROVE  StopInv'
  <2>1. UNCHANGED <<workerVars, closeVars, lateWrites>>
    BY <1>1 DEF Store, StoreCall, StoreRLock, StoreCheckClosed, StoreRejected, StoreSend,
                StoreQueueFull, StoreCount, StoreSetDepth, StoreMove, Send, histories
  <2>2. queue' = queue \/ "queue" \notin shut
    BY <1>1 DEF Store, StoreCall, StoreRLock, StoreCheckClosed, StoreRejected, StoreSend,
                StoreQueueFull, StoreCount, StoreSetDepth, StoreMove, Send, Goto, LockInv
  <2>3. QED
    BY <2>1, <2>2 DEF StopInv, workerVars, closeVars
<1>2. CASE Worker
  <2>1. UNCHANGED closeVars
    BY <1>2 DEF Worker, WorkerCheckStop, CheckStop, WorkerReceive, WorkerMeasure,
                WorkerSetDepth, WorkerWrite, WorkerCount, WorkerDrop, WorkerLeave
  <2>2. lateWrites' <= IF /\ "stopWorkerCh" \in shut'
                          /\ worker' \notin {"recv", "received", "measured", "writing"}
                       THEN 1 ELSE 0
    BY <1>2, <2>1
       DEF TypeOK, WorkerTypeOK, StopInv, Worker, WorkerCheckStop, CheckStop, WorkerReceive,
           WorkerMeasure, WorkerSetDepth, WorkerWrite, WorkerCount, CountStored, CountError,
           WorkerDrop, WorkerLeave, WorkerMove, closeVars, histories
  <2>3. QED
    BY <1>2, <2>1, <2>2
       DEF LockInv, StopInv, Worker, WorkerCheckStop, CheckStop, WorkerReceive, WorkerMeasure,
           WorkerSetDepth, WorkerWrite, WorkerCount, CountStored, CountError, WorkerDrop,
           WorkerLeave, WorkerMove, closeVars
<1>3. CASE Close
  BY <1>3 DEF TypeOK, WorkerTypeOK, LockInv, StopInv, Close, CloseLock, CloseMark, CloseQueue,
              CloseTimeout, CloseJoin, CloseMove, Unlock, Join, workerVars, histories
<1>4. CASE UNCHANGED vars
  BY <1>4 DEF StopInv, vars, workerVars, closeVars, histories
<1>5. QED
  BY <1>1, <1>2, <1>3, <1>4 DEF Next, Terminated

\* The lock and the shutdown parts of the invariant hold in every state.
LEMMA ShutdownInvariant == Spec => [](TypeOK /\ LockInv /\ StopInv)
<1>1. Init => LockInv /\ StopInv
  BY DEF Init, LockInv, StopInv
<1>2. QED
  BY <1>1, TypeCorrect, LockStep, StopStep, PTL DEF Spec

\* A worker that has left has nothing in its hands, and Close waits for it.
LEMMA StoppedIsQuiet == TypeOK /\ StopInv => QuietAfterClose
BY RecordsAssumption DEF TypeOK, WorkerTypeOK, Holding, StopInv, QuietAfterClose

\* When Close returns, the worker has left and holds nothing.
THEOREM CloseLeavesNothingBehind == Spec => []QuietAfterClose
BY StoppedIsQuiet, ShutdownInvariant, PTL

\* At most one write ends after the stop signal, so Close waits for at most one.
THEOREM ShutdownWaitsForOneWrite == Spec => []OneLateWrite
<1>1. TypeOK /\ StopInv => OneLateWrite
  BY DEF TypeOK, WorkerTypeOK, StopInv, OneLateWrite
<1>2. QED
  BY <1>1, ShutdownInvariant, PTL

-----------------------------------------------------------------------------
(* The worker and Close come to an end. *)

\* How far a worker is from leaving that finds no more records in the channel,
\* and Close from returning.
WorkerRank == [w \in WorkerPC |->
    IF w = "done" THEN 0 ELSE IF w \in {"recv", "drain"} THEN 1
    ELSE IF w \in {"check", "dropMeasured"} THEN 2 ELSE IF w \in {"stored", "failed", "dropped"} THEN 3
    ELSE IF w = "writing" THEN 4 ELSE IF w = "measured" THEN 5 ELSE 6]

CloserRank == [c \in ClosePC |->
    IF c = "idle" THEN 5 ELSE IF c = "acquiring" THEN 4 ELSE IF c = "marked" THEN 3
    ELSE IF c = "waiting" THEN 2 ELSE IF c = "stopping" THEN 1 ELSE 0]

WorkLeft == 6 * Len(queue) + WorkerRank[worker] + CloserRank[closer]

\* The worker and Close do not spin: each of their steps leaves less to do, and
\* only a record that the channel takes makes more of it, six steps.
WorkFalls ==
    /\ Worker \/ Close => WorkLeft' < WorkLeft
    /\ WorkLeft' <= WorkLeft \/ (WorkLeft' = WorkLeft + 6 /\ accepted' # accepted)

\* Close waits only for a worker that can go on: with nothing to receive it
\* finds the channel closed.  A Store that a waiting writer holds off waits for
\* a Close that is on its way.
WaitsEnd ==
    /\ closer \in {"waiting", "stopping"} /\ queue = <<>> => "queue" \in shut
    /\ writer # "none" => closer \in {"acquiring", "marked"}

\* The length of the channel after a step of the worker.
LEMMA QueueLength ==
    ASSUME TypeOK, queue # <<>>, queue' = Tail(queue)
    PROVE  Len(queue) \in Nat /\ Len(queue') \in Nat /\ Len(queue) = Len(queue') + 1
BY DEF TypeOK, QueueTypeOK

RanksTyped == Len(queue) \in Nat /\ WorkerRank[worker] \in 0..6 /\ CloserRank[closer] \in 0..5

LEMMA RanksAreTyped == TypeOK => RanksTyped
<1> SUFFICES ASSUME TypeOK PROVE RanksTyped
    OBVIOUS
<1>1. Len(queue) \in Nat /\ worker \in WorkerPC /\ closer \in ClosePC
  BY DEF TypeOK, QueueTypeOK, WorkerTypeOK, CloseTypeOK
<1>2. WorkerRank[worker] \in 0..6
  BY <1>1 DEF WorkerRank
<1>3. CloserRank[closer] \in 0..5
  BY <1>1 DEF CloserRank
<1>4. QED
  BY <1>1, <1>2, <1>3 DEF RanksTyped

\* How the sum follows its parts.
LEMMA WorkSums ==
    ASSUME NEW n \in Nat, NEW w \in 0..6, NEW c \in 0..5, NEW m \in Nat, NEW v \in 0..6, NEW d \in 0..5
    PROVE  /\ v < w => 6 * n + v + c < 6 * n + w + c
           /\ n = m + 1 /\ v < w + 6 => 6 * m + v + c < 6 * n + w + c
           /\ d < c => 6 * n + w + d < 6 * n + w + c
           /\ 6 * (n + 1) + w + c = (6 * n + w + c) + 6
           /\ 6 * n + w + c \in Nat
  OBVIOUS

\* What a step of the worker does to its rank and to the channel.
LEMMA WorkerAdvances ==
    ASSUME TypeOK, TypeOK', Worker
    PROVE  /\ closer' = closer
           /\ \/ queue' = queue /\ WorkerRank[worker'] < WorkerRank[worker]
              \/ queue # <<>> /\ queue' = Tail(queue) /\ WorkerRank[worker'] < WorkerRank[worker] + 6
<1>1. closer' = closer
  BY DEF Worker, WorkerCheckStop, CheckStop, WorkerReceive, WorkerMeasure, WorkerSetDepth, WorkerWrite,
     WorkerCount, WorkerDrop, WorkerLeave, closeVars
<1>2. CASE WorkerReceive \/ WorkerDrop
  <2>1. /\ queue # <<>> /\ queue' = Tail(queue)
        /\ \/ worker = "recv" /\ worker' = "received"
           \/ worker = "drain" /\ worker' = "dropped"
    BY <1>2 DEF WorkerReceive, WorkerDrop, WorkerMove
  <2>2. WorkerRank["recv"] = 1 /\ WorkerRank["received"] = 6 /\ WorkerRank["drain"] = 1 /\ WorkerRank["dropped"] = 3
    BY DEF WorkerRank, WorkerPC
  <2>3. QED
    BY <1>1, <2>1, <2>2
<1>3. CASE WorkerCheckStop \/ WorkerMeasure \/ WorkerSetDepth \/ WorkerWrite \/ WorkerCount \/ WorkerLeave
  <2>1. /\ queue' = queue
        /\ <<worker, worker'>> \in {<<"check", "recv">>, <<"check", "drain">>, <<"received", "measured">>,
               <<"dropped", "dropMeasured">>, <<"measured", "writing">>, <<"dropMeasured", "drain">>,
               <<"writing", "stored">>, <<"writing", "failed">>, <<"stored", "check">>, <<"failed", "check">>,
               <<"recv", "done">>, <<"drain", "done">>}
    BY <1>3 DEF WorkerCheckStop, CheckStop, WorkerMeasure, WorkerSetDepth, WorkerWrite, WorkerCount,
       CountStored, CountError, WorkerLeave, WorkerMove
  <2>2. WorkerRank[worker'] < WorkerRank[worker]
    BY <2>1 DEF WorkerRank, WorkerPC
  <2>3. QED
    BY <1>1, <2>1, <2>2
<1>4. QED
  BY <1>2, <1>3 DEF Worker

LEMMA CloseAdvances ==
    ASSUME Close
    PROVE  queue' = queue /\ worker' = worker /\ CloserRank[closer'] < CloserRank[closer]
<1>1. <<closer, closer'>> \in {<<"idle", "acquiring">>, <<"acquiring", "marked">>, <<"marked", "waiting">>,
          <<"waiting", "stopping">>, <<"waiting", "returned">>, <<"stopping", "returned">>}
  BY DEF Close, CloseLock, CloseMark, CloseQueue, CloseTimeout, CloseJoin, CloseMove, Unlock, Join
<1>2. CloserRank[closer'] < CloserRank[closer]
  BY <1>1 DEF CloserRank, ClosePC
<1>3. QED
  BY <1>2 DEF Close, CloseLock, CloseMark, CloseQueue, CloseTimeout, CloseJoin, CloseMove, Unlock, Join, workerVars

LEMMA WorkStep ==
    ASSUME TypeOK, TypeOK', [Next]_vars
    PROVE  WorkFalls
<1>0. RanksTyped /\ RanksTyped'
  <2>1. RanksTyped'
    BY RanksAreTyped, PTL
  <2>2. QED
    BY <2>1, RanksAreTyped
<1>n. WorkLeft \in Nat /\ WorkLeft' \in Nat
  BY <1>0, WorkSums DEF RanksTyped, WorkLeft
<1>f. ASSUME WorkLeft' < WorkLeft
      PROVE  WorkFalls
  <2>1. WorkLeft' <= WorkLeft
    BY <1>n, <1>f
  <2>2. QED
    BY <1>f, <2>1 DEF WorkFalls
<1>1. CASE Worker
  <2>1. CloserRank[closer'] = CloserRank[closer]
    BY <1>1, WorkerAdvances
  <2>2. CASE queue' = queue /\ WorkerRank[worker'] < WorkerRank[worker]
    <3>1. WorkLeft' < WorkLeft
      BY <1>0, <2>1, <2>2, WorkSums DEF RanksTyped, WorkLeft
    <3>2. QED
      BY <1>f, <3>1
  <2>3. CASE queue # <<>> /\ queue' = Tail(queue) /\ WorkerRank[worker'] < WorkerRank[worker] + 6
    <3>1. Len(queue) = Len(queue') + 1
      BY <2>3, QueueLength
    <3>2. WorkLeft' < WorkLeft
      BY <1>0, <2>1, <2>3, <3>1, WorkSums DEF RanksTyped, WorkLeft
    <3>3. QED
      BY <1>f, <3>2
  <2>4. QED
    BY <1>1, <2>2, <2>3, WorkerAdvances
<1>2. CASE Close
  <2>1. queue' = queue /\ worker' = worker /\ CloserRank[closer'] < CloserRank[closer]
    BY <1>2, CloseAdvances
  <2>2. WorkLeft' < WorkLeft
    BY <1>0, <2>1, WorkSums DEF RanksTyped, WorkLeft
  <2>3. QED
    BY <1>f, <2>2
<1>3. ASSUME NEW r \in Records, Store(r), ~(Worker \/ Close)
      PROVE  WorkFalls
  <2>1. UNCHANGED <<worker, closer>>
    BY <1>3 DEF Store, StoreCall, StoreRLock, StoreCheckClosed, StoreRejected, StoreSend, StoreQueueFull,
       StoreCount, StoreSetDepth, StoreMove, Send, workerVars, closeVars
  <2>2. CASE StoreSend(r)
    <3>1. Len(queue') = Len(queue) + 1
      BY <2>2 DEF StoreSend, Send, TypeOK, QueueTypeOK
    <3>2. accepted' # accepted
      <4>1. accepted \in Seq(Records) /\ accepted' = Append(accepted, r)
        BY <2>2 DEF StoreSend, Send, TypeOK, QueueTypeOK
      <4>2. Len(accepted') = Len(accepted) + 1 /\ Len(accepted) \in Nat
        BY <4>1
      <4>3. QED
        BY <4>2
    <3>3. WorkLeft' = 6 * (Len(queue) + 1) + WorkerRank[worker] + CloserRank[closer]
      BY <2>1, <3>1 DEF WorkLeft
    <3>4. WorkLeft' = WorkLeft + 6
      <4>1. PICK n \in Nat, w \in 0..6, c \in 0..5 :
               n = Len(queue) /\ w = WorkerRank[worker] /\ c = CloserRank[closer]
        BY <1>0 DEF RanksTyped
      <4>2. WorkLeft = 6 * n + w + c
        BY <4>1 DEF WorkLeft
      <4>3. WorkLeft' = 6 * (n + 1) + w + c
        BY <3>3, <4>1
      <4>4. 6 * (n + 1) + w + c = 6 * n + w + c + 6
        BY <4>1
      <4>5. QED
        BY <4>2, <4>3, <4>4
    <3>5. QED
      BY <1>3, <3>2, <3>4 DEF WorkFalls
  <2>3. CASE ~StoreSend(r)
    <3>1. queue' = queue
      BY <1>3, <2>3 DEF Store, StoreCall, StoreRLock, StoreCheckClosed, StoreRejected, StoreQueueFull,
         StoreCount, StoreSetDepth, StoreMove
    <3>2. WorkLeft' = WorkLeft
      BY <2>1, <3>1 DEF WorkLeft
    <3>3. WorkLeft' <= WorkLeft
      BY <1>n, <3>2
    <3>4. QED
      BY <1>3, <3>3 DEF WorkFalls
  <2>4. QED
    BY <2>2, <2>3
<1>4. ASSUME UNCHANGED vars, ~(Worker \/ Close)
      PROVE  WorkFalls
  <2>1. WorkLeft' = WorkLeft
    BY <1>4 DEF vars, workerVars, closeVars, WorkLeft
  <2>2. WorkLeft' <= WorkLeft
    BY <1>n, <2>1
  <2>3. QED
    BY <1>4, <2>2 DEF WorkFalls
<1>5. QED
  BY <1>1, <1>2, <1>3, <1>4 DEF Next, Terminated

\* runWorker and Close do not go round for ever: what they have to do shrinks
\* with each step, whatever the goroutines in Store do; and Close never waits
\* for a worker that waits for a record nobody can send.
THEOREM ShutdownIsBounded == Spec => [][WorkFalls]_vars /\ []WaitsEnd
<1>1. LockInv => WaitsEnd
  BY DEF LockInv, WaitsEnd
<1>2. TypeOK /\ TypeOK' /\ [Next]_vars => WorkFalls
  BY WorkStep
<1>3. QED
  BY <1>1, <1>2, ShutdownInvariant, PTL DEF Spec

-----------------------------------------------------------------------------
(* What becomes of a record. *)

\* Counting a result changes one counter of one record.
LEMMA ObserveEffect ==
    ASSUME NEW r \in Records, NEW res \in Results, MetricsTypeOK, Observe(r, res)
    PROVE  /\ \A q \in Records \ {r} : recordsTotal'[q] = recordsTotal[q]
           /\ \A other \in Results \ {res} : recordsTotal'[r][other] = recordsTotal[r][other]
           /\ recordsTotal'[r][res] = recordsTotal[r][res] + 1
  BY DEF MetricsTypeOK, Observe

\* The counters are natural numbers.
LEMMA CountersAreNat ==
    ASSUME MetricsTypeOK, NEW r \in Records
    PROVE  /\ recordsTotal[r]["enqueued"] \in Nat
           /\ recordsTotal[r]["stored"] \in Nat
           /\ recordsTotal[r]["write_error"] \in Nat
           /\ recordsTotal[r]["dropped_shutdown"] \in Nat
           /\ recordsTotal[r]["dropped_queue_full"] \in Nat
  BY DEF MetricsTypeOK, Results

\* The elements of a sequence, by index.
LEMMA ToSetByIndex ==
    ASSUME NEW S, NEW seq \in Seq(S), NEW x
    PROVE  x \in ToSet(seq) <=> \E i \in 1..Len(seq) : seq[i] = x
  BY DEF ToSet

\* What Append does, by index.
LEMMA AppendByIndex ==
    ASSUME NEW S, NEW seq \in Seq(S), NEW x \in S
    PROVE  /\ Append(seq, x) \in Seq(S)
           /\ Len(Append(seq, x)) = Len(seq) + 1
           /\ \A i \in 1..Len(seq) : Append(seq, x)[i] = seq[i]
           /\ Append(seq, x)[Len(seq) + 1] = x
  OBVIOUS

\* What Tail does, by index.
LEMMA TailByIndex ==
    ASSUME NEW S, NEW seq \in Seq(S), seq # <<>>
    PROVE  /\ Tail(seq) \in Seq(S)
           /\ Len(seq) \in Nat \ {0}
           /\ Len(Tail(seq)) = Len(seq) - 1
           /\ \A i \in 1..(Len(seq) - 1) : Tail(seq)[i] = seq[i + 1]
           /\ Head(seq) = seq[1] /\ Head(seq) \in S
  OBVIOUS

\* An appended record is the only new element.
LEMMA ToSetAppend ==
    ASSUME NEW S, NEW seq \in Seq(S), NEW x \in S
    PROVE  ToSet(Append(seq, x)) = ToSet(seq) \cup {x}
<1> DEFINE app == Append(seq, x)
<1>1. /\ app \in Seq(S)
      /\ Len(app) = Len(seq) + 1
      /\ \A i \in 1..Len(seq) : app[i] = seq[i]
      /\ app[Len(seq) + 1] = x
  BY AppendByIndex
<1>2. Len(seq) \in Nat
  OBVIOUS
<1> HIDE DEF app
<1>3. \A y : y \in ToSet(app) <=> \E i \in 1..Len(app) : app[i] = y
  BY <1>1, ToSetByIndex
<1>4. \A y : y \in ToSet(seq) <=> \E i \in 1..Len(seq) : seq[i] = y
  BY ToSetByIndex
<1>5. \A y \in ToSet(app) : y \in ToSet(seq) \cup {x}
  BY <1>1, <1>2, <1>3, <1>4
<1>6. \A y \in ToSet(seq) : y \in ToSet(app)
  BY <1>1, <1>2, <1>3, <1>4
<1>7. x \in ToSet(app)
  BY <1>1, <1>2, <1>3
<1>8. QED
  BY <1>5, <1>6, <1>7 DEF app

\* The steps of Store keep the bookkeeping of records.
LEMMA StoreCounts ==
    ASSUME TypeOK, CountInv, QueueInv, NEW r \in Records, Store(r)
    PROVE  CountInv' /\ QueueInv'
<1>1. /\ pc \in [Records -> StorePC] /\ MetricsTypeOK
      /\ queue \in Seq(Records) /\ accepted \in Seq(Records)
      /\ Len(queue) \in Nat /\ Len(accepted) \in Nat
  BY DEF TypeOK, QueueTypeOK, StoreTypeOK
<1>2. worker' = worker /\ job' = job
  BY DEF Store, StoreCall, StoreRLock, StoreCheckClosed, StoreRejected, StoreSend,
         StoreQueueFull, StoreCount, StoreSetDepth, StoreMove, Send, workerVars
<1>3. CASE StoreCall(r) \/ StoreRLock(r) \/ StoreCheckClosed(r) \/ StoreQueueFull(r)
           \/ StoreSetDepth(r)
  <2>1. UNCHANGED <<queue, accepted, recordsTotal>>
    BY <1>3 DEF StoreCall, StoreRLock, StoreCheckClosed, StoreQueueFull, StoreSetDepth,
                StoreMove, metrics, histories
  <2>2. CountInv'
    BY <1>1, <1>3, <2>1
       DEF CountInv, RecordInv, StoreCall, StoreRLock, StoreCheckClosed, StoreQueueFull,
           StoreSetDepth, StoreMove, Goto
  <2>3. QueueInv'
    BY <1>2, <2>1 DEF QueueInv, SettledCount, InHand, FateCount
  <2>4. QED
    BY <2>2, <2>3
<1>4. CASE StoreRejected(r) \/ StoreCount(r)
  <2>1. UNCHANGED <<queue, accepted>>
    BY <1>4 DEF StoreRejected, StoreCount, histories
  <2>2. PICK res \in {"enqueued", "dropped_shutdown", "dropped_queue_full"} :
          /\ Observe(r, res)
          /\ \/ res = "dropped_shutdown" /\ Goto(r, "rejected", "done")
             \/ res = "enqueued" /\ Goto(r, "sent", "measured")
             \/ res = "dropped_queue_full" /\ Goto(r, "full", "fullMeasured")
    BY <1>4 DEF StoreRejected, StoreCount
  <2>3. /\ \A q \in Records \ {r} : recordsTotal'[q] = recordsTotal[q]
        /\ \A other \in Results \ {res} : recordsTotal'[r][other] = recordsTotal[r][other]
        /\ recordsTotal'[r][res] = recordsTotal[r][res] + 1
    <3>1. res \in Results
      BY DEF Results
    <3>2. QED
      BY <1>1, <2>2, <3>1, ObserveEffect
  <2>4. ASSUME NEW q \in Records
        PROVE  RecordInv(q)'
    <3>1. RecordInv(q)
      BY DEF CountInv
    <3>2. CASE q # r
      BY <1>1, <2>1, <2>2, <2>3, <3>1, <3>2 DEF RecordInv, Goto
    <3>3. CASE q = r /\ res = "enqueued"
      <4>1. pc[r] = "sent" /\ pc'[r] = "measured"
        BY <1>1, <2>2, <3>3 DEF Goto
      <4>2. /\ r \in ToSet(accepted) /\ recordsTotal[r]["enqueued"] = 0
            /\ recordsTotal[r]["dropped_queue_full"] = 0
        BY <3>1, <3>3, <4>1 DEF RecordInv
      <4>3. /\ recordsTotal'[r]["enqueued"] = 1
            /\ recordsTotal'[r]["dropped_queue_full"] = 0
        BY <2>3, <3>3, <4>2 DEF Results
      <4>4. QED
        BY <2>1, <3>3, <4>1, <4>2, <4>3 DEF RecordInv
    <3>4. CASE q = r /\ res = "dropped_shutdown"
      BY <1>1, <2>1, <2>2, <2>3, <3>1, <3>4, CountersAreNat DEF RecordInv, Goto, Results
    <3>5. CASE q = r /\ res = "dropped_queue_full"
      BY <1>1, <2>1, <2>2, <2>3, <3>1, <3>5, CountersAreNat DEF RecordInv, Goto, Results
    <3>6. QED
      BY <3>2, <3>3, <3>4, <3>5
  <2>5. \A i \in 1..Len(accepted) : FateCount(accepted[i])' = FateCount(accepted[i])
    <3>1. r \notin ToSet(accepted) \/ res = "enqueued"
      BY <2>2 DEF CountInv, RecordInv, Goto
    <3>2. SUFFICES ASSUME NEW i \in 1..Len(accepted)
                   PROVE  FateCount(accepted[i])' = FateCount(accepted[i])
      OBVIOUS
    <3>3. accepted[i] \in Records /\ (accepted[i] # r \/ res = "enqueued")
      BY <1>1, <3>1, ToSetByIndex
    <3>4. QED
      BY <2>1, <2>3, <3>3 DEF FateCount, Results
  <2>6. QueueInv'
    BY <1>2, <2>1, <2>5 DEF QueueInv, SettledCount, InHand
  <2>7. QED
    BY <2>4, <2>6 DEF CountInv
<1>5. CASE StoreSend(r)
  <2>1. /\ Goto(r, "open", "sent") /\ UNCHANGED recordsTotal
        /\ accepted' = Append(accepted, r) /\ queue' = Append(queue, r)
    BY <1>5 DEF StoreSend, Send, metrics
  <2>2. r \notin ToSet(accepted) /\ RecordInv(r)
    BY <2>1 DEF Goto, CountInv, RecordInv
  <2>3. ToSet(accepted)' = ToSet(accepted) \cup {r}
    BY <1>1, <2>1, ToSetAppend
  <2>4. ASSUME NEW q \in Records
        PROVE  RecordInv(q)'
    <3>1. RecordInv(q)
      BY DEF CountInv
    <3>2. CASE q # r
      BY <1>1, <2>1, <2>3, <3>1, <3>2 DEF RecordInv, Goto
    <3>3. CASE q = r
      BY <1>1, <2>1, <2>2, <2>3, <3>3, CountersAreNat DEF RecordInv, Goto
    <3>4. QED
      BY <3>2, <3>3
  <2>5. FateCount(r)' = 0
    BY <1>1, <2>1, <2>2, CountersAreNat DEF RecordInv, Goto, FateCount
  <2>6. /\ Len(accepted') = Len(accepted) + 1 /\ Len(queue') = Len(queue) + 1
        /\ \A i \in 1..Len(accepted) : accepted'[i] = accepted[i]
        /\ accepted'[Len(accepted) + 1] = r
        /\ \A i \in 1..Len(queue) : queue'[i] = queue[i]
        /\ queue'[Len(queue) + 1] = r
    BY <1>1, <2>1, AppendByIndex
  <2>7. \A i \in 1..Len(accepted) : accepted[i] # r
    BY <1>1, <2>2, ToSetByIndex
  <2>8. InHand' = InHand /\ InHand \in {0, 1} /\ SettledCount' = SettledCount
    BY <1>1, <1>2, <2>6 DEF SettledCount, InHand
  <2>9. QueueInv'
    <3>1. \A i, j \in 1..Len(accepted') : accepted'[i] = accepted'[j] => i = j
      BY <1>1, <2>6, <2>7 DEF QueueInv
    <3>2. \A i \in 1..Len(queue') : queue'[i] = accepted'[Len(accepted') - Len(queue') + i]
      <4>1. SUFFICES ASSUME NEW i \in 1..Len(queue')
                     PROVE  queue'[i] = accepted'[Len(accepted') - Len(queue') + i]
        OBVIOUS
      <4>2. Len(queue) <= Len(accepted)
        BY <1>1, <2>8 DEF QueueInv, SettledCount
      <4>3. CASE i = Len(queue) + 1
        BY <1>1, <2>6, <4>3
      <4>4. CASE i \in 1..Len(queue)
        <5>1. Len(queue) \in Nat /\ Len(accepted) \in Nat
          BY <1>1
        <5>2. Len(accepted) - Len(queue) + i \in 1..Len(accepted)
          BY <4>2, <4>4, <5>1
        <5>3. queue'[i] = queue[i]
          BY <2>6, <4>4
        <5>4. queue[i] = accepted[Len(accepted) - Len(queue) + i]
          BY <4>4 DEF QueueInv
        <5>5. accepted'[Len(accepted) - Len(queue) + i] = accepted[Len(accepted) - Len(queue) + i]
          BY <2>6, <5>2
        <5>6. Len(accepted') - Len(queue') = Len(accepted) - Len(queue)
          BY <2>6, <5>1
        <5>7. QED
          BY <5>3, <5>4, <5>5, <5>6
      <4>5. i = Len(queue) + 1 \/ i \in 1..Len(queue)
        <5>1. Len(queue) \in Nat
          BY <1>1
        <5>2. Len(queue') = Len(queue) + 1
          BY <2>6
        <5>3. QED
          BY <5>1, <5>2
      <4>6. QED
        BY <4>3, <4>4, <4>5
    <3>3. worker' \in Holding => job' = accepted'[Len(accepted') - Len(queue')]
      <4>1. worker' = worker /\ job' = job
        BY <1>2
      <4>2. Len(queue) \in Nat /\ Len(accepted) \in Nat
        BY <1>1
      <4>3. Len(accepted') - Len(queue') = Len(accepted) - Len(queue)
        BY <2>6, <4>2
      <4>4. ASSUME worker \in Holding
            PROVE  Len(accepted) - Len(queue) \in 1..Len(accepted)
        BY <4>2, <4>4 DEF QueueInv, SettledCount, InHand
      <4>5. QED
        BY <2>6, <4>1, <4>3, <4>4 DEF QueueInv
    <3>4. ASSUME NEW i \in 1..Len(accepted')
          PROVE  FateCount(accepted[i])' = IF i <= SettledCount' THEN 1 ELSE 0
      <4>1. CASE i = Len(accepted) + 1
        BY <1>1, <2>5, <2>6, <2>8, <4>1 DEF SettledCount
      <4>2. CASE i \in 1..Len(accepted)
        BY <1>1, <2>1, <2>6, <2>8, <4>2 DEF QueueInv, FateCount
      <4>3. QED
        BY <1>1, <2>6, <4>1, <4>2
    <3>5. QED
      BY <2>8, <3>1, <3>2, <3>3, <3>4 DEF QueueInv
  <2>10. QED
    BY <2>4, <2>9 DEF CountInv
<1>6. QED
  BY <1>3, <1>4, <1>5 DEF Store

\* Counting a fate for the next unsettled record settles it and no other.
LEMMA SettleNext ==
    ASSUME TypeOK, CountInv, QueueInv, UNCHANGED <<accepted, pc>>,
           NEW res \in {"stored", "write_error", "dropped_shutdown"},
           SettledCount + 1 <= Len(accepted),
           Observe(accepted[SettledCount + 1], res),
           SettledCount' = SettledCount + 1
    PROVE  /\ CountInv'
           /\ \A i \in 1..Len(accepted') :
                  FateCount(accepted[i])' = IF i <= SettledCount' THEN 1 ELSE 0
<1>1. /\ MetricsTypeOK /\ queue \in Seq(Records) /\ accepted \in Seq(Records)
      /\ Len(queue) \in Nat /\ Len(accepted) \in Nat
  BY DEF TypeOK, QueueTypeOK
<1>2. SettledCount \in Nat
  BY <1>1 DEF QueueInv, SettledCount, InHand
<1>3. PICK r \in Records : r = accepted[SettledCount + 1] /\ r \in ToSet(accepted)
  BY <1>1, <1>2, ToSetByIndex
<1>4. /\ \A q \in Records \ {r} : recordsTotal'[q] = recordsTotal[q]
      /\ \A other \in Results \ {res} : recordsTotal'[r][other] = recordsTotal[r][other]
      /\ recordsTotal'[r][res] = recordsTotal[r][res] + 1
  <2>1. res \in Results
    BY DEF Results
  <2>2. QED
    BY <1>1, <1>3, <2>1, ObserveEffect
<1>5. FateCount(r) = 0 /\ FateCount(r)' = 1
  <2>1. FateCount(r) = 0
    BY <1>1, <1>2, <1>3 DEF QueueInv
  <2>2. FateCount(r)' = FateCount(r) + 1
    <3>1. /\ recordsTotal[r]["stored"] \in Nat
          /\ recordsTotal[r]["write_error"] \in Nat
          /\ recordsTotal[r]["dropped_shutdown"] \in Nat
      BY <1>1, CountersAreNat
    <3>2. CASE res = "stored"
      <4>1. /\ recordsTotal'[r]["write_error"] = recordsTotal[r]["write_error"]
            /\ recordsTotal'[r]["dropped_shutdown"] = recordsTotal[r]["dropped_shutdown"]
        BY <1>4, <3>2 DEF Results
      <4>2. recordsTotal'[r]["stored"] = recordsTotal[r]["stored"] + 1
        BY <1>4, <3>2
      <4>3. QED
        BY <3>1, <4>1, <4>2 DEF FateCount
    <3>3. CASE res = "write_error"
      <4>1. /\ recordsTotal'[r]["stored"] = recordsTotal[r]["stored"]
            /\ recordsTotal'[r]["dropped_shutdown"] = recordsTotal[r]["dropped_shutdown"]
        BY <1>4, <3>3 DEF Results
      <4>2. recordsTotal'[r]["write_error"] = recordsTotal[r]["write_error"] + 1
        BY <1>4, <3>3
      <4>3. QED
        BY <3>1, <4>1, <4>2 DEF FateCount
    <3>4. CASE res = "dropped_shutdown"
      <4>1. /\ recordsTotal'[r]["stored"] = recordsTotal[r]["stored"]
            /\ recordsTotal'[r]["write_error"] = recordsTotal[r]["write_error"]
        BY <1>4, <3>4 DEF Results
      <4>2. recordsTotal'[r]["dropped_shutdown"] = recordsTotal[r]["dropped_shutdown"] + 1
        BY <1>4, <3>4
      <4>3. QED
        BY <3>1, <4>1, <4>2 DEF FateCount
    <3>5. QED
      BY <3>2, <3>3, <3>4
  <2>3. QED
    BY <2>1, <2>2
<1>6. ASSUME NEW q \in Records
      PROVE  RecordInv(q)'
  <2>1. RecordInv(q)
    BY DEF CountInv
  <2>2. recordsTotal'[r]["enqueued"] = recordsTotal[r]["enqueued"]
        /\ recordsTotal'[r]["dropped_queue_full"] = recordsTotal[r]["dropped_queue_full"]
    BY <1>4 DEF Results
  <2>3. CASE q # r
    BY <1>4, <2>1, <2>3 DEF RecordInv
  <2>4. CASE q = r
    BY <1>3, <2>1, <2>2, <2>4 DEF RecordInv
  <2>5. QED
    BY <2>3, <2>4
<1>7. ASSUME NEW i \in 1..Len(accepted)
      PROVE  FateCount(accepted[i])' = IF i <= SettledCount + 1 THEN 1 ELSE 0
  <2>1. CASE i = SettledCount + 1
    BY <1>2, <1>3, <1>5, <2>1
  <2>2. CASE i # SettledCount + 1
    <3>1. accepted[i] \in Records \ {r}
      BY <1>1, <1>2, <1>3, <2>2 DEF QueueInv
    <3>2. FateCount(accepted[i])' = FateCount(accepted[i])
      BY <1>4, <3>1 DEF FateCount
    <3>3. QED
      BY <1>1, <1>2, <2>2, <3>2 DEF QueueInv
  <2>3. QED
    BY <2>1, <2>2
<1>8. QED
  BY <1>6, <1>7 DEF CountInv

\* The steps of the worker keep the bookkeeping of records.
LEMMA WorkerCounts ==
    ASSUME TypeOK, CountInv, QueueInv, Worker
    PROVE  CountInv' /\ QueueInv'
<1>1. /\ queue \in Seq(Records) /\ accepted \in Seq(Records)
      /\ Len(queue) \in Nat /\ Len(accepted) \in Nat
      /\ InHand \in {0, 1} /\ SettledCount \in Nat
  BY DEF TypeOK, QueueTypeOK, QueueInv, SettledCount, InHand
<1>2. pc' = pc /\ accepted' = accepted
  BY DEF Worker, WorkerCheckStop, CheckStop, WorkerReceive, WorkerMeasure, WorkerSetDepth,
         WorkerWrite, WorkerCount, WorkerDrop, WorkerLeave, storeVars, histories
<1>3. CASE WorkerCheckStop \/ WorkerMeasure \/ WorkerSetDepth \/ WorkerWrite \/ WorkerLeave
  <2>1. UNCHANGED <<queue, recordsTotal, job>>
    BY <1>3 DEF WorkerCheckStop, CheckStop, WorkerMeasure, WorkerSetDepth, WorkerWrite,
                WorkerLeave, metrics
  <2>2. worker' \in Holding <=> worker \in Holding
    BY <1>3 DEF WorkerCheckStop, CheckStop, WorkerMeasure, WorkerSetDepth, WorkerWrite,
                WorkerLeave, WorkerMove, Holding
  <2>3. CountInv'
    BY <1>2, <2>1 DEF CountInv, RecordInv
  <2>4. QueueInv'
    BY <1>2, <2>1, <2>2 DEF QueueInv, SettledCount, InHand, FateCount
  <2>5. QED
    BY <2>3, <2>4
<1>4. CASE WorkerReceive
  <2>1. /\ queue # <<>> /\ job' = Head(queue) /\ queue' = Tail(queue)
        /\ UNCHANGED recordsTotal
        /\ worker \notin Holding /\ worker' \in Holding
    BY <1>4 DEF WorkerReceive, WorkerMove, Holding, metrics
  <2>2. CountInv'
    BY <1>2, <2>1 DEF CountInv, RecordInv
  <2>3. /\ Len(queue') = Len(queue) - 1 /\ Len(queue) >= 1
        /\ \A i \in 1..(Len(queue) - 1) : queue'[i] = queue[i + 1]
        /\ job' = queue[1]
    BY <1>1, <2>1, TailByIndex
  <2>4. InHand = 0 /\ InHand' = 1 /\ SettledCount' = SettledCount
    BY <1>1, <1>2, <2>1, <2>3 DEF InHand, SettledCount
  <2>5. job' = accepted'[Len(accepted') - Len(queue')]
    BY <1>1, <1>2, <2>3 DEF QueueInv
  <2>6. \A i \in 1..Len(queue') : queue'[i] = accepted'[Len(accepted') - Len(queue') + i]
    BY <1>1, <1>2, <2>3 DEF QueueInv
  <2>7. QueueInv'
    BY <1>2, <2>1, <2>4, <2>5, <2>6 DEF QueueInv, FateCount
  <2>8. QED
    BY <2>2, <2>7
<1>5. CASE WorkerCount
  <2>1. /\ worker \in Holding /\ worker' \notin Holding /\ queue' = queue
        /\ Observe(job, "stored") \/ Observe(job, "write_error")
    BY <1>5 DEF WorkerCount, CountStored, CountError, WorkerMove, Holding
  <2>2. InHand = 1 /\ InHand' = 0 /\ SettledCount' = SettledCount + 1
    BY <1>1, <1>2, <2>1 DEF InHand, SettledCount
  <2>3. job = accepted[SettledCount + 1] /\ SettledCount + 1 <= Len(accepted)
    BY <1>1, <2>1, <2>2 DEF QueueInv, SettledCount
  <2>4. /\ CountInv'
        /\ \A i \in 1..Len(accepted') :
               FateCount(accepted[i])' = IF i <= SettledCount' THEN 1 ELSE 0
    BY <1>2, <2>1, <2>2, <2>3, SettleNext
  <2>5. QED
    BY <1>1, <1>2, <2>1, <2>2, <2>4 DEF QueueInv
<1>6. CASE WorkerDrop
  <2>1. /\ worker \notin Holding /\ worker' \notin Holding
        /\ queue # <<>> /\ queue' = Tail(queue)
        /\ Observe(Head(queue), "dropped_shutdown")
    BY <1>6 DEF WorkerDrop, WorkerMove, Holding
  <2>2. /\ Len(queue') = Len(queue) - 1 /\ Len(queue) >= 1
        /\ \A i \in 1..(Len(queue) - 1) : queue'[i] = queue[i + 1]
        /\ Head(queue) = queue[1]
    BY <1>1, <2>1, TailByIndex
  <2>3. InHand = 0 /\ InHand' = 0 /\ SettledCount' = SettledCount + 1
    BY <1>1, <1>2, <2>1, <2>2 DEF InHand, SettledCount
  <2>4. Head(queue) = accepted[SettledCount + 1] /\ SettledCount + 1 <= Len(accepted)
    BY <1>1, <2>2, <2>3 DEF QueueInv, SettledCount
  <2>5. /\ CountInv'
        /\ \A i \in 1..Len(accepted') :
               FateCount(accepted[i])' = IF i <= SettledCount' THEN 1 ELSE 0
    BY <1>2, <2>1, <2>3, <2>4, SettleNext
  <2>6. \A i \in 1..Len(queue') : queue'[i] = accepted'[Len(accepted') - Len(queue') + i]
    BY <1>1, <1>2, <2>2 DEF QueueInv
  <2>7. QED
    BY <1>1, <1>2, <2>1, <2>3, <2>5, <2>6 DEF QueueInv
<1>7. QED
  BY <1>3, <1>4, <1>5, <1>6 DEF Worker

\* The inductive invariant holds in every state.
LEMMA InductiveInvariant == Spec => []IInv
<1>1. Init => CountInv /\ QueueInv
  <2>1. ASSUME Init PROVE CountInv
    BY <2>1 DEF Init, CountInv, RecordInv, ToSet, Results
  <2>2. ASSUME Init PROVE QueueInv
    BY <2>2 DEF Init, QueueInv, SettledCount, InHand, Holding
  <2>3. QED
    BY <2>1, <2>2
<1>2. TypeOK /\ CountInv /\ QueueInv /\ [Next]_vars => CountInv' /\ QueueInv'
  <2>1. ASSUME UNCHANGED <<queue, accepted, recordsTotal, pc, worker, job>>, CountInv, QueueInv
        PROVE  CountInv' /\ QueueInv'
    BY <2>1 DEF CountInv, RecordInv, QueueInv, SettledCount, InHand, FateCount
  <2>2. Close \/ UNCHANGED vars => UNCHANGED <<queue, accepted, recordsTotal, pc, worker, job>>
    BY DEF Close, CloseLock, CloseMark, CloseQueue, CloseTimeout, CloseJoin, CloseMove,
           Unlock, Join, vars, storeVars, workerVars, histories, metrics
  <2>3. QED
    BY <2>1, <2>2, StoreCounts, WorkerCounts DEF Next, Terminated
<1>3. QED
  BY <1>1, <1>2, ShutdownInvariant, PTL DEF Spec, IInv

\* Every record meets at most one fate, whatever the interleaving.
THEOREM RecordsMeetOneFate == Spec => []AtMostOneFate
<1>1. ASSUME IInv, NEW r \in Records, r \in ToSet(accepted)
      PROVE  FateCount(r) \in {0, 1} /\ recordsTotal[r]["dropped_queue_full"] = 0
  <2>1. PICK i \in 1..Len(accepted) : accepted[i] = r
    BY <1>1, ToSetByIndex DEF IInv, TypeOK, QueueTypeOK
  <2>2. QED
    BY <1>1, <2>1 DEF IInv, QueueInv, CountInv, RecordInv
<1>2. ASSUME IInv PROVE AtMostOneFate
  <2>1. SUFFICES ASSUME NEW r \in Records
                 PROVE  /\ \A res \in Results : recordsTotal[r][res] <= 1
                        /\ \A f, g \in Fates : Counted(r, f) /\ Counted(r, g) => f = g
                        /\ Counted(r, "enqueued") \/ Counted(r, "stored") \/ Counted(r, "write_error")
                             => r \in ToSet(accepted) /\ ~Counted(r, "dropped_queue_full")
    BY DEF AtMostOneFate
  <2>2. RecordInv(r) /\ MetricsTypeOK
    BY <1>2 DEF IInv, CountInv, TypeOK
  <2>3. CASE r \in ToSet(accepted)
    <3>1. FateCount(r) \in {0, 1}
      BY <1>1, <1>2, <2>3
    <3>2. recordsTotal[r]["dropped_queue_full"] = 0 /\ recordsTotal[r]["enqueued"] \in {0, 1}
      BY <2>2, <2>3 DEF RecordInv
    <3>3. QED
      BY <2>2, <2>3, <3>1, <3>2, CountersAreNat DEF FateCount, Results, Fates, Counted
  <2>4. CASE r \notin ToSet(accepted)
    BY <2>2, <2>4, CountersAreNat DEF RecordInv, Results, Fates, Counted
  <2>5. QED
    BY <2>3, <2>4
<1>3. QED
  BY <1>2, InductiveInvariant, PTL

\* After Close every record that was handed in is accounted for.
THEOREM NoRecordIsLost == Spec => []NoRecordLost
<1>1. ASSUME IInv, closer = "returned", NEW r \in Records, pc[r] = "done"
      PROVE  /\ \E f \in Fates : Counted(r, f)
             /\ Counted(r, "enqueued") <=> r \in ToSet(accepted)
  <2>1. RecordInv(r) /\ MetricsTypeOK /\ accepted \in Seq(Records)
    BY <1>1 DEF IInv, CountInv, TypeOK, QueueTypeOK
  <2>2. Counted(r, "enqueued") <=> r \in ToSet(accepted)
    BY <1>1, <2>1 DEF RecordInv, Counted
  <2>3. CASE r \in ToSet(accepted)
    <3>1. queue = <<>> /\ InHand = 0
      BY <1>1 DEF IInv, StopInv, InHand, Holding
    <3>2. SettledCount = Len(accepted)
      BY <2>1, <3>1 DEF SettledCount
    <3>3. PICK i \in 1..Len(accepted) : accepted[i] = r
      BY <2>1, <2>3, ToSetByIndex
    <3>4. FateCount(r) = 1
      BY <1>1, <3>2, <3>3 DEF IInv, QueueInv
    <3>5. QED
      BY <2>1, <2>2, <3>4, CountersAreNat DEF FateCount, Counted, Fates, Results
  <2>4. CASE r \notin ToSet(accepted)
    BY <1>1, <2>1, <2>2, <2>4, CountersAreNat DEF RecordInv, Counted, Fates, Results
  <2>5. QED
    BY <2>3, <2>4
<1>2. IInv => NoRecordLost
  <2>1. IInv => QuietAfterClose
    BY StoppedIsQuiet DEF IInv
  <2>2. QED
    BY <1>1, <2>1 DEF NoRecordLost
<1>3. QED
  BY <1>2, InductiveInvariant, PTL

-----------------------------------------------------------------------------
(* The gauge after Close. *)

\* A Store that is about to set the gauge without the lock was counted.
LateSetterCounted ==
    \A r \in Records : pc[r] = "fullMeasured" => Counted(r, "dropped_queue_full")

\* Results are only counted up.
LEMMA CountsGrow ==
    ASSUME TypeOK, Next, NEW r \in Records, NEW res \in Results, Counted(r, res)
    PROVE  Counted(r, res)'
<1>1. recordsTotal \in [Records -> [Results -> Nat]] /\ job \in Records \cup {NoJob}
  BY DEF TypeOK, MetricsTypeOK, WorkerTypeOK
<1>2. CASE recordsTotal' = recordsTotal
  BY <1>2 DEF Counted
<1>3. CASE \E q \in Records \cup {NoJob}, f \in Results : Observe(q, f)
  BY <1>1, <1>3 DEF Observe, Counted
<1>4. \/ recordsTotal' = recordsTotal
      \/ \E q \in Records \cup {NoJob}, f \in Results : Observe(q, f)
  <2>1. CASE \E q \in Records : Store(q)
    BY <2>1 DEF Store, StoreCall, StoreRLock, StoreCheckClosed, StoreMove, StoreRejected,
         StoreSend, Send, StoreQueueFull, StoreCount, StoreSetDepth, metrics, Results
  <2>2. CASE Worker
    <3>1. CASE WorkerDrop
      <4>1. Head(queue) \in Records
        BY <3>1 DEF TypeOK, QueueTypeOK, WorkerDrop
      <4>2. QED
        BY <3>1, <4>1 DEF WorkerDrop, Results
    <3>2. CASE WorkerCount
      BY <1>1, <3>2 DEF WorkerCount, CountStored, CountError, Results
    <3>3. CASE ~(WorkerDrop \/ WorkerCount)
      BY <2>2, <3>3 DEF Worker, WorkerCheckStop, CheckStop, WorkerReceive, WorkerMeasure,
           WorkerSetDepth, WorkerWrite, WorkerLeave, metrics
    <3>4. QED
      BY <3>1, <3>2, <3>3
  <2>3. CASE Close
    BY <2>3 DEF Close, CloseLock, CloseMark, CloseQueue, CloseTimeout, CloseJoin, CloseMove,
         Unlock, Join
  <2>4. CASE Terminated
    BY <2>4 DEF Terminated, vars
  <2>5. QED
    BY <2>1, <2>2, <2>3, <2>4 DEF Next
<1>5. QED
  BY <1>2, <1>3, <1>4

\* Close leaves the gauge at 0, and after it only a Store that found the queue
\* full can set it: the worker has left, and no other Store is that far.
THEOREM DepthIsZeroAfterShutdown == Spec => []DepthZeroAfterShutdown
<1> DEFINE DepthInv == LateSetterCounted /\ DepthZeroAfterShutdown
<1>1. Init => DepthInv
  BY DEF Init, LateSetterCounted, DepthZeroAfterShutdown
<1>2. ASSUME TypeOK, LockInv, StopInv, DepthInv, [Next]_vars PROVE DepthInv'
  <2>1. CASE UNCHANGED vars
    BY <1>2, <2>1 DEF vars, storeVars, closeVars, LateSetterCounted, DepthZeroAfterShutdown, Counted
  <2>2. ASSUME Next PROVE LateSetterCounted'
    <3>1. SUFFICES ASSUME NEW r \in Records, pc'[r] = "fullMeasured"
                   PROVE  Counted(r, "dropped_queue_full")'
      BY DEF LateSetterCounted
    <3>2. CASE pc[r] = "fullMeasured"
      BY <1>2, <2>2, <3>2, CountsGrow DEF LateSetterCounted, Results
    <3>3. CASE pc[r] # "fullMeasured"
      <4>1. Goto(r, "full", "fullMeasured") /\ Observe(r, "dropped_queue_full")
        BY <1>2, <2>2, <3>1, <3>3 DEF TypeOK, StoreTypeOK, Next, Store, StoreCall, StoreRLock,
             StoreCheckClosed, StoreMove, StoreRejected, StoreSend, Send, StoreQueueFull,
             StoreCount, StoreSetDepth, Goto, Worker, WorkerCheckStop, CheckStop, WorkerReceive,
             WorkerMeasure, WorkerSetDepth, WorkerWrite, WorkerCount, WorkerDrop, WorkerLeave,
             Close, CloseLock, CloseMark, CloseQueue, CloseTimeout, CloseJoin, CloseMove,
             Unlock, Join, Terminated, vars, storeVars
      <4>2. QED
        BY <1>2, <4>1 DEF TypeOK, MetricsTypeOK, Observe, Counted, Results
    <3>4. QED
      BY <3>2, <3>3
  <2>3. ASSUME Next PROVE DepthZeroAfterShutdown'
    <3>1. CASE gauge' = gauge /\ closer' = closer
      BY <1>2, <2>3, <3>1, CountsGrow DEF DepthZeroAfterShutdown, Results
    <3>2. CASE gauge' = 0
      BY <3>2 DEF DepthZeroAfterShutdown
    <3>3. CASE closer' # "returned"
      BY <3>3 DEF DepthZeroAfterShutdown
    <3>4. ASSUME NEW r \in Records, StoreSetDepth(r), closer' = "returned"
          PROVE  DepthZeroAfterShutdown'
      <4>1. closer = "returned" /\ pc[r] = "fullMeasured"
        BY <1>2, <3>4 DEF StoreSetDepth, closeVars, Goto, LockInv
      <4>2. Counted(r, "dropped_queue_full")'
        BY <1>2, <2>3, <4>1, CountsGrow DEF LateSetterCounted, Results
      <4>3. QED
        BY <4>2 DEF DepthZeroAfterShutdown
    <3>5. ASSUME NEW r \in Records, Store(r), ~StoreSetDepth(r)
          PROVE  gauge' = gauge /\ closer' = closer
      BY <3>5 DEF Store, StoreCall, StoreRLock, StoreCheckClosed, StoreMove, StoreRejected,
           StoreSend, Send, StoreQueueFull, StoreCount, metrics, closeVars
    <3>6. ASSUME Worker, closer' = "returned" PROVE gauge' = gauge /\ closer' = closer
      <4>1. closer = "returned"
        BY <3>6 DEF Worker, WorkerCheckStop, CheckStop, WorkerReceive, WorkerMeasure,
             WorkerSetDepth, WorkerWrite, WorkerCount, WorkerDrop, WorkerLeave, closeVars
      <4>2. worker = "done"
        BY <1>2, <4>1 DEF StopInv
      <4>3. QED
        BY <3>6, <4>2 DEF Worker, WorkerCheckStop, CheckStop, WorkerReceive, WorkerMeasure,
             WorkerSetDepth, WorkerWrite, WorkerCount, CountStored, CountError, WorkerDrop,
             WorkerLeave, WorkerMove
    <3>7. ASSUME Close PROVE gauge' = 0 \/ closer' # "returned"
      BY <3>7 DEF Close, CloseLock, CloseMark, CloseQueue, CloseTimeout, CloseJoin, CloseMove,
           Unlock, Join
    <3>8. CASE Terminated
      BY <3>1, <3>8 DEF Terminated, vars, closeVars
    <3>9. QED
      BY <2>3, <3>1, <3>2, <3>3, <3>4, <3>5, <3>6, <3>7, <3>8 DEF Next
  <2>4. QED
    BY <1>2, <2>1, <2>2, <2>3
<1>3. QED
  BY <1>1, <1>2, ShutdownInvariant, PTL DEF Spec

-----------------------------------------------------------------------------
(* Sequences of outcomes, and the outcome that the counters of a record give. *)

\* A function on 1..n is a sequence of length n.
LEMMA FunctionIsSeq ==
    ASSUME NEW S, NEW n \in Nat, NEW f \in [1..n -> S]
    PROVE  f \in Seq(S) /\ Len(f) = n
<1>1. f \in Seq(S)
  BY SeqDef
<1>2. QED
  BY <1>1, LenProperties

\* Appending to such a sequence, by index.
LEMMA AppendToFunction ==
    ASSUME NEW S, NEW n \in Nat, NEW f \in [1..n -> S], NEW x \in S,
           NEW g \in [1..(n + 1) -> S],
           \A i \in 1..n : g[i] = f[i], g[n + 1] = x
    PROVE  g = Append(f, x)
<1>1. f \in Seq(S) /\ Len(f) = n /\ g \in Seq(S) /\ Len(g) = n + 1
  BY FunctionIsSeq
<1> DEFINE h == Append(f, x)
<1>2. h \in Seq(S) /\ Len(h) = n + 1 /\ \A i \in 1..n : h[i] = f[i]
  BY <1>1, AppendByIndex
<1>3. h[n + 1] = x
  BY <1>1, AppendByIndex
<1> HIDE DEF h
<1>4. \A i \in 1..(n + 1) : g[i] = h[i]
  BY <1>2, <1>3
<1>5. g = h
  BY <1>1, <1>2, <1>4, SeqEqual
<1>6. QED
  BY <1>5 DEF h

\* Two such functions that agree are the same.
LEMMA SameFunction ==
    ASSUME NEW S, NEW n \in Nat, NEW f \in [1..n -> S], NEW g \in [1..n -> S],
           \A i \in 1..n : f[i] = g[i]
    PROVE  f = g
  BY FunctionIsSeq, SeqEqual

AcceptedFates == Fates \ {"dropped_queue_full"}

\* Of counters that hold one fate of an accepted record, CHOOSE finds that one.
LEMMA ChosenFate ==
    ASSUME NEW counts \in [Results -> Nat],
           counts["stored"] + counts["write_error"] + counts["dropped_shutdown"] = 1,
           counts["dropped_queue_full"] = 0
    PROVE  LET fate == CHOOSE f \in Fates : counts[f] > 0
           IN  /\ fate \in AcceptedFates /\ counts[fate] > 0
               /\ \A f \in AcceptedFates : counts[f] > 0 => f = fate
<1> DEFINE fate == CHOOSE f \in Fates : counts[f] > 0
<1>1. /\ counts["stored"] \in Nat /\ counts["write_error"] \in Nat
      /\ counts["dropped_shutdown"] \in Nat
  BY DEF Results
<1>2. \E f \in Fates : counts[f] > 0
  BY <1>1 DEF Fates, Results
<1>3. fate \in Fates /\ counts[fate] > 0
  BY <1>2
<1> HIDE DEF fate
<1>4. fate # "dropped_queue_full"
  BY <1>3
<1>5. \A f, g \in AcceptedFates : counts[f] > 0 /\ counts[g] > 0 => f = g
  BY <1>1 DEF AcceptedFates, Fates, Results
<1>6. QED
  BY <1>3, <1>4, <1>5 DEF AcceptedFates, fate

-----------------------------------------------------------------------------
(* What AuditQueue sees. *)

OutcomesSeen == [i \in 1..SettledCount |-> Fate(accepted[i])]

PhaseSeen == IF closer = "returned" THEN "closed" ELSE IF "repo" \in shut THEN "closing" ELSE "open"

\* The queues and the counters of the accepted records, of which the first
\* SettledCount have met their fate.
LEMMA SettledFacts ==
    ASSUME IInv
    PROVE  /\ accepted \in Seq(Records) /\ queue \in Seq(Records)
           /\ Len(accepted) \in Nat /\ Len(queue) \in Nat /\ InHand \in {0, 1}
           /\ SettledCount \in 0..Len(accepted)
           /\ \A i \in 1..SettledCount :
                  /\ accepted[i] \in Records
                  /\ recordsTotal[accepted[i]] \in [Results -> Nat]
                  /\ recordsTotal[accepted[i]]["stored"] + recordsTotal[accepted[i]]["write_error"]
                         + recordsTotal[accepted[i]]["dropped_shutdown"] = 1
                  /\ recordsTotal[accepted[i]]["dropped_queue_full"] = 0
<1>1. /\ accepted \in Seq(Records) /\ queue \in Seq(Records)
      /\ Len(accepted) \in Nat /\ Len(queue) \in Nat /\ InHand \in {0, 1}
  BY DEF IInv, TypeOK, QueueTypeOK, InHand
<1>2. SettledCount \in 0..Len(accepted)
  BY <1>1 DEF IInv, QueueInv, SettledCount
<1>3. ASSUME NEW i \in 1..SettledCount
      PROVE  /\ accepted[i] \in Records
             /\ recordsTotal[accepted[i]] \in [Results -> Nat]
             /\ recordsTotal[accepted[i]]["stored"] + recordsTotal[accepted[i]]["write_error"]
                    + recordsTotal[accepted[i]]["dropped_shutdown"] = 1
             /\ recordsTotal[accepted[i]]["dropped_queue_full"] = 0
  <2>1. i \in 1..Len(accepted) /\ i <= SettledCount
    BY <1>1, <1>2
  <2>2. accepted[i] \in Records /\ accepted[i] \in ToSet(accepted)
    BY <1>1, <2>1, ToSetByIndex
  <2>3. FateCount(accepted[i]) = 1
    BY <2>1 DEF IInv, QueueInv
  <2>4. RecordInv(accepted[i])
    BY <2>2 DEF IInv, CountInv
  <2>5. QED
    BY <2>2, <2>3, <2>4 DEF IInv, TypeOK, MetricsTypeOK, FateCount, RecordInv
<1>4. QED
  BY <1>1, <1>2, <1>3

\* The outcome seen for a settled record is the one fate counted for it.
SeenInv ==
    /\ OutcomesSeen \in [1..SettledCount -> AcceptedFates]
    /\ \A i \in 1..SettledCount :
           /\ Counted(accepted[i], OutcomesSeen[i])
           /\ \A f \in AcceptedFates : Counted(accepted[i], f) => OutcomesSeen[i] = f

\* What AuditQueue sees is what the counters say.
LEMMA SeenIsCounted == IInv => SeenInv
<1>1. SUFFICES ASSUME IInv PROVE SeenInv
  OBVIOUS
<1>2. ASSUME NEW i \in 1..SettledCount
      PROVE  /\ Fate(accepted[i]) \in AcceptedFates
             /\ Counted(accepted[i], Fate(accepted[i]))
             /\ \A f \in AcceptedFates : Counted(accepted[i], f) => Fate(accepted[i]) = f
  <2> DEFINE counts == recordsTotal[accepted[i]]
  <2>1. /\ counts \in [Results -> Nat] /\ counts["dropped_queue_full"] = 0
        /\ counts["stored"] + counts["write_error"] + counts["dropped_shutdown"] = 1
    BY <1>1, SettledFacts
  <2>2. Fate(accepted[i]) = CHOOSE f \in Fates : counts[f] > 0
    BY DEF Fate, Counted
  <2>3. \A f \in AcceptedFates : Counted(accepted[i], f) <=> counts[f] > 0
    BY DEF Counted
  <2> HIDE DEF counts
  <2>4. QED
    BY <2>1, <2>2, <2>3, ChosenFate
<1>3. QED
  BY <1>2 DEF SeenInv, OutcomesSeen

\* The outcome of a settled record does not change.
LEMMA SeenStays ==
    ASSUME IInv, SeenInv, SeenInv', Next, NEW i \in 1..SettledCount, i \in 1..SettledCount',
           accepted'[i] = accepted[i]
    PROVE  OutcomesSeen'[i] = OutcomesSeen[i]
<1>1. /\ accepted[i] \in Records /\ OutcomesSeen[i] \in AcceptedFates
      /\ Counted(accepted[i], OutcomesSeen[i])
  BY SettledFacts DEF SeenInv
<1>2. recordsTotal'[accepted[i]][OutcomesSeen[i]] > 0
  <2> DEFINE r == accepted[i]
             f == OutcomesSeen[i]
  <2>1. r \in Records /\ f \in Results /\ Counted(r, f) /\ TypeOK
    BY <1>1 DEF AcceptedFates, Fates, IInv
  <2> HIDE DEF r, f
  <2>2. recordsTotal'[r][f] > 0
    BY <2>1, CountsGrow DEF Counted
  <2>3. QED
    BY <2>2 DEF r, f
<1>3. \A f \in AcceptedFates : recordsTotal'[accepted[i]][f] > 0 => OutcomesSeen'[i] = f
  BY DEF SeenInv, Counted
<1>4. QED
  BY <1>1, <1>2, <1>3

-----------------------------------------------------------------------------
(* Records are given up only at the end. *)

\* Once a record has been given up, the worker only gives up others.
GaveUpInv ==
    \A i \in 1..SettledCount :
        Counted(accepted[i], "dropped_shutdown") =>
            worker \in {"drain", "dropped", "dropMeasured", "done"}

\* A step of Store appends at most one record, and settles none that the
\* channel took.
LEMMA StoreSettlesNothing ==
    ASSUME IInv, NEW r \in Records, Store(r)
    PROVE  /\ SettledCount' = SettledCount /\ worker' = worker
           /\ \A i \in 1..SettledCount :
                  /\ accepted'[i] = accepted[i]
                  /\ Counted(accepted[i], "dropped_shutdown")' => Counted(accepted[i], "dropped_shutdown")
           /\ \/ accepted' = accepted
              \/ StoreSend(r)
<1>1. /\ accepted \in Seq(Records) /\ queue \in Seq(Records)
      /\ Len(accepted) \in Nat /\ Len(queue) \in Nat /\ InHand \in {0, 1}
      /\ SettledCount \in 0..Len(accepted)
  BY SettledFacts
<1>2. worker' = worker /\ InHand' = InHand
  BY DEF Store, StoreCall, StoreRLock, StoreCheckClosed, StoreRejected, StoreSend,
         StoreQueueFull, StoreCount, StoreSetDepth, StoreMove, Send, workerVars, InHand
<1>3. CASE StoreSend(r)
  <2>1. accepted' = Append(accepted, r) /\ queue' = Append(queue, r)
        /\ UNCHANGED recordsTotal
    BY <1>3 DEF StoreSend, Send, metrics
  <2>2. /\ Len(accepted') = Len(accepted) + 1 /\ Len(queue') = Len(queue) + 1
        /\ \A i \in 1..Len(accepted) : accepted'[i] = accepted[i]
    BY <1>1, <2>1, AppendByIndex
  <2>3. QED
    BY <1>1, <1>2, <1>3, <2>1, <2>2 DEF SettledCount, Counted
<1>4. CASE ~StoreSend(r)
  <2>1. accepted' = accepted /\ queue' = queue
    BY <1>4 DEF Store, StoreCall, StoreRLock, StoreCheckClosed, StoreRejected,
         StoreQueueFull, StoreCount, StoreSetDepth, StoreMove, histories
  <2>2. ASSUME NEW i \in 1..SettledCount, recordsTotal'[accepted[i]]["dropped_shutdown"] > 0
        PROVE  recordsTotal[accepted[i]]["dropped_shutdown"] > 0
    <3>1. CASE StoreRejected(r)
      <4>1. i \in 1..Len(accepted)
        BY <1>1
      <4>2. accepted[i] \in Records /\ accepted[i] \in ToSet(accepted)
        BY <1>1, <4>1, ToSetByIndex
      <4>3. accepted[i] # r
        BY <3>1, <4>2 DEF IInv, CountInv, RecordInv, StoreRejected, Goto
      <4>4. MetricsTypeOK /\ Observe(r, "dropped_shutdown")
        BY <3>1 DEF IInv, TypeOK, StoreRejected
      <4>5. recordsTotal'[accepted[i]] = recordsTotal[accepted[i]]
        BY <4>2, <4>3, <4>4, ObserveEffect DEF Results
      <4>6. QED
        BY <2>2, <4>5
    <3>2. CASE StoreCount(r)
      <4>1. MetricsTypeOK /\ accepted[i] \in Records
        BY SettledFacts DEF IInv, TypeOK
      <4>2. PICK res \in Results \ {"dropped_shutdown"} : Observe(r, res)
        BY <3>2 DEF StoreCount, Results
      <4>3. recordsTotal'[accepted[i]]["dropped_shutdown"] = recordsTotal[accepted[i]]["dropped_shutdown"]
        BY <4>1, <4>2, ObserveEffect DEF Results
      <4>4. QED
        BY <2>2, <4>3
    <3>3. CASE ~StoreRejected(r) /\ ~StoreCount(r)
      BY <1>4, <2>2, <3>3 DEF Store, StoreCall, StoreRLock, StoreCheckClosed,
         StoreQueueFull, StoreSetDepth, StoreMove, metrics
    <3>4. QED
      BY <3>1, <3>2, <3>3
  <2>3. QED
    BY <1>1, <1>2, <2>1, <2>2 DEF SettledCount, Counted
<1>5. QED
  BY <1>3, <1>4

\* The steps of the worker that settle a record settle the next one, and the
\* others settle none.
LEMMA WorkerSettlesNext ==
    ASSUME IInv, Worker
    PROVE  /\ accepted' = accepted
           /\ SettledCount' = IF WorkerCount \/ WorkerDrop THEN SettledCount + 1 ELSE SettledCount
           /\ ~(WorkerCount \/ WorkerDrop) => recordsTotal' = recordsTotal
           /\ SettledCount' <= Len(accepted)
<1>1. /\ accepted \in Seq(Records) /\ queue \in Seq(Records)
      /\ Len(accepted) \in Nat /\ Len(queue) \in Nat /\ InHand \in {0, 1}
      /\ SettledCount \in 0..Len(accepted)
  BY SettledFacts
<1>2. accepted' = accepted
  BY DEF Worker, WorkerCheckStop, CheckStop, WorkerReceive, WorkerMeasure, WorkerSetDepth,
         WorkerWrite, WorkerCount, WorkerDrop, WorkerLeave, histories
<1>3. CASE WorkerCheckStop \/ WorkerMeasure \/ WorkerSetDepth \/ WorkerWrite \/ WorkerLeave
  <2>1. UNCHANGED <<queue, recordsTotal>> /\ ~WorkerCount /\ ~WorkerDrop
    BY <1>3 DEF WorkerCheckStop, CheckStop, WorkerMeasure, WorkerSetDepth, WorkerWrite,
         WorkerLeave, WorkerCount, CountStored, CountError, WorkerDrop, WorkerMove, metrics
  <2>2. worker' \in Holding <=> worker \in Holding
    BY <1>3 DEF WorkerCheckStop, CheckStop, WorkerMeasure, WorkerSetDepth, WorkerWrite,
                WorkerLeave, WorkerMove, Holding
  <2>3. SettledCount' = SettledCount
    BY <1>2, <2>1, <2>2 DEF SettledCount, InHand
  <2>4. QED
    BY <1>1, <1>2, <2>1, <2>3
<1>4. CASE WorkerReceive
  <2>1. /\ queue # <<>> /\ queue' = Tail(queue) /\ UNCHANGED recordsTotal
        /\ worker \notin Holding /\ worker' \in Holding /\ ~WorkerCount /\ ~WorkerDrop
    BY <1>4 DEF WorkerReceive, WorkerCount, CountStored, CountError, WorkerDrop, WorkerMove,
                Holding, metrics
  <2>2. Len(queue') = Len(queue) - 1 /\ Len(queue) >= 1
    BY <1>1, <2>1, TailByIndex
  <2>3. InHand = 0 /\ InHand' = 1
    BY <2>1 DEF InHand
  <2>4. SettledCount' = SettledCount
    BY <1>1, <1>2, <2>2, <2>3 DEF SettledCount
  <2>5. QED
    BY <1>1, <1>2, <2>1, <2>4
<1>5. CASE WorkerCount
  <2>1. worker \in Holding /\ worker' \notin Holding /\ queue' = queue
    BY <1>5 DEF WorkerCount, CountStored, CountError, WorkerMove, Holding
  <2>2. QED
    BY <1>1, <1>2, <1>5, <2>1 DEF SettledCount, InHand
<1>6. CASE WorkerDrop
  <2>1. worker \notin Holding /\ worker' \notin Holding /\ queue # <<>> /\ queue' = Tail(queue)
    BY <1>6 DEF WorkerDrop, WorkerMove, Holding
  <2>2. Len(queue') = Len(queue) - 1 /\ Len(queue) >= 1
    BY <1>1, <2>1, TailByIndex
  <2>3. QED
    BY <1>1, <1>2, <1>6, <2>1, <2>2 DEF SettledCount, InHand
<1>7. QED
  BY <1>3, <1>4, <1>5, <1>6 DEF Worker

\* The steps of Close settle nothing.
LEMMA CloseSettlesNothing ==
    ASSUME Close \/ UNCHANGED vars
    PROVE  UNCHANGED <<accepted, worker, recordsTotal>> /\ SettledCount' = SettledCount
<1>1. UNCHANGED <<accepted, queue, worker, recordsTotal>>
  BY DEF Close, CloseLock, CloseMark, CloseQueue, CloseTimeout, CloseJoin, CloseMove,
         Unlock, Join, vars, storeVars, workerVars, histories, metrics
<1>2. QED
  BY <1>1 DEF SettledCount, InHand

\* Every step keeps GaveUpInv.
LEMMA GaveUpStep ==
    ASSUME IInv, IInv', GaveUpInv, [Next]_vars
    PROVE  GaveUpInv'
<1> DEFINE GivingUp == {"drain", "dropped", "dropMeasured", "done"}
<1>1. SettledCount \in 0..Len(accepted) /\ Len(accepted) \in Nat /\ accepted \in Seq(Records)
  BY SettledFacts
<1>2. ASSUME NEW r \in Records, Store(r)
      PROVE  GaveUpInv'
  BY <1>2, StoreSettlesNothing DEF GaveUpInv
<1>3. CASE Worker
  <2>1. CASE worker' \in GivingUp
    BY <2>1 DEF GaveUpInv
  <2>2. CASE worker' \notin GivingUp
    <3>1. worker \notin GivingUp /\ ~WorkerDrop
      BY <1>3, <2>2 DEF Worker, WorkerCheckStop, CheckStop, WorkerReceive, WorkerMeasure,
         WorkerSetDepth, WorkerWrite, WorkerCount, CountStored, CountError, WorkerDrop,
         WorkerLeave, WorkerMove
    <3>2. \A i \in 1..SettledCount : ~Counted(accepted[i], "dropped_shutdown")
      BY <3>1 DEF GaveUpInv
    <3>3. CASE ~WorkerCount
      BY <1>3, <3>1, <3>2, <3>3, WorkerSettlesNext DEF GaveUpInv, Counted
    <3>4. CASE WorkerCount
      <4>1. /\ accepted' = accepted /\ SettledCount' = SettledCount + 1
            /\ SettledCount + 1 <= Len(accepted)
        BY <1>3, <3>4, WorkerSettlesNext
      <4>2. worker \in Holding /\ (Observe(job, "stored") \/ Observe(job, "write_error"))
        BY <3>4 DEF WorkerCount, CountStored, CountError, WorkerMove, Holding
      <4>3. InHand = 1 /\ job = accepted[SettledCount + 1]
        BY <1>1, <4>2, SettledFacts DEF IInv, QueueInv, SettledCount, InHand
      <4>4. SettledCount + 1 \in 1..Len(accepted)
        BY <1>1, <4>1
      <4>5. job \in Records /\ MetricsTypeOK
        BY <1>1, <4>3, <4>4 DEF IInv, TypeOK
      <4>6. \A r \in Records : recordsTotal'[r]["dropped_shutdown"] = recordsTotal[r]["dropped_shutdown"]
        BY <4>2, <4>5, ObserveEffect DEF Results
      <4>7. ~Counted(job, "dropped_shutdown")
        <5>1. FateCount(job) = 0
          BY <1>1, <4>3, <4>4 DEF IInv, QueueInv
        <5>2. QED
          BY <4>5, <5>1, CountersAreNat DEF FateCount, Counted
      <4>8. ASSUME NEW i \in 1..(SettledCount + 1)
            PROVE  ~(recordsTotal'[accepted[i]]["dropped_shutdown"] > 0)
        <5>1. i \in 1..Len(accepted) /\ accepted[i] \in Records
          BY <1>1, <4>1
        <5>2. ~Counted(accepted[i], "dropped_shutdown")
          BY <1>1, <3>2, <4>3, <4>7
        <5>3. QED
          BY <4>6, <5>1, <5>2 DEF Counted
      <4>9. QED
        BY <4>1, <4>8 DEF GaveUpInv, Counted
    <3>5. QED
      BY <3>3, <3>4
  <2>3. QED
    BY <2>1, <2>2
<1>4. CASE Close \/ UNCHANGED vars
  BY <1>4, CloseSettlesNothing DEF GaveUpInv, Counted
<1>5. QED
  BY <1>2, <1>3, <1>4 DEF Next, Terminated

\* Every state satisfies the invariants the refinement rests on.
LEMMA RefinementInvariant == Spec => [](IInv /\ SeenInv /\ GaveUpInv)
<1>1. Init => GaveUpInv
  BY DEF Init, GaveUpInv, SettledCount, InHand, Holding
<1>2. QED
  BY <1>1, GaveUpStep, SeenIsCounted, InductiveInvariant, PTL DEF Spec
-----------------------------------------------------------------------------
(* The steps of AuditQueue. *)

\* The state AuditQueue starts in.
LEMMA InitSeen == Init => Abstract!Init
<1>1. SUFFICES ASSUME Init PROVE Abstract!Init
  OBVIOUS
<1>2. Len(accepted) - Len(queue) - InHand = 0 /\ closer = "idle" /\ shut = {} /\ accepted = <<>>
  <2>1. accepted = <<>> /\ queue = <<>> /\ closer = "idle" /\ shut = {} /\ worker = "check"
    BY <1>1 DEF Init
  <2>2. InHand = 0 /\ Len(accepted) = 0 /\ Len(queue) = 0
    BY <2>1 DEF InHand, Holding
  <2>3. QED
    BY <2>1, <2>2
<1>3. [i \in 1..(Len(accepted) - Len(queue) - InHand) |-> Fate(accepted[i])] = <<>>
  <2>1. 1..0 = {}
    OBVIOUS
  <2>2. QED
    BY <1>2, <2>1
<1>4. QED
  BY <1>2, <1>3 DEF Abstract!Init

\* What AuditQueue sees does not change when no record is accepted or settled
\* and Close does not reach its mark or its end.
LEMMA NothingSeen ==
    ASSUME IInv, SeenInv, IInv', SeenInv', Next,
           accepted' = accepted, SettledCount' = SettledCount, PhaseSeen' = PhaseSeen
    PROVE  UNCHANGED Abstract!vars
<1>1. \A i \in 1..SettledCount : OutcomesSeen'[i] = OutcomesSeen[i]
  BY SeenStays
<1>2. OutcomesSeen \in [1..SettledCount -> AcceptedFates]
      /\ OutcomesSeen' \in [1..SettledCount -> AcceptedFates]
  BY DEF SeenInv
<1>3. OutcomesSeen' = OutcomesSeen
  BY <1>1, <1>2, SettledFacts, SameFunction
<1>4. QED
  BY <1>3 DEF Abstract!vars, OutcomesSeen, SettledCount, PhaseSeen

\* The phase depends on Close alone.
LEMMA PhaseStays == UNCHANGED closeVars => PhaseSeen' = PhaseSeen
BY DEF closeVars, PhaseSeen

\* A send is an acceptance.
LEMMA SendAccepts ==
    ASSUME IInv, SeenInv, IInv', SeenInv', Next, NEW r \in Records, StoreSend(r)
    PROVE  Abstract!Accept(r)
<1>1. /\ pc[r] = "open" /\ accepted' = Append(accepted, r) /\ UNCHANGED closeVars
  BY DEF StoreSend, Send, Goto
<1>2. PhaseSeen = "open"
  BY <1>1 DEF IInv, LockInv, PhaseSeen
<1>3. r \notin ToSet(accepted)
  BY <1>1 DEF IInv, CountInv, RecordInv
<1>4. SettledCount' = SettledCount /\ \A i \in 1..SettledCount : accepted'[i] = accepted[i]
  BY StoreSettlesNothing DEF Store
<1>5. \A i \in 1..SettledCount : OutcomesSeen'[i] = OutcomesSeen[i]
  BY <1>4, SeenStays
<1>6. OutcomesSeen' = OutcomesSeen
  <2>1. OutcomesSeen \in [1..SettledCount -> AcceptedFates]
        /\ OutcomesSeen' \in [1..SettledCount -> AcceptedFates]
    BY <1>4 DEF SeenInv
  <2>2. QED
    BY <1>5, <2>1, SettledFacts, SameFunction
<1>7. PhaseSeen' = PhaseSeen
  BY <1>1, PhaseStays
<1>8. QED
  BY <1>1, <1>2, <1>3, <1>6, <1>7
     DEF Abstract!Accept, Abstract!ToSet, ToSet, OutcomesSeen, SettledCount, PhaseSeen

\* When the worker settles a record, the outcome counted for it is the next
\* that AuditQueue sees.
LEMMA SettlingIsSeen ==
    ASSUME IInv, SeenInv, IInv', SeenInv', Next, NEW o \in AcceptedFates,
           accepted' = accepted, SettledCount' = SettledCount + 1,
           recordsTotal'[accepted[SettledCount + 1]][o] > 0
    PROVE  OutcomesSeen' = Append(OutcomesSeen, o) /\ Len(OutcomesSeen) = SettledCount
<1>1. SettledCount \in Nat
  BY SettledFacts
<1>2. OutcomesSeen \in [1..SettledCount -> AcceptedFates]
      /\ OutcomesSeen' \in [1..(SettledCount + 1) -> AcceptedFates]
  BY DEF SeenInv
<1>3. \A i \in 1..SettledCount : OutcomesSeen'[i] = OutcomesSeen[i]
  BY <1>1, SeenStays
<1>4. OutcomesSeen'[SettledCount + 1] = o
  BY <1>1 DEF SeenInv, Counted
<1>5. OutcomesSeen' = Append(OutcomesSeen, o)
  <2> DEFINE n == SettledCount
             before == OutcomesSeen
             after == OutcomesSeen'
  <2>1. /\ n \in Nat /\ before \in [1..n -> AcceptedFates] /\ after \in [1..(n + 1) -> AcceptedFates]
        /\ \A i \in 1..n : after[i] = before[i]
        /\ after[n + 1] = o
    BY <1>1, <1>2, <1>3, <1>4
  <2> HIDE DEF n, before, after
  <2>2. after = Append(before, o)
    BY <2>1, AppendToFunction
  <2>3. QED
    BY <2>2 DEF before, after
<1>6. QED
  BY <1>1, <1>2, <1>5, FunctionIsSeq

\* The record the worker settles next, and its counter after the step.
LEMMA SettledByWorker ==
    ASSUME IInv, Worker, NEW o \in AcceptedFates,
           \/ WorkerCount /\ Observe(job, o)
           \/ WorkerDrop /\ o = "dropped_shutdown"
    PROVE  /\ SettledCount + 1 \in 1..Len(accepted)
           /\ recordsTotal'[accepted[SettledCount + 1]][o] > 0
<1>1. /\ accepted' = accepted /\ SettledCount' = SettledCount + 1
      /\ SettledCount \in 0..Len(accepted) /\ Len(accepted) \in Nat /\ Len(queue) \in Nat
      /\ accepted \in Seq(Records) /\ queue \in Seq(Records)
      /\ SettledCount + 1 <= Len(accepted)
  BY WorkerSettlesNext, SettledFacts
<1>2. SettledCount + 1 \in 1..Len(accepted)
  BY <1>1
<1>3. ASSUME Observe(accepted[SettledCount + 1], o)
      PROVE  recordsTotal'[accepted[SettledCount + 1]][o] > 0
  <2>1. accepted[SettledCount + 1] \in Records /\ o \in Results
    BY <1>1, <1>2 DEF AcceptedFates, Fates
  <2>2. recordsTotal \in [Records -> [Results -> Nat]]
    BY DEF IInv, TypeOK, MetricsTypeOK
  <2>3. recordsTotal[accepted[SettledCount + 1]][o] \in Nat
    BY <2>1, <2>2
  <2>4. QED
    BY <1>3, <2>1, <2>2, <2>3 DEF Observe
<1>4. CASE WorkerCount /\ Observe(job, o)
  <2>1. worker \in Holding
    BY <1>4 DEF WorkerCount, CountStored, CountError, WorkerMove, Holding
  <2>2. job = accepted[SettledCount + 1]
    BY <1>1, <2>1 DEF IInv, QueueInv, SettledCount, InHand
  <2>3. QED
    BY <1>2, <1>3, <1>4, <2>2
<1>5. CASE WorkerDrop /\ o = "dropped_shutdown"
  <2>1. worker \notin Holding /\ queue # <<>> /\ Observe(Head(queue), o)
    BY <1>5 DEF WorkerDrop, WorkerMove, Holding
  <2>2. Head(queue) = queue[1] /\ Len(queue) >= 1
    BY <1>1, <2>1, TailByIndex
  <2>3. Head(queue) = accepted[SettledCount + 1]
    BY <1>1, <2>1, <2>2 DEF IInv, QueueInv, SettledCount, InHand
  <2>4. QED
    BY <1>2, <1>3, <2>1, <2>3
<1>6. QED
  BY <1>4, <1>5
\* Counting the result of a write, or a drop, resolves the next record.
LEMMA SettlingResolves ==
    ASSUME IInv, SeenInv, GaveUpInv, IInv', SeenInv', Next, Worker, NEW o \in AcceptedFates,
           \/ WorkerCount /\ Observe(job, o) /\ o # "dropped_shutdown"
           \/ WorkerDrop /\ o = "dropped_shutdown"
    PROVE  Abstract!Resolve(o)
<1>1. /\ accepted' = accepted /\ SettledCount' = SettledCount + 1
      /\ SettledCount + 1 \in 1..Len(accepted)
      /\ recordsTotal'[accepted[SettledCount + 1]][o] > 0
  BY WorkerSettlesNext, SettledByWorker
<1>2. OutcomesSeen' = Append(OutcomesSeen, o) /\ Len(OutcomesSeen) = SettledCount
  BY <1>1, SettlingIsSeen
<1>3. /\ worker = "drain" => "stopWorkerCh" \in shut
      /\ worker # "done" /\ closer # "returned"
      /\ WorkerCount => worker \in {"stored", "failed"}
      /\ WorkerDrop => worker = "drain"
  BY DEF IInv, StopInv, WorkerCount, CountStored, CountError, WorkerDrop, WorkerMove
<1>4. PhaseSeen' = PhaseSeen
  BY PhaseStays DEF WorkerCount, WorkerDrop
<1>5. PhaseSeen # "closed" /\ (o = "dropped_shutdown" => PhaseSeen = "closing")
  BY <1>3 DEF PhaseSeen, IInv, LockInv
<1>6. "dropped_shutdown" \in ToSet(OutcomesSeen) => o = "dropped_shutdown"
  <2>1. SUFFICES ASSUME "dropped_shutdown" \in ToSet(OutcomesSeen), o # "dropped_shutdown"
                 PROVE  FALSE
    OBVIOUS
  <2>2. PICK i \in 1..SettledCount : OutcomesSeen[i] = "dropped_shutdown"
    BY <2>1 DEF ToSet, SeenInv
  <2>3. Counted(accepted[i], "dropped_shutdown")
    BY <2>2 DEF SeenInv
  <2>4. worker \in {"drain", "dropped", "dropMeasured", "done"}
    BY <2>3 DEF GaveUpInv
  <2>5. QED
    BY <1>3, <2>1, <2>4
<1>7. Len(OutcomesSeen) < Len(accepted)
  BY <1>1, <1>2, SettledFacts
<1>8. QED
  BY <1>1, <1>2, <1>4, <1>5, <1>6, <1>7
     DEF Abstract!Resolve, Abstract!GivenUp, Abstract!ToSet, ToSet, OutcomesSeen, SettledCount,
         PhaseSeen

\* The steps of the worker resolve the next record or are not seen.
LEMMA WorkerSeen ==
    ASSUME IInv, SeenInv, GaveUpInv, IInv', SeenInv', Next, Worker
    PROVE  [Abstract!Next]_(Abstract!vars)
<1>1. CASE WorkerCount
  <2>1. PICK o \in {"stored", "write_error"} : Observe(job, o)
    BY <1>1 DEF WorkerCount, CountStored, CountError
  <2>2. o \in AcceptedFates /\ o \in Abstract!Outcomes
    BY <2>1 DEF AcceptedFates, Fates, Results, Abstract!Outcomes
  <2>3. Abstract!Resolve(o)
    BY <1>1, <2>1, <2>2, SettlingResolves
  <2>4. QED
    BY <2>2, <2>3 DEF Abstract!Next
<1>2. CASE WorkerDrop
  <2>1. "dropped_shutdown" \in AcceptedFates /\ "dropped_shutdown" \in Abstract!Outcomes
    BY DEF AcceptedFates, Fates, Results, Abstract!Outcomes
  <2>2. Abstract!Resolve("dropped_shutdown")
    BY <1>2, <2>1, SettlingResolves
  <2>3. QED
    BY <2>1, <2>2 DEF Abstract!Next
<1>3. CASE ~(WorkerCount \/ WorkerDrop)
  <2>1. accepted' = accepted /\ SettledCount' = SettledCount
    BY <1>3, WorkerSettlesNext
  <2>2. UNCHANGED closeVars
    BY DEF Worker, WorkerCheckStop, CheckStop, WorkerReceive, WorkerMeasure, WorkerSetDepth,
       WorkerWrite, WorkerCount, WorkerDrop, WorkerLeave
  <2>3. PhaseSeen' = PhaseSeen
    BY <2>2, PhaseStays
  <2>4. QED
    BY <2>1, <2>3, NothingSeen
<1>4. QED
  BY <1>1, <1>2, <1>3

\* The steps of Store accept a record or are not seen.
LEMMA StoreSeen ==
    ASSUME IInv, SeenInv, IInv', SeenInv', Next, NEW r \in Records, Store(r)
    PROVE  [Abstract!Next]_(Abstract!vars)
<1>1. CASE StoreSend(r)
  BY <1>1, SendAccepts DEF Abstract!Next
<1>2. CASE ~StoreSend(r)
  <2>1. accepted' = accepted /\ SettledCount' = SettledCount
    BY <1>2, StoreSettlesNothing
  <2>2. UNCHANGED closeVars
    BY DEF Store, StoreCall, StoreRLock, StoreCheckClosed, StoreRejected, StoreSend,
       StoreQueueFull, StoreCount, StoreSetDepth, StoreMove, Send
  <2>3. PhaseSeen' = PhaseSeen
    BY <2>2, PhaseStays
  <2>4. QED
    BY <2>1, <2>3, NothingSeen
<1>3. QED
  BY <1>1, <1>2

\* The steps of Close begin the close, end it or are not seen.
LEMMA CloseSeen ==
    ASSUME IInv, SeenInv, IInv', SeenInv', Next, Close
    PROVE  [Abstract!Next]_(Abstract!vars)
<1>1. /\ accepted' = accepted /\ SettledCount' = SettledCount
      /\ OutcomesSeen \in [1..SettledCount -> AcceptedFates]
      /\ OutcomesSeen' \in [1..SettledCount -> AcceptedFates]
  BY CloseSettlesNothing DEF SeenInv
<1>2. \A i \in 1..SettledCount : OutcomesSeen'[i] = OutcomesSeen[i]
  BY <1>1, SeenStays
<1>3. OutcomesSeen' = OutcomesSeen
  BY <1>1, <1>2, SettledFacts, SameFunction
<1>4. CASE CloseMark
  <2>1. PhaseSeen = "open" /\ PhaseSeen' = "closing"
    BY <1>4 DEF CloseMark, CloseMove, PhaseSeen, IInv, LockInv
  <2>2. Abstract!BeginClose
    BY <1>1, <1>3, <2>1 DEF Abstract!BeginClose, OutcomesSeen, SettledCount, PhaseSeen
  <2>3. QED
    BY <2>2 DEF Abstract!Next
<1>5. CASE CloseJoin
  <2>1. PhaseSeen = "closing" /\ PhaseSeen' = "closed"
    BY <1>5 DEF CloseJoin, Join, CloseMove, PhaseSeen, IInv, LockInv
  <2>2. queue = <<>> /\ InHand = 0
    BY <1>5 DEF CloseJoin, IInv, StopInv, InHand, Holding
  <2>3. SettledCount = Len(accepted)
    BY <2>2, SettledFacts DEF SettledCount
  <2>4. Len(OutcomesSeen) = Len(accepted)
    BY <1>1, <2>3, SettledFacts, FunctionIsSeq
  <2>5. Abstract!EndClose
    BY <1>1, <1>3, <2>1, <2>4 DEF Abstract!EndClose, OutcomesSeen, SettledCount, PhaseSeen
  <2>6. QED
    BY <2>5 DEF Abstract!Next
<1>6. CASE CloseLock \/ CloseQueue \/ CloseTimeout
  <2>1. PhaseSeen' = PhaseSeen
    BY <1>6 DEF CloseLock, CloseQueue, CloseTimeout, CloseMove, Unlock, PhaseSeen
  <2>2. QED
    BY <1>1, <2>1, NothingSeen
<1>7. QED
  BY <1>4, <1>5, <1>6 DEF Close

\* The repository keeps the promise of AuditQueue, whatever the records and
\* the capacity: every accepted record meets one outcome, in order, and
\* nothing is given up before Close.
THEOREM AsyncAuditImplementsAuditQueue == Spec => ImplementsAuditQueue
<1>1. IInv /\ SeenInv /\ GaveUpInv /\ IInv' /\ SeenInv' /\ [Next]_vars
          => [Abstract!Next]_(Abstract!vars)
  <2>1. SUFFICES ASSUME IInv, SeenInv, GaveUpInv, IInv', SeenInv', [Next]_vars
                 PROVE  [Abstract!Next]_(Abstract!vars)
    OBVIOUS
  <2>2. CASE UNCHANGED vars
    BY <2>2 DEF vars, storeVars, workerVars, closeVars, Abstract!vars, Fate, Counted, InHand
  <2>3. ASSUME NEW r \in Records, Store(r)
        PROVE  [Abstract!Next]_(Abstract!vars)
    BY <2>1, <2>3, StoreSeen DEF Next
  <2>4. CASE Worker
    BY <2>1, <2>4, WorkerSeen DEF Next
  <2>5. CASE Close
    BY <2>1, <2>5, CloseSeen DEF Next
  <2>6. QED
    BY <2>1, <2>2, <2>3, <2>4, <2>5 DEF Next, Terminated
<1>2. QED
  BY <1>1, InitSeen, RefinementInvariant, PTL DEF Spec, ImplementsAuditQueue, Abstract!Spec
=============================================================================
