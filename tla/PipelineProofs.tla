--------------------------- MODULE PipelineProofs ---------------------------
(***************************************************************************)
(* Theorems about Pipeline, for every set of tasks, workers and requests   *)
(* and every choice of faults.                                             *)
(***************************************************************************)
EXTENDS Pipeline, TLAPS

-----------------------------------------------------------------------------
(* Type correctness. *)

USE DEF Holding, HasAutomation

\* The initial state is well typed.
LEMMA InitTypeOK == Init => TypeOK
  BY StoreAssumption
  DEF Init, TypeOK, StoreInit, QueueInit, WorkerInit, ApiInit, StoreTypeOK,
      QueueTypeOK, WorkerTypeOK, ApiTypeOK, Row, NewRow, Handler, Statuses

\* The counters of faults.
FaultCounts == [all : Nat, workers : Nat]

\* A fault is counted.
LEMMA FaultType ==
  ASSUME faults \in FaultCounts, NEW kind, Fault(kind)
  PROVE  faults' \in FaultCounts
  BY DEF Fault, FaultCounts

\* A released row is a row.
LEMMA ReleasedType ==
  ASSUME NEW row \in Row, NEW s \in Statuses
  PROVE  Released(row, s) \in Row
  BY DEF Released, Row, Statuses

\* A claimed row is a row.
LEMMA ClaimedType ==
  ASSUME NEW row \in Row, NEW w \in Workers
  PROVE  ClaimedBy(row, w) \in Row
<1> DEFINE n == row.attempts + 1
<1>1. n \in Nat
  BY DEF Row
<1> HIDE DEF n
<1>2. [row EXCEPT !.status = "IN_PROGRESS", !.locked_at = "fresh", !.locked_by = w,
                  !.attempts = n, !.updated_at = "later"] \in Row
  BY <1>1 DEF Row, Statuses
<1> QED
  BY <1>2 DEF ClaimedBy, n

\* An INSERT leaves a well-typed table.
LEMMA InsertTypes ==
  ASSUME StoreTypeOK, NEW t \in Tasks, NEW svc \in Services,
         NEW sch \in Schedules \cup {None}, InsertTask(t, svc, sch)
  PROVE  tasks' \in [Tasks -> Row]
<1>1. NewRow(svc, sch) \in Row
  BY StoreAssumption DEF NewRow, Row, Statuses
<1> QED
  BY <1>1 DEF InsertTask, StoreTypeOK

\* The worker's statements leave a well-typed table.
LEMMA StatementTypes ==
  ASSUME StoreTypeOK, NEW t \in Tasks, NEW w \in Workers
  PROVE  /\ claimTask(t, w) => tasks' \in [Tasks -> Row]
         /\ heartbeat(t, w) => tasks' \in [Tasks -> Row]
         /\ updateTaskSuccess(t, w) => tasks' \in [Tasks -> Row]
         /\ updateTaskRetry(t, w) => tasks' \in [Tasks -> Row]
         /\ updateTaskDeadLetter(t, w) => tasks' \in [Tasks -> Row]
         /\ \A sch \in Schedules : scheduleTask(t, w, sch) => tasks' \in [Tasks -> Row]
<1> tasks[t] \in Row
  BY DEF StoreTypeOK
<1>3. claimTask(t, w) => tasks' \in [Tasks -> Row]
  BY ClaimedType DEF claimTask, StoreTypeOK
<1>4. [tasks[t] EXCEPT !.locked_at = "fresh", !.updated_at = "later"] \in Row
  BY DEF Row
<1>5. heartbeat(t, w) => tasks' \in [Tasks -> Row]
  BY <1>4 DEF heartbeat, StoreTypeOK
<1>6. \A s \in Statuses : Released(tasks[t], s) \in Row
  BY ReleasedType
<1>7. /\ updateTaskSuccess(t, w) => tasks' \in [Tasks -> Row]
      /\ updateTaskRetry(t, w) => tasks' \in [Tasks -> Row]
      /\ updateTaskDeadLetter(t, w) => tasks' \in [Tasks -> Row]
  BY <1>6 DEF updateTaskSuccess, updateTaskRetry, updateTaskDeadLetter, StoreTypeOK, Statuses
<1>8. ASSUME NEW sch \in Schedules
      PROVE  scheduleTask(t, w, sch) => tasks' \in [Tasks -> Row]
  <2>1. [Released(tasks[t], "PENDING") EXCEPT !.scheduled_for = sch] \in Row
    BY <1>6, StoreAssumption DEF Row, Statuses
  <2> QED
    BY <2>1 DEF scheduleTask, StoreTypeOK
<1> QED
  BY <1>3, <1>5, <1>7, <1>8

\* RequeueTask leaves a well-typed table.
LEMMA RequeueTypes ==
  ASSUME StoreTypeOK, NEW t \in Tasks, RequeueTask(t)
  PROVE  tasks' \in [Tasks -> Row]
<1>1. Released(tasks[t], "PENDING") \in Row
  BY ReleasedType DEF StoreTypeOK, Statuses
<1> QED
  BY <1>1 DEF RequeueTask, StoreTypeOK

\* The expiry of a lock leaves a well-typed table.
LEMMA LockExpiryTypes ==
  ASSUME StoreTypeOK, NEW t \in Tasks, LockExpires(t)
  PROVE  tasks' \in [Tasks -> Row]
<1>1. [tasks[t] EXCEPT !.locked_at = "stale"] \in Row
  BY DEF StoreTypeOK, Row
<1> QED
  BY <1>1 DEF LockExpires, StoreTypeOK

\* Popping and pushing known ids keeps the queue a sequence of ids.
LEMMA QueueTypes ==
  ASSUME QueueTypeOK, NEW t \in Tasks
  PROVE  /\ Enqueue(t) => QueueTypeOK'
         /\ Dequeue(t) => QueueTypeOK'
         /\ QueueLost => QueueTypeOK'
<1>1. Enqueue(t) => QueueTypeOK'
  BY DEF QueueTypeOK, Enqueue
<1>2. Dequeue(t) => QueueTypeOK'
  BY DEF QueueTypeOK, Dequeue
<1>3. QueueLost => QueueTypeOK'
  BY DEF QueueTypeOK, QueueLost
<1> QED
  BY <1>1, <1>2, <1>3

\* The steps of a worker preserve the types.
LEMMA WorkerTypes ==
  ASSUME TypeOK, NEW w \in Workers, WorkerNext(w)
  PROVE  TypeOK'
<1> USE DEF TypeOK, FaultCounts
<1>0. faults' \in FaultCounts /\ ApiTypeOK'
  <2>1. faults' \in FaultCounts
    BY FaultType DEF WorkerNext, FaultCounts
  <2>2. UNCHANGED apiVars
    BY DEF WorkerNext
  <2>3. ApiTypeOK'
    BY <2>2 DEF apiVars, ApiTypeOK
  <2> QED
    BY <2>1, <2>3
<1>1. CASE Start(w)
  BY <1>0, <1>1 DEF Start, Goto, StoreTypeOK, QueueTypeOK, WorkerTypeOK, storeVars
<1>2. CASE Pop(w)
  <2>1. PICK t \in Tasks : Dequeue(t) /\ job' = [job EXCEPT ![w] = t]
    BY <1>2 DEF Pop
  <2>2. QueueTypeOK'
    BY <2>1, QueueTypes
  <2> QED
    BY <1>0, <1>2, <2>1, <2>2 DEF Pop, StoreTypeOK, WorkerTypeOK, storeVars
<1>3. CASE Leave(w)
  BY <1>0, <1>3 DEF Leave, NextTask, StoreTypeOK, QueueTypeOK, WorkerTypeOK, storeVars
<1>4. CASE ClaimWon(w)
  <2>1. job[w] \in Tasks
    BY <1>4 DEF ClaimWon, WorkerTypeOK
  <2>2. StoreTypeOK' /\ tasks'[job[w]].attempts \in Nat
    BY <1>4, <2>1, StatementTypes DEF ClaimWon, StoreTypeOK, Row
  <2> QED
    BY <1>0, <1>4, <2>1, <2>2 DEF ClaimWon, QueueTypeOK, WorkerTypeOK
<1>5. CASE ClaimLost(w)
  BY <1>0, <1>5 DEF ClaimLost, NextTask, StoreTypeOK, QueueTypeOK, WorkerTypeOK, storeVars
<1>6. CASE Reject(w)
  <2>1. StoreTypeOK'
    BY <1>6, StatementTypes DEF Reject, StoreTypeOK, WorkerTypeOK
  <2> QED
    BY <1>0, <1>6, <2>1 DEF Reject, NextTask, QueueTypeOK, WorkerTypeOK
<1>7. CASE SendBeat(w)
  BY <1>0, <1>7 DEF SendBeat, StoreTypeOK, QueueTypeOK, WorkerTypeOK, storeVars
<1>8. CASE \E t \in Tasks : LandBeat(<<w, t>>)
  <2>1. PICK t \in Tasks : LandBeat(<<w, t>>)
    BY <1>8
  <2>2. heartbeat(t, w) /\ beats' \subseteq beats
    BY <2>1 DEF LandBeat
  <2>3. StoreTypeOK'
    BY <2>1, <2>2, StatementTypes DEF LandBeat, StoreTypeOK
  <2> QED
    BY <1>0, <2>1, <2>2, <2>3 DEF LandBeat, QueueTypeOK, WorkerTypeOK
<1>9. CASE AutomationReturns(w)
  BY <1>0, <1>9, WorkerAssumption
  DEF AutomationReturns, Goto, StoreTypeOK, QueueTypeOK, WorkerTypeOK, storeVars
<1>10. CASE SaveSuccess(w)
  <2>1. StoreTypeOK'
    BY <1>10, StatementTypes DEF SaveSuccess, StoreTypeOK, WorkerTypeOK
  <2> QED
    BY <1>0, <1>10, <2>1 DEF SaveSuccess, NextTask, QueueTypeOK, WorkerTypeOK
<1>11. CASE SaveSchedule(w)
  <2>1. StoreTypeOK'
    BY <1>11, StatementTypes DEF SaveSchedule, StoreTypeOK, WorkerTypeOK
  <2> QED
    BY <1>0, <1>11, <2>1 DEF SaveSchedule, NextTask, QueueTypeOK, WorkerTypeOK
<1>12. CASE SaveDeadLetter(w)
  <2>1. StoreTypeOK'
    BY <1>12, StatementTypes DEF SaveDeadLetter, StoreTypeOK, WorkerTypeOK
  <2> QED
    BY <1>0, <1>12, <2>1 DEF SaveDeadLetter, NextTask, QueueTypeOK, WorkerTypeOK
<1>13. CASE SaveRetry(w)
  <2>1. StoreTypeOK'
    BY <1>13, StatementTypes DEF SaveRetry, StoreTypeOK, WorkerTypeOK
  <2>2. CASE Owns(w, job[w])
    <3>1. Goto(w, "repush") /\ UNCHANGED <<queue, isShuttingDown, beats>>
      BY <1>13, <2>2 DEF SaveRetry
    <3>2. job[w] \in Tasks
      BY <1>13 DEF SaveRetry, WorkerTypeOK
    <3> QED
      BY <1>0, <2>1, <3>1, <3>2 DEF Goto, QueueTypeOK, WorkerTypeOK
  <2>3. CASE ~ Owns(w, job[w])
    <3>1. NextTask(w) /\ UNCHANGED <<queue, isShuttingDown, beats>>
      BY <1>13, <2>3 DEF SaveRetry
    <3> QED
      BY <1>0, <2>1, <3>1 DEF NextTask, QueueTypeOK, WorkerTypeOK
  <2> QED
    BY <2>2, <2>3
<1>14. CASE Repush(w)
  <2>1. QueueTypeOK'
    BY <1>14, QueueTypes DEF Repush, WorkerTypeOK
  <2> QED
    BY <1>0, <1>14, <2>1 DEF Repush, NextTask, StoreTypeOK, WorkerTypeOK, storeVars
<1>15. CASE Crash(w)
  BY <1>0, <1>15 DEF Crash, StoreTypeOK, QueueTypeOK, WorkerTypeOK, storeVars
<1>16. CASE Shutdown(w)
  BY <1>0, <1>16 DEF Shutdown, StoreTypeOK, QueueTypeOK, WorkerTypeOK, storeVars
<1> QED
  BY <1>1, <1>2, <1>3, <1>4, <1>5, <1>6, <1>7, <1>8, <1>9, <1>10, <1>11, <1>12,
     <1>13, <1>14, <1>15, <1>16
  DEF WorkerNext, WorkerStep

\* The steps of a request handler preserve the types.
LEMMA RequestTypes ==
  ASSUME TypeOK, NEW r \in Requests, RequestNext(r)
  PROVE  TypeOK'
<1> USE DEF TypeOK, FaultCounts
<1>0. faults' \in FaultCounts /\ WorkerTypeOK'
  <2>1. faults' \in FaultCounts
    BY FaultType DEF RequestNext, FaultCounts
  <2>2. UNCHANGED workerVars
    BY DEF RequestNext
  <2>3. WorkerTypeOK'
    BY <2>2 DEF workerVars, WorkerTypeOK
  <2> QED
    BY <2>1, <2>3
<1>h. req[r] \in Handler
  BY DEF ApiTypeOK
<1>1. CASE CreateNew(r)
  <2>1. PICK t \in Tasks, svc \in Services, sch \in Schedules \cup {None} :
          /\ InsertTask(t, svc, sch)
          /\ req' = [req EXCEPT ![r] = [pc |-> "decide", task |-> t, inserted |-> "yes",
                                        updated_at |-> "created", scheduled_for |-> sch]]
    BY <1>1 DEF CreateNew
  <2>2. StoreTypeOK'
    <3>1. tasks' \in [Tasks -> Row]
      BY <2>1, InsertTypes
    <3> QED
      BY <1>1, <3>1 DEF CreateNew, StoreTypeOK
  <2>3. [pc |-> "decide", task |-> t, inserted |-> "yes", updated_at |-> "created",
         scheduled_for |-> sch] \in Handler
    BY StoreAssumption DEF Handler
  <2>4. ApiTypeOK'
    BY <1>1, <2>1, <2>3 DEF CreateNew, ApiTypeOK
  <2> QED
    BY <1>0, <1>1, <2>2, <2>4 DEF CreateNew, QueueTypeOK
<1>2. CASE CreateConflict(r)
  <2>1. PICK t \in Tasks : req' = [req EXCEPT ![r].pc = "conflict", ![r].task = t]
    BY <1>2 DEF CreateConflict
  <2>2. [req[r] EXCEPT !.pc = "conflict", !.task = t] \in Handler
    BY <1>h DEF Handler
  <2>3. req' = [req EXCEPT ![r] = [req[r] EXCEPT !.pc = "conflict", !.task = t]]
    BY <2>1
  <2>4. [req[r] EXCEPT !.pc = "conflict", !.task = t].task = t
    BY <1>h DEF Handler
  <2>5. ApiTypeOK'
    BY <1>2, <2>2, <2>3, <2>4 DEF CreateConflict, ApiTypeOK
  <2> QED
    BY <1>0, <1>2, <2>5 DEF CreateConflict, QueueTypeOK, StoreTypeOK, storeVars
<1>3. CASE ReadExisting(r)
  <2> DEFINE row == tasks[req[r].task]
             h == [req[r] EXCEPT !.pc = "decide", !.updated_at = row.updated_at,
                                 !.scheduled_for = row.scheduled_for]
  <2>1. req[r].task \in Tasks /\ row \in Row
    BY <1>3 DEF ReadExisting, ApiTypeOK, StoreTypeOK
  <2>2. h \in Handler /\ h.task = req[r].task
    BY <1>h, <2>1 DEF Handler, Row
  <2>3. req' = [req EXCEPT ![r] = h]
    BY <1>3 DEF ReadExisting
  <2>4. ApiTypeOK'
    BY <1>3, <2>1, <2>2, <2>3 DEF ReadExisting, ApiTypeOK
  <2> QED
    BY <1>0, <1>3, <2>4 DEF ReadExisting, QueueTypeOK, StoreTypeOK, storeVars
<1>4. ASSUME NEW l \in {"push", "201", "200", "500"},
             req' = [req EXCEPT ![r].pc = l],
             req[r].pc \in {"conflict", "decide", "push"},
             tasksCreated' \in Nat, UNCHANGED <<api, rq, due>>
      PROVE  ApiTypeOK'
  <2>1. [req[r] EXCEPT !.pc = l] \in Handler /\ [req[r] EXCEPT !.pc = l].task = req[r].task
    BY <1>h DEF Handler
  <2>2. req[r].task \in Tasks
    BY <1>4 DEF ApiTypeOK
  <2> QED
    BY <1>4, <2>1, <2>2 DEF ApiTypeOK
<1>5. CASE Decide(r)
  <2>1. \E l \in {"push", "201", "200", "500"} : req' = [req EXCEPT ![r].pc = l]
    BY <1>5 DEF Decide
  <2>2. tasksCreated' \in Nat
    BY <1>5 DEF Decide, ApiTypeOK
  <2>3. ApiTypeOK'
    BY <1>4, <1>5, <2>1, <2>2 DEF Decide
  <2> QED
    BY <1>0, <1>5, <2>3 DEF Decide, QueueTypeOK, StoreTypeOK, storeVars
<1>6. CASE PushNew(r) \/ PushNewFails(r)
  <2>1. ApiTypeOK'
    BY <1>4, <1>6 DEF PushNew, PushNewFails, ApiTypeOK
  <2>2. req[r].task \in Tasks
    BY <1>6 DEF PushNew, PushNewFails, ApiTypeOK
  <2>3. QueueTypeOK'
    BY <1>6, <2>2, QueueTypes DEF PushNew, PushNewFails, QueueTypeOK
  <2> QED
    BY <1>0, <1>6, <2>1, <2>3 DEF PushNew, PushNewFails, StoreTypeOK, storeVars
<1>7. CASE CreateFails(r)
  <2>1. CASE req[r].pc = "conflict"
    <3>1. req' = [req EXCEPT ![r].pc = "500"] /\ UNCHANGED tasks
      BY <1>7, <2>1 DEF CreateFails
    <3>2. ApiTypeOK'
      BY <1>4, <1>7, <2>1, <3>1 DEF CreateFails, ApiTypeOK
    <3> QED
      BY <1>0, <1>7, <3>1, <3>2 DEF CreateFails, QueueTypeOK, StoreTypeOK
  <2>2. CASE req[r].pc # "conflict"
    <3>1. PICK t \in Tasks, svc \in Services, sch \in Schedules \cup {None} :
            /\ InsertTask(t, svc, sch)
            /\ req' = [req EXCEPT ![r].pc = "500", ![r].task = t, ![r].inserted = "yes"]
      BY <1>7, <2>2 DEF CreateFails
    <3>2. tasks' \in [Tasks -> Row]
      BY <3>1, InsertTypes
    <3>3. StoreTypeOK'
      BY <1>7, <3>2 DEF CreateFails, StoreTypeOK
    <3>4. [req[r] EXCEPT !.pc = "500", !.task = t, !.inserted = "yes"] \in Handler
      BY <1>h DEF Handler
    <3>5. [req[r] EXCEPT !.pc = "500", !.task = t, !.inserted = "yes"].pc = "500"
      BY <1>h DEF Handler
    <3>6. ApiTypeOK'
      BY <1>7, <3>1, <3>4, <3>5 DEF CreateFails, ApiTypeOK
    <3> QED
      BY <1>0, <1>7, <3>3, <3>6 DEF CreateFails, QueueTypeOK
  <2> QED
    BY <2>1, <2>2
<1> QED
  BY <1>1, <1>2, <1>3, <1>5, <1>6, <1>7 DEF RequestNext, HandlerStep

\* The requeuer, the scheduler and the life of the API process preserve the types.
LEMMA ApiTypes ==
  ASSUME TypeOK, ApiNext
  PROVE  TypeOK'
<1> USE DEF TypeOK, FaultCounts
<1>0. faults' \in FaultCounts /\ WorkerTypeOK'
  <2>1. faults' \in FaultCounts
    BY FaultType DEF ApiNext, FaultCounts
  <2>2. UNCHANGED workerVars
    BY DEF ApiNext
  <2>3. WorkerTypeOK'
    BY <2>2 DEF workerVars, WorkerTypeOK
  <2> QED
    BY <2>1, <2>3
<1>1. CASE RequeueScan
  BY <1>0, <1>1 DEF RequeueScan, StaleInProgressTasks, ApiTypeOK, QueueTypeOK,
                    StoreTypeOK, storeVars
<1>2. CASE RequeueReset
  <2>1. PICK t \in rq.batch :
          /\ RequeueTask(t)
          /\ rq' = [batch |-> rq.batch \ {t}, push |-> IF Stale(t) THEN t ELSE None]
    BY <1>2 DEF RequeueReset
  <2>2. t \in Tasks
    BY DEF ApiTypeOK
  <2>3. tasks' \in [Tasks -> Row]
    BY <2>1, <2>2, RequeueTypes
  <2>4. rq' \in [batch : SUBSET Tasks, push : Tasks \cup {None}]
    BY <2>1, <2>2 DEF ApiTypeOK
  <2> QED
    BY <1>0, <1>2, <2>3, <2>4 DEF RequeueReset, ApiTypeOK, QueueTypeOK, StoreTypeOK
<1>3. CASE RequeueResetFails
  <2>1. PICK t \in rq.batch :
          /\ RequeueTask(t) \/ UNCHANGED tasks
          /\ rq' = [rq EXCEPT !.batch = @ \ {t}]
    BY <1>3 DEF RequeueResetFails
  <2>2. t \in Tasks
    BY DEF ApiTypeOK
  <2>3. tasks' \in [Tasks -> Row]
    BY <2>1, <2>2, RequeueTypes DEF StoreTypeOK
  <2>4. rq' \in [batch : SUBSET Tasks, push : Tasks \cup {None}]
    BY <2>1, <2>2 DEF ApiTypeOK
  <2> QED
    BY <1>0, <1>3, <2>3, <2>4 DEF RequeueResetFails, ApiTypeOK, QueueTypeOK, StoreTypeOK
<1>4. CASE RequeuePush
  <2>1. QueueTypeOK'
    BY <1>4, QueueTypes DEF RequeuePush, ApiTypeOK
  <2> QED
    BY <1>0, <1>4, <2>1 DEF RequeuePush, ApiTypeOK, StoreTypeOK, storeVars
<1>5. CASE RequeuePushFails
  BY <1>0, <1>5 DEF RequeuePushFails, ApiTypeOK, QueueTypeOK, StoreTypeOK, storeVars
<1>6. CASE ScheduleScan
  BY <1>0, <1>6 DEF ScheduleScan, PendingScheduledTasks, ApiTypeOK, QueueTypeOK,
                    StoreTypeOK, storeVars
<1>7. CASE SchedulePush
  <2>1. QueueTypeOK'
    BY <1>7, QueueTypes DEF SchedulePush, ApiTypeOK
  <2> QED
    BY <1>0, <1>7, <2>1 DEF SchedulePush, ApiTypeOK, StoreTypeOK, storeVars
<1>8. CASE SchedulePushFails
  BY <1>0, <1>8 DEF SchedulePushFails, ApiTypeOK, QueueTypeOK, StoreTypeOK, storeVars
<1>9. CASE ApiShutdown \/ ApiExit \/ ApiStart
  BY <1>0, <1>9 DEF ApiShutdown, ApiExit, ApiStart, ApiTypeOK, QueueTypeOK,
                    StoreTypeOK, storeVars
<1>10. CASE ApiCrash
  <2>1. \A r \in Requests : [req[r] EXCEPT !.pc = "lost"] \in Handler
    BY DEF ApiTypeOK, Handler
  <2>2. \A r \in Requests : [req[r] EXCEPT !.pc = "lost"].pc = "lost"
    BY DEF ApiTypeOK, Handler
  <2>3. ApiTypeOK'
    BY <1>10, <2>1, <2>2 DEF ApiCrash, ApiTypeOK, InFlight
  <2> QED
    BY <1>0, <1>10, <2>3 DEF ApiCrash, QueueTypeOK, StoreTypeOK, storeVars
<1> QED
  BY <1>1, <1>2, <1>3, <1>4, <1>5, <1>6, <1>7, <1>8, <1>9, <1>10
  DEF ApiNext, Requeuer, Scheduler

\* Time and the loss of the queue preserve the types.
LEMMA EnvironmentTypes ==
  ASSUME TypeOK, Environment
  PROVE  TypeOK'
<1> USE DEF TypeOK, FaultCounts
<1>1. CASE Tick /\ UNCHANGED <<queue, workerVars, apiVars, faults>>
  BY <1>1 DEF Tick, workerVars, apiVars, StoreTypeOK, QueueTypeOK, WorkerTypeOK, ApiTypeOK
<1>2. ASSUME NEW t \in Tasks, LockExpires(t), faults' \in FaultCounts,
             UNCHANGED <<queue, workerVars, apiVars>>
      PROVE  TypeOK'
  <2>1. StoreTypeOK'
    BY <1>2, LockExpiryTypes DEF LockExpires, StoreTypeOK
  <2> QED
    BY <1>2, <2>1 DEF workerVars, apiVars, QueueTypeOK, WorkerTypeOK, ApiTypeOK
<1>3. CASE \E t \in Tasks :
             OrphanLockExpires(t) /\ UNCHANGED <<queue, workerVars, apiVars, faults>>
  BY <1>2, <1>3 DEF OrphanLockExpires
<1>4. CASE \E t \in Tasks :
             Suspicion(t) /\ Fault("suspicion") /\ UNCHANGED <<queue, workerVars, apiVars>>
  BY <1>2, <1>4, FaultType DEF Suspicion
<1>5. CASE QueueLost /\ Fault("redis_loss") /\ UNCHANGED <<storeVars, workerVars, apiVars>>
  BY <1>5, FaultType DEF QueueLost, workerVars, apiVars, storeVars, StoreTypeOK, QueueTypeOK,
              WorkerTypeOK, ApiTypeOK
<1> QED
  BY <1>1, <1>3, <1>4, <1>5 DEF Environment

\* One step of the system preserves the types.
LEMMA NextTypeOK == TypeOK /\ [Next]_vars => TypeOK'
<1> SUFFICES ASSUME TypeOK, [Next]_vars PROVE TypeOK'
  OBVIOUS
<1>1. CASE Next
  BY <1>1, EnvironmentTypes, WorkerTypes, RequestTypes, ApiTypes DEF Next
<1>2. CASE UNCHANGED vars
  BY <1>2 DEF vars, storeVars, workerVars, apiVars, TypeOK, StoreTypeOK, QueueTypeOK,
              WorkerTypeOK, ApiTypeOK
<1> QED
  BY <1>1, <1>2

\* The system is well typed: in particular whoever is about to claim, run or
\* push a task, worker, handler or requeuer, knows the id of one.
THEOREM TypeCorrect == Spec => []TypeOK
  BY InitTypeOK, NextTypeOK, PTL DEF Spec

=============================================================================
