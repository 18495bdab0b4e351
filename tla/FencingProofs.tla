--------------------------- MODULE FencingProofs ---------------------------
(***************************************************************************)
(* The lock and the fence of the result writes: FencingInv is inductive,   *)
(* so the row named by a worker's fence is always that of its own latest   *)
(* claim, terminal rows are never written again, and attempts are spent    *)
(* before a task is dead-lettered.                                         *)
(***************************************************************************)
EXTENDS PipelineProofs

USE DEF Holding, HasAutomation

-----------------------------------------------------------------------------
(* What the invariant says of one row, and what the statements do to a row. *)

RowOK(row) ==
  /\ row.status = "IN_PROGRESS" <=> row.locked_by # None
  /\ row.status = "IN_PROGRESS" <=> row.locked_at # "null"
  /\ row.status = "DEAD_LETTER" => row.service = "unregistered" \/ row.attempts >= MaxAttempts
  /\ row.status = "RETRY" => row.attempts < MaxAttempts

TableOK == \A t \in Tasks : RowOK(tasks[t])

\* The invariant, with its row part folded into TableOK.
LEMMA FencingInvSplit ==
  FencingInv <=> TypeOK /\ TableOK /\ OwnerHoldsCurrentAttempt /\ HolderKnowsService
  BY DEF FencingInv, TableOK, RowOK, LockConsistent, DeadLetterExhausted, RetryHasBudget

\* The same of the next state.
LEMMA FencingInvSplitPrime ==
  TypeOK' /\ TableOK' /\ OwnerHoldsCurrentAttempt' /\ HolderKnowsService' => FencingInv'
  BY DEF FencingInv, TableOK, RowOK, LockConsistent, DeadLetterExhausted, RetryHasBudget

\* Of all that the API process does by itself, only RequeueTask writes the table.
LEMMA ApiWritesOnlyResets ==
  ASSUME TypeOK, ApiNext
  PROVE  UNCHANGED tasks \/ \E t \in Tasks : RequeueTask(t)
<1>1. rq.batch \subseteq Tasks
  BY DEF TypeOK, ApiTypeOK
<1>2. CASE RequeueReset \/ RequeueResetFails
  BY <1>1, <1>2 DEF RequeueReset, RequeueResetFails
<1> QED
  BY <1>2 DEF ApiNext, Requeuer, Scheduler, RequeueScan, RequeuePush, RequeuePushFails,
              ScheduleScan, SchedulePush, SchedulePushFails, ApiShutdown, ApiExit,
              ApiCrash, ApiStart, storeVars

\* Released unlocks a row and keeps its attempts and service.
LEMMA ReleasedFields ==
  ASSUME NEW row \in Row, NEW s \in Statuses
  PROVE  /\ Released(row, s).status = s
         /\ Released(row, s).locked_by = None
         /\ Released(row, s).locked_at = "null"
         /\ Released(row, s).attempts = row.attempts
         /\ Released(row, s).service = row.service
  BY DEF Released, Row, Statuses

\* ClaimedBy locks a row for w and counts the attempt.
LEMMA ClaimedFields ==
  ASSUME NEW row \in Row, NEW w \in Workers
  PROVE  /\ ClaimedBy(row, w).status = "IN_PROGRESS"
         /\ ClaimedBy(row, w).locked_by = w
         /\ ClaimedBy(row, w).locked_at = "fresh"
         /\ ClaimedBy(row, w).attempts = row.attempts + 1
         /\ ClaimedBy(row, w).service = row.service
  BY DEF ClaimedBy, Row, Statuses

\* A row released into status s satisfies RowOK if its count fits s.
LEMMA ReleasedOK ==
  ASSUME NEW row \in Row, NEW s \in Statuses \ {"IN_PROGRESS"},
         s = "DEAD_LETTER" => row.service = "unregistered" \/ row.attempts >= MaxAttempts,
         s = "RETRY" => row.attempts < MaxAttempts
  PROVE  RowOK(Released(row, s))
  BY ReleasedFields DEF RowOK

\* A claimed row satisfies RowOK.
LEMMA ClaimedOK ==
  ASSUME NEW row \in Row, NEW w \in Workers
  PROVE  RowOK(ClaimedBy(row, w))
  BY ClaimedFields, StoreAssumption DEF RowOK

\* Changing one row to one that satisfies RowOK keeps TableOK.
LEMMA TableStep ==
  ASSUME TypeOK, TableOK, NEW t \in Tasks, NEW row, RowOK(row),
         tasks' = [tasks EXCEPT ![t] = row]
  PROVE  TableOK'
  BY DEF TableOK, RowOK, TypeOK, StoreTypeOK

-----------------------------------------------------------------------------
(* Ownership. *)

\* A step that leaves rows, or frees or keeps their lock and count, and leaves the
\* workers alone, keeps ownership.
LEMMA StoreOnlyStep ==
  ASSUME FencingInv, UNCHANGED <<pc, job, attempt>>,
         \A t \in Tasks : /\ Exists(t) => Exists(t)' /\ tasks'[t].service = tasks[t].service
                          /\ tasks'[t].locked_by # None =>
                               /\ tasks'[t].locked_by = tasks[t].locked_by
                               /\ tasks'[t].attempts = tasks[t].attempts
  PROVE  OwnerHoldsCurrentAttempt' /\ HolderKnowsService'
<1>1. OwnerHoldsCurrentAttempt'
  BY StoreAssumption DEF FencingInv, OwnerHoldsCurrentAttempt
<1>2. HolderKnowsService'
  BY DEF FencingInv, HolderKnowsService, TypeOK, WorkerTypeOK, Exists
<1> QED
  BY <1>1, <1>2

\* A step of worker w that leaves the other workers and the table alone, taken
\* while w holds nothing and leading to where it holds nothing, keeps ownership.
LEMMA IdleStep ==
  ASSUME FencingInv, NEW w \in Workers, UNCHANGED tasks,
         pc[w] \notin Holding \cup {"dead"}, pc'[w] \notin Holding,
         \A v \in Workers \ {w} : pc'[v] = pc[v] /\ job'[v] = job[v] /\ attempt'[v] = attempt[v]
  PROVE  TableOK' /\ OwnerHoldsCurrentAttempt' /\ HolderKnowsService'
<1>1. TableOK'
  BY FencingInvSplit DEF TableOK, RowOK
<1>2. OwnerHoldsCurrentAttempt'
  BY DEF FencingInv, OwnerHoldsCurrentAttempt
<1>3. HolderKnowsService'
  BY DEF FencingInv, HolderKnowsService, Exists
<1> QED
  BY <1>1, <1>2, <1>3

\* A step in which w ends its work on t = job[w], releasing the row of t into
\* status s if it owns it, keeps ownership.
LEMMA ReleaseStep ==
  ASSUME FencingInv, NEW w \in Workers, NEW row,
         pc[w] \in Holding, pc'[w] \notin Holding,
         \A v \in Workers \ {w} : pc'[v] = pc[v] /\ job'[v] = job[v] /\ attempt'[v] = attempt[v],
         Owns(w, job[w]) => /\ RowOK(row) /\ row.locked_by = None /\ row.status # "ABSENT"
                            /\ row.service = tasks[job[w]].service,
         tasks' = IF Owns(w, job[w]) THEN [tasks EXCEPT ![job[w]] = row] ELSE tasks
  PROVE  TableOK' /\ OwnerHoldsCurrentAttempt' /\ HolderKnowsService'
<1> job[w] \in Tasks /\ tasks \in [Tasks -> Row]
  BY DEF FencingInv, TypeOK, WorkerTypeOK, StoreTypeOK
<1>1. CASE Owns(w, job[w])
  <2>1. tasks' = [tasks EXCEPT ![job[w]] = row]
    BY <1>1
  <2>2. TableOK'
    BY <1>1, <2>1, TableStep, FencingInvSplit
  <2>3. \A t \in Tasks : tasks'[t] = IF t = job[w] THEN row ELSE tasks[t]
    BY <2>1
  <2>4. \A t \in Tasks : tasks'[t].locked_by # w
    BY <1>1, <2>3, StoreAssumption DEF FencingInv, OwnerHoldsCurrentAttempt
  <2>5. OwnerHoldsCurrentAttempt'
    <3> SUFFICES ASSUME NEW t \in Tasks, NEW v \in Workers \ {w}, tasks'[t].locked_by = v
                 PROVE  \/ pc'[v] = "dead"
                        \/ /\ pc'[v] \in Holding /\ job'[v] = t
                           /\ attempt'[v] = tasks'[t].attempts
      BY <2>4 DEF OwnerHoldsCurrentAttempt
    <3>1. t # job[w]
      BY <1>1, <2>3, StoreAssumption
    <3> QED
      BY <2>3, <3>1 DEF FencingInv, OwnerHoldsCurrentAttempt
  <2>6. HolderKnowsService'
    <3> SUFFICES ASSUME NEW v \in Workers \ {w}, pc[v] \in Holding
                 PROVE  /\ tasks'[job[v]].status # "ABSENT"
                        /\ pc[v] = "reject" <=> tasks'[job[v]].service = "unregistered"
      BY DEF HolderKnowsService, Exists
    <3>1. job[v] \in Tasks
      BY DEF FencingInv, TypeOK, WorkerTypeOK
    <3> QED
      BY <1>1, <2>3, <3>1 DEF FencingInv, HolderKnowsService, Exists
  <2> QED
    BY <2>2, <2>5, <2>6
<1>2. CASE ~ Owns(w, job[w])
  <2>1. tasks' = tasks /\ \A t \in Tasks : tasks[t].locked_by # w
    BY <1>2 DEF FencingInv, OwnerHoldsCurrentAttempt, Owns
  <2>2. TableOK'
    BY <2>1, FencingInvSplit DEF TableOK, RowOK
  <2>3. OwnerHoldsCurrentAttempt'
    BY <2>1 DEF FencingInv, OwnerHoldsCurrentAttempt
  <2>4. HolderKnowsService'
    BY <2>1 DEF FencingInv, HolderKnowsService, Exists
  <2> QED
    BY <2>2, <2>3, <2>4
<1> QED
  BY <1>1, <1>2

-----------------------------------------------------------------------------
(* The steps. *)

\* The steps of a worker preserve the invariant.
LEMMA WorkerFencing ==
  ASSUME FencingInv, NEW w \in Workers, WorkerNext(w)
  PROVE  FencingInv'
<1> SUFFICES TableOK' /\ OwnerHoldsCurrentAttempt' /\ HolderKnowsService'
  BY WorkerTypes, FencingInvSplit, FencingInvSplitPrime DEF FencingInv
<1> USE DEF storeVars
<1>t. TypeOK /\ TableOK /\ pc \in [Workers -> Holding \cup {"off", "brpop", "claim", "repush", "exited", "dead"}]
      /\ tasks \in [Tasks -> Row]
      /\ job \in [Workers -> Tasks \cup {None}] /\ attempt \in [Workers -> Nat]
  BY FencingInvSplit DEF FencingInv, TypeOK, WorkerTypeOK, StoreTypeOK
<1>j. pc[w] \in Holding \cup {"claim", "repush"} => job[w] \in Tasks
  BY DEF FencingInv, TypeOK, WorkerTypeOK
<1>1. CASE Start(w) \/ Pop(w) \/ Leave(w) \/ ClaimLost(w) \/ Repush(w)
  <2>1. UNCHANGED tasks /\ pc[w] \notin Holding \cup {"dead"} /\ pc'[w] \notin Holding
    BY <1>1, <1>t DEF Start, Pop, Leave, ClaimLost, Repush, Goto, NextTask
  <2>2. \A v \in Workers \ {w} : pc'[v] = pc[v] /\ job'[v] = job[v] /\ attempt'[v] = attempt[v]
    BY <1>1, <1>t DEF Start, Pop, Leave, ClaimLost, Repush, Goto, NextTask
  <2> QED
    BY <2>1, <2>2, IdleStep
<1>2. CASE ClaimWon(w)
  <2> DEFINE t == job[w]
  <2>1. t \in Tasks /\ Claimable(t) /\ tasks' = [tasks EXCEPT ![t] = ClaimedBy(tasks[t], w)]
    BY <1>2, <1>j DEF ClaimWon, claimTask
  <2>2. /\ RowOK(ClaimedBy(tasks[t], w))
        /\ ClaimedBy(tasks[t], w).status = "IN_PROGRESS"
        /\ ClaimedBy(tasks[t], w).locked_by = w
        /\ ClaimedBy(tasks[t], w).service = tasks[t].service
    BY <2>1, <1>t, ClaimedOK, ClaimedFields
  <2>3. TableOK'
    BY <2>1, <2>2, <1>t, TableStep
  <2>4. \A u \in Tasks : tasks'[u] = IF u = t THEN ClaimedBy(tasks[t], w) ELSE tasks[u]
    BY <2>1, <1>t
  <2>5. \A u \in Tasks : tasks[u].locked_by # w
    BY <1>2 DEF ClaimWon, FencingInv, OwnerHoldsCurrentAttempt
  <2>6. /\ pc'[w] \in {"running", "reject"} /\ job'[w] = t
        /\ attempt'[w] = tasks'[t].attempts
        /\ pc'[w] = "reject" <=> tasks[t].service # "registered"
    BY <1>2, <1>t DEF ClaimWon
  <2>7. \A v \in Workers \ {w} : pc'[v] = pc[v] /\ job'[v] = job[v] /\ attempt'[v] = attempt[v]
    BY <1>2, <1>t DEF ClaimWon
  <2>8. OwnerHoldsCurrentAttempt'
    BY <2>1, <2>2, <2>4, <2>5, <2>6, <2>7 DEF FencingInv, OwnerHoldsCurrentAttempt
  <2>9. tasks[t].service \in {"registered", "unregistered"}
    BY <2>1, <1>t DEF Row
  <2>10. \A v \in Workers : pc[v] \in Holding => job[v] \in Tasks
    BY DEF FencingInv, TypeOK, WorkerTypeOK
  <2>11. HolderKnowsService'
    BY <2>1, <2>2, <2>4, <2>6, <2>7, <2>9, <2>10 DEF FencingInv, HolderKnowsService, Exists
  <2> QED
    BY <2>3, <2>8, <2>11
<1>3. ASSUME pc[w] \in Holding
      PROVE  /\ job[w] \in Tasks /\ tasks[job[w]] \in Row
             /\ Owns(w, job[w]) => attempt[w] = tasks[job[w]].attempts
             /\ pc[w] = "reject" <=> tasks[job[w]].service = "unregistered"
  BY <1>3, <1>j, <1>t DEF Owns, FencingInv, OwnerHoldsCurrentAttempt, HolderKnowsService
<1>4. ASSUME NEW s \in Statuses \ {"IN_PROGRESS"}, pc[w] \in Holding, pc'[w] \notin Holding,
             \A v \in Workers \ {w} : pc'[v] = pc[v] /\ job'[v] = job[v] /\ attempt'[v] = attempt[v],
             Owns(w, job[w]) /\ s = "DEAD_LETTER"
               => pc[w] = "reject" \/ attempt[w] >= MaxAttempts,
             Owns(w, job[w]) /\ s = "RETRY" => attempt[w] < MaxAttempts,
             tasks' = IF Owns(w, job[w])
                      THEN [tasks EXCEPT ![job[w]] = Released(tasks[job[w]], s)] ELSE tasks
      PROVE  TableOK' /\ OwnerHoldsCurrentAttempt' /\ HolderKnowsService'
  <2> DEFINE row == Released(tasks[job[w]], s)
  <2>1. Owns(w, job[w]) => /\ RowOK(row) /\ row.locked_by = None /\ row.status # "ABSENT"
                           /\ row.service = tasks[job[w]].service
    BY <1>3, <1>4, ReleasedOK, ReleasedFields DEF Statuses
  <2> HIDE DEF row
  <2>2. tasks' = IF Owns(w, job[w]) THEN [tasks EXCEPT ![job[w]] = row] ELSE tasks
    BY <1>4 DEF row
  <2> QED
    BY <1>4, <2>1, <2>2, ReleaseStep
<1>5. ASSUME NextTask(w)
      PROVE  /\ pc'[w] \notin Holding
             /\ \A v \in Workers \ {w} : pc'[v] = pc[v] /\ job'[v] = job[v] /\ attempt'[v] = attempt[v]
  BY <1>5, <1>t DEF NextTask
<1>6. CASE Reject(w)
  BY <1>4, <1>5, <1>6 DEF Reject, updateTaskDeadLetter, Statuses
<1>7. CASE SaveSuccess(w)
  BY <1>4, <1>5, <1>7 DEF SaveSuccess, updateTaskSuccess, Statuses
<1>8. CASE SaveDeadLetter(w)
  BY <1>4, <1>5, <1>8 DEF SaveDeadLetter, Exhausted, updateTaskDeadLetter, Statuses
<1>9. CASE SaveRetry(w)
  <2>1. /\ pc'[w] \notin Holding
        /\ \A v \in Workers \ {w} : pc'[v] = pc[v] /\ job'[v] = job[v] /\ attempt'[v] = attempt[v]
    BY <1>5, <1>9, <1>t DEF SaveRetry, Goto
  <2>2. attempt[w] < MaxAttempts
    BY <1>9, <1>t, StoreAssumption DEF SaveRetry, Exhausted
  <2> QED
    BY <1>4, <1>9, <2>1, <2>2 DEF SaveRetry, updateTaskRetry, Statuses
<1>10. CASE SaveSchedule(w)
  <2>1. PICK sch \in Schedules : scheduleTask(job[w], w, sch)
    BY <1>10 DEF SaveSchedule
  <2> DEFINE row == [Released(tasks[job[w]], "PENDING") EXCEPT !.scheduled_for = sch]
  <2>2. pc[w] \in Holding
    BY <1>10 DEF SaveSchedule
  <2>3. Released(tasks[job[w]], "PENDING") \in Row
    BY <1>3, <2>2, ReleasedType DEF Statuses
  <2>4. /\ row.status = "PENDING" /\ row.locked_by = None /\ row.locked_at = "null"
        /\ row.service = tasks[job[w]].service
    BY <1>3, <2>2, <2>3, ReleasedFields DEF Row, Statuses
  <2>5. RowOK(row)
    BY <2>4 DEF RowOK
  <2>6. tasks' = IF Owns(w, job[w]) THEN [tasks EXCEPT ![job[w]] = row] ELSE tasks
    BY <2>1 DEF scheduleTask
  <2> HIDE DEF row
  <2> QED
    BY <1>5, <1>10, <2>2, <2>4, <2>5, <2>6, ReleaseStep DEF SaveSchedule
<1>11. CASE AutomationReturns(w)
  <2>1. UNCHANGED <<tasks, job, attempt>> /\ pc[w] = "running"
        /\ pc'[w] \in {"success", "failure", "scheduled"}
        /\ \A v \in Workers \ {w} : pc'[v] = pc[v]
    BY <1>11, <1>t, WorkerAssumption DEF AutomationReturns, Goto
  <2>2. TableOK'
    BY <2>1, <1>t DEF TableOK, RowOK
  <2>3. OwnerHoldsCurrentAttempt'
    BY <2>1 DEF FencingInv, OwnerHoldsCurrentAttempt
  <2>4. HolderKnowsService'
    BY <2>1 DEF FencingInv, HolderKnowsService, Exists
  <2> QED
    BY <2>2, <2>3, <2>4
<1>12. CASE SendBeat(w) \/ Shutdown(w)
  BY <1>12 DEF SendBeat, Shutdown, FencingInv, LockConsistent, DeadLetterExhausted,
               RetryHasBudget, TableOK, RowOK, OwnerHoldsCurrentAttempt,
               HolderKnowsService, Exists
<1>13. CASE \E t \in Tasks : LandBeat(<<w, t>>)
  <2>1. PICK t \in Tasks : heartbeat(t, w) /\ UNCHANGED <<pc, job, attempt>>
    BY <1>13 DEF LandBeat
  <2>2. CASE UNCHANGED tasks
    BY <1>t, <2>1, <2>2, StoreOnlyStep DEF TableOK, RowOK, Exists
  <2>3. CASE tasks[t].status = "IN_PROGRESS" /\ tasks' # tasks
    <3> DEFINE row == [tasks[t] EXCEPT !.locked_at = "fresh", !.updated_at = "later"]
    <3>1. tasks' = [tasks EXCEPT ![t] = row]
      BY <1>t, <2>1, <2>3 DEF heartbeat
    <3>2. /\ row.status = tasks[t].status /\ row.locked_by = tasks[t].locked_by
          /\ row.locked_at = "fresh" /\ row.attempts = tasks[t].attempts
          /\ row.service = tasks[t].service
      BY <1>t DEF Row
    <3> HIDE DEF row
    <3>3. RowOK(row)
      BY <1>t, <2>3, <3>2 DEF TableOK, RowOK
    <3>4. TableOK'
      BY <1>t, <3>1, <3>3, TableStep
    <3>5. \A u \in Tasks : tasks'[u] = IF u = t THEN row ELSE tasks[u]
      BY <1>t, <3>1
    <3> QED
      BY <2>1, <3>2, <3>4, <3>5, StoreOnlyStep DEF Exists
  <2> QED
    BY <2>1, <2>2, <2>3 DEF heartbeat
<1>14. CASE Crash(w)
  <2>1. UNCHANGED tasks /\ pc'[w] = "dead"
        /\ \A v \in Workers \ {w} : pc'[v] = pc[v] /\ job'[v] = job[v] /\ attempt'[v] = attempt[v]
    BY <1>14, <1>t DEF Crash
  <2>2. TableOK'
    BY <2>1, <1>t DEF TableOK, RowOK
  <2>3. OwnerHoldsCurrentAttempt'
    BY <2>1 DEF FencingInv, OwnerHoldsCurrentAttempt
  <2>4. HolderKnowsService'
    BY <2>1 DEF FencingInv, HolderKnowsService, Exists
  <2> QED
    BY <2>2, <2>3, <2>4
<1> QED
  BY <1>1, <1>2, <1>6, <1>7, <1>8, <1>9, <1>10, <1>11, <1>12, <1>13, <1>14
  DEF WorkerNext, WorkerStep

\* A new row satisfies RowOK.
LEMMA NewRowOK ==
  ASSUME NEW svc, NEW sch
  PROVE  RowOK(NewRow(svc, sch)) /\ NewRow(svc, sch).locked_by = None
  BY DEF RowOK, NewRow

\* An INSERT preserves the row part, and no worker is concerned.
LEMMA InsertFencing ==
  ASSUME FencingInv, NEW t \in Tasks, NEW svc \in Services,
         NEW sch \in Schedules \cup {None}, InsertTask(t, svc, sch),
         UNCHANGED <<pc, job, attempt>>
  PROVE  TableOK' /\ OwnerHoldsCurrentAttempt' /\ HolderKnowsService'
<1>1. TypeOK /\ TableOK /\ tasks \in [Tasks -> Row]
  BY FencingInvSplit DEF TypeOK, StoreTypeOK
<1> DEFINE row == NewRow(svc, sch)
<1>2. RowOK(row) /\ row.locked_by = None
  BY NewRowOK
<1>3. tasks' = [tasks EXCEPT ![t] = row] /\ ~ Exists(t)
  BY DEF InsertTask
<1> HIDE DEF row
<1>4. TableOK'
  BY <1>1, <1>2, <1>3, TableStep
<1>5. \A u \in Tasks : tasks'[u] = IF u = t THEN row ELSE tasks[u]
  BY <1>1, <1>3
<1> QED
  BY <1>2, <1>3, <1>4, <1>5, StoreOnlyStep DEF Exists

\* The steps of a request handler preserve the invariant.
LEMMA RequestFencing ==
  ASSUME FencingInv, NEW r \in Requests, RequestNext(r)
  PROVE  FencingInv'
<1> SUFFICES TableOK' /\ OwnerHoldsCurrentAttempt' /\ HolderKnowsService'
  BY RequestTypes, FencingInvSplit, FencingInvSplitPrime DEF FencingInv
<1>1. UNCHANGED <<pc, job, attempt>>
  BY DEF RequestNext, workerVars
<1>2. CASE UNCHANGED tasks
  BY <1>1, <1>2, FencingInvSplit, StoreOnlyStep DEF TableOK, RowOK, Exists
<1>3. CASE \E t \in Tasks, svc \in Services, sch \in Schedules \cup {None} :
             InsertTask(t, svc, sch)
  BY <1>1, <1>3, InsertFencing
<1> QED
  BY <1>2, <1>3 DEF RequestNext, CreateNew, CreateConflict, HandlerStep, ReadExisting,
                    Decide, PushNew, PushNewFails, CreateFails, storeVars

\* The requeuer, the scheduler and the life of the API process preserve it.
LEMMA ApiFencing ==
  ASSUME FencingInv, ApiNext
  PROVE  FencingInv'
<1> SUFFICES TableOK' /\ OwnerHoldsCurrentAttempt' /\ HolderKnowsService'
  BY ApiTypes, FencingInvSplit, FencingInvSplitPrime DEF FencingInv
<1>1. UNCHANGED <<pc, job, attempt>>
  BY DEF ApiNext, workerVars
<1>t. TypeOK /\ TableOK /\ tasks \in [Tasks -> Row]
  BY FencingInvSplit DEF TypeOK, StoreTypeOK
<1>2. CASE UNCHANGED tasks
  BY <1>1, <1>2, <1>t, StoreOnlyStep DEF TableOK, RowOK, Exists
<1>3. ASSUME NEW t \in Tasks, Stale(t),
             tasks' = [tasks EXCEPT ![t] = Released(tasks[t], "PENDING")]
      PROVE  TableOK' /\ OwnerHoldsCurrentAttempt' /\ HolderKnowsService'
  <2> DEFINE row == Released(tasks[t], "PENDING")
  <2>1. /\ RowOK(row) /\ row.status = "PENDING" /\ row.locked_by = None
        /\ row.service = tasks[t].service
    BY <1>t, ReleasedOK, ReleasedFields DEF Statuses
  <2>2. tasks' = [tasks EXCEPT ![t] = row]
    BY <1>3
  <2> HIDE DEF row
  <2>3. TableOK'
    BY <1>t, <2>1, <2>2, TableStep
  <2>4. \A u \in Tasks : tasks'[u] = IF u = t THEN row ELSE tasks[u]
    BY <1>t, <2>2
  <2> QED
    BY <1>1, <2>1, <2>3, <2>4, StoreOnlyStep DEF Exists
<1>4. CASE \E t \in Tasks : RequeueTask(t)
  BY <1>2, <1>3, <1>4 DEF RequeueTask
<1> QED
  BY <1>2, <1>4, <1>t, ApiWritesOnlyResets

\* Time and the loss of the queue preserve it.
LEMMA EnvironmentFencing ==
  ASSUME FencingInv, Environment
  PROVE  FencingInv'
<1> SUFFICES TableOK' /\ OwnerHoldsCurrentAttempt' /\ HolderKnowsService'
  BY EnvironmentTypes, FencingInvSplit, FencingInvSplitPrime DEF FencingInv
<1>1. UNCHANGED <<pc, job, attempt>>
  BY DEF Environment, workerVars
<1>t. TypeOK /\ TableOK /\ tasks \in [Tasks -> Row]
  BY FencingInvSplit DEF TypeOK, StoreTypeOK
<1>2. CASE UNCHANGED tasks
  BY <1>1, <1>2, <1>t, StoreOnlyStep DEF TableOK, RowOK, Exists
<1>3. ASSUME NEW t \in Tasks, LockExpires(t)
      PROVE  TableOK' /\ OwnerHoldsCurrentAttempt' /\ HolderKnowsService'
  <2> DEFINE row == [tasks[t] EXCEPT !.locked_at = "stale"]
  <2>1. /\ row.status = tasks[t].status /\ row.locked_by = tasks[t].locked_by
        /\ row.locked_at = "stale" /\ row.attempts = tasks[t].attempts
        /\ row.service = tasks[t].service
    BY <1>t DEF Row
  <2>2. tasks' = [tasks EXCEPT ![t] = row] /\ tasks[t].status = "IN_PROGRESS"
    BY <1>3 DEF LockExpires
  <2> HIDE DEF row
  <2>3. RowOK(row)
    BY <1>t, <2>1, <2>2 DEF TableOK, RowOK
  <2>4. TableOK'
    BY <1>t, <2>2, <2>3, TableStep
  <2>5. \A u \in Tasks : tasks'[u] = IF u = t THEN row ELSE tasks[u]
    BY <1>t, <2>2
  <2> QED
    BY <1>1, <2>1, <2>4, <2>5, StoreOnlyStep DEF Exists
<1> QED
  BY <1>2, <1>3 DEF Environment, OrphanLockExpires, Suspicion, Tick, QueueLost, storeVars

-----------------------------------------------------------------------------
(* The theorems. *)

\* The invariant is inductive.
LEMMA FencingStep == FencingInv /\ [Next]_vars => FencingInv'
<1> SUFFICES ASSUME FencingInv, [Next]_vars PROVE FencingInv'
  OBVIOUS
<1>1. CASE Next
  BY <1>1, EnvironmentFencing, WorkerFencing, RequestFencing, ApiFencing DEF Next
<1>2. CASE UNCHANGED vars
  <2>1. TypeOK'
    BY NextTypeOK DEF FencingInv
  <2> QED
    BY <1>2, <2>1 DEF vars, storeVars, workerVars, FencingInv, LockConsistent, Exists,
       OwnerHoldsCurrentAttempt, DeadLetterExhausted, RetryHasBudget, HolderKnowsService
<1> QED
  BY <1>1, <1>2

\* It holds at the start: no row exists, no worker runs.
LEMMA FencingInit == Init => FencingInv
<1> SUFFICES ASSUME Init PROVE FencingInv
  OBVIOUS
<1>1. TypeOK
  BY InitTypeOK
<1>2. /\ \A t \in Tasks : /\ tasks[t].status = "ABSENT" /\ tasks[t].locked_by = None
                          /\ tasks[t].locked_at = "null"
      /\ \A w \in Workers : pc[w] = "off"
  BY DEF Init, StoreInit, NewRow, WorkerInit
<1> QED
  BY <1>1, <1>2, StoreAssumption DEF FencingInv, LockConsistent, OwnerHoldsCurrentAttempt,
     DeadLetterExhausted, RetryHasBudget, HolderKnowsService

\* The inductive invariant holds of every behaviour.
THEOREM Fencing == Spec => []FencingInv
  BY FencingInit, FencingStep, PTL DEF Spec

\* Rows are locked exactly while IN_PROGRESS.
THEOREM LocksConsistent == Spec => []LockConsistent
<1>1. FencingInv => LockConsistent
  BY DEF FencingInv
<1> QED
  BY <1>1, Fencing, PTL

\* The fence on locked_by admits only the latest attempt's worker: the worker
\* named in a row is dead or executes exactly the attempt the row counts.
THEOREM OwnersAreCurrent == Spec => []OwnerHoldsCurrentAttempt
<1>1. FencingInv => OwnerHoldsCurrentAttempt
  BY DEF FencingInv
<1> QED
  BY <1>1, Fencing, PTL

\* Supported tasks are dead-lettered only once all attempts are spent.
THEOREM DeadLettersExhausted == Spec => []DeadLetterExhausted
<1>1. FencingInv => DeadLetterExhausted
  BY DEF FencingInv
<1> QED
  BY <1>1, Fencing, PTL

\* A task in RETRY has an attempt left.
THEOREM RetriesHaveBudget == Spec => []RetryHasBudget
<1>1. FencingInv => RetryHasBudget
  BY DEF FencingInv
<1> QED
  BY <1>1, Fencing, PTL

\* No step writes a terminal row: it is not absent, not claimable, not stale, and
\* no worker owns it.
LEMMA TerminalStep ==
  ASSUME FencingInv, Next, NEW t \in Tasks,
         tasks[t].status \in {"SUCCESS", "DEAD_LETTER"}
  PROVE  tasks'[t] = tasks[t]
<1>t. tasks \in [Tasks -> Row] /\ rq.batch \subseteq Tasks
  BY DEF FencingInv, TypeOK, StoreTypeOK, ApiTypeOK
<1>1. /\ Exists(t) /\ ~ Claimable(t) /\ ~ Stale(t) /\ tasks[t].status # "IN_PROGRESS"
      /\ \A w \in Workers : ~ Owns(w, t)
  BY StoreAssumption DEF Exists, Claimable, Stale, Owns, FencingInv, LockConsistent
<1>2. ASSUME NEW w \in Workers, WorkerNext(w)
      PROVE  tasks'[t] = tasks[t]
  <2>1. CASE UNCHANGED tasks
    BY <2>1
  <2>2. CASE ClaimWon(w)
    BY <1>1, <1>t, <2>2 DEF ClaimWon, claimTask
  <2>3. CASE Reject(w) \/ SaveDeadLetter(w)
    BY <1>1, <1>t, <2>3 DEF Reject, SaveDeadLetter, updateTaskDeadLetter
  <2>4. CASE SaveSuccess(w) \/ SaveRetry(w)
    BY <1>1, <1>t, <2>4 DEF SaveSuccess, SaveRetry, updateTaskSuccess, updateTaskRetry
  <2>5. CASE SaveSchedule(w)
    BY <1>1, <1>t, <2>5 DEF SaveSchedule, scheduleTask
  <2>6. CASE \E u \in Tasks : LandBeat(<<w, u>>)
    BY <1>1, <1>t, <2>6 DEF LandBeat, heartbeat
  <2> QED
    BY <1>2, <2>1, <2>2, <2>3, <2>4, <2>5, <2>6
    DEF WorkerNext, WorkerStep, Start, Pop, Leave, ClaimLost, SendBeat, AutomationReturns,
        Repush, Crash, Shutdown, storeVars
<1>3. ASSUME NEW r \in Requests, RequestNext(r)
      PROVE  tasks'[t] = tasks[t]
  <2>1. ASSUME NEW u \in Tasks, NEW svc, NEW sch, InsertTask(u, svc, sch)
        PROVE  tasks'[t] = tasks[t]
    BY <1>1, <1>t, <2>1 DEF InsertTask
  <2> QED
    BY <1>3, <2>1 DEF RequestNext, CreateNew, CreateConflict, HandlerStep, ReadExisting,
                      Decide, PushNew, PushNewFails, CreateFails, storeVars
<1>4. ASSUME ApiNext
      PROVE  tasks'[t] = tasks[t]
  <2>1. CASE \E u \in Tasks : RequeueTask(u)
    BY <1>1, <1>t, <2>1 DEF RequeueTask
  <2>2. TypeOK
    BY DEF FencingInv
  <2> QED
    BY <1>4, <2>1, <2>2, ApiWritesOnlyResets
<1>5. ASSUME Environment
      PROVE  tasks'[t] = tasks[t]
  BY <1>1, <1>5, <1>t DEF Environment, OrphanLockExpires, Suspicion, LockExpires, Tick,
                          QueueLost, storeVars
<1> QED
  BY <1>2, <1>3, <1>4, <1>5 DEF Next

\* SUCCESS and DEAD_LETTER are final: late heartbeats, stale result writes,
\* requeues and duplicate queue entries never touch such a row again.
THEOREM TerminalIsFinal == Spec => TerminalForever
<1>1. FencingInv /\ [Next]_vars =>
        [\A t \in Tasks : tasks[t].status \in {"SUCCESS", "DEAD_LETTER"}
                            => tasks'[t] = tasks[t]]_vars
  BY TerminalStep
<1> QED
  BY <1>1, Fencing, PTL DEF Spec, TerminalForever

=============================================================================
