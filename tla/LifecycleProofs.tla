-------------------------- MODULE LifecycleProofs --------------------------
(***************************************************************************)
(* Pipeline implements TaskLifecycle: under the mapping phaseBar, countBar,*)
(* runsBar, serviceBar every step of the system is a step of the abstract  *)
(* specification or leaves its variables alone.                            *)
(***************************************************************************)
EXTENDS FencingProofs

USE DEF Holding, HasAutomation

-----------------------------------------------------------------------------
(* How the mapped variables move with the table and with one worker. *)

\* A step that leaves the rows alone leaves their image alone.
LEMMA SameRows ==
  ASSUME UNCHANGED tasks
  PROVE  UNCHANGED <<phaseBar, countBar, serviceBar>>
  BY DEF phaseBar, countBar, serviceBar

\* The write of one row changes the image of that task only.
LEMMA OneRow ==
  ASSUME tasks \in [Tasks -> Row], NEW t \in Tasks, NEW row,
         tasks' = [tasks EXCEPT ![t] = row]
  PROVE  /\ phaseBar' = [phaseBar EXCEPT ![t] = PhaseOf(row.status)]
         /\ countBar' = [countBar EXCEPT ![t] = row.attempts]
         /\ serviceBar' = [serviceBar EXCEPT ![t] = row.service]
<1>1. \A u \in Tasks : tasks'[u] = IF u = t THEN row ELSE tasks[u]
  OBVIOUS
<1> QED
  BY <1>1 DEF phaseBar, countBar, serviceBar

\* The fields of a row that keep their values keep their image.
LEMMA SameField ==
  ASSUME tasks \in [Tasks -> Row], NEW t \in Tasks
  PROVE  /\ [phaseBar EXCEPT ![t] = PhaseOf(tasks[t].status)] = phaseBar
         /\ [countBar EXCEPT ![t] = tasks[t].attempts] = countBar
         /\ [serviceBar EXCEPT ![t] = tasks[t].service] = serviceBar
  BY DEF phaseBar, countBar, serviceBar

\* The image of one task.
LEMMA BarOf ==
  ASSUME NEW t \in Tasks
  PROVE  /\ phaseBar[t] = PhaseOf(tasks[t].status)
         /\ countBar[t] = tasks[t].attempts
         /\ serviceBar[t] = tasks[t].service
  BY DEF phaseBar, countBar, serviceBar

\* Workers other than w are where they were.
OthersStay(w) ==
  \A v \in Workers \ {w} : pc'[v] = pc[v] /\ job'[v] = job[v] /\ attempt'[v] = attempt[v]

Run(w) == <<w, job[w], attempt[w]>>

\* A worker that holds no task before or after the step leaves the executions alone.
LEMMA RunsIdle ==
  ASSUME NEW w \in Workers, OthersStay(w), pc[w] \notin Holding, pc'[w] \notin Holding
  PROVE  runsBar' = runsBar
  BY DEF runsBar, OthersStay

\* A worker that stops holding its task ends its execution.
LEMMA RunsEnd ==
  ASSUME NEW w \in Workers, OthersStay(w), pc[w] \in Holding, pc'[w] \notin Holding
  PROVE  Run(w) \in runsBar /\ runsBar' = runsBar \ {Run(w)}
  BY DEF runsBar, OthersStay, Run

\* A worker that wins a claim begins an execution.
LEMMA RunsBegin ==
  ASSUME NEW w \in Workers, OthersStay(w), pc[w] \notin Holding, pc'[w] \in Holding
  PROVE  /\ runsBar' = runsBar \cup {<<w, job'[w], attempt'[w]>>}
         /\ \A x \in runsBar : x[1] # w
  BY DEF runsBar, OthersStay

\* A step that leaves the workers alone leaves the executions alone.
LEMMA RunsSame ==
  ASSUME UNCHANGED <<pc, job, attempt>>
  PROVE  runsBar' = runsBar
  BY DEF runsBar

-----------------------------------------------------------------------------
(* The steps. *)

\* A row that does not exist has seen no attempt.
AbsentUntried == \A t \in Tasks : tasks[t].status = "ABSENT" => tasks[t].attempts = 0

AbstractStep == Lifecycle!LNext \/ UNCHANGED <<phaseBar, countBar, runsBar, serviceBar>>

\* The end of an execution: its outcome counts if the fence lets it through, that
\* is if it is the latest attempt; otherwise it vanishes.
LEMMA EndStep ==
  ASSUME FencingInv, NEW w \in Workers, OthersStay(w), NEW row,
         pc[w] \in Holding, pc'[w] \notin Holding,
         tasks' = IF Owns(w, job[w]) THEN [tasks EXCEPT ![job[w]] = row] ELSE tasks,
         Owns(w, job[w]) =>
           /\ row.attempts = tasks[job[w]].attempts /\ row.service = tasks[job[w]].service
           /\ \/ row.status = "DEAD_LETTER" /\ (pc[w] = "reject" \/ attempt[w] >= MaxAttempts)
              \/ row.status \in {"SUCCESS", "PENDING", "RETRY"} /\ pc[w] # "reject"
  PROVE  Lifecycle!LNext
<1> DEFINE t == job[w]
<1>t. t \in Tasks /\ tasks \in [Tasks -> Row]
  BY DEF FencingInv, TypeOK, WorkerTypeOK, StoreTypeOK
<1>1. Run(w) \in runsBar /\ runsBar' = runsBar \ {Run(w)}
  BY RunsEnd
<1>2. CASE Owns(w, t)
  <2>1. tasks' = [tasks EXCEPT ![t] = row]
    BY <1>2
  <2>2. /\ phaseBar' = [phaseBar EXCEPT ![t] = PhaseOf(row.status)]
        /\ countBar' = countBar /\ serviceBar' = serviceBar
    <3>1. /\ phaseBar' = [phaseBar EXCEPT ![t] = PhaseOf(row.status)]
          /\ countBar' = [countBar EXCEPT ![t] = row.attempts]
          /\ serviceBar' = [serviceBar EXCEPT ![t] = row.service]
      BY <1>t, <2>1, OneRow
    <3>2. row.attempts = tasks[t].attempts /\ row.service = tasks[t].service
      BY <1>2
    <3> QED
      BY <1>t, <3>1, <3>2, SameField
  <2>3. /\ tasks[t].status = "IN_PROGRESS" /\ attempt[w] = tasks[t].attempts
        /\ pc[w] = "reject" <=> tasks[t].service = "unregistered"
    BY <1>2, <1>t, StoreAssumption
    DEF Owns, FencingInv, LockConsistent, OwnerHoldsCurrentAttempt, HolderKnowsService
  <2>4. tasks[t].service \in {"registered", "unregistered"}
    BY <1>t DEF Row
  <2>5. /\ phaseBar[t] = "running" /\ countBar[t] = attempt[w]
        /\ serviceBar[t] = tasks[t].service
    BY <1>t, <2>3, BarOf DEF PhaseOf
  <2>6. Lifecycle!Current(Run(w))
    BY <1>1, <2>5 DEF Lifecycle!Current, Run
  <2>7. CASE row.status = "DEAD_LETTER"
    <3>1. Lifecycle!MayGiveUp(t)
      BY <1>2, <2>3, <2>5, <2>7 DEF Lifecycle!MayGiveUp
    <3>2. Lifecycle!Become(t, "dead")
      BY <2>2, <2>7 DEF Lifecycle!Become, PhaseOf
    <3>3. Lifecycle!Conclude(Run(w))
      BY <1>1, <2>2, <2>6, <3>1, <3>2 DEF Lifecycle!Conclude, Run
    <3> QED
      BY <1>1, <3>3 DEF Lifecycle!LNext
  <2>8. CASE row.status \in {"SUCCESS", "PENDING", "RETRY"} /\ pc[w] # "reject"
    <3>1. serviceBar[t] = "registered"
      BY <2>3, <2>4, <2>5, <2>8
    <3>2. Lifecycle!Become(t, "done") \/ Lifecycle!Become(t, "waiting")
      BY <2>2, <2>8 DEF Lifecycle!Become, PhaseOf
    <3>3. Lifecycle!Conclude(Run(w))
      BY <1>1, <2>2, <2>6, <3>1, <3>2 DEF Lifecycle!Conclude, Run
    <3> QED
      BY <1>1, <3>3 DEF Lifecycle!LNext
  <2> QED
    BY <1>2, <2>7, <2>8
<1>3. CASE ~ Owns(w, t)
  <2>1. UNCHANGED <<phaseBar, countBar, serviceBar>>
    BY <1>3, SameRows
  <2>2. Lifecycle!Vanish(Run(w))
    BY <1>1, <2>1 DEF Lifecycle!Vanish
  <2> QED
    BY <1>1, <2>2 DEF Lifecycle!LNext
<1> QED
  BY <1>2, <1>3

\* The steps of a worker.
LEMMA WorkerImplements ==
  ASSUME FencingInv, NEW w \in Workers, WorkerNext(w)
  PROVE  AbstractStep
<1> USE DEF storeVars, AbstractStep
<1>t. /\ pc \in [Workers -> Holding \cup {"off", "brpop", "claim", "repush", "exited", "dead"}]
      /\ tasks \in [Tasks -> Row]
      /\ job \in [Workers -> Tasks \cup {None}] /\ attempt \in [Workers -> Nat]
  BY DEF FencingInv, TypeOK, WorkerTypeOK, StoreTypeOK
<1>j. pc[w] \in Holding \cup {"claim", "repush"} => job[w] \in Tasks
  BY DEF FencingInv, TypeOK, WorkerTypeOK
<1>1. CASE Start(w) \/ Pop(w) \/ Leave(w) \/ ClaimLost(w) \/ Repush(w)
  <2>1. UNCHANGED tasks /\ pc[w] \notin Holding /\ pc'[w] \notin Holding /\ OthersStay(w)
    BY <1>1, <1>t DEF Start, Pop, Leave, ClaimLost, Repush, Goto, NextTask, OthersStay
  <2> QED
    BY <2>1, SameRows, RunsIdle
<1>2. CASE ClaimWon(w)
  <2> DEFINE t == job[w]
             row == ClaimedBy(tasks[t], w)
  <2>1. t \in Tasks /\ Claimable(t) /\ tasks' = [tasks EXCEPT ![t] = row]
    BY <1>2, <1>j DEF ClaimWon, claimTask
  <2>2. /\ row.status = "IN_PROGRESS" /\ row.attempts = tasks[t].attempts + 1
        /\ row.service = tasks[t].service
    BY <2>1, <1>t, ClaimedFields
  <2> HIDE DEF row
  <2>3. /\ pc[w] \notin Holding /\ pc'[w] \in Holding /\ OthersStay(w)
        /\ job'[w] = t /\ attempt'[w] = tasks'[t].attempts
    BY <1>2, <1>t DEF ClaimWon, OthersStay
  <2>4. tasks'[t].attempts = countBar[t] + 1
    BY <1>t, <2>1, <2>2, BarOf
  <2>5. /\ phaseBar' = [phaseBar EXCEPT ![t] = "running"]
        /\ countBar' = [countBar EXCEPT ![t] = countBar[t] + 1]
        /\ serviceBar' = serviceBar
    <3>1. /\ phaseBar' = [phaseBar EXCEPT ![t] = PhaseOf(row.status)]
          /\ countBar' = [countBar EXCEPT ![t] = row.attempts]
          /\ serviceBar' = [serviceBar EXCEPT ![t] = row.service]
      BY <1>t, <2>1, OneRow
    <3>2. PhaseOf(row.status) = "running"
      BY <2>2 DEF PhaseOf
    <3>3. row.attempts = countBar[t] + 1 /\ row.service = tasks[t].service
      BY <2>1, <2>2, BarOf
    <3> QED
      BY <1>t, <2>1, <3>1, <3>2, <3>3, SameField
  <2>6. /\ runsBar' = runsBar \cup {<<w, t, countBar[t] + 1>>}
        /\ \A x \in runsBar : x[1] # w
    BY <2>3, <2>4, RunsBegin
  <2>7. phaseBar[t] = "waiting"
    BY <2>1, BarOf DEF Claimable, PhaseOf
  <2>8. Lifecycle!Begin(w, t)
    BY <2>5, <2>6, <2>7 DEF Lifecycle!Begin, Lifecycle!Become
  <2> QED
    BY <2>1, <2>8 DEF Lifecycle!LNext
<1>3. ASSUME NextTask(w)
      PROVE  pc'[w] \notin Holding /\ OthersStay(w)
  BY <1>3, <1>t DEF NextTask, OthersStay
<1>4. ASSUME NEW s \in {"SUCCESS", "RETRY", "DEAD_LETTER"},
             pc[w] \in Holding, pc'[w] \notin Holding, OthersStay(w),
             tasks' = IF Owns(w, job[w])
                      THEN [tasks EXCEPT ![job[w]] = Released(tasks[job[w]], s)] ELSE tasks,
             IF s = "DEAD_LETTER" THEN pc[w] = "reject" \/ attempt[w] >= MaxAttempts
                                  ELSE pc[w] # "reject"
      PROVE  Lifecycle!LNext
  <2> DEFINE row == Released(tasks[job[w]], s)
  <2>1. /\ row.attempts = tasks[job[w]].attempts /\ row.service = tasks[job[w]].service
        /\ row.status = s
    BY <1>4, <1>j, <1>t, ReleasedFields DEF Statuses
  <2> HIDE DEF row
  <2>2. tasks' = IF Owns(w, job[w]) THEN [tasks EXCEPT ![job[w]] = row] ELSE tasks
    BY <1>4 DEF row
  <2> QED
    BY <1>4, <2>1, <2>2, EndStep
<1>5. CASE Reject(w)
  BY <1>3, <1>4, <1>5 DEF Reject, updateTaskDeadLetter
<1>6. CASE SaveSuccess(w)
  BY <1>3, <1>4, <1>6 DEF SaveSuccess, updateTaskSuccess
<1>7. CASE SaveDeadLetter(w)
  BY <1>3, <1>4, <1>7 DEF SaveDeadLetter, Exhausted, updateTaskDeadLetter
<1>8. CASE SaveRetry(w)
  <2>1. pc'[w] \notin Holding /\ OthersStay(w)
    BY <1>3, <1>8, <1>t DEF SaveRetry, Goto, OthersStay
  <2> QED
    BY <1>4, <1>8, <2>1 DEF SaveRetry, updateTaskRetry
<1>9. CASE SaveSchedule(w)
  <2>1. PICK sch \in Schedules : scheduleTask(job[w], w, sch)
    BY <1>9 DEF SaveSchedule
  <2> DEFINE row == [Released(tasks[job[w]], "PENDING") EXCEPT !.scheduled_for = sch]
  <2>2. pc[w] = "scheduled" /\ tasks[job[w]] \in Row
    BY <1>9, <1>j, <1>t DEF SaveSchedule
  <2>3. Released(tasks[job[w]], "PENDING") \in Row
    BY <2>2, ReleasedType DEF Statuses
  <2>4. /\ row.status = "PENDING" /\ row.attempts = tasks[job[w]].attempts
        /\ row.service = tasks[job[w]].service
    BY <2>2, <2>3, ReleasedFields DEF Row, Statuses
  <2>5. tasks' = IF Owns(w, job[w]) THEN [tasks EXCEPT ![job[w]] = row] ELSE tasks
    BY <2>1 DEF scheduleTask
  <2> HIDE DEF row
  <2> QED
    BY <1>3, <1>9, <2>2, <2>4, <2>5, EndStep DEF SaveSchedule
<1>10. CASE AutomationReturns(w)
  <2>1. UNCHANGED <<tasks, job, attempt>>
    BY <1>10 DEF AutomationReturns, Goto
  <2>2. {v \in Workers : pc'[v] \in Holding} = {v \in Workers : pc[v] \in Holding}
    BY <1>10, <1>t, WorkerAssumption DEF AutomationReturns, Goto
  <2>3. runsBar' = runsBar
    BY <2>1, <2>2 DEF runsBar
  <2> QED
    BY <2>1, <2>3, SameRows
<1>11. CASE SendBeat(w) \/ Shutdown(w)
  BY <1>11, SameRows, RunsSame DEF SendBeat, Shutdown
<1>12. CASE \E t \in Tasks : LandBeat(<<w, t>>)
  <2>1. PICK t \in Tasks : heartbeat(t, w) /\ UNCHANGED <<pc, job, attempt>>
    BY <1>12 DEF LandBeat
  <2> DEFINE row == [tasks[t] EXCEPT !.locked_at = "fresh", !.updated_at = "later"]
  <2>2. /\ row.status = tasks[t].status /\ row.attempts = tasks[t].attempts
        /\ row.service = tasks[t].service
    BY <1>t DEF Row
  <2>3. UNCHANGED tasks \/ tasks' = [tasks EXCEPT ![t] = row]
    BY <1>t, <2>1 DEF heartbeat
  <2> HIDE DEF row
  <2>4. UNCHANGED <<phaseBar, countBar, serviceBar>>
    BY <1>t, <2>2, <2>3, SameRows, OneRow, SameField
  <2> QED
    BY <2>1, <2>4, RunsSame
<1>13. CASE Crash(w)
  <2>1. UNCHANGED tasks /\ pc'[w] \notin Holding /\ OthersStay(w)
    BY <1>13, <1>t DEF Crash, OthersStay
  <2>2. CASE pc[w] \in Holding
    <3>1. Run(w) \in runsBar /\ Lifecycle!Vanish(Run(w))
      BY <2>1, <2>2, RunsEnd, SameRows DEF Lifecycle!Vanish
    <3> QED
      BY <3>1 DEF Lifecycle!LNext
  <2>3. CASE pc[w] \notin Holding
    BY <2>1, <2>3, RunsIdle, SameRows
  <2> QED
    BY <2>2, <2>3
<1> QED
  BY <1>1, <1>2, <1>5, <1>6, <1>7, <1>8, <1>9, <1>10, <1>11, <1>12, <1>13
  DEF WorkerNext, WorkerStep

\* An INSERT submits the task.
LEMMA InsertImplements ==
  ASSUME FencingInv, NEW t \in Tasks, NEW svc \in Services, NEW sch, InsertTask(t, svc, sch),
         UNCHANGED <<pc, job, attempt>>, tasks[t].attempts = 0
  PROVE  Lifecycle!LNext
<1> DEFINE row == NewRow(svc, sch)
<1>t. tasks \in [Tasks -> Row]
  BY DEF FencingInv, TypeOK, StoreTypeOK
<1>1. tasks' = [tasks EXCEPT ![t] = row] /\ tasks[t].status = "ABSENT"
  BY DEF InsertTask, Exists
<1>2. row.status = "PENDING" /\ row.attempts = tasks[t].attempts /\ row.service = svc
  BY DEF NewRow
<1> HIDE DEF row
<1>3. /\ phaseBar' = [phaseBar EXCEPT ![t] = PhaseOf(row.status)]
      /\ countBar' = [countBar EXCEPT ![t] = row.attempts]
      /\ serviceBar' = [serviceBar EXCEPT ![t] = row.service]
  BY <1>t, <1>1, OneRow
<1>4. phaseBar' = [phaseBar EXCEPT ![t] = "waiting"] /\ phaseBar[t] = "absent"
  BY <1>1, <1>2, <1>3, BarOf DEF PhaseOf
<1>5. countBar' = countBar /\ serviceBar' = [serviceBar EXCEPT ![t] = svc]
  BY <1>t, <1>2, <1>3, SameField
<1>6. svc \in {"registered", "unregistered"}
  BY StoreAssumption
<1>7. Lifecycle!Submit(t)
  BY <1>4, <1>5, <1>6, RunsSame DEF Lifecycle!Submit, Lifecycle!Become
<1> QED
  BY <1>7 DEF Lifecycle!LNext

\* The steps of a request handler.
LEMMA RequestImplements ==
  ASSUME FencingInv, AbsentUntried, NEW r \in Requests, RequestNext(r)
  PROVE  AbstractStep
<1>1. UNCHANGED <<pc, job, attempt>>
  BY DEF RequestNext, workerVars
<1>2. CASE UNCHANGED tasks
  BY <1>1, <1>2, SameRows, RunsSame DEF AbstractStep
<1>3. CASE \E t \in Tasks, svc \in Services, sch \in Schedules \cup {None} :
             InsertTask(t, svc, sch)
  BY <1>1, <1>3, InsertImplements DEF AbstractStep, AbsentUntried, InsertTask, Exists
<1> QED
  BY <1>2, <1>3 DEF RequestNext, CreateNew, CreateConflict, HandlerStep, ReadExisting,
                    Decide, PushNew, PushNewFails, CreateFails, storeVars

\* The requeuer preempts an attempt; the rest of the API process is invisible.
LEMMA ApiImplements ==
  ASSUME FencingInv, ApiNext
  PROVE  AbstractStep
<1>t. tasks \in [Tasks -> Row] /\ rq.batch \subseteq Tasks
  BY DEF FencingInv, TypeOK, StoreTypeOK, ApiTypeOK
<1>1. UNCHANGED <<pc, job, attempt>>
  BY DEF ApiNext, workerVars
<1>2. CASE UNCHANGED tasks
  BY <1>1, <1>2, SameRows, RunsSame DEF AbstractStep
<1>3. CASE \E t \in Tasks : RequeueTask(t)
  <2>1. PICK t \in Tasks : RequeueTask(t)
    BY <1>3
  <2>2. CASE Stale(t)
    <3> DEFINE row == Released(tasks[t], "PENDING")
    <3>1. tasks' = [tasks EXCEPT ![t] = row] /\ tasks[t].status = "IN_PROGRESS"
      BY <2>1, <2>2 DEF RequeueTask, Stale
    <3>2. /\ row.status = "PENDING" /\ row.attempts = tasks[t].attempts
          /\ row.service = tasks[t].service
      BY <1>t, ReleasedFields DEF Statuses
    <3> HIDE DEF row
    <3>3. /\ phaseBar' = [phaseBar EXCEPT ![t] = PhaseOf(row.status)]
          /\ countBar' = [countBar EXCEPT ![t] = row.attempts]
          /\ serviceBar' = [serviceBar EXCEPT ![t] = row.service]
      BY <1>t, <3>1, OneRow
    <3>4. phaseBar' = [phaseBar EXCEPT ![t] = "waiting"] /\ phaseBar[t] = "running"
      BY <3>1, <3>2, <3>3, BarOf DEF PhaseOf
    <3>5. countBar' = countBar /\ serviceBar' = serviceBar
      BY <1>t, <3>2, <3>3, SameField
    <3>6. Lifecycle!Preempt(t)
      BY <1>1, <3>4, <3>5, RunsSame DEF Lifecycle!Preempt, Lifecycle!Become
    <3> QED
      BY <3>6 DEF Lifecycle!LNext, AbstractStep
  <2>3. CASE ~ Stale(t)
    BY <1>2, <2>1, <2>3 DEF RequeueTask
  <2> QED
    BY <2>2, <2>3
<1>4. TypeOK
  BY DEF FencingInv
<1> QED
  BY <1>2, <1>3, <1>4, ApiWritesOnlyResets

\* Time and the loss of the queue are invisible.
LEMMA EnvironmentImplements ==
  ASSUME FencingInv, Environment
  PROVE  AbstractStep
<1>t. tasks \in [Tasks -> Row]
  BY DEF FencingInv, TypeOK, StoreTypeOK
<1>1. UNCHANGED <<pc, job, attempt>>
  BY DEF Environment, workerVars
<1>2. CASE UNCHANGED tasks
  BY <1>1, <1>2, SameRows, RunsSame DEF AbstractStep
<1>3. ASSUME NEW t \in Tasks, LockExpires(t)
      PROVE  AbstractStep
  <2> DEFINE row == [tasks[t] EXCEPT !.locked_at = "stale"]
  <2>1. /\ row.status = tasks[t].status /\ row.attempts = tasks[t].attempts
        /\ row.service = tasks[t].service
    BY <1>t DEF Row
  <2>2. tasks' = [tasks EXCEPT ![t] = row]
    BY <1>3 DEF LockExpires
  <2> HIDE DEF row
  <2>3. UNCHANGED <<phaseBar, countBar, serviceBar>>
    <3>1. /\ phaseBar' = [phaseBar EXCEPT ![t] = PhaseOf(row.status)]
          /\ countBar' = [countBar EXCEPT ![t] = row.attempts]
          /\ serviceBar' = [serviceBar EXCEPT ![t] = row.service]
      BY <1>t, <2>2, OneRow
    <3> QED
      BY <1>t, <2>1, <3>1, SameField
  <2> QED
    BY <1>1, <2>3, RunsSame DEF AbstractStep
<1> QED
  BY <1>2, <1>3 DEF Environment, OrphanLockExpires, Suspicion, Tick, QueueLost, storeVars

-----------------------------------------------------------------------------
(* The theorem. *)

\* Rows that do not exist have seen no attempt, and never do.
LEMMA AbsentStep ==
  ASSUME FencingInv, AbsentUntried, [Next]_vars
  PROVE  AbsentUntried'
<1>t. tasks \in [Tasks -> Row]
  BY DEF FencingInv, TypeOK, StoreTypeOK
<1> SUFFICES ASSUME NEW t \in Tasks, tasks'[t].status = "ABSENT"
             PROVE  tasks'[t].attempts = 0
  BY DEF AbsentUntried
<1>1. CASE UNCHANGED tasks
  BY <1>1 DEF AbsentUntried
<1>2. ASSUME NEW u \in Tasks, NEW row, tasks' = [tasks EXCEPT ![u] = row],
             row.status # "ABSENT"
      PROVE  tasks'[t].attempts = 0
  BY <1>t, <1>2 DEF AbsentUntried
<1>3. ASSUME NEW u \in Tasks, NEW s \in Statuses,
             tasks' = [tasks EXCEPT ![u] = Released(tasks[u], s)]
      PROVE  tasks'[t].attempts = 0
  <2>1. Released(tasks[u], s).status # "ABSENT"
    BY <1>t, ReleasedFields DEF Statuses
  <2> QED
    BY <1>2, <1>3, <2>1
<1>4. ASSUME NEW w \in Workers, WorkerNext(w)
      PROVE  tasks'[t].attempts = 0
  <2>j. pc[w] \in Holding \cup {"claim"} => job[w] \in Tasks
    BY DEF FencingInv, TypeOK, WorkerTypeOK
  <2>1. CASE ClaimWon(w)
    <3>1. ClaimedBy(tasks[job[w]], w).status # "ABSENT"
      BY <1>t, <2>1, <2>j, ClaimedFields DEF ClaimWon
    <3> QED
      BY <1>2, <2>1, <2>j, <3>1 DEF ClaimWon, claimTask
  <2>2. CASE Reject(w) \/ SaveDeadLetter(w)
    BY <1>1, <1>3, <2>2, <2>j DEF Reject, SaveDeadLetter, updateTaskDeadLetter, Statuses
  <2>3. CASE SaveSuccess(w) \/ SaveRetry(w)
    BY <1>1, <1>3, <2>3, <2>j DEF SaveSuccess, SaveRetry, updateTaskSuccess,
                                  updateTaskRetry, Statuses
  <2>4. CASE SaveSchedule(w)
    <3>1. PICK sch \in Schedules : scheduleTask(job[w], w, sch)
      BY <2>4 DEF SaveSchedule
    <3>2. Released(tasks[job[w]], "PENDING") \in Row
      BY <1>t, <2>4, <2>j, ReleasedType DEF SaveSchedule, Statuses
    <3>3. [Released(tasks[job[w]], "PENDING") EXCEPT !.scheduled_for = sch].status # "ABSENT"
      BY <1>t, <2>4, <2>j, <3>2, ReleasedFields DEF SaveSchedule, Row, Statuses
    <3> QED
      BY <1>1, <1>2, <2>4, <2>j, <3>1, <3>3 DEF SaveSchedule, scheduleTask
  <2>5. CASE \E u \in Tasks : LandBeat(<<w, u>>)
    <3>1. PICK u \in Tasks : heartbeat(u, w)
      BY <2>5 DEF LandBeat
    <3>2. \A row \in Row : LET r == [row EXCEPT !.locked_at = "fresh", !.updated_at = "later"]
                          IN  r.status = row.status /\ r.attempts = row.attempts
      BY DEF Row
    <3>3. UNCHANGED tasks
          \/ tasks' = [tasks EXCEPT ![u] = [tasks[u] EXCEPT !.locked_at = "fresh",
                                                           !.updated_at = "later"]]
      BY <1>t, <3>1 DEF heartbeat
    <3>4. tasks'[t].status = tasks[t].status /\ tasks'[t].attempts = tasks[t].attempts
      BY <1>t, <3>2, <3>3
    <3> QED
      BY <3>4 DEF AbsentUntried
  <2> QED
    BY <1>1, <1>4, <2>1, <2>2, <2>3, <2>4, <2>5
    DEF WorkerNext, WorkerStep, Start, Pop, Leave, ClaimLost, SendBeat, AutomationReturns,
        Repush, Crash, Shutdown, storeVars
<1>5. ASSUME NEW r \in Requests, RequestNext(r)
      PROVE  tasks'[t].attempts = 0
  <2>1. ASSUME NEW u \in Tasks, NEW svc, NEW sch, InsertTask(u, svc, sch)
        PROVE  tasks'[t].attempts = 0
    <3>1. tasks' = [tasks EXCEPT ![u] = NewRow(svc, sch)]
      BY <2>1 DEF InsertTask
    <3>2. NewRow(svc, sch).status # "ABSENT"
      BY DEF NewRow
    <3> QED
      BY <1>2, <3>1, <3>2
  <2> QED
    BY <1>1, <1>5, <2>1 DEF RequestNext, CreateNew, CreateConflict, HandlerStep,
       ReadExisting, Decide, PushNew, PushNewFails, CreateFails, storeVars
<1>6. ASSUME ApiNext
      PROVE  tasks'[t].attempts = 0
  <2>1. TypeOK
    BY DEF FencingInv
  <2>2. CASE \E u \in Tasks : RequeueTask(u)
    BY <1>1, <1>3, <2>2 DEF RequeueTask, Statuses
  <2> QED
    BY <1>1, <1>6, <2>1, <2>2, ApiWritesOnlyResets
<1>7. ASSUME Environment
      PROVE  tasks'[t].attempts = 0
  <2>1. ASSUME NEW u \in Tasks, LockExpires(u)
        PROVE  tasks'[t].attempts = 0
    BY <1>t, <2>1 DEF LockExpires, AbsentUntried, Row
  <2> QED
    BY <1>1, <1>7, <2>1 DEF Environment, OrphanLockExpires, Suspicion, Tick, QueueLost,
                            storeVars
<1> QED
  BY <1>1, <1>4, <1>5, <1>6, <1>7 DEF Next, vars, storeVars

\* The initial state maps to the initial state.
LEMMA InitImplements == Init => Lifecycle!LInit /\ AbsentUntried
<1> SUFFICES ASSUME Init PROVE Lifecycle!LInit /\ AbsentUntried
  OBVIOUS
<1>1. \A t \in Tasks : /\ tasks[t].status = "ABSENT" /\ tasks[t].attempts = 0
                       /\ tasks[t].service = "registered"
  BY DEF Init, StoreInit, NewRow
<1>2. runsBar = {}
  BY DEF Init, WorkerInit, runsBar
<1> QED
  BY <1>1, <1>2 DEF Lifecycle!LInit, AbsentUntried, phaseBar, countBar, serviceBar, PhaseOf

\* Every step maps to a step of TaskLifecycle or to none.
LEMMA StepImplements ==
  FencingInv /\ AbsentUntried /\ [Next]_vars
    => [Lifecycle!LNext]_(Lifecycle!lifecycleVars)
<1> SUFFICES ASSUME FencingInv, AbsentUntried, [Next]_vars
             PROVE  AbstractStep
  BY DEF AbstractStep, Lifecycle!lifecycleVars
<1>1. CASE Next
  BY <1>1, EnvironmentImplements, WorkerImplements, RequestImplements, ApiImplements DEF Next
<1>2. CASE UNCHANGED vars
  BY <1>2, SameRows, RunsSame DEF vars, storeVars, workerVars, AbstractStep
<1> QED
  BY <1>1, <1>2

\* The pipeline implements TaskLifecycle, for any number of tasks, workers,
\* requests and faults: only the outcome of a task's latest attempt is ever
\* recorded, it is final, and giving up costs MaxAttempts attempts.
THEOREM Implementation == Spec => ImplementsLifecycle
<1>1. FencingInv /\ AbsentUntried /\ [Next]_vars => AbsentUntried'
  BY AbsentStep
<1>2. Spec => []AbsentUntried
  BY <1>1, InitImplements, Fencing, PTL DEF Spec
<1> QED
  BY <1>2, InitImplements, StepImplements, Fencing, PTL
  DEF Spec, ImplementsLifecycle, Lifecycle!LSpec

=============================================================================
