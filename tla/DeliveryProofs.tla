--------------------------- MODULE DeliveryProofs ---------------------------
(***************************************************************************)
(* How a task's id travels between the table, the queue, the workers and   *)
(* the API process: no waiting task is forgotten where nothing is lost, no *)
(* task starts before its date, and lost workers cost at most one attempt  *)
(* each.                                                                   *)
(***************************************************************************)
EXTENDS FencingProofs

USE DEF Holding

-----------------------------------------------------------------------------
(* The three inductive invariants, each taken together with FencingInv. *)

\* Somebody holds the id of t and will claim or push it.
InHand(t) ==
  \/ InQueue(t)
  \/ \E w \in Workers : pc[w] \in {"claim", "repush"} /\ job[w] = t
  \/ rq.push = t

\* The handler that made the row has not answered yet.
Inserting(t) ==
  \E r \in Requests : /\ req[r].task = t /\ req[r].inserted = "yes"
                      /\ req[r].pc \in {"decide", "push"}

Covered(t) ==
  \/ InHand(t)
  \/ /\ tasks[t].status = "PENDING"
     /\ Inserting(t) \/ tasks[t].scheduled_for # None

\* A handler that made a row still sees it as new, and knows whether it has a date.
HandlerOK(r) ==
  /\ req[r].pc \in {"idle", "conflict"} => req[r].inserted = "no"
  /\ req[r].pc \in {"conflict", "decide", "push"} => Exists(req[r].task)
  /\ req[r].pc = "decide" /\ req[r].inserted = "yes" =>
       /\ req[r].updated_at = "created"
       /\ req[r].scheduled_for # None => tasks[req[r].task].scheduled_for # None

CoverageInv ==
  /\ \A t \in Tasks : Claimable(t) => Covered(t)
  /\ \A r \in Requests : HandlerOK(r)

\* t may be started.
Ready(t) == Exists(t) /\ ~ IsFuture(tasks[t].scheduled_for)

\* Wherever the id of a task is on its way to a claim, the task is ready.
WorkerReady(w) ==
  /\ pc[w] # "scheduled"
  /\ pc[w] \in Holding \cup {"claim", "repush"} => Ready(job[w])

HandlerReady(r) ==
  /\ req[r].pc \in {"conflict", "decide", "push"} => Exists(req[r].task)
  /\ req[r].pc = "decide" => req[r].scheduled_for = tasks[req[r].task].scheduled_for
  /\ req[r].pc = "push" => Ready(req[r].task)

ReadyInv ==
  /\ \A t \in Tasks : tasks[t].status \notin {"ABSENT", "PENDING"} => Ready(t)
  /\ \A t \in Tasks : InQueue(t) => Ready(t)
  /\ \A w \in Workers : WorkerReady(w)
  /\ \A r \in Requests : HandlerReady(r)
  /\ \A t \in due : Ready(t)
  /\ rq.push # None => Ready(rq.push)

\* What an attempt count may be: a task that waits, or will wait again because its
\* worker is lost, has been paid for by a retry or by a fault.
Budget == MaxAttempts + LostAttempts

Lost(t) ==
  /\ tasks[t].status = "IN_PROGRESS"
  /\ tasks[t].locked_at = "stale" \/ \E w \in Workers : Owns(w, t) /\ pc[w] = "dead"

AttemptsInv ==
  /\ \A w \in Workers : pc[w] # "scheduled"
  /\ \A t \in Tasks :
       /\ tasks[t].attempts <= Budget
       /\ tasks[t].status = "PENDING" \/ Lost(t) => tasks[t].attempts < Budget

-----------------------------------------------------------------------------
(* What one step does to one row. *)

\* The lock is refreshed, expires, or the row is left alone.
LockMove(t) ==
  /\ tasks'[t].status = tasks[t].status
  /\ tasks'[t].attempts = tasks[t].attempts
  /\ tasks'[t].scheduled_for = tasks[t].scheduled_for
  /\ tasks'[t].locked_by = tasks[t].locked_by
  /\ \/ tasks'[t].locked_at = tasks[t].locked_at
     \/ tasks'[t].locked_at = "fresh"
     \/ OrphanLockExpires(t)
     \/ Fault("suspicion")

\* The row is inserted.
InsertMove(t) ==
  /\ ~ Exists(t)
  /\ tasks'[t].status = "PENDING" /\ tasks'[t].attempts = 0

\* A worker that popped the id claims the task.
ClaimMove(t) ==
  /\ Claimable(t)
  /\ \E w \in Workers :
       /\ pc[w] = "claim" /\ job[w] = t /\ pc'[w] # "dead"
       /\ tasks'[t].locked_by = w
  /\ tasks'[t].status = "IN_PROGRESS" /\ tasks'[t].locked_at = "fresh"
  /\ tasks'[t].attempts = tasks[t].attempts + 1
  /\ tasks'[t].scheduled_for = tasks[t].scheduled_for

\* The lock is given up: by its worker for good or for a retry, or by RequeueTask
\* because it is stale.
ReleaseMove(t) ==
  /\ tasks[t].status = "IN_PROGRESS"
  /\ \/ tasks'[t].status \in {"SUCCESS", "DEAD_LETTER", "RETRY"}
     \/ tasks'[t].status = "PENDING" /\ Stale(t)
  /\ tasks'[t].attempts = tasks[t].attempts
  /\ tasks'[t].scheduled_for = tasks[t].scheduled_for

\* The automation found a date and the task waits for it.
ScheduleMove(t) ==
  /\ tasks[t].status = "IN_PROGRESS" /\ tasks'[t].status = "PENDING"
  /\ tasks'[t].scheduled_for # None
  /\ \E w \in Workers : pc[w] = "scheduled"

RowMove(t) ==
  LockMove(t) \/ InsertMove(t) \/ ClaimMove(t) \/ ReleaseMove(t) \/ ScheduleMove(t)

\* Released keeps the date.
LEMMA DateReleased ==
  ASSUME NEW row \in Row, NEW s \in Statuses
  PROVE  Released(row, s).scheduled_for = row.scheduled_for
  BY DEF Released, Row, Statuses

\* ClaimedBy keeps the date.
LEMMA DateClaimed ==
  ASSUME NEW row \in Row, NEW w \in Workers
  PROVE  ClaimedBy(row, w).scheduled_for = row.scheduled_for
  BY DEF ClaimedBy, Row, Statuses

\* A row that does not change makes a LockMove.
LEMMA SameRowMoves ==
  ASSUME NEW t \in Tasks, tasks'[t] = tasks[t]
  PROVE  RowMove(t)
  BY DEF RowMove, LockMove

\* A worker's steps move rows in these ways only.
LEMMA WorkerMoves ==
  ASSUME FencingInv, NEW w \in Workers, WorkerNext(w), NEW t \in Tasks
  PROVE  RowMove(t)
<1>t. /\ tasks \in [Tasks -> Row] /\ tasks[t] \in Row
      /\ pc \in [Workers -> Holding \cup {"off", "brpop", "claim", "repush", "exited", "dead"}]
      /\ pc[w] \in Holding \cup {"claim", "repush"} => job[w] \in Tasks
  BY DEF FencingInv, TypeOK, StoreTypeOK, WorkerTypeOK
<1>0. CASE tasks'[t] = tasks[t]
  BY <1>0, SameRowMoves
<1>1. ASSUME Owns(w, t)
      PROVE  tasks[t].status = "IN_PROGRESS"
  BY <1>1, StoreAssumption DEF Owns, FencingInv, LockConsistent
<1>2. CASE ClaimWon(w)
  <2>1. CASE t = job[w]
    <3>1. Claimable(t) /\ tasks'[t] = ClaimedBy(tasks[t], w) /\ pc[w] = "claim" /\ pc'[w] # "dead"
      BY <1>t, <1>2, <2>1 DEF ClaimWon, claimTask
    <3> QED
      BY <1>t, <2>1, <3>1, ClaimedFields, DateClaimed DEF RowMove, ClaimMove
  <2>2. CASE t # job[w]
    BY <1>0, <1>t, <1>2, <2>2 DEF ClaimWon, claimTask
  <2> QED
    BY <2>1, <2>2
<1>3. ASSUME NEW s \in {"SUCCESS", "DEAD_LETTER", "RETRY"}, job[w] \in Tasks,
             tasks' = IF Owns(w, job[w])
                      THEN [tasks EXCEPT ![job[w]] = Released(tasks[job[w]], s)] ELSE tasks
      PROVE  RowMove(t)
  <2>1. CASE t = job[w] /\ Owns(w, t)
    <3>1. tasks'[t] = Released(tasks[t], s) /\ s \in Statuses
      BY <1>t, <1>3, <2>1 DEF Statuses
    <3>2. tasks'[t].status = s /\ tasks'[t].attempts = tasks[t].attempts
          /\ tasks'[t].scheduled_for = tasks[t].scheduled_for
      BY <1>t, <3>1, ReleasedFields, DateReleased
    <3> QED
      BY <1>1, <2>1, <3>2 DEF RowMove, ReleaseMove
  <2>2. CASE ~ (t = job[w] /\ Owns(w, t))
    BY <1>0, <1>t, <1>3, <2>2
  <2> QED
    BY <2>1, <2>2
<1>4. CASE Reject(w) \/ SaveDeadLetter(w)
  BY <1>3, <1>4, <1>t DEF Reject, SaveDeadLetter, updateTaskDeadLetter
<1>5. CASE SaveSuccess(w)
  BY <1>3, <1>5, <1>t DEF SaveSuccess, updateTaskSuccess
<1>6. CASE SaveRetry(w)
  BY <1>3, <1>6, <1>t DEF SaveRetry, updateTaskRetry
<1>7. CASE SaveSchedule(w)
  <2>1. PICK sch \in Schedules : scheduleTask(job[w], w, sch)
    BY <1>7 DEF SaveSchedule
  <2>2. CASE t = job[w] /\ Owns(w, t)
    <3>1. tasks'[t] = [Released(tasks[t], "PENDING") EXCEPT !.scheduled_for = sch]
      BY <1>t, <2>1, <2>2 DEF scheduleTask
    <3>2. Released(tasks[t], "PENDING") \in Row
      BY <1>t, ReleasedType DEF Statuses
    <3>3. tasks'[t].status = "PENDING" /\ tasks'[t].scheduled_for = sch
      BY <1>t, <3>1, <3>2, ReleasedFields DEF Row, Statuses
    <3> QED
      BY <1>1, <1>7, <2>2, <3>3, StoreAssumption DEF RowMove, ScheduleMove, SaveSchedule
  <2>3. CASE ~ (t = job[w] /\ Owns(w, t))
    BY <1>0, <1>t, <2>1, <2>3 DEF scheduleTask
  <2> QED
    BY <2>2, <2>3
<1>8. CASE \E u \in Tasks : LandBeat(<<w, u>>)
  <2>1. PICK u \in Tasks : heartbeat(u, w)
    BY <1>8 DEF LandBeat
  <2>2. CASE u = t /\ tasks'[t] # tasks[t]
    <3>1. tasks'[t] = [tasks[t] EXCEPT !.locked_at = "fresh", !.updated_at = "later"]
      BY <1>t, <2>1, <2>2 DEF heartbeat
    <3> QED
      BY <1>t, <3>1 DEF RowMove, LockMove, Row
  <2>3. CASE u # t
    BY <1>0, <1>t, <2>1, <2>3 DEF heartbeat
  <2> QED
    BY <1>0, <2>2, <2>3
<1> QED
  BY <1>0, <1>2, <1>4, <1>5, <1>6, <1>7, <1>8
  DEF WorkerNext, WorkerStep, Start, Pop, Leave, ClaimLost, SendBeat, AutomationReturns,
      Repush, Crash, Shutdown, storeVars

\* So do the steps of the handlers, of the API process and of the environment.
LEMMA RowMoves ==
  ASSUME FencingInv, Next, NEW t \in Tasks
  PROVE  RowMove(t)
<1>t. TypeOK /\ tasks \in [Tasks -> Row] /\ tasks[t] \in Row
  BY DEF FencingInv, TypeOK, StoreTypeOK
<1>0. CASE tasks'[t] = tasks[t]
  BY <1>0, SameRowMoves
<1>1. ASSUME NEW r \in Requests, RequestNext(r)
      PROVE  RowMove(t)
  <2>1. ASSUME NEW u \in Tasks, NEW svc, NEW sch, InsertTask(u, svc, sch)
        PROVE  RowMove(t)
    <3>1. CASE u = t
      BY <1>t, <2>1, <3>1 DEF InsertTask, NewRow, RowMove, InsertMove
    <3>2. CASE u # t
      BY <1>0, <1>t, <2>1, <3>2 DEF InsertTask
    <3> QED
      BY <3>1, <3>2
  <2> QED
    BY <1>0, <1>1, <2>1 DEF RequestNext, CreateNew, CreateConflict, HandlerStep,
       ReadExisting, Decide, PushNew, PushNewFails, CreateFails, storeVars
<1>2. ASSUME ApiNext
      PROVE  RowMove(t)
  <2>1. ASSUME NEW u \in Tasks, RequeueTask(u)
        PROVE  RowMove(t)
    <3>1. CASE u = t /\ Stale(t)
      <4>1. tasks'[t] = Released(tasks[t], "PENDING")
        BY <1>t, <2>1, <3>1 DEF RequeueTask
      <4>2. tasks'[t].status = "PENDING" /\ tasks'[t].attempts = tasks[t].attempts
            /\ tasks'[t].scheduled_for = tasks[t].scheduled_for
        BY <1>t, <4>1, ReleasedFields, DateReleased DEF Statuses
      <4> QED
        BY <3>1, <4>2 DEF RowMove, ReleaseMove, Stale
    <3>2. CASE ~ (u = t /\ Stale(t))
      BY <1>0, <1>t, <2>1, <3>2 DEF RequeueTask
    <3> QED
      BY <3>1, <3>2
  <2> QED
    BY <1>0, <1>2, <1>t, <2>1, ApiWritesOnlyResets
<1>3. ASSUME Environment
      PROVE  RowMove(t)
  <2>1. ASSUME NEW u \in Tasks, LockExpires(u), OrphanLockExpires(u) \/ Fault("suspicion")
        PROVE  RowMove(t)
    <3>1. CASE u = t
      <4>1. tasks'[t] = [tasks[t] EXCEPT !.locked_at = "stale"]
        BY <1>t, <2>1, <3>1 DEF LockExpires
      <4> QED
        BY <1>t, <2>1, <3>1, <4>1 DEF RowMove, LockMove, Row
    <3>2. CASE u # t
      BY <1>0, <1>t, <2>1, <3>2 DEF LockExpires
    <3> QED
      BY <3>1, <3>2
  <2> QED
    BY <1>0, <1>3, <2>1 DEF Environment, OrphanLockExpires, Suspicion, Tick, QueueLost, storeVars
<1> QED
  BY <1>1, <1>2, <1>3, WorkerMoves DEF Next

-----------------------------------------------------------------------------
(* Attempts. *)

\* The count of lost workers never shrinks, and grows when a worker is lost.
LEMMA LossesGrow ==
  ASSUME TypeOK, Next
  PROVE  /\ faults.workers \in Nat
         /\ faults'.workers = faults.workers \/ faults'.workers = faults.workers + 1
         /\ Fault("worker_crash") \/ Fault("suspicion") => faults'.workers = faults.workers + 1
<1>1. faults \in [all : Nat, workers : Nat]
  BY DEF TypeOK
<1>2. ASSUME NEW kind, Fault(kind)
      PROVE  /\ faults'.workers = faults.workers \/ faults'.workers = faults.workers + 1
             /\ kind \in WorkerFaults => faults'.workers = faults.workers + 1
  BY <1>1, <1>2 DEF Fault
<1>3. UNCHANGED faults \/ \E kind : Fault(kind)
  BY DEF Next, Environment, WorkerNext, RequestNext, ApiNext
<1> QED
  BY <1>1, <1>2, <1>3 DEF WorkerFaults

\* Only a crash makes a worker dead.
LEMMA DeathIsAFault ==
  ASSUME TypeOK, Next, NEW w \in Workers, pc[w] # "dead", pc'[w] = "dead"
  PROVE  Fault("worker_crash")
<1>t. pc \in [Workers -> Holding \cup {"off", "brpop", "claim", "repush", "exited", "dead"}]
  BY DEF TypeOK, WorkerTypeOK
<1>1. PICK v \in Workers : WorkerNext(v)
  BY DEF Next, Environment, RequestNext, ApiNext, workerVars
<1>2. CASE Crash(v) /\ Fault("worker_crash")
  BY <1>2
<1>3. CASE WorkerStep(v)
  BY <1>t, <1>3, WorkerAssumption DEF WorkerStep, Pop, Leave, ClaimWon, ClaimLost, Reject,
     AutomationReturns, SaveSuccess, SaveSchedule, SaveDeadLetter, SaveRetry, Repush,
     NextTask, Goto
<1> QED
  BY <1>t, <1>1, <1>2, <1>3 DEF WorkerNext, Start, Goto, SendBeat, LandBeat, Shutdown

\* Where no automation detects a date, no worker gets to save one.
LEMMA NoDetection ==
  ASSUME TypeOK, "scheduled" \notin Results, [Next]_vars,
         \A w \in Workers : pc[w] # "scheduled"
  PROVE  \A w \in Workers : pc'[w] # "scheduled"
<1>t. pc \in [Workers -> Holding \cup {"off", "brpop", "claim", "repush", "exited", "dead"}]
  BY DEF TypeOK, WorkerTypeOK
<1>1. CASE UNCHANGED pc
  BY <1>1
<1>2. ASSUME NEW v \in Workers, WorkerNext(v)
      PROVE  \A w \in Workers : pc'[w] # "scheduled"
  <2>1. CASE WorkerStep(v)
    BY <1>t, <2>1 DEF WorkerStep, Pop, Leave, ClaimWon, ClaimLost, Reject,
       AutomationReturns, SaveSuccess, SaveSchedule, SaveDeadLetter, SaveRetry, Repush,
       NextTask, Goto
  <2> QED
    BY <1>t, <1>1, <1>2, <2>1 DEF WorkerNext, Start, Goto, SendBeat, LandBeat, Shutdown, Crash
<1> QED
  BY <1>1, <1>2 DEF Next, Environment, RequestNext, ApiNext, workerVars, vars

\* The budget is a number, never shrinks, and grows when a worker is lost.
LEMMA BudgetGrows ==
  ASSUME TypeOK, Next
  PROVE  /\ Budget \in Nat /\ Budget' \in Nat
         /\ MaxAttempts <= Budget /\ Budget <= Budget'
         /\ Fault("worker_crash") \/ Fault("suspicion") => Budget' = Budget + 1
<1>1. MaxAttempts \in Nat
  BY StoreAssumption
<1>2. Budget = MaxAttempts + faults.workers /\ Budget' = MaxAttempts + faults'.workers
  BY DEF Budget, LostAttempts
<1> QED
  BY <1>1, <1>2, LossesGrow

\* A lock that is lost in this step was lost already, or a fault has paid for it.
LEMMA LossIsPaid ==
  ASSUME FencingInv, Next, NEW t \in Tasks, LockMove(t), Lost(t)', ~ Lost(t)
  PROVE  Fault("worker_crash") \/ Fault("suspicion")
<1>1. /\ tasks[t].status = "IN_PROGRESS" /\ tasks[t].locked_at # "stale"
      /\ \A w \in Workers : Owns(w, t) => pc[w] # "dead"
  BY DEF LockMove, Lost
<1>2. CASE tasks'[t].locked_at = "stale"
  <2>1. OrphanLockExpires(t) \/ Fault("suspicion")
    BY <1>1, <1>2 DEF LockMove
  <2>2. tasks[t].locked_by \in Workers => pc[tasks[t].locked_by] \in Holding
    BY <1>1 DEF Owns, FencingInv, OwnerHoldsCurrentAttempt
  <2>3. ~ OrphanLockExpires(t)
    BY <2>2 DEF OrphanLockExpires, Alive
  <2> QED
    BY <2>1, <2>3
<1>3. CASE tasks'[t].locked_at # "stale"
  <2>1. PICK w \in Workers : tasks'[t].locked_by = w /\ pc'[w] = "dead"
    BY <1>3 DEF Lost, Owns
  <2>2. pc[w] # "dead"
    BY <1>1, <2>1 DEF LockMove, Owns
  <2> QED
    BY <2>1, <2>2, DeathIsAFault DEF FencingInv
<1> QED
  BY <1>2, <1>3

\* A step keeps the count of one task within the budget.
LEMMA AttemptsOfOne ==
  ASSUME FencingInv, AttemptsInv, Next, NEW t \in Tasks
  PROVE  /\ tasks'[t].attempts <= Budget'
         /\ tasks'[t].status = "PENDING" \/ Lost(t)' => tasks'[t].attempts < Budget'
<1>b. /\ Budget \in Nat /\ Budget' \in Nat /\ MaxAttempts \in Nat \ {0}
      /\ MaxAttempts <= Budget /\ Budget <= Budget'
      /\ Fault("worker_crash") \/ Fault("suspicion") => Budget' = Budget + 1
  BY BudgetGrows, StoreAssumption DEF FencingInv
<1>a. /\ tasks[t].attempts \in Nat /\ tasks[t].attempts <= Budget
      /\ tasks[t].status = "PENDING" \/ Lost(t) => tasks[t].attempts < Budget
      /\ tasks[t].status = "RETRY" => tasks[t].attempts < MaxAttempts
  BY DEF AttemptsInv, FencingInv, RetryHasBudget, TypeOK, StoreTypeOK, Row
<1>1. CASE LockMove(t)
  <2>1. tasks'[t].status = tasks[t].status /\ tasks'[t].attempts = tasks[t].attempts
    BY <1>1 DEF LockMove
  <2>2. Lost(t)' => Lost(t) \/ Budget' = Budget + 1
    BY <1>1, <1>b, LossIsPaid
  <2> QED
    BY <1>a, <1>b, <2>1, <2>2
<1>2. CASE InsertMove(t)
  BY <1>2, <1>b DEF InsertMove, Lost
<1>3. CASE ClaimMove(t)
  <2>1. tasks[t].attempts < Budget /\ tasks'[t].attempts = tasks[t].attempts + 1
    BY <1>3, <1>a, <1>b DEF ClaimMove, Claimable
  <2>2. tasks'[t].status # "PENDING" /\ ~ Lost(t)'
    BY <1>3 DEF ClaimMove, Lost, Owns
  <2> QED
    BY <1>a, <1>b, <2>1, <2>2
<1>4. CASE ReleaseMove(t)
  <2>1. /\ tasks'[t].attempts = tasks[t].attempts /\ tasks'[t].status # "IN_PROGRESS"
        /\ tasks'[t].status = "PENDING" => Lost(t)
    BY <1>4 DEF ReleaseMove, Stale, Lost
  <2>2. ~ Lost(t)'
    BY <2>1 DEF Lost
  <2> QED
    BY <1>a, <1>b, <2>1, <2>2
<1>5. ~ ScheduleMove(t)
  BY DEF ScheduleMove, AttemptsInv
<1> QED
  BY <1>1, <1>2, <1>3, <1>4, <1>5, RowMoves DEF RowMove

\* The invariant is preserved where no automation reschedules its task.
LEMMA AttemptsStep ==
  ASSUME "scheduled" \notin Results
  PROVE  FencingInv /\ AttemptsInv /\ [Next]_vars => AttemptsInv'
<1> SUFFICES ASSUME FencingInv, AttemptsInv, [Next]_vars PROVE AttemptsInv'
  OBVIOUS
<1>1. CASE Next
  <2>1. \A w \in Workers : pc'[w] # "scheduled"
    BY NoDetection DEF AttemptsInv, FencingInv
  <2> QED
    BY <1>1, <2>1, AttemptsOfOne DEF AttemptsInv
<1>2. CASE UNCHANGED vars
  BY <1>2 DEF AttemptsInv, Budget, LostAttempts, Lost, Owns, vars, storeVars, workerVars
<1> QED
  BY <1>1, <1>2

\* worker.js gives up "when attempts >= max_attempts", and each worker that dies
\* or is taken for dead adds one attempt to that at most.  No other fault does,
\* although Faults may have them all.
THEOREM AttemptsAreBounded ==
  ASSUME "scheduled" \notin Results
  PROVE  Spec => []AttemptsWithinLosses
<1>1. Init => AttemptsInv
  BY StoreAssumption DEF Init, StoreInit, WorkerInit, NewRow, AttemptsInv, Budget,
     LostAttempts, Lost
<1>2. FencingInv /\ AttemptsInv /\ [Next]_vars => (FencingInv /\ AttemptsInv)'
  BY FencingStep, AttemptsStep
<1>3. AttemptsInv => AttemptsWithinLosses
  BY DEF AttemptsInv, AttemptsWithinLosses, Budget
<1> QED
  BY <1>1, <1>2, <1>3, FencingInit, PTL DEF Spec

-----------------------------------------------------------------------------
(* Where ids come from and go to. *)

\* LPUSH adds one id.
LEMMA Pushed ==
  ASSUME QueueTypeOK, NEW u \in Tasks, Enqueue(u), NEW t \in Tasks
  PROVE  InQueue(t)' <=> InQueue(t) \/ t = u
<1>1. /\ Len(queue) \in Nat /\ Len(queue') = Len(queue) + 1
      /\ \A i \in 1..Len(queue) : queue'[i] = queue[i]
      /\ queue'[Len(queue) + 1] = u
  BY DEF QueueTypeOK, Enqueue
<1>2. InQueue(t) => InQueue(t)'
  BY <1>1 DEF InQueue
<1>3. t = u => InQueue(t)'
  BY <1>1 DEF InQueue
<1>4. InQueue(t)' => InQueue(t) \/ t = u
  <2> SUFFICES ASSUME NEW i \in 1..Len(queue'), queue'[i] = t
               PROVE  InQueue(t) \/ t = u
    BY DEF InQueue
  <2>1. i \in 1..Len(queue) \/ i = Len(queue) + 1
    BY <1>1
  <2> QED
    BY <1>1, <2>1 DEF InQueue
<1> QED
  BY <1>2, <1>3, <1>4

\* BRPOP takes one occurrence of the id it answers with.
LEMMA Popped ==
  ASSUME QueueTypeOK, NEW u \in Tasks, Dequeue(u), NEW t \in Tasks
  PROVE  /\ InQueue(u)
         /\ InQueue(t)' => InQueue(t)
         /\ InQueue(t) => InQueue(t)' \/ t = u
<1>1. /\ Len(queue) \in Nat \ {0} /\ Len(queue') = Len(queue) - 1
      /\ \A i \in 1..Len(queue') : queue'[i] = queue[i + 1]
      /\ queue[1] = u
  BY DEF QueueTypeOK, Dequeue
<1>2. InQueue(u)
  BY <1>1 DEF InQueue
<1>3. InQueue(t)' => InQueue(t)
  <2> SUFFICES ASSUME NEW i \in 1..Len(queue'), queue'[i] = t
               PROVE  InQueue(t)
    BY DEF InQueue
  <2>1. i + 1 \in 1..Len(queue) /\ queue[i + 1] = t
    BY <1>1
  <2> QED
    BY <2>1 DEF InQueue
<1>4. InQueue(t) => InQueue(t)' \/ t = u
  <2> SUFFICES ASSUME NEW i \in 1..Len(queue), queue[i] = t, t # u
               PROVE  InQueue(t)'
    BY DEF InQueue
  <2>1. i - 1 \in 1..Len(queue') /\ queue'[i - 1] = t
    BY <1>1
  <2> QED
    BY <2>1 DEF InQueue
<1> QED
  BY <1>2, <1>3, <1>4

\* An id gets into the queue by a retry, a new task, the requeuer or the scheduler.
LEMMA QueueSource ==
  ASSUME TypeOK, Next, NEW t \in Tasks, InQueue(t)'
  PROVE  \/ InQueue(t) \/ rq.push = t \/ t \in due
         \/ \E w \in Workers : pc[w] = "repush" /\ job[w] = t
         \/ \E r \in Requests : req[r].pc = "push" /\ req[r].task = t
<1> DEFINE Goal == \/ InQueue(t) \/ rq.push = t \/ t \in due
                   \/ \E w \in Workers : pc[w] = "repush" /\ job[w] = t
                   \/ \E r \in Requests : req[r].pc = "push" /\ req[r].task = t
<1>t. /\ QueueTypeOK /\ due \subseteq Tasks /\ rq.push \in Tasks \cup {None}
      /\ \A w \in Workers : pc[w] = "repush" => job[w] \in Tasks
      /\ \A r \in Requests : req[r].pc = "push" => req[r].task \in Tasks
  BY DEF TypeOK, WorkerTypeOK, ApiTypeOK
<1>0. CASE UNCHANGED queue
  BY <1>0 DEF InQueue
<1>1. ASSUME NEW w \in Workers, WorkerNext(w)
      PROVE  Goal
  <2>1. CASE Pop(w)
    BY <1>t, <2>1, Popped DEF Pop
  <2>2. CASE Repush(w)
    BY <1>t, <2>2, Pushed DEF Repush
  <2> QED
    BY <1>0, <1>1, <2>1, <2>2
    DEF WorkerNext, WorkerStep, Start, SendBeat, LandBeat, Crash, Shutdown, Leave, ClaimWon,
        ClaimLost, Reject, AutomationReturns, SaveSuccess, SaveSchedule, SaveDeadLetter, SaveRetry
<1>2. ASSUME NEW r \in Requests, RequestNext(r)
      PROVE  Goal
  <2>1. CASE PushNew(r)
    BY <1>t, <2>1, Pushed DEF PushNew
  <2> QED
    BY <1>0, <1>2, <2>1 DEF RequestNext, CreateNew, CreateConflict, HandlerStep,
       ReadExisting, Decide, PushNewFails, CreateFails
<1>3. ASSUME ApiNext
      PROVE  Goal
  <2>1. CASE RequeuePush
    BY <1>t, <2>1, Pushed DEF RequeuePush
  <2>2. CASE SchedulePush
    BY <1>t, <2>2, Pushed DEF SchedulePush
  <2> QED
    BY <1>0, <1>3, <2>1, <2>2 DEF ApiNext, Requeuer, Scheduler, RequeueScan, RequeueReset,
       RequeueResetFails, RequeuePushFails, ScheduleScan, SchedulePushFails, ApiShutdown,
       ApiExit, ApiCrash, ApiStart
<1>4. ASSUME Environment
      PROVE  Goal
  <2>1. CASE QueueLost
    BY <2>1 DEF QueueLost, InQueue
  <2> QED
    BY <1>0, <1>4, <2>1 DEF Environment
<1> QED
  BY <1>1, <1>2, <1>3, <1>4 DEF Next

\* A worker works on the id it had or on one it took from the queue.
LEMMA JobSource ==
  ASSUME TypeOK, Next, NEW w \in Workers, pc'[w] \in Holding \cup {"claim", "repush"}
  PROVE  /\ job'[w] \in Tasks
         /\ \/ job'[w] = job[w] /\ pc[w] \in Holding \cup {"claim", "repush"}
            \/ InQueue(job'[w])
<1>t. /\ pc \in [Workers -> Holding \cup {"off", "brpop", "claim", "repush", "exited", "dead"}]
      /\ job \in [Workers -> Tasks \cup {None}] /\ QueueTypeOK
      /\ \A v \in Workers : pc[v] \in Holding \cup {"claim", "repush"} => job[v] \in Tasks
  BY DEF TypeOK, WorkerTypeOK
<1>0. CASE pc'[w] = pc[w] /\ job'[w] = job[w]
  BY <1>0, <1>t
<1>1. CASE UNCHANGED <<pc, job>>
  BY <1>0, <1>1
<1>2. ASSUME NEW v \in Workers, WorkerNext(v), pc' # pc
      PROVE  /\ job'[w] \in Tasks
             /\ \/ job'[w] = job[w] /\ pc[w] \in Holding \cup {"claim", "repush"}
                \/ InQueue(job'[w])
  <2>1. CASE v # w
    <3>1. pc'[w] = pc[w] /\ job'[w] = job[w]
      BY <1>t, <1>2, <2>1 DEF WorkerNext, WorkerStep, Start, SendBeat, LandBeat, Crash, Shutdown,
         Pop, Leave, ClaimWon, ClaimLost, Reject, AutomationReturns, SaveSuccess, SaveSchedule,
         SaveDeadLetter, SaveRetry, Repush, NextTask, Goto
    <3> QED
      BY <1>0, <3>1
  <2>2. CASE v = w /\ Pop(w)
    <3>1. PICK t \in Tasks : Dequeue(t) /\ job' = [job EXCEPT ![w] = t]
      BY <2>2 DEF Pop
    <3>2. job'[w] = t /\ InQueue(t)
      BY <1>t, <3>1, Popped
    <3> QED
      BY <3>2
  <2>3. CASE v = w /\ NextTask(w)
    BY <1>t, <2>3 DEF NextTask
  <2>4. CASE v = w /\ (ClaimWon(w) \/ AutomationReturns(w) \/ SaveRetry(w)) /\ ~ NextTask(w)
    <3>1. pc[w] \in Holding \cup {"claim"} /\ job' = job
      BY <1>t, <2>4 DEF ClaimWon, AutomationReturns, SaveRetry, Goto
    <3> QED
      BY <1>t, <3>1
  <2> QED
    BY <1>t, <1>2, <2>1, <2>2, <2>3, <2>4
    DEF WorkerNext, WorkerStep, Start, Goto, SendBeat, LandBeat, Crash, Shutdown, Leave,
        ClaimLost, Reject, SaveSuccess, SaveSchedule, SaveDeadLetter, Repush
<1>3. CASE \E v \in Workers : WorkerNext(v)
  <2>1. PICK v \in Workers : WorkerNext(v)
    BY <1>3
  <2>2. CASE pc' = pc
    <3>1. job' = job
      BY <1>t, <2>1, <2>2 DEF WorkerNext, WorkerStep, Start, SendBeat, LandBeat, Crash, Shutdown,
         Pop, Leave, ClaimWon, ClaimLost, Reject, AutomationReturns, SaveSuccess, SaveSchedule,
         SaveDeadLetter, SaveRetry, Repush, NextTask, Goto, Alive
    <3> QED
      BY <1>1, <2>2, <3>1
  <2> QED
    BY <1>2, <2>1, <2>2
<1> QED
  BY <1>1, <1>3 DEF Next, Environment, RequestNext, ApiNext, workerVars

-----------------------------------------------------------------------------
(* No task starts before its date. *)

\* The clock does not go back.
LEMMA ClockGrows ==
  ASSUME TypeOK, Next
  PROVE  now \in Nat /\ now' \in Nat /\ now <= now'
<1>1. now \in Nat
  BY DEF TypeOK, StoreTypeOK
<1>2. CASE Tick
  BY <1>1, <1>2 DEF Tick
<1>3. ASSUME NEW w \in Workers, WorkerNext(w)
      PROVE  now' = now
  BY <1>3 DEF WorkerNext, WorkerStep, Start, SendBeat, LandBeat, Crash, Shutdown, Pop, Leave,
     ClaimWon, ClaimLost, Reject, AutomationReturns, SaveSuccess, SaveSchedule,
     SaveDeadLetter, SaveRetry, Repush, storeVars
<1>4. ASSUME NEW r \in Requests, RequestNext(r)
      PROVE  now' = now
  BY <1>4 DEF RequestNext, CreateNew, CreateConflict, HandlerStep, ReadExisting, Decide,
     PushNew, PushNewFails, CreateFails, storeVars
<1>5. ASSUME ApiNext
      PROVE  now' = now
  BY <1>5 DEF ApiNext, Requeuer, Scheduler, RequeueScan, RequeueReset, RequeueResetFails,
     RequeuePush, RequeuePushFails, ScheduleScan, SchedulePush, SchedulePushFails,
     ApiShutdown, ApiExit, ApiCrash, ApiStart, storeVars
<1>6. ASSUME Environment, ~ Tick
      PROVE  now' = now
  BY <1>6 DEF Environment, OrphanLockExpires, Suspicion, LockExpires, storeVars
<1> QED
  BY <1>1, <1>2, <1>3, <1>4, <1>5, <1>6 DEF Next

\* Rows stay, and keep their dates where no worker saves another.
LEMMA DateKept ==
  ASSUME FencingInv, Next, NEW t \in Tasks, Exists(t), \A w \in Workers : pc[w] # "scheduled"
  PROVE  Exists(t)' /\ tasks'[t].scheduled_for = tasks[t].scheduled_for
  BY RowMoves DEF RowMove, LockMove, InsertMove, ClaimMove, ReleaseMove, ScheduleMove, Exists

\* A task that is ready stays so.
LEMMA ReadyKept ==
  ASSUME FencingInv, ReadyInv, Next, NEW t \in Tasks, Ready(t)
  PROVE  Ready(t)'
<1>1. Exists(t)' /\ tasks'[t].scheduled_for = tasks[t].scheduled_for
  BY DateKept DEF ReadyInv, WorkerReady, Ready
<1>2. tasks[t].scheduled_for \in Nat \cup {None} /\ now \in Nat /\ now' \in Nat /\ now <= now'
  BY ClockGrows DEF FencingInv, TypeOK, StoreTypeOK, Row
<1> QED
  BY <1>1, <1>2, StoreAssumption DEF Ready, IsFuture

\* A task leaves PENDING only by the claim of a worker that popped its id.
LEMMA StatusReady ==
  ASSUME FencingInv, ReadyInv, Next, NEW t \in Tasks,
         tasks'[t].status \notin {"ABSENT", "PENDING"}
  PROVE  Ready(t)'
<1>1. RowMove(t)
  BY RowMoves
<1>2. tasks[t].status \notin {"ABSENT", "PENDING"} \/ \E w \in Workers : pc[w] = "claim" /\ job[w] = t
  BY <1>1 DEF RowMove, LockMove, InsertMove, ClaimMove, ReleaseMove, ScheduleMove
<1>3. Ready(t)
  BY <1>2 DEF ReadyInv, WorkerReady
<1> QED
  BY <1>3, ReadyKept

\* Ids are pushed only of ready tasks.
LEMMA QueueReady ==
  ASSUME FencingInv, ReadyInv, Next, NEW t \in Tasks, InQueue(t)'
  PROVE  Ready(t)'
<1>1. /\ TypeOK
      /\ \/ InQueue(t) \/ rq.push = t \/ t \in due
         \/ \E w \in Workers : pc[w] = "repush" /\ job[w] = t
         \/ \E r \in Requests : req[r].pc = "push" /\ req[r].task = t
  BY QueueSource DEF FencingInv
<1>2. Ready(t)
  BY <1>1, StoreAssumption DEF ReadyInv, WorkerReady, HandlerReady
<1> QED
  BY <1>2, ReadyKept

\* What workers hold is ready.
LEMMA WorkersReady ==
  ASSUME FencingInv, ReadyInv, Next, "scheduled" \notin Results, NEW w \in Workers
  PROVE  WorkerReady(w)'
<1>1. pc'[w] # "scheduled"
  BY NoDetection DEF FencingInv, ReadyInv, WorkerReady
<1>2. ASSUME pc'[w] \in Holding \cup {"claim", "repush"}
      PROVE  Ready(job[w])'
  <2>1. /\ job'[w] \in Tasks
        /\ \/ job'[w] = job[w] /\ pc[w] \in Holding \cup {"claim", "repush"}
           \/ InQueue(job'[w])
    BY <1>2, JobSource DEF FencingInv
  <2>2. PICK t \in Tasks : t = job'[w]
    BY <2>1
  <2>3. Ready(t)
    BY <2>1, <2>2 DEF ReadyInv, WorkerReady
  <2> QED
    BY <2>2, <2>3, ReadyKept DEF Ready, Exists
<1> QED
  BY <1>1, <1>2 DEF WorkerReady

\* A handler goes on to push only what is due by the date it read, and the row has
\* that date still.
LEMMA HandlersReady ==
  ASSUME FencingInv, ReadyInv, Next, NEW r \in Requests
  PROVE  HandlerReady(r)'
<1>t. /\ TypeOK /\ req \in [Requests -> Handler] /\ tasks \in [Tasks -> Row]
      /\ req[r].pc \in {"conflict", "decide", "push"} => req[r].task \in Tasks
  BY DEF FencingInv, TypeOK, ApiTypeOK, StoreTypeOK
<1>i. HandlerReady(r)
  BY DEF ReadyInv
<1>d. ASSUME NEW t \in Tasks, Exists(t)
      PROVE  Exists(t)' /\ tasks'[t].scheduled_for = tasks[t].scheduled_for
  BY <1>d, DateKept DEF ReadyInv, WorkerReady
<1>0. CASE req'[r] = req[r]
  <2>1. CASE req[r].pc \notin {"conflict", "decide", "push"}
    BY <1>0, <2>1 DEF HandlerReady
  <2>2. CASE req[r].pc \in {"conflict", "decide", "push"}
    <3>1. PICK t \in Tasks : t = req[r].task
      BY <1>t, <2>2
    <3>2. Exists(t)' /\ tasks'[t].scheduled_for = tasks[t].scheduled_for
      BY <1>d, <1>i, <2>2, <3>1 DEF HandlerReady
    <3>3. req[r].pc = "push" => Ready(t)'
      BY <1>i, <3>1, ReadyKept DEF HandlerReady
    <3> QED
      BY <1>0, <1>i, <3>1, <3>2, <3>3 DEF HandlerReady, Exists, Ready
  <2> QED
    BY <2>1, <2>2
<1>1. CASE req'[r].pc \notin {"conflict", "decide", "push"}
  BY <1>1 DEF HandlerReady
<1>2. CASE CreateNew(r)
  <2>1. PICK t \in Tasks, svc \in Services, sch \in Schedules \cup {None} :
          /\ InsertTask(t, svc, sch)
          /\ req' = [req EXCEPT ![r] = [pc |-> "decide", task |-> t, inserted |-> "yes",
                                        updated_at |-> "created", scheduled_for |-> sch]]
    BY <1>2 DEF CreateNew
  <2>2. tasks'[t].status = "PENDING" /\ tasks'[t].scheduled_for = sch
    BY <1>t, <2>1 DEF InsertTask, NewRow
  <2>3. req'[r].pc = "decide" /\ req'[r].task = t /\ req'[r].scheduled_for = sch
    BY <1>t, <2>1
  <2> QED
    BY <2>2, <2>3 DEF HandlerReady, Exists
<1>3. CASE CreateConflict(r)
  <2>1. PICK t \in Tasks : Exists(t) /\ req' = [req EXCEPT ![r].pc = "conflict", ![r].task = t]
    BY <1>3 DEF CreateConflict
  <2>2. req'[r].pc = "conflict" /\ req'[r].task = t
    BY <1>t, <2>1 DEF Handler
  <2> QED
    BY <1>d, <2>1, <2>2 DEF HandlerReady, Exists
<1>4. CASE ReadExisting(r)
  <2>1. /\ req[r].pc = "conflict" /\ UNCHANGED tasks
        /\ req'[r].pc = "decide" /\ req'[r].task = req[r].task
        /\ req'[r].scheduled_for = tasks[req[r].task].scheduled_for
    BY <1>t, <1>4 DEF ReadExisting, Handler, storeVars
  <2> QED
    BY <1>i, <2>1 DEF HandlerReady, Exists
<1>5. CASE Decide(r)
  <2>1. /\ req[r].pc = "decide" /\ UNCHANGED <<tasks, now>>
        /\ req'[r].task = req[r].task
        /\ req'[r].pc = "push" => ~ IsFuture(req[r].scheduled_for)
        /\ req'[r].pc \in {"200", "201", "push"}
    BY <1>t, <1>5 DEF Decide, Handler, storeVars
  <2> QED
    BY <1>i, <2>1 DEF HandlerReady, Exists, Ready, IsFuture
<1>6. ASSUME NEW q \in Requests, RequestNext(q)
      PROVE  HandlerReady(r)'
  <2>1. CASE q # r
    <3>1. req'[r] = req[r]
      BY <1>6, <1>t, <2>1 DEF RequestNext, CreateNew, CreateConflict, HandlerStep,
         ReadExisting, Decide, PushNew, PushNewFails, CreateFails
    <3> QED
      BY <1>0, <3>1
  <2>2. CASE q = r /\ (PushNew(r) \/ PushNewFails(r))
    <3>1. req'[r].pc = "201"
      BY <1>t, <2>2 DEF PushNew, PushNewFails, Handler
    <3> QED
      BY <1>1, <3>1
  <2>3. CASE q = r /\ CreateFails(r)
    <3>1. \/ req' = [req EXCEPT ![r].pc = "500"]
          \/ \E t \in Tasks :
               req' = [req EXCEPT ![r].pc = "500", ![r].task = t, ![r].inserted = "yes"]
      BY <2>3 DEF CreateFails
    <3>2. req'[r].pc = "500"
      BY <1>t, <3>1 DEF Handler
    <3> QED
      BY <1>1, <3>2
  <2> QED
    BY <1>2, <1>3, <1>4, <1>5, <1>6, <2>1, <2>2, <2>3 DEF RequestNext, HandlerStep
<1>7. CASE ApiCrash
  <2>1. req'[r] = IF InFlight(r) THEN [req[r] EXCEPT !.pc = "lost"] ELSE req[r]
    BY <1>7 DEF ApiCrash
  <2>2. req'[r].pc = "lost" \/ req'[r] = req[r]
    BY <1>t, <2>1 DEF Handler
  <2> QED
    BY <1>0, <1>1, <2>2
<1> QED
  BY <1>0, <1>6, <1>7 DEF Next, Environment, WorkerNext, ApiNext, apiVars, Requeuer, Scheduler,
     RequeueScan, RequeueReset, RequeueResetFails, RequeuePush, RequeuePushFails, ScheduleScan,
     SchedulePush, SchedulePushFails, ApiShutdown, ApiExit, ApiStart

\* The scheduler and the requeuer hold ids of ready tasks.
LEMMA LoopsReady ==
  ASSUME FencingInv, ReadyInv, Next
  PROVE  /\ \A t \in due' : Ready(t)'
         /\ rq'.push # None => Ready(rq.push)'
<1>t. /\ TypeOK /\ rq \in [batch : SUBSET Tasks, push : Tasks \cup {None}]
      /\ due \subseteq Tasks
      /\ rq.push \in Tasks \cup {None}
  BY DEF FencingInv, TypeOK, ApiTypeOK
<1>1. due' \subseteq due \cup PendingScheduledTasks
  BY DEF Next, Environment, WorkerNext, RequestNext, ApiNext, apiVars, Requeuer, Scheduler,
     RequeueScan, RequeueReset, RequeueResetFails, RequeuePush, RequeuePushFails, ScheduleScan,
     SchedulePush, SchedulePushFails, ApiShutdown, ApiExit, ApiCrash, ApiStart,
     CreateNew, CreateConflict, HandlerStep, ReadExisting, Decide, PushNew, PushNewFails, CreateFails
<1>2. ASSUME NEW t \in due'
      PROVE  Ready(t)'
  <2>1. t \in Tasks /\ Ready(t)
    BY <1>1, <1>t DEF PendingScheduledTasks, Ready, Exists, ReadyInv
  <2> QED
    BY <2>1, ReadyKept
<1>3. rq'.push = None \/ rq'.push = rq.push \/ (rq'.push \in Tasks /\ Stale(rq'.push))
  <2>1. CASE UNCHANGED rq
    BY <2>1
  <2>2. CASE RequeueReset
    BY <1>t, <2>2 DEF RequeueReset
  <2>3. CASE RequeueScan \/ RequeueResetFails
    BY <1>t, <2>3 DEF RequeueScan, RequeueResetFails
  <2>4. CASE RequeuePush \/ RequeuePushFails
    BY <1>t, <2>4 DEF RequeuePush, RequeuePushFails
  <2>5. CASE ApiShutdown \/ ApiCrash
    BY <2>5 DEF ApiShutdown, ApiCrash
  <2> QED
    BY <2>1, <2>2, <2>3, <2>4, <2>5
    DEF Next, Environment, WorkerNext, RequestNext, ApiNext, apiVars, Requeuer, Scheduler,
        ScheduleScan, SchedulePush, SchedulePushFails, ApiExit, ApiStart, CreateNew,
        CreateConflict, HandlerStep, ReadExisting, Decide, PushNew, PushNewFails, CreateFails
<1>4. ASSUME rq'.push # None
      PROVE  Ready(rq.push)'
  <2>1. PICK t \in Tasks : t = rq'.push
    BY <1>3, <1>4, <1>t
  <2>2. Ready(t)
    BY <1>3, <1>4, <1>t, <2>1 DEF Stale, ReadyInv
  <2> QED
    BY <2>1, <2>2, ReadyKept DEF Ready, Exists
<1> QED
  BY <1>2, <1>4

\* The invariant is preserved where no automation reschedules its task.
LEMMA ReadyStep ==
  ASSUME "scheduled" \notin Results
  PROVE  FencingInv /\ ReadyInv /\ [Next]_vars => ReadyInv'
<1> SUFFICES ASSUME FencingInv, ReadyInv, [Next]_vars PROVE ReadyInv'
  OBVIOUS
<1>1. CASE Next
  BY <1>1, StatusReady, QueueReady, WorkersReady, HandlersReady, LoopsReady DEF ReadyInv
<1>2. CASE UNCHANGED vars
  BY <1>2 DEF ReadyInv, WorkerReady, HandlerReady, Ready, Exists, IsFuture, InQueue,
     vars, storeVars, workerVars, apiVars
<1> QED
  BY <1>1, <1>2

\* claimTask does not look at scheduled_for, and still no task runs before its
\* date, whatever fails: nobody pushes the id of a task whose time has not come.
THEOREM NothingStartsEarly ==
  ASSUME "scheduled" \notin Results
  PROVE  Spec => []NoEarlyStart
<1>1. Init => ReadyInv
  BY DEF Init, StoreInit, QueueInit, WorkerInit, ApiInit, NewRow, ReadyInv, WorkerReady,
     HandlerReady, InQueue
<1>2. FencingInv /\ ReadyInv /\ [Next]_vars => (FencingInv /\ ReadyInv)'
  BY FencingStep, ReadyStep
<1>3. ReadyInv => NoEarlyStart
  BY DEF ReadyInv, NoEarlyStart, Ready
<1> QED
  BY <1>1, <1>2, <1>3, FencingInit, PTL DEF Spec

-----------------------------------------------------------------------------
(* No waiting task is forgotten. *)

\* The faults that lose neither a process nor an id: a live worker taken for
\* dead, a worker's SIGTERM, a push of the scheduler, which it repeats.
Lossless == Faults \subseteq {"suspicion", "worker_sigterm", "scheduler_enqueue"}

\* Then no other fault happens.
LEMMA NoLoss ==
  ASSUME Lossless
  PROVE  /\ ~ Fault("worker_crash") /\ ~ Fault("redis_loss")
         /\ ~ Fault("create_enqueue") /\ ~ Fault("create_db")
         /\ ~ Fault("requeue_enqueue") /\ ~ Fault("requeue_db")
         /\ ~ Fault("api_sigterm") /\ ~ Fault("api_crash")
  BY DEF Lossless, Fault

\* Rows stay, and one with a date keeps one.
LEMMA DatedStays ==
  ASSUME FencingInv, Next, NEW t \in Tasks, Exists(t)
  PROVE  Exists(t)' /\ (tasks[t].scheduled_for # None => tasks'[t].scheduled_for # None)
  BY RowMoves DEF RowMove, LockMove, InsertMove, ClaimMove, ReleaseMove, ScheduleMove, Exists

\* An id stays in the queue until a worker pops it.
LEMMA QueuedStays ==
  ASSUME Lossless, TypeOK, Next, NEW t \in Tasks, InQueue(t)
  PROVE  InHand(t)'
<1>t. /\ QueueTypeOK /\ due \subseteq Tasks /\ rq.push \in Tasks \cup {None}
      /\ pc \in [Workers -> Holding \cup {"off", "brpop", "claim", "repush", "exited", "dead"}]
      /\ job \in [Workers -> Tasks \cup {None}]
      /\ \A w \in Workers : pc[w] = "repush" => job[w] \in Tasks
      /\ \A r \in Requests : req[r].pc = "push" => req[r].task \in Tasks
  BY DEF TypeOK, WorkerTypeOK, ApiTypeOK
<1>0. CASE UNCHANGED queue
  BY <1>0 DEF InQueue, InHand
<1>p. ASSUME NEW u \in Tasks, Enqueue(u)
      PROVE  InHand(t)'
  BY <1>p, <1>t, Pushed DEF InHand
<1>1. ASSUME NEW w \in Workers, WorkerNext(w)
      PROVE  InHand(t)'
  <2>1. CASE Pop(w)
    <3>1. PICK u \in Tasks : Dequeue(u) /\ job' = [job EXCEPT ![w] = u]
      BY <2>1 DEF Pop
    <3>2. pc'[w] = "claim" /\ job'[w] = u
      BY <1>t, <2>1, <3>1 DEF Pop
    <3>3. InQueue(t)' \/ t = u
      BY <1>t, <3>1, Popped
    <3> QED
      BY <3>2, <3>3 DEF InHand
  <2>2. CASE Repush(w)
    BY <1>p, <1>t, <2>2 DEF Repush
  <2> QED
    BY <1>0, <1>1, <2>1, <2>2
    DEF WorkerNext, WorkerStep, Start, SendBeat, LandBeat, Crash, Shutdown, Leave, ClaimWon,
        ClaimLost, Reject, AutomationReturns, SaveSuccess, SaveSchedule, SaveDeadLetter, SaveRetry
<1>2. ASSUME NEW r \in Requests, RequestNext(r)
      PROVE  InHand(t)'
  <2>1. CASE PushNew(r)
    BY <1>p, <1>t, <2>1 DEF PushNew
  <2> QED
    BY <1>0, <1>2, <2>1 DEF RequestNext, CreateNew, CreateConflict, HandlerStep,
       ReadExisting, Decide, PushNewFails, CreateFails
<1>3. ASSUME ApiNext
      PROVE  InHand(t)'
  <2>1. CASE RequeuePush \/ SchedulePush
    BY <1>p, <1>t, <2>1 DEF RequeuePush, SchedulePush
  <2> QED
    BY <1>0, <1>3, <2>1 DEF ApiNext, Requeuer, Scheduler, RequeueScan, RequeueReset,
       RequeueResetFails, RequeuePushFails, ScheduleScan, SchedulePushFails, ApiShutdown,
       ApiExit, ApiCrash, ApiStart
<1>4. ASSUME Environment
      PROVE  InHand(t)'
  BY <1>0, <1>4, NoLoss DEF Environment
<1> QED
  BY <1>1, <1>2, <1>3, <1>4 DEF Next

\* A worker keeps the id of a claimable task until it has claimed or pushed it.
LEMMA HeldStays ==
  ASSUME Lossless, TypeOK, Next, NEW t \in Tasks, Claimable(t), Claimable(t)',
         NEW w \in Workers, pc[w] \in {"claim", "repush"}, job[w] = t
  PROVE  InHand(t)'
<1>t. /\ QueueTypeOK /\ tasks \in [Tasks -> Row]
      /\ pc \in [Workers -> Holding \cup {"off", "brpop", "claim", "repush", "exited", "dead"}]
      /\ job \in [Workers -> Tasks \cup {None}]
  BY DEF TypeOK, WorkerTypeOK, StoreTypeOK
<1>0. CASE pc'[w] = pc[w] /\ job'[w] = job[w]
  BY <1>0 DEF InHand
<1>1. ASSUME NEW v \in Workers, WorkerNext(v)
      PROVE  InHand(t)'
  <2>1. CASE v # w
    <3>1. pc'[w] = pc[w] /\ job'[w] = job[w]
      BY <1>t, <1>1, <2>1 DEF WorkerNext, WorkerStep, Start, SendBeat, LandBeat, Crash, Shutdown,
         Pop, Leave, ClaimWon, ClaimLost, Reject, AutomationReturns, SaveSuccess, SaveSchedule,
         SaveDeadLetter, SaveRetry, Repush, NextTask, Goto
    <3> QED
      BY <1>0, <3>1
  <2>2. ~ ClaimWon(w)
    <3> SUFFICES ASSUME ClaimWon(w) PROVE FALSE
      OBVIOUS
    <3>1. tasks'[t] = ClaimedBy(tasks[t], w)
      BY <1>t DEF ClaimWon, claimTask
    <3>2. tasks'[t].status = "IN_PROGRESS"
      BY <1>t, <3>1, ClaimedFields
    <3> QED
      BY <3>2 DEF Claimable
  <2>3. CASE v = w /\ Repush(w)
    BY <1>t, <2>3, Pushed DEF Repush, InHand
  <2>4. CASE v = w /\ (SendBeat(w) \/ Shutdown(w) \/ \E u \in Tasks : LandBeat(<<w, u>>))
    BY <1>0, <2>4 DEF SendBeat, Shutdown, LandBeat
  <2> QED
    BY <1>1, <2>1, <2>2, <2>3, <2>4, NoLoss
    DEF WorkerNext, WorkerStep, Start, Pop, Leave, ClaimLost, Reject, AutomationReturns,
        SaveSuccess, SaveSchedule, SaveDeadLetter, SaveRetry
<1> QED
  BY <1>0, <1>1 DEF Next, Environment, RequestNext, ApiNext, workerVars

\* The requeuer keeps the id of a task it reset until it has pushed it.
LEMMA ResetStays ==
  ASSUME Lossless, TypeOK, Next, NEW t \in Tasks, rq.push = t
  PROVE  InHand(t)'
<1>t. QueueTypeOK /\ t # None
  BY StoreAssumption DEF TypeOK
<1>0. CASE UNCHANGED rq
  BY <1>0 DEF InHand
<1>1. CASE RequeuePush
  BY <1>1, <1>t, Pushed DEF RequeuePush, InHand
<1> QED
  BY <1>0, <1>1, <1>t, NoLoss
  DEF Next, Environment, WorkerNext, RequestNext, ApiNext, apiVars, Requeuer, Scheduler,
      RequeueScan, RequeueReset, ScheduleScan, SchedulePush, SchedulePushFails, ApiExit, ApiStart,
      CreateNew, CreateConflict, HandlerStep, ReadExisting, Decide, PushNew, PushNewFails, CreateFails

\* A handler that made the row of t answers only after it pushed the id, or leaves
\* the task to the scheduler.
LEMMA InsertingStays ==
  ASSUME Lossless, FencingInv, CoverageInv, Next, NEW t \in Tasks, Exists(t), Inserting(t)
  PROVE  Inserting(t)' \/ InHand(t)' \/ tasks'[t].scheduled_for # None
<1>t. QueueTypeOK /\ req \in [Requests -> Handler]
  BY DEF FencingInv, TypeOK, ApiTypeOK
<1>1. PICK r \in Requests : /\ req[r].task = t /\ req[r].inserted = "yes"
                            /\ req[r].pc \in {"decide", "push"}
  BY DEF Inserting
<1>0. CASE req'[r] = req[r]
  BY <1>0, <1>1 DEF Inserting
<1>2. CASE Decide(r)
  <2>1. /\ UNCHANGED tasks /\ IsNew(r)
        /\ req[r].scheduled_for # None => tasks[t].scheduled_for # None
    BY <1>1, <1>2 DEF Decide, CoverageInv, HandlerOK, IsNew, storeVars
  <2>2. CASE IsFuture(req[r].scheduled_for)
    BY <2>1, <2>2 DEF IsFuture
  <2>3. CASE ~ IsFuture(req[r].scheduled_for)
    <3>1. req'[r].pc = "push" /\ req'[r].task = t /\ req'[r].inserted = "yes"
      BY <1>1, <1>2, <1>t, <2>1, <2>3 DEF Decide, Handler
    <3> QED
      BY <3>1 DEF Inserting
  <2> QED
    BY <2>2, <2>3
<1>3. CASE PushNew(r)
  BY <1>1, <1>3, <1>t, Pushed DEF PushNew, InHand
<1>4. ASSUME NEW q \in Requests, RequestNext(q)
      PROVE  Inserting(t)' \/ InHand(t)' \/ tasks'[t].scheduled_for # None
  <2>1. CASE q # r
    <3>1. req'[r] = req[r]
      BY <1>4, <1>t, <2>1 DEF RequestNext, CreateNew, CreateConflict, HandlerStep,
         ReadExisting, Decide, PushNew, PushNewFails, CreateFails
    <3> QED
      BY <1>0, <3>1
  <2> QED
    BY <1>1, <1>2, <1>3, <1>4, <2>1, NoLoss
    DEF RequestNext, CreateNew, CreateConflict, HandlerStep, ReadExisting
<1> QED
  BY <1>0, <1>4, NoLoss DEF Next, Environment, WorkerNext, ApiNext, apiVars, Requeuer, Scheduler,
     RequeueScan, RequeueReset, RequeuePush, ScheduleScan, SchedulePush, SchedulePushFails,
     ApiExit, ApiStart

\* Whoever makes a task wait takes its id, or gives the task a date.
LEMMA NewlyWaiting ==
  ASSUME Lossless, FencingInv, Next, NEW t \in Tasks, ~ Claimable(t), Claimable(t)'
  PROVE  Covered(t)'
<1>t. /\ TypeOK /\ tasks \in [Tasks -> Row] /\ req \in [Requests -> Handler]
      /\ rq \in [batch : SUBSET Tasks, push : Tasks \cup {None}]
      /\ pc \in [Workers -> Holding \cup {"off", "brpop", "claim", "repush", "exited", "dead"}]
  BY DEF FencingInv, TypeOK, StoreTypeOK, ApiTypeOK, WorkerTypeOK
<1>m. tasks'[t] # tasks[t]
  BY DEF Claimable
<1>1. ASSUME NEW w \in Workers, WorkerNext(w)
      PROVE  Covered(t)'
  <2>1. ASSUME NEW s \in {"SUCCESS", "DEAD_LETTER", "RETRY"}, job[w] \in Tasks,
               tasks' = IF Owns(w, job[w])
                        THEN [tasks EXCEPT ![job[w]] = Released(tasks[job[w]], s)] ELSE tasks
        PROVE  t = job[w] /\ Owns(w, t) /\ s = "RETRY"
    <3>1. t = job[w] /\ Owns(w, t) /\ tasks'[t] = Released(tasks[t], s)
      BY <1>m, <1>t, <2>1
    <3>2. tasks'[t].status = s
      BY <1>t, <3>1, ReleasedFields DEF Statuses
    <3> QED
      BY <3>1, <3>2 DEF Claimable
  <2>j. pc[w] \in Holding \cup {"claim", "repush"} => job[w] \in Tasks
    BY DEF FencingInv, TypeOK, WorkerTypeOK
  <2>2. CASE SaveRetry(w)
    <3>1. t = job[w] /\ Owns(w, t)
      BY <2>1, <2>2, <2>j DEF SaveRetry, updateTaskRetry
    <3>2. pc'[w] = "repush" /\ job'[w] = t
      BY <1>t, <2>2, <3>1 DEF SaveRetry, Goto
    <3> QED
      BY <3>2 DEF Covered, InHand
  <2>3. ~ (Reject(w) \/ SaveDeadLetter(w))
    BY <2>1, <2>j DEF Reject, SaveDeadLetter, updateTaskDeadLetter
  <2>4. ~ SaveSuccess(w)
    BY <2>1, <2>j DEF SaveSuccess, updateTaskSuccess
  <2>5. CASE SaveSchedule(w)
    <3>1. PICK sch \in Schedules : scheduleTask(job[w], w, sch)
      BY <2>5 DEF SaveSchedule
    <3>2. tasks'[t] = [Released(tasks[t], "PENDING") EXCEPT !.scheduled_for = sch]
      BY <1>m, <1>t, <3>1 DEF scheduleTask
    <3>3. Released(tasks[t], "PENDING") \in Row
      BY <1>t, ReleasedType DEF Statuses
    <3>4. tasks'[t].status = "PENDING" /\ tasks'[t].scheduled_for = sch
      BY <1>t, <3>2, <3>3, ReleasedFields DEF Row, Statuses
    <3> QED
      BY <3>4, StoreAssumption DEF Covered
  <2>6. ~ ClaimWon(w)
    <3> SUFFICES ASSUME ClaimWon(w) PROVE FALSE
      OBVIOUS
    <3>1. t = job[w] /\ Claimable(job[w])
      BY <1>m, <1>t DEF ClaimWon, claimTask
    <3> QED
      BY <3>1
  <2>7. ASSUME NEW u \in Tasks, heartbeat(u, w)
        PROVE  FALSE
    <3>1. tasks'[t] = [tasks[t] EXCEPT !.locked_at = "fresh", !.updated_at = "later"]
      BY <1>m, <1>t, <2>7 DEF heartbeat
    <3>2. tasks'[t].status = tasks[t].status
      BY <1>t, <3>1 DEF Row
    <3> QED
      BY <3>2 DEF Claimable
  <2> QED
    BY <1>1, <1>m, <2>2, <2>3, <2>4, <2>5, <2>6, <2>7
    DEF WorkerNext, WorkerStep, Start, Pop, Leave, ClaimLost, SendBeat, LandBeat,
        AutomationReturns, Repush, Crash, Shutdown, storeVars
<1>2. ASSUME NEW r \in Requests, RequestNext(r)
      PROVE  Covered(t)'
  <2>1. CreateNew(r)
    BY <1>2, <1>m, NoLoss DEF RequestNext, CreateConflict, HandlerStep, ReadExisting, Decide,
       PushNew, storeVars
  <2>2. PICK u \in Tasks, svc \in Services, sch \in Schedules \cup {None} :
          /\ InsertTask(u, svc, sch)
          /\ req' = [req EXCEPT ![r] = [pc |-> "decide", task |-> u, inserted |-> "yes",
                                        updated_at |-> "created", scheduled_for |-> sch]]
    BY <2>1 DEF CreateNew
  <2>3. u = t /\ tasks'[t].status = "PENDING"
    BY <1>m, <1>t, <2>2 DEF InsertTask, NewRow
  <2>4. req'[r].pc = "decide" /\ req'[r].task = t /\ req'[r].inserted = "yes"
    BY <1>t, <2>2, <2>3
  <2> QED
    BY <2>3, <2>4 DEF Covered, Inserting
<1>3. ASSUME ApiNext
      PROVE  Covered(t)'
  <2>1. RequeueReset
    BY <1>3, <1>m, NoLoss DEF ApiNext, Requeuer, Scheduler, RequeueScan, RequeuePush,
       ScheduleScan, SchedulePush, SchedulePushFails, ApiExit, ApiStart, storeVars
  <2>2. PICK u \in Tasks :
          /\ RequeueTask(u)
          /\ rq' = [batch |-> rq.batch \ {u}, push |-> IF Stale(u) THEN u ELSE None]
    BY <1>t, <2>1 DEF RequeueReset
  <2>3. u = t /\ Stale(t)
    BY <1>m, <1>t, <2>2 DEF RequeueTask
  <2> QED
    BY <2>2, <2>3 DEF Covered, InHand
<1>4. ASSUME Environment
      PROVE  FALSE
  <2>1. ASSUME NEW u \in Tasks, LockExpires(u)
        PROVE  FALSE
    <3>1. tasks'[t] = [tasks[t] EXCEPT !.locked_at = "stale"]
      BY <1>m, <1>t, <2>1 DEF LockExpires
    <3>2. tasks'[t].status = tasks[t].status
      BY <1>t, <3>1 DEF Row
    <3> QED
      BY <3>2 DEF Claimable
  <2> QED
    BY <1>4, <1>m, <2>1 DEF Environment, OrphanLockExpires, Suspicion, Tick, QueueLost, storeVars
<1> QED
  BY <1>1, <1>2, <1>3, <1>4 DEF Next

\* What a handler knows of its row stays true.
LEMMA HandlersKnow ==
  ASSUME Lossless, FencingInv, CoverageInv, Next, NEW r \in Requests
  PROVE  HandlerOK(r)'
<1>t. /\ TypeOK /\ req \in [Requests -> Handler] /\ tasks \in [Tasks -> Row]
      /\ req[r].pc \in {"conflict", "decide", "push"} => req[r].task \in Tasks
  BY DEF FencingInv, TypeOK, ApiTypeOK, StoreTypeOK
<1>i. HandlerOK(r)
  BY DEF CoverageInv
<1>0. CASE req'[r] = req[r]
  <2>1. CASE req[r].pc \notin {"conflict", "decide", "push"}
    BY <1>0, <1>i, <2>1 DEF HandlerOK
  <2>2. CASE req[r].pc \in {"conflict", "decide", "push"}
    <3>1. PICK t \in Tasks : t = req[r].task
      BY <1>t, <2>2
    <3>2. Exists(t)' /\ (tasks[t].scheduled_for # None => tasks'[t].scheduled_for # None)
      BY <1>i, <2>2, <3>1, DatedStays DEF HandlerOK
    <3> QED
      BY <1>0, <1>i, <3>1, <3>2 DEF HandlerOK, Exists
  <2> QED
    BY <2>1, <2>2
<1>1. CASE CreateNew(r)
  <2>1. PICK t \in Tasks, svc \in Services, sch \in Schedules \cup {None} :
          /\ InsertTask(t, svc, sch)
          /\ req' = [req EXCEPT ![r] = [pc |-> "decide", task |-> t, inserted |-> "yes",
                                        updated_at |-> "created", scheduled_for |-> sch]]
    BY <1>1 DEF CreateNew
  <2>2. tasks'[t].status = "PENDING" /\ tasks'[t].scheduled_for = sch
    BY <1>t, <2>1 DEF InsertTask, NewRow
  <2>3. /\ req'[r].pc = "decide" /\ req'[r].task = t /\ req'[r].scheduled_for = sch
        /\ req'[r].updated_at = "created"
    BY <1>t, <2>1
  <2> QED
    BY <2>2, <2>3 DEF HandlerOK, Exists
<1>2. CASE CreateConflict(r)
  <2>1. PICK t \in Tasks : Exists(t) /\ req' = [req EXCEPT ![r].pc = "conflict", ![r].task = t]
    BY <1>2 DEF CreateConflict
  <2>2. /\ req'[r].pc = "conflict" /\ req'[r].task = t /\ req'[r].inserted = req[r].inserted
        /\ UNCHANGED tasks /\ req[r].pc = "idle"
    BY <1>2, <1>t, <2>1 DEF CreateConflict, Handler, storeVars
  <2> QED
    BY <1>i, <2>1, <2>2 DEF HandlerOK, Exists
<1>3. CASE ReadExisting(r)
  <2>1. /\ req[r].pc = "conflict" /\ UNCHANGED tasks /\ req'[r].pc = "decide"
        /\ req'[r].task = req[r].task /\ req'[r].inserted = req[r].inserted
    BY <1>t, <1>3 DEF ReadExisting, Handler, storeVars
  <2> QED
    BY <1>i, <2>1 DEF HandlerOK, Exists
<1>4. CASE Decide(r) \/ PushNew(r)
  <2>1. /\ req[r].pc \in {"decide", "push"} /\ UNCHANGED tasks
        /\ req'[r].task = req[r].task /\ req'[r].pc \in {"200", "201", "push"}
    BY <1>t, <1>4 DEF Decide, PushNew, Handler, storeVars
  <2> QED
    BY <1>i, <2>1 DEF HandlerOK, Exists
<1>5. ASSUME NEW q \in Requests, RequestNext(q)
      PROVE  HandlerOK(r)'
  <2>1. CASE q # r
    <3>1. req'[r] = req[r]
      BY <1>5, <1>t, <2>1 DEF RequestNext, CreateNew, CreateConflict, HandlerStep,
         ReadExisting, Decide, PushNew, PushNewFails, CreateFails
    <3> QED
      BY <1>0, <3>1
  <2> QED
    BY <1>1, <1>2, <1>3, <1>4, <1>5, <2>1, NoLoss DEF RequestNext, HandlerStep
<1> QED
  BY <1>0, <1>5, NoLoss DEF Next, Environment, WorkerNext, ApiNext, apiVars, Requeuer, Scheduler,
     RequeueScan, RequeueReset, RequeuePush, ScheduleScan, SchedulePush, SchedulePushFails,
     ApiExit, ApiStart

\* A task that waits after a step has somebody coming for it.
LEMMA WaitingStaysCovered ==
  ASSUME Lossless, FencingInv, CoverageInv, Next, NEW t \in Tasks, Claimable(t)'
  PROVE  Covered(t)'
<1>1. CASE ~ Claimable(t)
  BY <1>1, NewlyWaiting
<1>2. CASE Claimable(t)
  <2>1. TypeOK /\ Covered(t) /\ Exists(t)
    BY <1>2 DEF FencingInv, CoverageInv, Claimable, Exists
  <2>2. CASE InHand(t)
    BY <1>2, <2>1, <2>2, QueuedStays, HeldStays, ResetStays DEF InHand, Covered
  <2>3. CASE tasks[t].status = "PENDING"
    <3>1. tasks'[t].status = "PENDING"
      BY <2>3, RowMoves DEF RowMove, LockMove, InsertMove, ClaimMove, ReleaseMove, ScheduleMove,
         Exists, Claimable
    <3>2. Inserting(t) => Inserting(t)' \/ InHand(t)' \/ tasks'[t].scheduled_for # None
      BY <2>1, InsertingStays
    <3>3. tasks[t].scheduled_for # None => tasks'[t].scheduled_for # None
      BY <2>1, DatedStays
    <3> QED
      BY <2>1, <2>2, <2>3, <3>1, <3>2, <3>3 DEF Covered
  <2> QED
    BY <2>1, <2>2, <2>3 DEF Covered
<1> QED
  BY <1>1, <1>2

\* The invariant is preserved where nothing is lost.
LEMMA CoverageStep ==
  ASSUME Lossless
  PROVE  FencingInv /\ CoverageInv /\ [Next]_vars => CoverageInv'
<1> SUFFICES ASSUME FencingInv, CoverageInv, [Next]_vars PROVE CoverageInv'
  OBVIOUS
<1>1. CASE Next
  BY <1>1, WaitingStaysCovered, HandlersKnow DEF CoverageInv
<1>2. CASE UNCHANGED vars
  BY <1>2 DEF CoverageInv, HandlerOK, Covered, InHand, Inserting, InQueue, Claimable, Exists,
     vars, storeVars, workerVars, apiVars
<1> QED
  BY <1>1, <1>2

\* Where no process and no push is lost, a PENDING or RETRY task always has its id
\* queued, in the hand of a worker, about to be pushed, or left to the scheduler,
\* although BRPOP gives no acknowledgement and the table and the queue are written
\* by separate steps.
THEOREM NoTaskIsForgotten ==
  ASSUME Lossless
  PROVE  Spec => []WaitingIsCovered
<1>1. Init => CoverageInv
  BY DEF Init, StoreInit, ApiInit, NewRow, CoverageInv, HandlerOK, Claimable
<1>2. FencingInv /\ CoverageInv /\ [Next]_vars => (FencingInv /\ CoverageInv)'
  BY FencingStep, CoverageStep
<1>3. CoverageInv => WaitingIsCovered
  <2> SUFFICES ASSUME CoverageInv, NEW t \in Tasks, Claimable(t)
               PROVE  \/ InQueue(t)
                      \/ \E w \in Workers : pc[w] = "claim" /\ job[w] = t
                      \/ BeingPushed(t)
                      \/ tasks[t].status = "PENDING" /\ tasks[t].scheduled_for # None
    BY DEF WaitingIsCovered
  <2>1. Covered(t)
    BY DEF CoverageInv
  <2> QED
    BY <2>1 DEF Covered, InHand, Inserting, BeingPushed
<1> QED
  BY <1>1, <1>2, <1>3, FencingInit, PTL DEF Spec

=============================================================================
