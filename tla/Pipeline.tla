------------------------------ MODULE Pipeline ------------------------------
(***************************************************************************)
(* The whole task pipeline: the API process, the workers, Postgres and     *)
(* Redis, and the faults of their environment.  Faults says which kinds of *)
(* fault may happen and MaxFaults how many in all.                         *)
(***************************************************************************)
EXTENDS Worker, ApiServer

CONSTANTS Faults,    \* the kinds of fault of this environment
          MaxFaults  \* bound: how many faults happen in a behaviour

FaultKinds == {"create_enqueue", "requeue_enqueue", "scheduler_enqueue",
               "create_db", "requeue_db", "worker_crash", "worker_sigterm", "suspicion",
               "api_crash", "api_sigterm", "redis_loss"}

ASSUME PipelineAssumption == Faults \subseteq FaultKinds /\ MaxFaults \in Nat

VARIABLE faults  \* how many have happened: in all, and to workers

vars == <<storeVars, queue, workerVars, apiVars, faults>>

Init == StoreInit /\ QueueInit /\ WorkerInit /\ ApiInit
        /\ faults = [all |-> 0, workers |-> 0]

\* A worker dies, or is taken for dead.
WorkerFaults == {"worker_crash", "suspicion"}

Fault(kind) ==
  /\ kind \in Faults /\ faults.all < MaxFaults
  /\ faults' = [all |-> faults.all + 1,
                workers |-> faults.workers + (IF kind \in WorkerFaults THEN 1 ELSE 0)]

\* Time passes a lock whose owner sends no heartbeat any more.
OrphanLockExpires(t) ==
  /\ tasks[t].locked_by \in Workers /\ ~ Alive(tasks[t].locked_by)
  /\ LockExpires(t)

\* Time passes the lock of a live owner whose heartbeats were late or lost for
\* staleLockThreshold: the requeuer will take it for dead.
Suspicion(t) ==
  /\ tasks[t].locked_by \in Workers /\ Alive(tasks[t].locked_by)
  /\ LockExpires(t)

Environment ==
  \/ Tick /\ UNCHANGED <<queue, workerVars, apiVars, faults>>
  \/ \E t \in Tasks : OrphanLockExpires(t) /\ UNCHANGED <<queue, workerVars, apiVars, faults>>
  \/ \E t \in Tasks : Suspicion(t) /\ Fault("suspicion") /\ UNCHANGED <<queue, workerVars, apiVars>>
  \/ QueueLost /\ Fault("redis_loss") /\ UNCHANGED <<storeVars, workerVars, apiVars>>

WorkerNext(w) ==
  /\ \/ (Start(w) \/ SendBeat(w) \/ WorkerStep(w)) /\ UNCHANGED faults
     \/ \E t \in Tasks : LandBeat(<<w, t>>) /\ UNCHANGED faults
     \/ Crash(w) /\ Fault("worker_crash")
     \/ Shutdown(w) /\ Fault("worker_sigterm")
  /\ UNCHANGED apiVars

RequestNext(r) ==
  /\ \/ (CreateNew(r) \/ CreateConflict(r) \/ HandlerStep(r)) /\ UNCHANGED faults
     \/ PushNewFails(r) /\ Fault("create_enqueue")
     \/ CreateFails(r) /\ Fault("create_db")
  /\ UNCHANGED workerVars

ApiNext ==
  /\ \/ (Requeuer \/ Scheduler \/ ApiExit \/ ApiStart) /\ UNCHANGED faults
     \/ RequeueResetFails /\ Fault("requeue_db")
     \/ RequeuePushFails /\ Fault("requeue_enqueue")
     \/ SchedulePushFails /\ Fault("scheduler_enqueue")
     \/ ApiShutdown /\ Fault("api_sigterm")
     \/ ApiCrash /\ Fault("api_crash")
  /\ UNCHANGED workerVars

Next ==
  \/ Environment
  \/ \E w \in Workers : WorkerNext(w)
  \/ \E r \in Requests : RequestNext(r)
  \/ ApiNext

Spec == Init /\ [][Next]_vars

(***************************************************************************)
(* Fairness.  Each process goes on running: the workers' and the handlers' *)
(* awaits are answered, the tickers of the two loops fire, unstarted       *)
(* worker ids stand for replacements Docker starts (restart: on-failure),  *)
(* an API that went down is started again, and time passes.  Nothing fair  *)
(* is asked of heartbeats, requests or faults.                             *)
(***************************************************************************)
Fairness ==
  /\ \A w \in Workers :
       /\ WF_vars(Start(w) /\ UNCHANGED <<apiVars, faults>>)
       /\ WF_vars(WorkerStep(w) /\ UNCHANGED <<apiVars, faults>>)
  /\ \A r \in Requests : WF_vars(HandlerStep(r) /\ UNCHANGED <<workerVars, faults>>)
  /\ WF_vars(Requeuer /\ UNCHANGED <<workerVars, faults>>)
  /\ WF_vars(Scheduler /\ UNCHANGED <<workerVars, faults>>)
  /\ WF_vars((ApiExit \/ ApiStart) /\ UNCHANGED <<workerVars, faults>>)
  /\ WF_vars(Tick /\ UNCHANGED <<queue, workerVars, apiVars, faults>>)
  /\ \A t \in Tasks :
       WF_vars(OrphanLockExpires(t) /\ UNCHANGED <<queue, workerVars, apiVars, faults>>)

FairSpec == Spec /\ Fairness

-----------------------------------------------------------------------------
(* Safety. *)

\* The types of all variables, and which local fields are set where.
TypeOK ==
  /\ StoreTypeOK /\ QueueTypeOK /\ WorkerTypeOK /\ ApiTypeOK
  /\ faults \in [all : Nat, workers : Nat]

\* A row is locked exactly while it is IN_PROGRESS: every path out of
\* IN_PROGRESS (four result writes and RequeueTask) clears both lock columns, so
\* that no fenced write can match a row that is not IN_PROGRESS although the
\* result writes do not look at status.
LockConsistent ==
  \A t \in Tasks :
    /\ tasks[t].status = "IN_PROGRESS" <=> tasks[t].locked_by # None
    /\ tasks[t].status = "IN_PROGRESS" <=> tasks[t].locked_at # "null"

\* The worker named in locked_by is dead or is executing that task, and what it
\* believes to be the attempt number is the row's: fencing on the worker's id
\* alone never lets the result of an earlier attempt through.
OwnerHoldsCurrentAttempt ==
  \A t \in Tasks, w \in Workers :
    tasks[t].locked_by = w =>
      \/ pc[w] = "dead"
      \/ pc[w] \in Holding /\ job[w] = t /\ attempt[w] = tasks[t].attempts

\* A supported service's task is dead-lettered only after max_attempts claims,
\* although the worker decides on the count it read when it claimed.
DeadLetterExhausted ==
  \A t \in Tasks :
    tasks[t].status = "DEAD_LETTER" =>
      tasks[t].service = "unregistered" \/ tasks[t].attempts >= MaxAttempts

\* A RETRY row always has an attempt left for the push that follows it.
RetryHasBudget ==
  \A t \in Tasks : tasks[t].status = "RETRY" => tasks[t].attempts < MaxAttempts

\* A worker works on a task that exists, and rejects it exactly if the service
\* has no automation.
HolderKnowsService ==
  \A w \in Workers :
    pc[w] \in Holding =>
      /\ Exists(job[w])
      /\ pc[w] = "reject" <=> tasks[job[w]].service = "unregistered"

\* The inductive invariant behind the ones above.
FencingInv ==
  /\ TypeOK /\ LockConsistent /\ OwnerHoldsCurrentAttempt
  /\ DeadLetterExhausted /\ RetryHasBudget /\ HolderKnowsService

\* SUCCESS and DEAD_LETTER rows are never written again, whatever late
\* heartbeats, stale result writes, requeues or duplicate queue entries do.
TerminalForever ==
  [][\A t \in Tasks : tasks[t].status \in {"SUCCESS", "DEAD_LETTER"}
                         => tasks'[t] = tasks[t]]_vars

\* No task runs before its scheduled_for although claimTask does not look at
\* it: the queue never holds the id of a task whose time has not come.
NoEarlyStart ==
  \A t \in Tasks :
    tasks[t].status = "IN_PROGRESS" => ~ IsFuture(tasks[t].scheduled_for)

\* Somebody is about to push the id of t.
BeingPushed(t) ==
  \/ \E w \in Workers : pc[w] = "repush" /\ job[w] = t
  \/ \E r \in Requests : /\ req[r].task = t /\ req[r].inserted = "yes"
                         /\ req[r].pc \in {"decide", "push"}
  \/ rq.push = t

\* A waiting task is not forgotten: its id is queued, in the hand of a worker
\* about to claim it, about to be pushed, or the scheduler's scan will find it.
\* Holds where nothing fails between a status write and its push.
WaitingIsCovered ==
  \A t \in Tasks :
    Claimable(t) =>
      \/ InQueue(t)
      \/ \E w \in Workers : pc[w] = "claim" /\ job[w] = t
      \/ BeingPushed(t)
      \/ tasks[t].status = "PENDING" /\ tasks[t].scheduled_for # None

\* How many attempts lost workers may have cost: one for each time that a worker
\* died or was taken for dead, and none for any other fault.
LostAttempts == faults.workers

\* A failing task ends although RequeueTask gives it back without a look at
\* max_attempts: each lost worker adds one attempt at most, however requeues,
\* late heartbeats, duplicate ids and retries are interleaved, and failures of
\* the API, of Redis or of a push add none.  Holds where no automation
\* reschedules its task.
AttemptsWithinLosses ==
  \A t \in Tasks : tasks[t].attempts <= MaxAttempts + LostAttempts

-----------------------------------------------------------------------------
(* The pipeline implements TaskLifecycle. *)

PhaseOf(status) ==
  CASE status = "ABSENT" -> "absent"
    [] status \in {"PENDING", "RETRY"} -> "waiting"
    [] status = "IN_PROGRESS" -> "running"
    [] status = "SUCCESS" -> "done"
    [] status = "DEAD_LETTER" -> "dead"

phaseBar == [t \in Tasks |-> PhaseOf(tasks[t].status)]

countBar == [t \in Tasks |-> tasks[t].attempts]

\* Whoever works under a claim, its own or one it has lost without knowing.
runsBar == {<<w, job[w], attempt[w]>> : w \in {v \in Workers : pc[v] \in Holding}}

serviceBar == [t \in Tasks |-> tasks[t].service]

Lifecycle == INSTANCE TaskLifecycle WITH
  phase <- phaseBar, count <- countBar, runs <- runsBar, service <- serviceBar

\* Claims, result writes, requeues and crashes are steps of TaskLifecycle: only
\* the latest attempt's outcome is recorded, and it is final.
ImplementsLifecycle == Lifecycle!LSpec

-----------------------------------------------------------------------------
(* Liveness. *)

\* Every created task reaches SUCCESS or DEAD_LETTER even if a live worker is
\* taken for dead or shut down, as long as no push or process is lost.
EventuallyTerminal ==
  \A t \in Tasks : Exists(t) ~> tasks[t].status \in {"SUCCESS", "DEAD_LETTER"}

Orphan(t) == \E w \in Workers : Owns(w, t) /\ pc[w] = "dead"

\* A task whose worker died is taken off it again, whatever else fails.
OrphanRecovered == \A t \in Tasks : Orphan(t) ~> ~ Orphan(t)

\* A due PENDING task with a date is claimed in the end, whatever pushes, ids
\* and processes are lost on the way: the scheduler pushes until it is claimed.
DueIsClaimed ==
  \A t \in Tasks :
    t \in PendingScheduledTasks ~> tasks[t].status # "PENDING"

-----------------------------------------------------------------------------
(***************************************************************************)
(* What comments and tests of the repository say and the code does not do. *)
(* Each is refuted by one run.                                             *)
(***************************************************************************)

\* task_handler.go says of a failed enqueue "Non-fatal: log it. The requeue
\* goroutine is our safety net": a created task is picked up even so.
CreatedIsPickedUp ==
  \A r \in Requests, t \in Tasks :
    (req[r].pc = "201" /\ req[r].task = t) ~> tasks[t].status # "PENDING"

\* requeue.go says of a failed enqueue after RequeueTask "the NEXT requeue scan
\* will catch it again": a task that was reset is picked up even so.
ResetIsPickedUp ==
  \A t \in Tasks :
    (tasks[t].status = "PENDING" /\ tasks[t].attempts > 0) ~> tasks[t].status # "PENDING"

\* producer.go says "the requeue goroutine is our acknowledgement safety net": an
\* id that BRPOP removed is not lost with the worker that removed it.
PoppedIsProcessed ==
  \A t \in Tasks, w \in Workers :
    (pc[w] = "claim" /\ job[w] = t) ~> tasks[t].status \in {"SUCCESS", "DEAD_LETTER"}

\* task_handler.go says of a replayed key "We return 200 OK (not 201)".
ReplayAnswered200 == \A r \in Requests : req[r].pc = "201" => req[r].inserted = "yes"

\* Migration 001 says of attempts and max_attempts "we never loop forever", and
\* the worker gives up "when attempts >= max_attempts".
AttemptsBounded == \A t \in Tasks : tasks[t].attempts <= MaxAttempts

=============================================================================
