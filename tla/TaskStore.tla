----------------------------- MODULE TaskStore -----------------------------
(***************************************************************************)
(* The `tasks' table of Postgres (migrations/001, 002) and the SQL         *)
(* statements the Go repository (internal/repository/task_repo.go) and the *)
(* worker (worker/src/db.js) send it.  A statement is atomic: Postgres     *)
(* serialises the updates of one row.                                      *)
(*                                                                         *)
(* A task is identified with its idempotency key (the column is UNIQUE).   *)
(* Timestamps are kept as far as the code compares them:                   *)
(*   - locked_at is "fresh" or "stale" (older than staleLockThreshold);    *)
(*   - updated_at is "created" while it still equals created_at and        *)
(*     "later" once the BEFORE UPDATE trigger has moved it;                *)
(*   - scheduled_for is a point of the clock `now'.                        *)
(***************************************************************************)
EXTENDS Naturals

CONSTANTS Tasks,       \* the idempotency keys
          Workers,     \* the WORKER_IDs, one per worker process ever started
          None,        \* SQL NULL
          Services,    \* whether the worker's registry has an automation for service_name
          Schedules,   \* the values scheduled_for may be given
          MaxTime,     \* bound on the clock
          MaxAttempts  \* the column max_attempts (DEFAULT 3, never written)

ASSUME StoreAssumption ==
  /\ None \notin Tasks /\ None \notin Workers /\ None \notin Nat
  /\ Services \subseteq {"registered", "unregistered"}
  /\ Schedules \subseteq Nat
  /\ MaxTime \in Nat
  /\ MaxAttempts \in Nat \ {0}

VARIABLES tasks,  \* the table: one row per idempotency key
          now     \* the clock NOW(), time.Now() and the trial dates share

storeVars == <<tasks, now>>

\* The ENUM also has 'FAILED', which no statement of the code ever writes.
Statuses == {"PENDING", "IN_PROGRESS", "SUCCESS", "RETRY", "DEAD_LETTER"}

\* A row.  "ABSENT" stands for a key no row has yet.
Row == [status        : Statuses \cup {"ABSENT"},
        attempts      : Nat,
        locked_by     : Workers \cup {None},
        locked_at     : {"null", "fresh", "stale"},
        scheduled_for : Nat \cup {None},
        updated_at    : {"created", "later"},
        service       : {"registered", "unregistered"}]

NewRow(svc, sch) ==
  [status |-> "PENDING", attempts |-> 0, locked_by |-> None,
   locked_at |-> "null", scheduled_for |-> sch, updated_at |-> "created",
   service |-> svc]

StoreInit ==
  /\ tasks = [t \in Tasks |-> [NewRow("registered", None) EXCEPT !.status = "ABSENT"]]
  /\ now = 0

StoreTypeOK == tasks \in [Tasks -> Row] /\ now \in Nat

-----------------------------------------------------------------------------
(* What the statements' WHERE clauses ask of a row. *)

Exists(t) == tasks[t].status # "ABSENT"

\* Mutants: claimTask takes only fresh rows; claimTask skips rows with a date.
ClaimablePendingOnly(t) == tasks[t].status = "PENDING"
ClaimableUnscheduled(t) ==
  tasks[t].status \in {"PENDING", "RETRY"} /\ tasks[t].scheduled_for = None

Claimable(t) == tasks[t].status \in {"PENDING", "RETRY"}

Owns(w, t) == tasks[t].locked_by = w

Stale(t) == tasks[t].status = "IN_PROGRESS" /\ tasks[t].locked_at = "stale"

IsFuture(sch) == sch # None /\ sch > now

\* Mutants: the comparison with NOW() - threshold turned round; no comparison
\* with NOW() at all.
StaleInverted ==
  {t \in Tasks : tasks[t].status = "IN_PROGRESS" /\ tasks[t].locked_at = "fresh"}
PendingScheduledAnyDate ==
  {t \in Tasks : tasks[t].status = "PENDING" /\ tasks[t].scheduled_for # None}

\* GetStaleInProgressTasks and GetPendingScheduledTasks.
StaleInProgressTasks == {t \in Tasks : Stale(t)}

PendingScheduledTasks ==
  {t \in Tasks : /\ tasks[t].status = "PENDING"
                 /\ tasks[t].scheduled_for # None
                 /\ ~ IsFuture(tasks[t].scheduled_for)}

-----------------------------------------------------------------------------
(* The statements that write.  Every UPDATE fires the updated_at trigger. *)

\* INSERT ... ON CONFLICT (idempotency_key) DO NOTHING, for a new key.
InsertTask(t, svc, sch) ==
  /\ ~ Exists(t)
  /\ tasks' = [tasks EXCEPT ![t] = NewRow(svc, sch)]

ClaimedBy(row, w) ==
  [row EXCEPT !.status = "IN_PROGRESS", !.locked_at = "fresh", !.locked_by = w,
              !.attempts = @ + 1, !.updated_at = "later"]

claimTask(t, w) ==
  /\ Claimable(t)
  /\ tasks' = [tasks EXCEPT ![t] = ClaimedBy(@, w)]

heartbeat(t, w) ==
  tasks' = IF Owns(w, t) /\ tasks[t].status = "IN_PROGRESS"
           THEN [tasks EXCEPT ![t].locked_at = "fresh", ![t].updated_at = "later"]
           ELSE tasks

\* The row after the lock is given up and the task is in status s.
Released(row, s) ==
  [row EXCEPT !.status = s, !.locked_at = "null", !.locked_by = None,
              !.updated_at = "later"]

\* Mutants: result writes without the fence.
updateTaskSuccessUnfenced(t, w) == tasks' = [tasks EXCEPT ![t] = Released(@, "SUCCESS")]
updateTaskRetryUnfenced(t, w) == tasks' = [tasks EXCEPT ![t] = Released(@, "RETRY")]

\* The result writes are fenced on locked_by only.
updateTaskSuccess(t, w) ==
  tasks' = IF Owns(w, t) THEN [tasks EXCEPT ![t] = Released(@, "SUCCESS")] ELSE tasks

updateTaskRetry(t, w) ==
  tasks' = IF Owns(w, t) THEN [tasks EXCEPT ![t] = Released(@, "RETRY")] ELSE tasks

updateTaskDeadLetter(t, w) ==
  tasks' = IF Owns(w, t) THEN [tasks EXCEPT ![t] = Released(@, "DEAD_LETTER")] ELSE tasks

scheduleTask(t, w, sch) ==
  tasks' = IF Owns(w, t)
           THEN [tasks EXCEPT ![t] = [Released(@, "PENDING") EXCEPT !.scheduled_for = sch]]
           ELSE tasks

\* Mutants: no second check of status and staleness; locked_by not cleared.
RequeueTaskUnchecked(t) == tasks' = [tasks EXCEPT ![t] = Released(@, "PENDING")]
RequeueTaskKeepsOwner(t) ==
  tasks' = IF Stale(t)
           THEN [tasks EXCEPT ![t].status = "PENDING", ![t].locked_at = "null",
                              ![t].updated_at = "later"]
           ELSE tasks

\* RequeueTask repeats the staleness check of the scan.
RequeueTask(t) ==
  tasks' = IF Stale(t) THEN [tasks EXCEPT ![t] = Released(@, "PENDING")] ELSE tasks

-----------------------------------------------------------------------------
(* The passage of time. *)

\* locked_at falls behind NOW() - staleLockThreshold.
LockExpires(t) ==
  /\ tasks[t].status = "IN_PROGRESS" /\ tasks[t].locked_at = "fresh"
  /\ tasks' = [tasks EXCEPT ![t].locked_at = "stale"]
  /\ UNCHANGED now

Tick ==
  /\ now < MaxTime
  /\ now' = now + 1
  /\ UNCHANGED tasks

=============================================================================
