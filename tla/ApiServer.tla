----------------------------- MODULE ApiServer -----------------------------
(***************************************************************************)
(* The Go API process (cmd/api/main.go, internal/server, handlers, queue): *)
(* the POST /tasks handler, one goroutine per request, and the two         *)
(* background goroutines, the requeuer and the scheduler.  Each await of   *)
(* the code (an SQL statement, an LPUSH) is one step here.                 *)
(***************************************************************************)
EXTENDS TaskQueue

CONSTANT Requests  \* POST /tasks calls, each made once

VARIABLES api,          \* "up", "draining" (srv.Shutdown) or "down"
          req,          \* the handler of each request and its local task
          rq,           \* the requeuer: its scan result and the id to push
          due,          \* the scheduler: its scan result
          tasksCreated  \* TasksCreatedTotal, in the memory of the process

apiVars == <<api, req, rq, due, tasksCreated>>

Handler == [pc            : {"idle", "conflict", "decide", "push", "201", "200", "500", "lost"},
            task          : Tasks \cup {None},
            inserted      : {"yes", "no"},   \* history: this request's INSERT made the row
            updated_at    : {"created", "later"},
            scheduled_for : Nat \cup {None}]

ApiTypeOK ==
  /\ api \in {"up", "draining", "down"}
  /\ req \in [Requests -> Handler]
  /\ rq \in [batch : SUBSET Tasks, push : Tasks \cup {None}]
  /\ due \subseteq Tasks
  /\ tasksCreated \in Nat
  /\ \A r \in Requests :
       req[r].pc \in {"conflict", "decide", "push"} => req[r].task \in Tasks

ApiInit ==
  /\ api = "up"
  /\ req = [r \in Requests |-> [pc |-> "idle", task |-> None, inserted |-> "no",
                                updated_at |-> "created", scheduled_for |-> None]]
  /\ rq = [batch |-> {}, push |-> None]
  /\ due = {}
  /\ tasksCreated = 0

-----------------------------------------------------------------------------
(* POST /tasks: TaskHandler.CreateTask and PostgresTaskRepo.CreateTask. *)

Serving == api \in {"up", "draining"}

\* A valid body arrives and its INSERT makes the row; RETURNING gives the task.
CreateNew(r) ==
  /\ api = "up" /\ req[r].pc = "idle"
  /\ \E t \in Tasks, svc \in Services, sch \in Schedules \cup {None} :
       /\ InsertTask(t, svc, sch)
       /\ req' = [req EXCEPT ![r] = [pc |-> "decide", task |-> t, inserted |-> "yes",
                                     updated_at |-> "created", scheduled_for |-> sch]]
  /\ UNCHANGED <<now, queue, api, rq, due, tasksCreated>>

\* The key exists: ON CONFLICT DO NOTHING returns no row.
CreateConflict(r) ==
  /\ api = "up" /\ req[r].pc = "idle"
  /\ \E t \in Tasks :
       /\ Exists(t)
       /\ req' = [req EXCEPT ![r].pc = "conflict", ![r].task = t]
  /\ UNCHANGED <<storeVars, queue, api, rq, due, tasksCreated>>

\* GetTaskByIdempotencyKey, a second statement.
ReadExisting(r) ==
  /\ Serving /\ req[r].pc = "conflict"
  /\ LET row == tasks[req[r].task] IN
       req' = [req EXCEPT ![r].pc = "decide", ![r].updated_at = row.updated_at,
                          ![r].scheduled_for = row.scheduled_for]
  /\ UNCHANGED <<storeVars, queue, api, rq, due, tasksCreated>>

\* A statement of the handler fails: 500.  An INSERT may have committed before
\* its reply was lost.
CreateFails(r) ==
  /\ \/ /\ api = "up" /\ req[r].pc = "idle"
        /\ \E t \in Tasks, svc \in Services, sch \in Schedules \cup {None} :
             /\ InsertTask(t, svc, sch)
             /\ req' = [req EXCEPT ![r].pc = "500", ![r].task = t, ![r].inserted = "yes"]
     \/ /\ Serving /\ req[r].pc = "conflict"
        /\ req' = [req EXCEPT ![r].pc = "500"]
        /\ UNCHANGED tasks
  /\ UNCHANGED <<now, queue, api, rq, due, tasksCreated>>

\* isNew := task.CreatedAt.Equal(task.UpdatedAt)
IsNew(r) == req[r].updated_at = "created"

\* Count the task if it is new, and choose between Enqueue and the answer.
Decide(r) ==
  /\ Serving /\ req[r].pc = "decide"
  /\ tasksCreated' = IF IsNew(r) THEN tasksCreated + 1 ELSE tasksCreated
  /\ req' = [req EXCEPT ![r].pc =
               IF ~ IsNew(r) THEN "200"
               ELSE IF IsFuture(req[r].scheduled_for) THEN "201" ELSE "push"]
  /\ UNCHANGED <<storeVars, queue, api, rq, due>>

PushNew(r) ==
  /\ Serving /\ req[r].pc = "push"
  /\ Enqueue(req[r].task)
  /\ req' = [req EXCEPT ![r].pc = "201"]
  /\ UNCHANGED <<storeVars, api, rq, due, tasksCreated>>

\* Enqueue fails (Redis away, client gone): logged, the answer is the same.
PushNewFails(r) ==
  /\ Serving /\ req[r].pc = "push"
  /\ req' = [req EXCEPT ![r].pc = "201"]
  /\ UNCHANGED <<storeVars, queue, api, rq, due, tasksCreated>>

-----------------------------------------------------------------------------
(* Requeuer.runOnce: scan, then for each task reset and push. *)

RequeueScan ==
  /\ api = "up" /\ rq.batch = {} /\ rq.push = None
  /\ StaleInProgressTasks # {}
  /\ rq' = [rq EXCEPT !.batch = StaleInProgressTasks]
  /\ UNCHANGED <<storeVars, queue, api, req, due, tasksCreated>>

\* RequeueTask; a task that is no longer stale is skipped.
RequeueReset ==
  /\ api = "up" /\ rq.push = None
  /\ \E t \in rq.batch :
       /\ RequeueTask(t)
       /\ rq' = [batch |-> rq.batch \ {t}, push |-> IF Stale(t) THEN t ELSE None]
  /\ UNCHANGED <<now, queue, api, req, due, tasksCreated>>

\* RequeueTask returns an error: `continue'.  The UPDATE may have committed before
\* its reply was lost.
RequeueResetFails ==
  /\ api = "up" /\ rq.push = None
  /\ \E t \in rq.batch :
       /\ RequeueTask(t) \/ UNCHANGED tasks
       /\ rq' = [rq EXCEPT !.batch = @ \ {t}]
  /\ UNCHANGED <<now, queue, api, req, due, tasksCreated>>

RequeuePush ==
  /\ api = "up" /\ rq.push # None
  /\ Enqueue(rq.push)
  /\ rq' = [rq EXCEPT !.push = None]
  /\ UNCHANGED <<storeVars, api, req, due, tasksCreated>>

\* Enqueue fails after the reset: logged, `continue'.
RequeuePushFails ==
  /\ api = "up" /\ rq.push # None
  /\ rq' = [rq EXCEPT !.push = None]
  /\ UNCHANGED <<storeVars, queue, api, req, due, tasksCreated>>

-----------------------------------------------------------------------------
(* Scheduler.runOnce: push every due task; nothing in the row records it. *)

ScheduleScan ==
  /\ api = "up" /\ due = {}
  /\ PendingScheduledTasks # {} /\ Len(queue) < MaxQueue
  /\ due' = PendingScheduledTasks
  /\ UNCHANGED <<storeVars, queue, api, req, rq, tasksCreated>>

SchedulePush ==
  /\ api = "up"
  /\ \E t \in due : Enqueue(t) /\ due' = due \ {t}
  /\ UNCHANGED <<storeVars, api, req, rq, tasksCreated>>

SchedulePushFails ==
  /\ api = "up"
  /\ \E t \in due : due' = due \ {t}
  /\ UNCHANGED <<storeVars, queue, api, req, rq, tasksCreated>>

-----------------------------------------------------------------------------
(* The process: main.go. *)

\* SIGTERM: cancel() ends both loops where they stand (a statement or push under
\* a cancelled context fails), srv.Shutdown lets the handlers finish.
ApiShutdown ==
  /\ api = "up"
  /\ api' = "draining"
  /\ rq' = [batch |-> {}, push |-> None]
  /\ due' = {}
  /\ UNCHANGED <<storeVars, queue, req, tasksCreated>>

InFlight(r) == req[r].pc \in {"conflict", "decide", "push"}

\* main returns once the handlers are done.
ApiExit ==
  /\ api = "draining" /\ \A r \in Requests : ~ InFlight(r)
  /\ api' = "down"
  /\ tasksCreated' = 0
  /\ UNCHANGED <<storeVars, queue, req, rq, due>>

\* The process dies, or the 15 s of srv.Shutdown run out: handlers go with it.
ApiCrash ==
  /\ Serving
  /\ api' = "down"
  /\ req' = [r \in Requests |-> IF InFlight(r) THEN [req[r] EXCEPT !.pc = "lost"] ELSE req[r]]
  /\ rq' = [batch |-> {}, push |-> None]
  /\ due' = {}
  /\ tasksCreated' = 0
  /\ UNCHANGED <<storeVars, queue>>

\* The API is started again.
ApiStart ==
  /\ api = "down"
  /\ api' = "up"
  /\ UNCHANGED <<storeVars, queue, req, rq, due, tasksCreated>>

HandlerStep(r) == ReadExisting(r) \/ Decide(r) \/ PushNew(r)

Requeuer == RequeueScan \/ RequeueReset \/ RequeuePush

Scheduler == ScheduleScan \/ SchedulePush

=============================================================================
