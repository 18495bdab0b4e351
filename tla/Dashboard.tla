----------------------------- MODULE Dashboard -----------------------------
(***************************************************************************)
(* One open page of the Next.js dashboard (frontend/src) against the API:  *)
(* the form with its idempotency key (CreateTaskForm.tsx), the page's list *)
(* (page.tsx) and the polling task list (TaskList.tsx).  Behind the API    *)
(* the tasks do what TaskLifecycle says, which Pipeline implements.        *)
(*                                                                         *)
(* A request to the API can be refused, lost on the way, or answered to    *)
(* nobody; one whose sender has given up can still arrive later.           *)
(***************************************************************************)
EXTENDS TaskLifecycle

CONSTANTS Polls,      \* bound: callbacks of TaskList's interval in flight
          MaxCount,   \* bound: attempts per task
          MaxErrors,  \* bound: requests that go wrong
          NoKey       \* every key of Tasks has been used

ASSUME DashboardAssumption ==
  /\ Tasks # {} /\ NoKey \notin Tasks
  /\ MaxCount \in Nat /\ MaxErrors \in Nat

VARIABLES idempotencyKey,  \* of the form
          post,            \* the form's request: "idle", "sent", or the status in its answer
          late,            \* keys of given-up requests that may still arrive
          listed,          \* `tasks' of page.tsx, as of each task's creation
          shown,           \* `tasks' of TaskList
          polls,           \* the callbacks: per asked task, what will be shown for it
          errors           \* how many requests went wrong

pageVars == <<listed, shown>>
formVars == <<idempotencyKey, post, late>>
vars == <<lifecycleVars, formVars, pageVars, polls, errors>>

TERMINAL_STATUSES == {"done", "dead"}
TaskStatus == {"waiting", "running"} \cup TERMINAL_STATUSES

Listed(t) == listed[t] # "absent"

\* The types of all variables; TaskList shows the page's tasks and asks for no
\* others.
TypeOK ==
  /\ idempotencyKey \in Tasks \cup {NoKey} /\ post \in TaskStatus \cup {"idle", "sent"}
  /\ late \subseteq Tasks /\ errors \in 0..MaxErrors
  /\ listed \in [Tasks -> TaskStatus \cup {"absent"}]
  /\ shown \in [Tasks -> TaskStatus \cup {"absent"}]
  /\ \A t \in Tasks : Listed(t) <=> shown[t] # "absent"
  /\ \A p \in Polls : \A t \in DOMAIN polls[p] :
       Listed(t) /\ polls[p][t] \in [settled : BOOLEAN, status : TaskStatus]

Init ==
  /\ LInit
  /\ idempotencyKey = (CHOOSE k \in Tasks : TRUE) /\ post = "idle" /\ late = {}
  /\ listed = [t \in Tasks |-> "absent"] /\ shown = listed
  /\ polls = [p \in Polls |-> <<>>]
  /\ errors = 0

GoesWrong == errors < MaxErrors /\ errors' = errors + 1

-----------------------------------------------------------------------------
(* The form. *)

\* A uuid nobody has used.
FreshKeys ==
  LET unused == {k \in Tasks \ (late \cup {idempotencyKey}) : phase[k] = "absent"}
  IN  IF unused = {} THEN {NoKey} ELSE unused

\* Mutant: the key is generated on submit.
handleSubmitNewKey ==
  /\ post = "idle" /\ idempotencyKey # NoKey
  /\ post' = "sent" /\ idempotencyKey' \in FreshKeys
  /\ UNCHANGED <<lifecycleVars, late, pageVars, polls, errors>>

\* The button is disabled while a request is under way.
handleSubmit ==
  /\ post = "idle" /\ idempotencyKey # NoKey
  /\ post' = "sent"
  /\ UNCHANGED <<lifecycleVars, idempotencyKey, late, pageVars, polls, errors>>

\* CreateTask of the API: a new task, or the existing one of the same key.  The
\* form offers only services the worker supports.
CreateOrFind(k) ==
  IF phase[k] = "absent" THEN Submit(k) /\ UNCHANGED service ELSE UNCHANGED lifecycleVars

CreateTask ==
  /\ post = "sent"
  /\ CreateOrFind(idempotencyKey)
  /\ post' = phase'[idempotencyKey]
  /\ UNCHANGED <<idempotencyKey, late, pageVars, polls, errors>>

\* An answer that is not ok (a field is blank, the API or Postgres failed), or a
\* request that never got there.
CreateRefused ==
  /\ post = "sent" /\ post' = "idle" /\ GoesWrong
  /\ UNCHANGED <<lifecycleVars, idempotencyKey, late, pageVars, polls>>

\* fetch rejects although the request is still on its way ...
GiveUp ==
  /\ post = "sent" /\ post' = "idle" /\ GoesWrong
  /\ late' = late \cup {idempotencyKey}
  /\ UNCHANGED <<lifecycleVars, idempotencyKey, pageVars, polls>>

\* ... or although the API has answered it.
AnswerLost ==
  /\ post \in TaskStatus /\ post' = "idle" /\ GoesWrong
  /\ UNCHANGED <<lifecycleVars, idempotencyKey, late, pageVars, polls>>

LateArrives ==
  /\ \E k \in late : CreateOrFind(k) /\ late' = late \ {k}
  /\ UNCHANGED <<idempotencyKey, post, pageVars, polls, errors>>

\* Mutant: TaskList keeps its state when the page's list changes.
handleTaskCreatedNoReset ==
  /\ post \in TaskStatus
  /\ listed' = [listed EXCEPT ![idempotencyKey] = post]
  /\ idempotencyKey' \in FreshKeys /\ post' = "idle"
  /\ UNCHANGED <<lifecycleVars, late, shown, polls, errors>>

\* The answer: the page lists the task, TaskList starts over from the page's
\* list, the form gets a fresh key.
handleTaskCreated ==
  /\ post \in TaskStatus
  /\ listed' = [listed EXCEPT ![idempotencyKey] = post] /\ shown' = listed'
  /\ idempotencyKey' \in FreshKeys /\ post' = "idle"
  /\ UNCHANGED <<lifecycleVars, late, polls, errors>>

-----------------------------------------------------------------------------
(* The task list. *)

\* Mutant: tasks in progress do not count as active.
activeTasksPending == {t \in Tasks : shown[t] = "waiting"}

activeTasks == {t \in Tasks : shown[t] \in TaskStatus \ TERMINAL_STATUSES}

\* The interval fires: one getTask per active task, each remembering the task
\* it would keep.
FirePoll(p) ==
  /\ polls[p] = <<>> /\ activeTasks # {}
  /\ polls' = [polls EXCEPT ![p] =
       [t \in activeTasks |-> [settled |-> FALSE, status |-> shown[t]]]]
  /\ UNCHANGED <<lifecycleVars, formVars, pageVars, errors>>

Asked(p) == {t \in DOMAIN polls[p] : ~ polls[p][t].settled}

\* The row's status when the API reads it.
GetTaskByID(t) == phase[t]

\* The API answers one of the requests.
GetTask(p) ==
  /\ \E t \in Asked(p) :
       polls' = [polls EXCEPT ![p][t] = [settled |-> TRUE, status |-> GetTaskByID(t)]]
  /\ UNCHANGED <<lifecycleVars, formVars, pageVars, errors>>

\* Mutant: a task that cannot be fetched counts as dead.
GetTaskFailsDead(p) ==
  /\ \E t \in Asked(p) :
       polls' = [polls EXCEPT ![p][t] = [settled |-> TRUE, status |-> "dead"]]
  /\ GoesWrong
  /\ UNCHANGED <<lifecycleVars, formVars, pageVars>>

\* .catch(() => t)
GetTaskFails(p) ==
  /\ \E t \in Asked(p) : polls' = [polls EXCEPT ![p][t].settled = TRUE]
  /\ GoesWrong
  /\ UNCHANGED <<lifecycleVars, formVars, pageVars>>

\* Promise.all is through; the answers replace what is shown by now.
ApplyPoll(p) ==
  /\ polls[p] # <<>> /\ Asked(p) = {}
  /\ shown' = [t \in Tasks |->
                 IF t \in DOMAIN polls[p] THEN polls[p][t].status ELSE shown[t]]
  /\ polls' = [polls EXCEPT ![p] = <<>>]
  /\ UNCHANGED <<lifecycleVars, formVars, listed, errors>>

PollStep(p) == FirePoll(p) \/ GetTask(p) \/ ApplyPoll(p)

-----------------------------------------------------------------------------
\* The pipeline at work.
ServerStep ==
  /\ \/ \E t \in Tasks : Preempt(t)
     \/ \E w \in Workers, t \in Tasks : count[t] < MaxCount /\ Begin(w, t)
     \/ \E x \in runs : Conclude(x) \/ Vanish(x)
  /\ UNCHANGED <<formVars, pageVars, polls, errors>>

Next ==
  \/ handleSubmit \/ CreateTask \/ CreateRefused \/ GiveUp \/ AnswerLost
  \/ LateArrives \/ handleTaskCreated
  \/ \E p \in Polls : PollStep(p) \/ GetTaskFails(p)
  \/ ServerStep

\* The interval keeps firing and the API keeps answering.
Spec == Init /\ [][Next]_vars /\ \A p \in Polls : WF_vars(PollStep(p))

-----------------------------------------------------------------------------
(* Properties. *)

\* CreateTaskForm.tsx, "the second is a safe retry, not a duplicate": whatever
\* requests are lost, late or repeated, the only task the API may have created
\* without the page listing it is the one of the key the form will send again.
UnlistedIsRetried ==
  \A t \in Tasks : phase[t] # "absent" /\ ~ Listed(t) => t = idempotencyKey

\* A final status on the page is the task's: neither a failed, late or outdated
\* poll nor the reset to the page's list shows an outcome the task has not got.
TerminalShownIsTrue ==
  \A t \in Tasks : shown[t] \in TERMINAL_STATUSES => shown[t] = phase[t]

\* TaskList.tsx: a poll that lands late, or a new task, may turn a final status
\* back into an active one and so restart polling; but in the end the page shows
\* the outcome of every listed task that has one, and keeps showing it.
ShownConverges ==
  <>[](\A t \in Tasks : Listed(t) /\ phase[t] \in TERMINAL_STATUSES => shown[t] = phase[t])

=============================================================================
