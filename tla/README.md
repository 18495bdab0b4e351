# A TLA+ model of trial-terminator

trial-terminator accepts requests to cancel trial subscriptions, stores each as a row of
a Postgres table, hands their ids to worker processes over a Redis list, and lets a
browser automation carry them out. This directory models the task pipeline, the timing of
its locks, the AI agent and the dashboard page, checks them with TLC on small instances and
proves the safety properties that hold with TLAPS, for every instance.

## 1. Inventory

| Component | Source | State | Operations |
|---|---|---|---|
| tasks table | `migrations/`, `internal/repository/task_repo.go`, `worker/src/db.js` | rows: status, attempts, lock (`locked_by`, `locked_at`), `scheduled_for`, timestamps | insert-or-find, claim, heartbeat, four result writes, requeue, two scans |
| Redis queue | `internal/queue/producer.go`, `client.go`, `worker/src/queue.js` | a list of task ids | LPUSH, BRPOP |
| worker | `worker/src/worker.js`, `index.js`, `automations/index.js` | position in `processTask`, the id, the row as claimed, `isShuttingDown`, heartbeat timer | BRPOP loop, claim, run, record the result, push a retry, shut down |
| POST /tasks | `internal/handlers/task_handler.go` | one goroutine per request with the task it read | create, decide new or replay, count, enqueue, answer |
| requeuer | `internal/queue/requeue.go` | the scan result, the current task | every 10 s: scan stale locks, reset, push |
| scheduler | `internal/queue/scheduler.go` | the scan result | every minute and at start: scan due tasks, push |
| API process | `cmd/api/main.go`, `internal/server/server.go` | up, draining, down | start, SIGTERM, exit |
| metrics | `internal/metrics/metrics.go` | counters in memory | increments |
| lock timing | `worker/src/worker.js`, `internal/queue/requeue.go` | heartbeat interval, age of `locked_at`, the requeuer's ticker | beat, scan, reset |
| AI agent | `worker/src/automations/universal.js`, `base.js` | step, parse retries, rate-limit retries, last screenshot, files | one attempt at a cancellation |
| read-only endpoints | `internal/handlers/task_handler.go` | | GET a task, GET its screenshot, health, metrics |
| frontend | `frontend/src/` | form key, request under way, page list, shown list, polls in flight | submit, poll, watch |
| mock site, dashboards, compose files | | | demo and deployment |

Interaction. The API inserts a row and pushes its id; a worker pops the id and claims the
row; the row's status says whose turn it is and the queue only wakes workers up. The two
are written by separate commands, never in one transaction, and BRPOP has no
acknowledgement. The only mutual exclusion between workers is the claim's `WHERE status`,
the only protection against a worker wrongly declared dead is the `WHERE locked_by` fence
of its result writes, and the only recovery is the requeuer (IN_PROGRESS rows with an old
`locked_at`) and the scheduler (PENDING rows with a past `scheduled_for`).

What is hard here: steps of API, requeuer, scheduler and several workers interleave
between any two commands; a worker that lost its lock goes on running and writes late;
heartbeats are not awaited and can land at any later time; scans are stale when used; a
process can die, or a push fail, between a status write and the push that belongs to it;
ids are delivered more than once. In the page, a request may fail after it took effect,
polls overlap and answer out of order, and a new task throws the polled statuses away. In
the agent, three nested retry loops count in three ways, and every branch must find a
screenshot to keep as evidence. `PROJECT.json` lists these hazards line by line with the
property that watches each.

## 2. Modules

    TaskStore --> TaskQueue --> Worker ----+
                          \--> ApiServer --+--> Pipeline --> MCPipeline (TLC)
                                                   |    \--> PipelineProofs --> FencingProofs --+--> LifecycleProofs
                                                   |                                           +--> DeliveryProofs
                                                   +-- INSTANCE TaskLifecycle (abstract specification)
    TaskLifecycle --> Dashboard (TLC) --> DashboardProofs
    Lease (TLC) --> LeaseProofs
    Agent --> MCAgent (TLC)
         \--> AgentProofs

The lower three justify what Pipeline abstracts or build on what it promises: Lease says
when `suspicion` cannot happen, Agent that an automation ends and in which ways, and
Dashboard runs against TaskLifecycle, which Pipeline is proved to implement.

**TaskStore**: the table. Each SQL statement is one atomic operator with the statement's
WHERE clause as its condition; an UPDATE that matches nothing leaves the table alone. A
task is its idempotency key. Timestamps are kept as far as the code compares them:
`locked_at` is null, fresh or stale; `updated_at` is "created" while it equals
`created_at` (what the handler's `isNew` asks) and "later" once the update trigger fired;
`scheduled_for` is a point of the clock `now`. Error texts, payloads and evidence paths are
left out. The Go methods `ClaimTask` and `UpdateTaskStatus` have no caller, and the status
`FAILED` no writer: neither is modelled.

**TaskQueue**: the list, as a sequence with the oldest id first.

**Worker**: a process with a program counter; every `await` of `loop` and `processTask`
is one action.

| `pc` | waiting for | actions |
|---|---|---|
| `off` | being started | `Start` |
| `brpop` | BRPOP | `Pop`, `Leave` (time-out and shutdown flag) |
| `claim` | `claimTask` | `ClaimWon`, `ClaimLost` |
| `reject` | `updateTaskDeadLetter` for an unknown service | `Reject` |
| `running` | the automation | `SendBeat`, `AutomationReturns` |
| `success`, `scheduled`, `failure` | the result write | `SaveSuccess`, `SaveSchedule`, `SaveDeadLetter`, `SaveRetry` |
| `repush` | LPUSH of a retry | `Repush` |
| `exited`, `dead` | | |

`attempt[w]` is `task.attempts` of the row the claim returned, which the worker uses later
to choose between retry and dead letter. A heartbeat is two actions, `SendBeat` and
`LandBeat`, because the timer does not wait for it; a second beat in flight would do the
same as the first, so `beats` is a set. A worker id is one process: `WORKER_ID` is a fresh
UUID, so a restarted process is another id. A failed Redis or Postgres command ends the
process through `index.js`; `Crash` before or after the action covers the command failing
without or with its effect.

**ApiServer**: the handlers, requeuer, scheduler and the process around them, again with
one action per SQL statement or LPUSH. `*Fails` actions are the error branches; a statement
that reports an error may have committed (`CreateFails`, `RequeueResetFails`). Requests
refused before the INSERT, and scans that fail, change nothing. `ApiShutdown` is
`cancel()`: both loops stop where they are while handlers finish (`Serving`); `ApiCrash`
is also `srv.Shutdown` running out of time. `inserted` in a handler is a history
variable used by properties only.

**Pipeline**: the composition, with the environment. Every fault has a kind, may happen
only if the constant `Faults` has it, and at most `MaxFaults` happen. A lock goes stale
freely if its owner is not alive (`OrphanLockExpires`) and as a fault, `suspicion`, if it
is: heartbeats late or lost for 30 seconds.

**TaskLifecycle**: the promise, without queue, locks, scans and clocks. Work is a series
of numbered attempts. Several may be executing, but only the latest one's outcome is ever
recorded, outcomes are final, and a supported service is given up only after
`MaxAttempts` attempts. Pipeline implements it with `phaseBar` (PENDING and RETRY are both
"waiting"), `countBar` (the column attempts), `serviceBar` and `runsBar`: the executions
underway are the workers between claim and result write, those that lost their lock
included.

**Lease**: one lock in real time. The state is a set of ages: of `locked_at`, of the
interval timer, of each heartbeat on its way, of the command a process awaits, of the
requeuer's ticker; `Advance` adds one second to all of them unless something is overdue
(`NothingDue`: a command has executed and been answered, or failed, within `MaxDelay`, a
timer callback is at most `MaxLag` late). `Beat`, `BeatLost` and `BeatLands` are the callback
of `setInterval`, which does not wait for the UPDATE and only logs its failure. The requeuer
is `loop` and `runOnce`: `TakeTick` takes a tick from a channel that holds one and drops the
others; `Scan` finds this task, if it is stale, and up to `MaxOthers` others; they are then
reset and pushed one after the other in any order (`Reset`, `ResetOther`, `Push`), each
awaited. Where the moment a statement executes matters, its execution and its answer are
two actions (`Scan` and `ScanAnswered`, `Reset` and `ResetAnswered`). `ScanFails` ends the
run, `ResetFails` goes on with the next task, and a reset that reports an error may have
taken effect; at most `MaxFailures` runs in a row fail for this task. The API stays up.
`Claim` starts a new episode once the row is free; its worker may have held the task before
under the same `WORKER_ID`, so that beats of that time may still be on their way and pass
the fence. `down` is a history variable.

**Agent**: one call of `cancel()` in `universal.js`, one action per await that can end in
more than one way, the branches of the source as disjuncts. What pages show and Gemini
replies is nondeterministic. The page is the number of actions performed on it (`acts`) and a screenshot the
value of that number when it was taken, so that the age of a frame can be compared.
`Overloaded` is one round of `generateWithBackoff`, `NotJson` one of `askGeminiForAction`,
`NextStep` one of `cancel`; `Throw` goes to the catch block. `TruncateLatest` and
`SaveLatest` are the two halves of `fs.writeFile`, between which `GetTaskScreenshot` may
read the file. A retry finds the file of an earlier attempt in place, whole or torn, or
no file (`Init`). `calls`, `waited` and `watched` are history variables.

**Dashboard**: one open page. The form holds a key and at most one request (`loading`
disables the button); the request may be refused, answered, given up while it is still on
its way (`GiveUp`, then `LateArrives`), or answered to nobody (`AnswerLost`).
`handleTaskCreated` is the whole success branch: the page's list, the reset of TaskList's
own copy by its effect, the fresh key. `polls` are callbacks of the interval in flight:
`FirePoll` captures the active tasks as shown, each answer settles on its own, and
`ApplyPoll` is `Promise.all` and the merge into what is shown by then. Overlapping
callbacks arise because a request may take longer than the two seconds, and because the
effect installs a new interval without waiting for the old callback. PENDING and RETRY are
"waiting", as in TaskLifecycle: the page treats them alike. The form offers only services
that have an automation.

## 3. Properties and runs

The `pipeline_*` runs and the first five violations below use MCPipeline. They say
`CHECK_DEADLOCK FALSE` because a behaviour may end: each request is made once, and when all
tasks are finished the workers block in BRPOP. So do `agent` (a run of the agent ends) and
`dashboard` (keys and errors run out). `lease` checks for deadlock: time never stops.

| Run | Instance | Checks |
|---|---|---|
| `pipeline_safety` | 1 task, 2 workers, 2 requests, both kinds of service, a schedule, all 11 faults, any 2 of them; 2.2 M states | `TypeOK`, `LockConsistent`, `OwnerHoldsCurrentAttempt`, `DeadLetterExhausted`, `RetryHasBudget`, `TerminalForever`, `ImplementsLifecycle` |
| `pipeline_live` | 1 task, 2 workers, 2 requests, a schedule, one of: suspicion, worker SIGTERM, failed scheduler push; fair; 650 k states | `WaitingIsCovered`, `EventuallyTerminal` |
| `pipeline_recovery` | 1 task, 3 workers, 1 request, a schedule, any 2 of eight crash and loss faults; fair; 410 k states | `NoEarlyStart`, `AttemptsWithinLosses`, `DueIsClaimed`, `OrphanRecovered` |
| `lease` | the code's seconds (10, 30, 10), commands up to 2 s, callbacks up to 3 s late, one beat lost in a row, up to two other stale tasks in a batch, one failed run; 1.25 M states | `TypeOK`, `LiveOwnerNotStale`, `RecoveredInTime` |
| `agent` | 3 steps, 2 parse retries, 5 rate-limit retries, three kinds of hint; fair; 1.03 M states | `TypeOK`, `CallBudget`, `EvidenceAtMostOneBehind`, `EvidenceCoversWatch`, `RunEnds` |
| `dashboard` | 2 keys, 1 worker, 2 overlapping polls, 2 failed requests; fair; 790 k states | `TypeOK`, `UnlistedIsRetried`, `TerminalShownIsTrue`, `ShownConverges` |

What they show:

- `LockConsistent`, `OwnerHoldsCurrentAttempt`: result writes compare only `locked_by`,
  not the status and not the attempt. That is enough, because every way out of IN_PROGRESS
  clears the lock and a worker never holds two claims: a write that matches is one of the
  row's current attempt.
- `DeadLetterExhausted`, `RetryHasBudget`: deciding on the attempts read at the claim is
  sound, for the same reason.
- `TerminalForever`: an action property; late beats, stale results, stale scans, replays
  and duplicate ids never write a finished row.
- `WaitingIsCovered`, `EventuallyTerminal`: where processes and pushes are not lost,
  nothing is forgotten and every task ends.
- `OrphanRecovered`, `DueIsClaimed`: what the two background loops guarantee when they are.
- `NoEarlyStart`: `claimTask` ignores `scheduled_for`; it is enough that a future task's id
  is never in the queue. It is stated for tasks scheduled at creation (`Results` without
  "scheduled", as no registered automation returns it). With it, a duplicate id left in
  the queue would start the task early.
- `AttemptsWithinLosses`: what is left of "we never loop forever" (refuted below as
  `AttemptsBounded`): RequeueTask gives a task back without a look at max_attempts, but it
  does so at most once per worker that died or was taken for dead, and a task that fails is
  given up within max_attempts and these. `faults.workers` counts these two faults and no
  others: an API crash, a failed push or reset, or the loss of the queue adds no attempt.
  Stated for `Results` without "scheduled", since a rescheduled task is not compared with
  max_attempts either.
- `ImplementsLifecycle`: TaskLifecycle is what Pipeline does; run with one task, proved for
  any number (section 4).
- `LiveOwnerNotStale`: with at most one beat lost in a row, a live worker is never declared
  dead as long as `(MaxMissed + 1) * (HeartbeatInterval + MaxLag) + 2 * MaxDelay` stays
  within the threshold. The run's instance meets it with equality, 2 * 13 + 4 = 30.
- `RecoveredInTime`: `requeue.go:25` says "Worst-case recovery after a crash = threshold +
  interval = 40 seconds". That leaves out the way of the dead worker's last heartbeat
  (`MaxDelay`), the commands of the run that resets the task (`LongestRun`: the scan, a reset
  and a push for each other task before it in the batch, its own reset) and one more gap
  between runs for each run that fails. The gap is the interval, or the length of a run if
  that is longer: ticks are then dropped, but the one in the channel starts the next run at
  once. With this the task is PENDING again within
  `Threshold + MaxDelay + (MaxFailures + 1) * LongestGap + LongestRun`. The code bounds neither
  the batch nor the failures, so there is no worst case in seconds, only one in terms of
  these. The bound is reached where a run fits into the interval (60 s with
  `MaxOthers = 1`, 46 s with no other task and no failure, at 2 s a command); the instance of
  the run has runs of up to 12 s, longer than the interval, and reaches 66 of its 68 s.
- `CallBudget`: a step sends at most 18 requests and sleeps at most 675 s. The comment at
  `universal.js:141` counts one round of parse retries only ("~3.5 minutes per step").
- `EvidenceAtMostOneBehind`, `EvidenceCoversWatch`: in every branch the evidence is at most
  one action old and never older than a frame the user saw. It can be one action old: when
  the steps run out, the last action has not been photographed, although
  `universal.js:118-124` speaks of "the final frame".
- `RunEnds`: the loops end, if Gemini and the browser answer each request.
- `UnlistedIsRetried`: a request that took effect without an answer is found again by the
  retry, since the key changes only after a success. Nothing else can be created unseen.
- `TerminalShownIsTrue`, `ShownConverges`: the page never shows an outcome a task has not
  got, and in the end shows every one. In between an outcome may disappear: a late poll, or
  the reset when a task is created, can show an active status again. `TaskList.tsx:39` ("Once
  a task reaches a terminal state, polling stops for that task") is true only in the end.

Six runs refute statements that comments and a test of the repository make; `PROJECT.json`,
"findings", quotes each:

| Run | Refuted | Shortest story |
|---|---|---|
| `stranded_create` | `CreatedIsPickedUp` | LPUSH fails after the INSERT; the requeuer scans only IN_PROGRESS rows |
| `stranded_requeue` | `ResetIsPickedUp` | the worker dies, the requeuer resets, its LPUSH fails or SIGTERM cancels it; no scan matches a PENDING row |
| `lost_pop` | `PoppedIsProcessed` | the worker dies between BRPOP and the claim |
| `replay_201` | `ReplayAnswered200` | a replay before the first claim still sees created_at = updated_at |
| `attempts_exceeded` | `AttemptsBounded` | workers die and the task is requeued; nobody compares attempts with max_attempts |
| `two_missed_beats` | `MissedBeatsTolerated` | the beats at 10 s and 20 s are lost, the third leaves at 30 s and lands after a scan |

Smaller disagreements met on the way, without a run of their own:
`tests/e2e/failure-path.mjs:60` expects attempts = max_attempts for a service without an
automation, which the worker dead-letters at the first claim (`DeadLetterExhausted` states
what holds); `ClaimTask` in Go checks `scheduled_for` and `claimTask` in the worker does
not (`NoEarlyStart`); `WatchPanel.tsx:12` announces the final evidence and shows the
`-latest.png`; `TasksInProgress` is never decremented and `TasksCompletedTotal` never
incremented.

**Bounds.** `MaxAttempts = 2` (the column's default is 3) has a first, a last and, after a
requeue, an excess attempt. Two workers are a suspected one and its successor; the
recovery run has a third so that somebody is alive after two crashes. Two requests for one
task are a replay. `MaxTime = 1` separates "future" from "due". `MaxQueue` only stops the
scheduler from scanning while ids are queued, since it would push the same task without
end; with 1, duplicates still arise from an id that was popped and not yet claimed, from
replays and from requeues. `MaxDetections` bounds how often a task is rescheduled: only
its first attempts may detect a date. Symmetry is used in the run without liveness.
In `agent`, three steps are a first, a middle and a last one (`MAX_STEPS` is 20); the retry
bounds are the code's; the hints are none, one below the 45 s cap and one above it. In
`dashboard`, two keys are a task on the page and the next one submitted, two polls are the
least that can answer out of order, and two errors let a request be lost and its retry
fail. One attempt per task is enough, as the page only tells finished from unfinished
tasks; a preempted task waits again and may stay so. In `lease` all numbers are the code's
except the bounds of the environment. Delay and lag are the largest for which one lost beat
still fits the threshold exactly. Two other tasks make a run longer than the interval, the
case in which ticks are dropped; one failed run in a row makes a run after it necessary.

**Fairness** (`Fairness` in Pipeline) is weak fairness of: each worker's steps (awaits are
answered or reject, and automations end because the agent's steps and retries are bounded,
`RunEnds` of Agent);
starting worker ids (compose restarts a failed worker); each handler's steps; the requeuer
and the scheduler (tickers); finishing a shutdown and starting the API again (an operator
or orchestrator does it, compose does not; the recovery properties depend on it); the clock
and the ageing of an orphan's `locked_at`. Nothing is assumed of heartbeats, of requests
or of faults. `OrphanRecovered` and `DueIsClaimed` assume only finitely many faults.
`RunEnds` assumes `WF(AgentStep)`: every await of the agent ends. Playwright gives navigation,
clicks, fills and screenshots a timeout; `page.evaluate`, mouse and keyboard and
`browser.close` have none, and neither has `generateContent`. A Gemini or a browser that
never answers keeps the worker, and with it the fairness of `AutomationReturns`, waiting for
ever: its heartbeats go on and the requeuer does not take the task away. `ShownConverges` assumes that each poll's steps are fair: the
interval fires while there are active tasks, requests end, and finitely many fail.
Lease has no fairness; `RecoveredInTime` is a safety property because time is in the state.

## 4. Proofs

Seven modules, every leaf checked. The theorems of the first four are about `Spec` of
Pipeline and hold for all sets of tasks, workers and requests, all faults and all bounds
allowed by the assumptions of the modules (`StoreAssumption`, `QueueAssumption`,
`WorkerAssumption`, `PipelineAssumption`): None is not a task, worker or number, and the
constants have their types. The inductive invariants were checked with TLC on the
instances of section 3 before they were proved.

**`PipelineProofs`**: `TypeCorrect`. One lemma per kind of store or queue operation, one per
group of actions (worker, request, API, environment).

**`FencingProofs`**: `FencingInv` is inductive (`Fencing`). None of its parts is alone. That
a result write hits the current attempt needs `OwnerHoldsCurrentAttempt`; that the owner's
attempt stays the row's needs `LockConsistent`, since a claim needs an unlocked row; that
dead letter and retry respect the budget needs the attempt number to be the row's; and
that a rejecting worker's service is unregistered, and that it works on an existing row,
is `HolderKnowsService`. From it follow `LocksConsistent`, `OwnersAreCurrent`,
`DeadLettersExhausted`, `RetriesHaveBudget` and, with the steps, `TerminalIsFinal`.

**`LifecycleProofs`**: `Implementation`, Pipeline implements TaskLifecycle. A claim is
`Begin`; a result write that matches is `Conclude` and one that does not is `Vanish`;
a crash or an exit is `Vanish`; a requeue is `Preempt`; an insert is `Submit`. It uses
`FencingInv`, and `AbsentUntried`: a row that does not exist has no attempts.

**`DeliveryProofs`**: how ids travel. Two kinds of lemma carry it: `RowMoves` (a step does one
of five things to a row: its lock is refreshed, expires or stays; it is inserted; a worker
that popped the id claims it; its lock is given up; it gets a date) and `Pushed`, `Popped`,
`QueueSource`, `JobSource` (how an id gets into the queue and into a worker's hand). On top of
them are three invariants, each inductive together with `FencingInv`:

- `NoTaskIsForgotten` (`WaitingIsCovered`), under `Lossless`: `Faults` has at most suspicions,
  workers' SIGTERMs and failed pushes of the scheduler. Other faults must be excluded: the
  code loses tasks under them (`stranded_create`, `stranded_requeue`, `lost_pop`).
  `CoverageInv` adds to the property that a RETRY row is never left to a handler or to the
  scheduler, and what a handler knows: the row it inserted still looks new to it when it
  decides, and has a date if the handler does not push.
- `NothingStartsEarly` (`NoEarlyStart`), for every choice of faults, if no automation returns
  "scheduled" (none in the registry does). `ReadyInv` says that wherever an id is on its way
  to a claim (queue, worker, handler about to push, both loops' local variables) the task's
  date has come. It is kept because rows keep their dates and the clock does not go back.
- `AttemptsAreBounded` (`AttemptsWithinLosses`), under the same condition on the automations.
  `AttemptsInv` says that a PENDING task, and one whose lock is `Lost` (stale, or the owner is
  dead), has an attempt of the budget left. A lock becomes lost only by a worker's crash or a
  suspicion (`LossIsPaid`), which raises the budget (`LossesGrow`: nothing else does); here `FencingInv` is needed to know that
  an owner that does not beat is dead, not shut down.

**`LeaseProofs`**: `LeaseTypeCorrect`, `LeaseIsSafe` and `RecoveryIsTimely`, for all intervals,
thresholds, delays and numbers of lost beats, from `LeaseAssumption` alone.
`LiveOwnerNotStale` is not inductive: it says nothing of how the age of `locked_at` relates to
the timers. `SilenceInv` does: a running owner's age is at most that of its timer plus one
full interval per lost beat plus the claim's or the last beat's way, a beat still on its way
bounds the age by its own, and an owner that is saving has waited for no longer than its
statement. Every beat sent or lost moves a share from the timer to `missed`, every landing
resets, and `NothingDue` caps each share, which adds up to `LongestSilence`.
`RecoveredInTime` needs `RecoveryInv`. A heartbeat on its way is older than its owner's death,
so the lock of an owner dead for longer than `StaleBy = Threshold + MaxDelay` is stale, and a
run whose scan sees it resets it or is counted in `failed`. Hence the owner has been dead for at
most `RunDue`, which is `StaleBy`, a `LongestGap` for each failed run and one more if the run
under way may still come to this task, plus the time since that run started. That time is
bounded twice: by the ticker, while no tick is waiting, and by `Elapsed`, which adds up the
commands of the run so far from what is left of its batch (`Behind`, `Own`). Between runs
the pause is at most `LongestGap`, by the ticker if a run fits into the interval and by the
tick in the channel if it does not. The steps are split by who takes them: `OwnerRecovery`,
`RequeuerRecovery` and `AdvanceRecovery`.

**`AgentProofs`**: `AgentTypeCorrect`, `CallsAreBounded`, `EvidenceIsRecent` and
`EvidenceCoversWatched`, for all bounds of the loops and any set of hints. `BudgetInv` charges
each request and each sleep to a finished round: while a request may still be sent, there
were at most `(attempt - 1) * (MaxRateLimitRetries + 1) + i` of them. `FrameInv` orders the
frames: the buffer is the page as it is from the screenshot to the action and one action
behind afterwards, the watched file is never ahead of the buffer, and evidence exists only
when the run is over.

**`DashboardProofs`**: `DashboardTypeCorrect`, `RetriesFindTheirTask` and
`OutcomesShownAreTrue`, for any number of keys and of polls in flight, with TaskLifecycle as
the API. `KeyInv`: what exists and is not listed has the form's key, also when the request
that made it was given up and arrives late. `HonestInv`: every copy of a status (the
answer to the form, the page's list, what is shown, what each poll has captured or been
told) is the task's own if it is an outcome; it stays so because outcomes are final.

**Only model-checked**: the liveness properties `EventuallyTerminal`, `OrphanRecovered`,
`DueIsClaimed`, `RunEnds` and `ShownConverges`. The prover has no support for fairness.

## 5. Not modelled

- Connecting to Postgres and Redis, the database pool, `/health`, `/metrics`, CORS and the
  latency middleware: no state the tasks depend on.
- The Prometheus metrics except `TasksCreatedTotal`.
- The repository methods `ClaimTask` and `UpdateTaskStatus`, which nobody calls.
- In the agent: the prompt, the locator fallbacks, and the page itself. Clicking, filling
  and typing are one kind of action.
- In the page: a reload, which forgets the list and the key, so that a request whose answer
  was lost is no longer retried; editing the form between a lost answer and the retry,
  which sends the old key with new contents and gets the old task back
  (`CreateTaskForm.tsx:39`); everything visual.
- The mock site, the deployment files and the tests (read as statements about the program).

In Pipeline the seconds of heartbeat and staleness are abstracted to `suspicion`, and the
agent to `Results`; Lease and Agent refine these two on their own and are not composed with
it. go-redis may repeat an LPUSH whose reply was lost; the duplicates of the scheduler stand
for that.

## 6. Plan

Done: all modules above, their runs, and proofs of every invariant and action property the
runs check and of the refinement. What could be proved next:

1. The handler side of idempotency: at most one request inserts a task, a request that
   inserted one is never answered 200, and a replay is answered 201 only if it read the row
   before its first UPDATE (what holds of `ReplayAnswered200`).
2. What holds of `WaitingIsCovered` under every fault: a task that is waiting and not covered
   was lost by a fault, so at most `faults` tasks are.
3. Action properties of Dashboard: listed tasks stay listed, and a poll changes only what
   was active when it fired.
