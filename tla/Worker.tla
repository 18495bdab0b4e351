------------------------------- MODULE Worker -------------------------------
(***************************************************************************)
(* The Node worker processes (worker/src/worker.js, index.js).  A process  *)
(* runs one task at a time:                                                *)
(*                                                                         *)
(*   brpop -> claim -> running -> success | failure | scheduled -> brpop   *)
(*              |                            |                             *)
(*              +-> reject                   +-> repush                    *)
(*                                                                         *)
(* and each arrow is one await: one Redis command, one SQL statement or    *)
(* the automation itself.  A worker id is one process incarnation: after a *)
(* crash Docker starts a process with a new WORKER_ID.                     *)
(*                                                                         *)
(* A Redis or Postgres error in the loop rejects start(), and index.js     *)
(* exits with code 1; so Crash(w) at a step stands for that step failing   *)
(* too.  Heartbeats are sent by a timer and not awaited: a beat can land   *)
(* after the automation ended, after the process died, or never.           *)
(***************************************************************************)
EXTENDS TaskQueue

CONSTANTS Results,       \* what an automation may return
          MaxDetections  \* bound: only the first attempts of a task detect a date

ASSUME WorkerAssumption ==
  /\ Results \subseteq {"success", "failure", "scheduled"}
  /\ MaxDetections \in Nat

VARIABLES pc,              \* where a worker process is
          job,             \* the id it popped
          attempt,         \* task.attempts in the row claimTask returned to it
          isShuttingDown,  \* the workers that received SIGTERM or SIGINT
          beats            \* heartbeats in flight, at most one per worker and task

workerVars == <<pc, job, attempt, isShuttingDown, beats>>

\* The process works on job[w] under a claim it won.
Holding == {"reject", "running", "success", "failure", "scheduled"}

WorkerTypeOK ==
  /\ pc \in [Workers -> Holding \cup {"off", "brpop", "claim", "repush", "exited", "dead"}]
  /\ job \in [Workers -> Tasks \cup {None}]
  /\ attempt \in [Workers -> Nat]
  /\ isShuttingDown \subseteq Workers
  /\ beats \subseteq Workers \X Tasks
  /\ \A w \in Workers : pc[w] \in Holding \cup {"claim", "repush"} => job[w] \in Tasks

WorkerInit ==
  /\ pc = [w \in Workers |-> "off"]
  /\ job = [w \in Workers |-> None]
  /\ attempt = [w \in Workers |-> 0]
  /\ isShuttingDown = {}
  /\ beats = {}

Alive(w) == pc[w] \notin {"off", "exited", "dead"}

Goto(w, l) ==
  /\ pc' = [pc EXCEPT ![w] = l]
  /\ UNCHANGED <<job, attempt>>

\* processTask returned: loop() looks at isShuttingDown before the next BRPOP.
NextTask(w) ==
  /\ pc' = [pc EXCEPT ![w] = IF w \in isShuttingDown THEN "exited" ELSE "brpop"]
  /\ job' = [job EXCEPT ![w] = None]
  /\ attempt' = [attempt EXCEPT ![w] = 0]

-----------------------------------------------------------------------------
Start(w) ==
  /\ pc[w] = "off"
  /\ Goto(w, "brpop")
  /\ UNCHANGED <<storeVars, queue, isShuttingDown, beats>>

\* BRPOP answers with an id, even if the signal arrived while it was blocked.
Pop(w) ==
  /\ pc[w] = "brpop"
  /\ \E t \in Tasks : Dequeue(t) /\ job' = [job EXCEPT ![w] = t]
  /\ pc' = [pc EXCEPT ![w] = "claim"]
  /\ UNCHANGED <<storeVars, attempt, isShuttingDown, beats>>

\* BRPOP times out and the loop sees the flag.
Leave(w) ==
  /\ pc[w] = "brpop" /\ w \in isShuttingDown
  /\ NextTask(w)
  /\ UNCHANGED <<storeVars, queue, isShuttingDown, beats>>

\* getAutomation(service_name) finds an entry of the registry.
HasAutomation(t) == tasks[t].service = "registered"

\* Mutant: the attempt number is read before the claim increments it.
ClaimWonStaleCount(w) ==
  /\ pc[w] = "claim"
  /\ claimTask(job[w], w)
  /\ pc' = [pc EXCEPT ![w] =
              IF HasAutomation(job[w]) THEN "running" ELSE "reject"]
  /\ attempt' = [attempt EXCEPT ![w] = tasks[job[w]].attempts]
  /\ UNCHANGED <<now, queue, job, isShuttingDown, beats>>

\* claimTask returned the row; getAutomation finds the service or does not.
ClaimWon(w) ==
  /\ pc[w] = "claim"
  /\ claimTask(job[w], w)
  /\ pc' = [pc EXCEPT ![w] =
              IF HasAutomation(job[w]) THEN "running" ELSE "reject"]
  /\ attempt' = [attempt EXCEPT ![w] = tasks'[job[w]].attempts]
  /\ UNCHANGED <<now, queue, job, isShuttingDown, beats>>

\* claimTask matched no row.
ClaimLost(w) ==
  /\ pc[w] = "claim" /\ ~ Claimable(job[w])
  /\ NextTask(w)
  /\ UNCHANGED <<storeVars, queue, isShuttingDown, beats>>

\* No automation for the service: dead letter at once.
Reject(w) ==
  /\ pc[w] = "reject"
  /\ updateTaskDeadLetter(job[w], w)
  /\ NextTask(w)
  /\ UNCHANGED <<now, queue, isShuttingDown, beats>>

\* The interval timer fires while the automation runs.
SendBeat(w) ==
  /\ pc[w] = "running"
  /\ <<w, job[w]>> \notin beats
  /\ beats' = beats \cup {<<w, job[w]>>}
  /\ UNCHANGED <<storeVars, queue, pc, job, attempt, isShuttingDown>>

LandBeat(b) ==
  /\ b \in beats
  /\ heartbeat(b[2], b[1])
  /\ beats' = beats \ {b}
  /\ UNCHANGED <<now, queue, pc, job, attempt, isShuttingDown>>

\* The automation returned, or threw ("failure").
AutomationReturns(w) ==
  /\ pc[w] = "running"
  /\ \E res \in Results :
       /\ res = "scheduled" => attempt[w] <= MaxDetections
       /\ Goto(w, res)
  /\ UNCHANGED <<storeVars, queue, isShuttingDown, beats>>

SaveSuccess(w) ==
  /\ pc[w] = "success"
  /\ updateTaskSuccess(job[w], w)
  /\ NextTask(w)
  /\ UNCHANGED <<now, queue, isShuttingDown, beats>>

SaveSchedule(w) ==
  /\ pc[w] = "scheduled"
  /\ \E sch \in Schedules : scheduleTask(job[w], w, sch)
  /\ NextTask(w)
  /\ UNCHANGED <<now, queue, isShuttingDown, beats>>

\* Mutants: gives up one attempt early; one attempt late.
ExhaustedEarly(w) == attempt[w] + 1 >= MaxAttempts
ExhaustedLate(w) == attempt[w] > MaxAttempts

\* task.attempts >= task.max_attempts, as of the claim.
Exhausted(w) == attempt[w] >= MaxAttempts

SaveDeadLetter(w) ==
  /\ pc[w] = "failure" /\ Exhausted(w)
  /\ updateTaskDeadLetter(job[w], w)
  /\ NextTask(w)
  /\ UNCHANGED <<now, queue, isShuttingDown, beats>>

\* Mutants: the retry is not pushed; the id is dropped before it is pushed.
SaveRetryNoPush(w) ==
  /\ pc[w] = "failure" /\ ~ Exhausted(w)
  /\ updateTaskRetry(job[w], w)
  /\ NextTask(w)
  /\ UNCHANGED <<now, queue, isShuttingDown, beats>>
SaveRetryDropsId(w) ==
  /\ pc[w] = "failure" /\ ~ Exhausted(w)
  /\ updateTaskRetry(job[w], w)
  /\ pc' = [pc EXCEPT ![w] = "repush"]
  /\ job' = [job EXCEPT ![w] = None]
  /\ UNCHANGED <<now, queue, attempt, isShuttingDown, beats>>

\* A retry whose write landed is pushed next; a discarded one is not.
SaveRetry(w) ==
  /\ pc[w] = "failure" /\ ~ Exhausted(w)
  /\ updateTaskRetry(job[w], w)
  /\ IF Owns(w, job[w]) THEN Goto(w, "repush") ELSE NextTask(w)
  /\ UNCHANGED <<now, queue, isShuttingDown, beats>>

Repush(w) ==
  /\ pc[w] = "repush"
  /\ Enqueue(job[w])
  /\ NextTask(w)
  /\ UNCHANGED <<storeVars, isShuttingDown, beats>>

-----------------------------------------------------------------------------
\* SIGTERM or SIGINT.
Shutdown(w) ==
  /\ Alive(w) /\ w \notin isShuttingDown
  /\ isShuttingDown' = isShuttingDown \cup {w}
  /\ UNCHANGED <<storeVars, queue, pc, job, attempt, beats>>

\* The process dies, or index.js exits 1 on an error; what it held is lost.
Crash(w) ==
  /\ Alive(w)
  /\ pc' = [pc EXCEPT ![w] = "dead"]
  /\ job' = [job EXCEPT ![w] = None]
  /\ attempt' = [attempt EXCEPT ![w] = 0]
  /\ UNCHANGED <<storeVars, queue, isShuttingDown, beats>>

WorkerStep(w) ==
  \/ Pop(w) \/ Leave(w) \/ ClaimWon(w) \/ ClaimLost(w) \/ Reject(w)
  \/ AutomationReturns(w) \/ SaveSuccess(w) \/ SaveSchedule(w)
  \/ SaveDeadLetter(w) \/ SaveRetry(w) \/ Repush(w)

=============================================================================
