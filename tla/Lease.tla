------------------------------- MODULE Lease -------------------------------
(***************************************************************************)
(* The lock on one task in time: the worker's interval timer, its          *)
(* heartbeats on their way to Postgres, and the requeuer's ticker.  The    *)
(* other modules let any lock of a silent owner expire at any moment; here *)
(* the clock decides.  As every timer is compared only with the present,   *)
(* the state holds ages and no absolute time.                              *)
(*                                                                         *)
(* A command to Postgres or Redis executes and is answered, or fails,      *)
(* within MaxDelay of being sent, the event loop runs a timer's callback   *)
(* at most MaxLag after it is due, and the API stays up.  Other workers    *)
(* only matter as the next claimer, other tasks as those the requeuer has  *)
(* to deal with in the same run.                                           *)
(***************************************************************************)
EXTENDS Naturals

CONSTANTS HeartbeatInterval,  \* HEARTBEAT_INTERVAL_MS (10 s)
          Threshold,          \* staleLockThreshold (30 s)
          RequeueInterval,    \* requeueInterval (10 s)
          MaxDelay,           \* bound: how long a command takes
          MaxLag,             \* bound: how late an interval callback runs
          MaxMissed,          \* bound: heartbeats lost in a row
          MaxOthers,          \* bound: other stale tasks found by one scan
          MaxFailures         \* bound: runs of the requeuer in a row that fail

ASSUME LeaseAssumption ==
  /\ HeartbeatInterval \in Nat \ {0} /\ Threshold \in Nat \ {0}
  /\ RequeueInterval \in Nat \ {0}
  /\ MaxDelay \in Nat /\ MaxLag \in Nat /\ MaxMissed \in Nat
  /\ MaxOthers \in Nat /\ MaxFailures \in Nat

VARIABLES phase,   \* of the owner; "free" when the row is not IN_PROGRESS
          age,     \* NOW() - locked_at
          timer,   \* since setInterval was called or its callback last ran
          wait,    \* since the statement the owner awaits was sent
          sent,    \* the ages of the heartbeats on their way
          missed,  \* heartbeats lost since the last one that was not
          down,    \* since the owner died
          ticker,  \* since the requeuer's ticker last fired
          ticks,   \* in its channel, which holds one
          rq,      \* the command the requeuer awaits, and what it has done
          rqWait,  \* since it was sent
          mine,    \* this task is still to come in the requeuer's loop
          others,  \* and so many others
          failed   \* runs that failed for this task since one did not

ownerVars == <<phase, age, timer, wait, sent, missed, down>>
batchVars == <<mine, others, failed>>
rqVars == <<ticker, ticks, rq, rqWait, batchVars>>
vars == <<ownerVars, rqVars>>

Init ==
  /\ phase = "free"
  /\ age = 0 /\ timer = 0 /\ wait = 0 /\ sent = {} /\ missed = 0 /\ down = 0
  /\ ticker = 0 /\ ticks = 0 /\ rq = "idle" /\ rqWait = 0
  /\ mine = FALSE /\ others = 0 /\ failed = 0

\* The types of all variables.
TypeOK ==
  /\ phase \in {"free", "claiming", "running", "saving", "dead"}
  /\ age \in Nat /\ timer \in Nat /\ wait \in Nat /\ missed \in Nat /\ down \in Nat
  /\ sent \subseteq Nat
  /\ ticker \in 0..(RequeueInterval - 1) /\ ticks \in 0..1
  /\ rq \in {"idle", "scan", "scanned", "reset", "requeued", "kept", "push"}
  /\ rqWait \in Nat
  /\ mine \in BOOLEAN /\ others \in 0..MaxOthers /\ failed \in 0..MaxFailures

-----------------------------------------------------------------------------
(* The owner. *)

\* The row is no longer IN_PROGRESS: locked_by and locked_at are NULL, and no
\* heartbeat matches.
Release ==
  /\ phase' = "free"
  /\ age' = 0 /\ timer' = 0 /\ wait' = 0 /\ sent' = {} /\ missed' = 0 /\ down' = 0

\* claimTask sets locked_at; its answer is on the way back.  The claimer may
\* have held this task before: WORKER_ID is the same, so its heartbeats of that
\* time that are still on their way pass the fence.
Claim ==
  /\ phase = "free" /\ phase' = "claiming"
  /\ sent' \in SUBSET (0..MaxDelay)
  /\ UNCHANGED <<age, timer, wait, missed, down, rqVars>>

\* The worker has the row and calls setInterval.
StartBeating ==
  /\ phase = "claiming" /\ phase' = "running" /\ timer' = 0
  /\ UNCHANGED <<age, wait, sent, missed, down, rqVars>>

\* The interval callback sends a heartbeat.  It arrives ...
Beat ==
  /\ phase = "running" /\ timer >= HeartbeatInterval
  /\ timer' = 0 /\ sent' = sent \cup {0} /\ missed' = 0
  /\ UNCHANGED <<phase, age, wait, down, rqVars>>

\* ... or fails, which the worker only logs.
BeatLost ==
  /\ phase = "running" /\ timer >= HeartbeatInterval /\ missed < MaxMissed
  /\ timer' = 0 /\ missed' = missed + 1
  /\ UNCHANGED <<phase, age, wait, sent, down, rqVars>>

\* A heartbeat executes, perhaps after the worker died: locked_at = NOW().
BeatLands ==
  /\ phase # "free"
  /\ \E b \in sent : sent' = sent \ {b}
  /\ age' = 0
  /\ UNCHANGED <<phase, timer, wait, missed, down, rqVars>>

\* The automation ended, the interval is cleared, the result write is sent.
Finish ==
  /\ phase = "running" /\ phase' = "saving" /\ wait' = 0
  /\ UNCHANGED <<age, timer, sent, missed, down, rqVars>>

\* The result write executes and gives the lock up.
Save == phase = "saving" /\ Release /\ UNCHANGED rqVars

\* The process ends; only what it has sent goes on.
Die ==
  /\ phase \in {"claiming", "running", "saving"} /\ phase' = "dead"
  /\ timer' = 0 /\ wait' = 0 /\ missed' = 0 /\ down' = 0
  /\ UNCHANGED <<age, sent, rqVars>>

-----------------------------------------------------------------------------
(* The requeuer: locked_at < NOW() - threshold, in the scan and once more. *)

\* Mutants: a lock counts as stale after one interval less; the scan asks for
\* locks older than threshold and interval together.
IsStaleEarly == phase # "free" /\ age + HeartbeatInterval > Threshold
IsStaleLate == phase # "free" /\ age > Threshold + RequeueInterval

IsStale == phase # "free" /\ age > Threshold

\* loop receives a tick and runOnce sends the scan.
TakeTick ==
  /\ rq = "idle" /\ ticks = 1
  /\ rq' = "scan" /\ ticks' = 0 /\ rqWait' = 0
  /\ UNCHANGED <<ownerVars, ticker, batchVars>>

\* On to the next task of the batch, m and n being what is left of it.
NextInBatch(m, n) ==
  /\ rq' = IF m \/ n > 0 THEN "reset" ELSE "idle"
  /\ rqWait' = 0

\* GetStaleInProgressTasks finds this task, if it is stale, among others.
Scan ==
  /\ rq = "scan" /\ rq' = "scanned"
  /\ mine' = IsStale /\ others' \in 0..MaxOthers
  /\ failed' = IF IsStale THEN failed ELSE 0
  /\ UNCHANGED <<ownerVars, ticker, ticks, rqWait>>

ScanAnswered ==
  /\ rq = "scanned" /\ NextInBatch(mine, others)
  /\ UNCHANGED <<ownerVars, ticker, ticks, batchVars>>

\* The scan fails: nothing happens until the next tick.
ScanFails ==
  /\ rq = "scan" /\ rq' = "idle" /\ rqWait' = 0
  /\ failed < MaxFailures /\ failed' = failed + 1
  /\ UNCHANGED <<ownerVars, ticker, ticks, mine, others>>

\* RequeueTask: PENDING again, unless the worker was heard of since the scan.
Reset ==
  /\ rq = "reset" /\ mine /\ mine' = FALSE /\ failed' = 0
  /\ \/ IsStale /\ Release /\ rq' = "requeued"
     \/ ~ IsStale /\ UNCHANGED ownerVars /\ rq' = "kept"
  /\ UNCHANGED <<ticker, ticks, rqWait, others>>

\* The task is pushed if it was requeued and no error is reported.
ResetAnswered ==
  /\ \/ rq = "requeued" /\ rq' = "push" /\ rqWait' = 0
     \/ rq \in {"requeued", "kept"} /\ NextInBatch(mine, others)
  /\ UNCHANGED <<ownerVars, ticker, ticks, batchVars>>

\* RequeueTask fails without effect.
ResetFails ==
  /\ rq = "reset" /\ mine /\ mine' = FALSE /\ NextInBatch(FALSE, others)
  /\ failed < MaxFailures /\ failed' = failed + 1
  /\ UNCHANGED <<ownerVars, ticker, ticks, others>>

\* Another task's turn: it is reset and about to be pushed, or it is not.
ResetOther ==
  /\ rq = "reset" /\ others > 0 /\ others' = others - 1
  /\ (rq' = "push" /\ rqWait' = 0) \/ NextInBatch(mine, others - 1)
  /\ UNCHANGED <<ownerVars, ticker, ticks, mine, failed>>

\* Enqueue is answered or fails; either way the loop goes on.
Push ==
  /\ rq = "push" /\ NextInBatch(mine, others)
  /\ UNCHANGED <<ownerVars, ticker, ticks, batchVars>>

-----------------------------------------------------------------------------
\* Time may pass: nothing is overdue.
NothingDue ==
  /\ phase \in {"claiming", "saving"} => wait < MaxDelay
  /\ phase = "running" => timer < HeartbeatInterval + MaxLag
  /\ phase # "free" => \A b \in sent : b < MaxDelay
  /\ rq = "idle" => ticks = 0
  /\ rq # "idle" => rqWait < MaxDelay

\* Mutant: the ticker is a one-shot timer.
NextTickOnce == ticker + 1

NextTick == (ticker + 1) % RequeueInterval

\* One unit of time.  A free row has no age; a tick nobody took is dropped.
Advance ==
  /\ NothingDue
  /\ IF phase = "free"
     THEN UNCHANGED <<age, timer, wait, sent, down>>
     ELSE /\ age' = age + 1
          /\ timer' = IF phase = "dead" THEN timer ELSE timer + 1
          /\ wait' = IF phase \in {"claiming", "saving"} THEN wait + 1 ELSE wait
          /\ sent' = {b + 1 : b \in sent}
          /\ down' = IF phase = "dead" THEN down + 1 ELSE down
  /\ ticker' = NextTick
  /\ ticks' = IF NextTick = 0 THEN 1 ELSE ticks
  /\ rqWait' = IF rq = "idle" THEN 0 ELSE rqWait + 1
  /\ UNCHANGED <<phase, missed, rq, batchVars>>

Next ==
  \/ Claim \/ StartBeating \/ Beat \/ BeatLost \/ BeatLands \/ Finish \/ Save \/ Die
  \/ TakeTick \/ Scan \/ ScanAnswered \/ ScanFails
  \/ Reset \/ ResetAnswered \/ ResetFails \/ ResetOther \/ Push
  \/ Advance

Spec == Init /\ [][Next]_vars

-----------------------------------------------------------------------------
(* Properties. *)

Live == phase \in {"claiming", "running", "saving"}

\* The longest the row can go without a sign of life of a live owner: a claim
\* answered late, MaxMissed beats lost, and the next one late and slow.
LongestSilence == (MaxMissed + 1) * (HeartbeatInterval + MaxLag) + 2 * MaxDelay

\* requeue.go, "long AI agent runs are never mistaken for crashes": as long as
\* LongestSilence stays within the threshold, the requeuer's condition is never
\* true of a live owner, whatever the order of beats, ticks and statements.
LiveOwnerNotStale == LongestSilence <= Threshold => (Live => ~ IsStale)

\* From the scan to this task's reset, when it is the last of its batch.
LongestRun == 2 * MaxDelay + 2 * MaxDelay * MaxOthers

\* From one run to the next: a tick that fires during a run is taken after it.
LongestGap == IF LongestRun <= RequeueInterval THEN RequeueInterval ELSE LongestRun

\* requeue.go, "Worst-case recovery after a crash = threshold + interval": the
\* row of a dead owner is PENDING again by then, plus the way of the last
\* heartbeat, a gap for each run that fails, and the run that does it.
RecoveredInTime ==
  phase = "dead" =>
    down <= Threshold + MaxDelay + (MaxFailures + 1) * LongestGap + LongestRun

\* worker.js says of the 10 s "gives us room for two missed beats (e.g. a slow
\* DB round trip) before a live worker could be mistaken for a dead one": the
\* requeuer is never about to take the task of a live owner.
MissedBeatsTolerated == ~ (rq = "reset" /\ mine /\ Live /\ IsStale)

=============================================================================
