--------------------------- MODULE TaskLifecycle ---------------------------
(***************************************************************************)
(* What the system promises about its tasks, without queue, locks, scans   *)
(* or clocks.  Work on a task is a series of numbered attempts.  Several   *)
(* attempts may be executing at once (a worker that was declared dead goes *)
(* on running), but the outcome of a task is only ever that of its latest  *)
(* attempt; an outcome is final; and the system gives up on a service it   *)
(* supports only after MaxAttempts attempts.                               *)
(***************************************************************************)
EXTENDS Naturals

CONSTANTS Tasks, Workers, MaxAttempts

VARIABLES phase,   \* "absent", "waiting", "running", "done" or "dead"
          count,   \* the number of the latest attempt
          runs,    \* the executions underway: <<worker, task, attempt number>>
          service  \* whether the task's service is supported

lifecycleVars == <<phase, count, runs, service>>

LInit ==
  /\ phase = [t \in Tasks |-> "absent"]
  /\ count = [t \in Tasks |-> 0]
  /\ runs = {}
  /\ service = [t \in Tasks |-> "registered"]

Become(t, p) == phase' = [phase EXCEPT ![t] = p]

Submit(t) ==
  /\ phase[t] = "absent" /\ Become(t, "waiting")
  /\ \E s \in {"registered", "unregistered"} : service' = [service EXCEPT ![t] = s]
  /\ UNCHANGED <<count, runs>>

\* An idle worker begins the next attempt.
Begin(w, t) ==
  /\ phase[t] = "waiting" /\ \A x \in runs : x[1] # w
  /\ Become(t, "running")
  /\ count' = [count EXCEPT ![t] = @ + 1]
  /\ runs' = runs \cup {<<w, t, count[t] + 1>>}
  /\ UNCHANGED service

\* The execution x ends and its outcome counts: it is the latest attempt.
Current(x) == x \in runs /\ x[3] = count[x[2]] /\ phase[x[2]] = "running"

MayGiveUp(t) == count[t] >= MaxAttempts \/ service[t] = "unregistered"

Conclude(x) ==
  /\ Current(x)
  /\ \/ service[x[2]] = "registered" /\ Become(x[2], "done")
     \/ MayGiveUp(x[2]) /\ Become(x[2], "dead")
     \/ service[x[2]] = "registered" /\ Become(x[2], "waiting")
  /\ runs' = runs \ {x}
  /\ UNCHANGED <<count, service>>

\* The execution x ends without effect: it is outdated, or its worker died.
Vanish(x) ==
  /\ x \in runs /\ runs' = runs \ {x}
  /\ UNCHANGED <<phase, count, service>>

\* The attempt is given up as lost, whether or not it still executes.
Preempt(t) ==
  /\ phase[t] = "running" /\ Become(t, "waiting")
  /\ UNCHANGED <<count, runs, service>>

LNext ==
  \/ \E t \in Tasks : Submit(t) \/ Preempt(t)
  \/ \E w \in Workers, t \in Tasks : Begin(w, t)
  \/ \E x \in runs : Conclude(x) \/ Vanish(x)

LSpec == LInit /\ [][LNext]_lifecycleVars

=============================================================================
