----------------------------- MODULE TaskQueue -----------------------------
(***************************************************************************)
(* The Redis list trial-terminator:tasks:pending: a FIFO of task ids.      *)
(* Producers LPUSH (internal/queue/producer.go, worker/src/worker.js), the *)
(* workers BRPOP.  BRPOP removes the id: there is no acknowledgement.      *)
(***************************************************************************)
EXTENDS TaskStore, Sequences

CONSTANT MaxQueue  \* bound: the scheduler starts no scan with this many ids queued

ASSUME QueueAssumption == MaxQueue \in Nat \ {0}

VARIABLE queue  \* oldest id first

QueueInit == queue = <<>>

QueueTypeOK == queue \in Seq(Tasks)

InQueue(t) == \E i \in 1..Len(queue) : queue[i] = t

\* LPUSH of one id by Producer.Enqueue, and by the worker for a retry.
Enqueue(t) == queue' = Append(queue, t)

\* BRPOP of the oldest id.
Dequeue(t) == queue # <<>> /\ t = Head(queue) /\ queue' = Tail(queue)

\* The Redis container is recreated: docker-compose.yml gives it no volume of its
\* own, so the list is gone.
QueueLost == queue # <<>> /\ queue' = <<>>

=============================================================================
