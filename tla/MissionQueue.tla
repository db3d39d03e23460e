---------------------------- MODULE MissionQueue -----------------------------
(***************************************************************************)
(* The hand-over of submitted missions to execution, queueing.py: a Redis  *)
(* list that workers pop from its head, or FastAPI background tasks that   *)
(* the threads of the one API process run in any order.                    *)
(***************************************************************************)
EXTENDS MissionDomain, Sequences

CONSTANT Backends       \* the backends a deployment may have

ASSUME BackendAssumption == Backends \subseteq {"redis", "local"}

VARIABLES
    backend,            \* RX_EXECUTION_BACKEND, the same for the life of a deployment
    queue               \* the jobs submitted and not yet taken

QueueTypeOK == queue \in Seq(Missions)

QueueInit == backend \in Backends /\ queue = <<>>

(* MissionQueue.enqueue: rpush, or BackgroundTasks.add_task *)
Push(m) == queue' = Append(queue, m)

(* The queue without its i-th job *)
Without(i) == [j \in 1..(Len(queue) - 1) |->
                  IF j < i THEN queue[j] ELSE queue[j + 1]]

(* Job m leaves the queue: blpop removes it before it is worked on. *)
Take(m) ==
    \E i \in 1..Len(queue) :
        /\ backend = "redis" => i = 1
        /\ queue[i] = m
        /\ queue' = Without(i)

Queued(m) == \E i \in 1..Len(queue) : queue[i] = m
===============================================================================
