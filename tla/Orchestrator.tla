---------------------------- MODULE Orchestrator -----------------------------
(***************************************************************************)
(* The orchestration core: API handlers and executors over the shared      *)
(* tables and the queue.                                                   *)
(***************************************************************************)
EXTENDS MissionExecutor, ControlPlane

vars == <<store, faults, backend, queue, execution, request>>

TypeOK ==
    /\ backend \in Backends
    /\ StoreTypeOK /\ QueueTypeOK /\ ExecutorTypeOK /\ RequestTypeOK

Init == StoreInit /\ QueueInit /\ ExecutorInit /\ RequestInit

(* An executor's action leaves the handlers alone, and the reverse; nothing *)
(* changes the backend.                                                     *)
ExecutorStep(e) == ExecutorNext(e) /\ UNCHANGED <<request, backend>>
RequestStep(r) == RequestNext(r) /\ UNCHANGED <<execution, backend>>
CrashStep(e) == Abandon(e) /\ UNCHANGED <<request, backend>>

(***************************************************************************)
(* The local backend runs everything in the API process: when it dies, the *)
(* pending background tasks, the executions and the handlers are lost.     *)
(***************************************************************************)
ProcessCrash ==
    /\ backend = "local"
    /\ Fault("crash")
    /\ queue' = <<>>
    /\ session' = [e \in Executors |-> Closed]
    /\ request' = [r \in Requests |-> NoRequest]
    /\ UNCHANGED <<store, backend, invoked>>

Next ==
    \/ \E e \in Executors : ExecutorStep(e) \/ CrashStep(e)
    \/ \E r \in Requests : RequestStep(r)
    \/ ProcessCrash

Spec == Init /\ [][Next]_vars

(***************************************************************************)
(* A worker that is not stopped keeps taking jobs and executing them, and  *)
(* a handler that has begun runs to its end: both are threads the          *)
(* operating system schedules, and no action of theirs waits for a client. *)
(* Nothing obliges clients to submit or to decide.                         *)
(***************************************************************************)
Fairness ==
    /\ \A e \in Executors : WF_vars(ExecutorStep(e))
    /\ \A r \in Requests : WF_vars(Handle(r) /\ UNCHANGED <<execution, backend>>)

FairSpec == Spec /\ Fairness

----------------------------------------------------------------------------
(* Whatever the workers, handlers, faults and stale views do.              *)

(***************************************************************************)
(* Governance precedes the runtime: no provider is called for a step that  *)
(* needs approval unless the trail holds an administrator's approval of it.*)
(***************************************************************************)
GateBeforeRuntime ==
    \A s \in Steps : RequiresApproval(s) /\ invoked[s] > 0 => Granted(s)

(***************************************************************************)
(* A step runs on its inputs: when its provider has been called, all its   *)
(* dependencies have completed and were handed over to it.                 *)
(***************************************************************************)
DependenciesFirst ==
    \A s \in Steps : invoked[s] > 0 =>
        \A d \in DependsOn[s] : Done(d) /\ <<d, s>> \in handoffs

(***************************************************************************)
(* Completion is earned: a mission the trail calls completed has every one *)
(* of its steps called completed by the trail, after a provider call.      *)
(***************************************************************************)
CompletionIsEarned ==
    \A m \in Missions : <<"mission", "completed", m>> \in audit =>
        \A s \in StepsOf(m) : Done(s) /\ invoked[s] > 0

(***************************************************************************)
(* The orchestrator implements GatedWorkflow, read off its audit trail and *)
(* its provider calls: every action of a worker or a handler, crashes and  *)
(* stale sessions included, is a step of the workflow or changes nothing   *)
(* of it.                                                                  *)
(***************************************************************************)
Workflow == INSTANCE GatedWorkflow WITH
    Gated <- {s \in Steps : RequiresApproval(s)},
    granted <- {s \in Steps : Granted(s)},
    started <- {s \in Steps : Started(s)},
    called <- {s \in Steps : invoked[s] > 0},
    completed <- {s \in Steps : Done(s)},
    finished <- {m \in Missions : <<"mission", "completed", m>> \in audit}

ImplementsWorkflow == Workflow!WorkflowSpec

(***************************************************************************)
(* Every execution ends: the loop of execute makes progress in its view or *)
(* returns, and never goes round for ever.                                 *)
(***************************************************************************)
ExecutionTerminates ==
    \A e \in Executors : session[e].pc # "idle" ~> session[e].pc = "idle"

----------------------------------------------------------------------------
(* With one worker, as docs/ARCHITECTURE.md and DEPLOYMENT.md prescribe.   *)

(* Someone still has the mission in hand. *)
Attended(m) ==
    \/ Queued(m)
    \/ \E e \in Executors : session[e].job = m
    \/ \E r \in Requests : request[r].mission = m

(* No step has its provider called twice: re-delivered jobs are harmless.  *)
AtMostOnceInvocation == \A s \in Steps : invoked[s] <= 1

(***************************************************************************)
(* The executor never declares a deadlock: a validated plan always has a   *)
(* step to run, a step waiting, or a verdict.                              *)
(***************************************************************************)
NoSchedulingDeadlock ==
    \A m \in Missions : <<"mission", "deadlocked", m>> \notin audit

(* A completed mission has completed steps, in the tables themselves.      *)
CompletedMeansAllSteps ==
    \A m \in Missions : mstatus[m] = "completed" =>
        \A s \in StepsOf(m) : sstatus[s] = "completed"

(* What the trail must hold for a mission to have status st. *)
MissionAccount(m, st) ==
    LET Audited(verb) == <<"mission", verb, m>> \in audit IN
    /\ st = "queued" => Audited("queued") \/ \E s \in StepsOf(m) : Granted(s)
    /\ st \in {"running", "waiting_approval"} => Audited("started")
    /\ st = "completed" => Audited("completed")
    /\ st = "failed" => Audited("failed") \/ Audited("deadlocked")
    /\ st = "rejected" => \E s \in StepsOf(m) : Denied(s)

(* What the trail must hold for a step to have status st. *)
StepAccount(s, st) ==
    /\ st = "running" => Started(s)
    /\ st = "waiting_approval" => Requested(s)
    /\ st = "completed" => Done(s)
    /\ st = "failed" => <<"step", "failed", s>> \in audit
    /\ st = "rejected" => Denied(s)

(***************************************************************************)
(* The trail explains the tables: however the writes of stale sessions     *)
(* overlap, a status that a mission or a step has is one that an audited   *)
(* event accounts for, a rejection by an administrator's decision.         *)
(***************************************************************************)
TrailExplainsState ==
    /\ \A m \in Missions : MissionAccount(m, mstatus[m])
    /\ \A s \in Steps : StepAccount(s, sstatus[s])

(***************************************************************************)
(* A decided approval keeps its decision: the 409 of decide_approval.      *)
(***************************************************************************)
DecisionsImmutable ==
    [][\A s \in Steps : approval[s] \in {"approved", "rejected"}
            => approval'[s] = approval[s]]_vars

(* A failed or rejected mission is not put back in line. *)
NoResurrection ==
    [][\A m \in Missions : mstatus[m] \in {"failed", "rejected"}
            => mstatus'[m] # "queued"]_vars

(***************************************************************************)
(* Nobody has the mission in hand although it is not a draft, not over and *)
(* not waiting for a decision; a mission parked over a rejected step is    *)
(* left to RejectionTerminates.                                            *)
(***************************************************************************)
LeftBehind(m) ==
    /\ ~Attended(m)
    /\ mstatus[m] \notin FinalStatuses \cup {"draft"}
    /\ mstatus[m] = "waiting_approval" =>
          \A s \in StepsOf(m) : approval[s] \notin {"pending", "rejected"}

(* While nothing fails, no submitted mission is left behind: a queued or   *)
(* running mission has a worker or a job in the queue on its way to one,   *)
(* and a waiting mission has an approval to decide.                        *)
NotLeftBehind == \A m \in Missions : ~LeftBehind(m)

(* With Redis a lost worker, or a lost message, costs at most the one       *)
(* mission it had.                                                          *)
FaultsStrandOne ==
    backend = "redis" => Cardinality({m \in Missions : LeftBehind(m)}) <= faults

(* A mission that is running has a worker, or a job that brings it one.    *)
RunningIsAttended == \A m \in Missions : mstatus[m] = "running" => Attended(m)

(* A rejected step ends its mission once nobody has the mission in hand.   *)
RejectionTerminates ==
    \A m \in Missions :
        (~Attended(m) /\ \E s \in StepsOf(m) : approval[s] = "rejected")
            => mstatus[m] \in FinalStatuses

(* A submitted mission comes to rest. *)
SubmittedComesToRest ==
    \A m \in Missions : mstatus[m] = "queued" ~>
        mstatus[m] \in FinalStatuses \cup {"waiting_approval"}

(* What an administrator approved is run, or its mission is over. *)
ApprovedStepRuns ==
    \A s \in Steps : approval[s] = "approved" ~>
        invoked[s] > 0 \/ mstatus[MissionOf[s]] \in FinalStatuses
===============================================================================
