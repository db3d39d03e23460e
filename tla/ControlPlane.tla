---------------------------- MODULE ControlPlane -----------------------------
(***************************************************************************)
(* The API handlers that change a mission: run_mission and decide_approval *)
(* (approve, reject).  A handler's reads, its commit and the enqueue that  *)
(* follows the commit are separate actions, so that handlers interleave    *)
(* with each other and with the workers.                                   *)
(***************************************************************************)
EXTENDS MissionStore, MissionQueue

CONSTANTS
    Requests,           \* handlers that may be in progress at a time
    Admins,             \* the handlers among them whose user is an admin
    MaxQueue            \* bound: no run request while so many jobs wait

ASSUME RequestAssumption == Admins \subseteq Requests /\ MaxQueue \in Nat \ {0}

VARIABLE request        \* the handler each slot is executing

(* A slot without a handler. *)
NoRequest ==
    [pc |-> "free", mission |-> NoMission, step |-> NoStep,
     decision |-> "none", seenMission |-> "draft", seenStep |-> "pending"]

HandlerPlaces == {"free", "run_commit", "decide_load", "decide_commit", "enqueue"}

Handlers ==
    [pc : HandlerPlaces, mission : Missions \cup {NoMission},
     step : Steps \cup {NoStep}, decision : ApprovalStatuses,
     seenMission : MissionStatuses, seenStep : StepStatuses]

RequestTypeOK == request \in [Requests -> Handlers]

RequestInit == request = [r \in Requests |-> NoRequest]

(* The handler of slot r goes on as q. *)
Proceeds(r, q) == request' = [request EXCEPT ![r] = q]

Finish(r) == Proceeds(r, NoRequest)

(* run_mission: the mission is loaded and its status admits a run. *)
RunRead(r) ==
    /\ request[r].pc = "free"
    /\ Len(queue) < MaxQueue
    /\ \E m \in Missions :
          /\ mstatus[m] \in {"draft", "queued"}
          /\ Proceeds(r, [NoRequest EXCEPT !.pc = "run_commit", !.mission = m,
                                        !.seenMission = mstatus[m]])
    /\ UNCHANGED <<store, faults, queue>>

(* run_mission: the commit *)
RunCommit(r) ==
    LET m == request[r].mission IN
    /\ request[r].pc = "run_commit"
    /\ mstatus' = [mstatus EXCEPT ![m] =
                      Flushed(@, request[r].seenMission, "queued")]
    /\ RecordAudit("mission", "queued", m)
    /\ Proceeds(r, [NoRequest EXCEPT !.pc = "enqueue", !.mission = m])
    /\ UNCHANGED <<sstatus, approval, handoffs, faults, queue>>

(* Mutant of DecideRead: the guard on the approval's status is dropped. *)
DecideReadAgain(r) ==
    /\ r \in Admins
    /\ request[r].pc = "free"
    /\ \E s \in Steps, d \in {"approved", "rejected"} :
          /\ approval[s] # "none"
          /\ Proceeds(r, [NoRequest EXCEPT !.pc = "decide_load", !.decision = d,
                                        !.step = s, !.mission = MissionOf[s]])
    /\ UNCHANGED <<store, faults, queue>>

(* decide_approval: the approval is read and found undecided. *)
DecideRead(r) ==
    /\ r \in Admins
    /\ request[r].pc = "free"
    /\ \E s \in Steps, d \in {"approved", "rejected"} :
          /\ approval[s] = "pending"
          /\ Proceeds(r, [NoRequest EXCEPT !.pc = "decide_load", !.decision = d,
                                        !.step = s, !.mission = MissionOf[s]])
    /\ UNCHANGED <<store, faults, queue>>

(* Another handler holds the row lock of this step's approval. *)
ApprovalLocked(s) ==
    \E q \in Requests : request[q].pc = "decide_commit" /\ request[q].step = s

(***************************************************************************)
(* decide_approval: db.get(WorkflowStep) first flushes the UPDATE of the   *)
(* approval, which waits for the row lock and keeps it until the commit;   *)
(* then the step and the mission are read.                                 *)
(***************************************************************************)
DecideLoad(r) ==
    LET s == request[r].step IN
    /\ request[r].pc = "decide_load"
    /\ ~ApprovalLocked(s)
    /\ Proceeds(r, [request[r] EXCEPT !.pc = "decide_commit",
                                      !.seenStep = sstatus[s],
                                      !.seenMission = mstatus[request[r].mission]])
    /\ UNCHANGED <<store, faults, queue>>

(* Mutant of DecidedStep: an approved step stays where it waits. *)
DecidedStepStays(d) == IF d = "approved" THEN "waiting_approval" ELSE "rejected"

(* The step and mission status each decision assigns. *)
DecidedStep(d) == IF d = "approved" THEN "pending" ELSE "rejected"
DecidedMission(d) == IF d = "approved" THEN "queued" ELSE "rejected"

(* Mutant of DecideCommit: the approved mission is not enqueued. *)
DecideCommitSilent(r) ==
    LET q == request[r] IN
    /\ q.pc = "decide_commit"
    /\ approval' = [approval EXCEPT ![q.step] = q.decision]
    /\ sstatus' = [sstatus EXCEPT ![q.step] = DecidedStep(q.decision)]
    /\ mstatus' = [mstatus EXCEPT ![q.mission] = DecidedMission(q.decision)]
    /\ RecordAudit("approval", q.decision, q.step)
    /\ Finish(r)
    /\ UNCHANGED <<handoffs, faults, queue>>

(* Mutant of DecideCommit: approving restarts the mission from its first step. *)
DecideCommitRestarts(r) ==
    LET q == request[r] IN
    /\ q.pc = "decide_commit"
    /\ approval' = [approval EXCEPT ![q.step] = q.decision]
    /\ sstatus' = [s \in Steps |->
           IF MissionOf[s] = q.mission THEN DecidedStep(q.decision) ELSE sstatus[s]]
    /\ mstatus' = [mstatus EXCEPT ![q.mission] = DecidedMission(q.decision)]
    /\ RecordAudit("approval", q.decision, q.step)
    /\ IF q.decision = "approved"
         THEN Proceeds(r, [NoRequest EXCEPT !.pc = "enqueue", !.mission = q.mission])
         ELSE Finish(r)
    /\ UNCHANGED <<handoffs, faults, queue>>

(* decide_approval: the commit; an approved mission is then enqueued. *)
DecideCommit(r) ==
    LET q == request[r] IN
    /\ q.pc = "decide_commit"
    /\ approval' = [approval EXCEPT ![q.step] = q.decision]
    /\ sstatus' = [sstatus EXCEPT ![q.step] =
                      Flushed(@, q.seenStep, DecidedStep(q.decision))]
    /\ mstatus' = [mstatus EXCEPT ![q.mission] =
                      Flushed(@, q.seenMission, DecidedMission(q.decision))]
    /\ RecordAudit("approval", q.decision, q.step)
    /\ IF q.decision = "approved"
         THEN Proceeds(r, [NoRequest EXCEPT !.pc = "enqueue", !.mission = q.mission])
         ELSE Finish(r)
    /\ UNCHANGED <<handoffs, faults, queue>>

(* enqueue_mission, after the commit *)
Enqueue(r) ==
    /\ request[r].pc = "enqueue"
    /\ Push(request[r].mission)
    /\ Finish(r)
    /\ UNCHANGED <<store, faults>>

(***************************************************************************)
(* rpush fails (the client gets an error), or the API process dies between *)
(* the commit and the rpush.  add_task of the local backend cannot fail.   *)
(***************************************************************************)
EnqueueFails(r) ==
    /\ request[r].pc = "enqueue"
    /\ backend = "redis"
    /\ Fault("enqueue")
    /\ Finish(r)
    /\ UNCHANGED <<store, queue>>

(* A client submits a run or a decision. *)
Submit(r) == RunRead(r) \/ DecideRead(r)

(* A handler that has begun goes on. *)
Handle(r) == RunCommit(r) \/ DecideLoad(r) \/ DecideCommit(r) \/ Enqueue(r)

RequestNext(r) == Submit(r) \/ Handle(r) \/ EnqueueFails(r)
===============================================================================
