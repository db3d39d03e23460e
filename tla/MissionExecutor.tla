--------------------------- MODULE MissionExecutor ---------------------------
(***************************************************************************)
(* Workers (worker.py) and the execution of one mission, executor.py: one  *)
(* action per database read or commit and per provider call.               *)
(*                                                                         *)
(* An execution keeps one SQLAlchemy session with expire_on_commit=False.  *)
(* The mission and its steps are loaded once and stay in the identity map: *)
(* the later calls of _load return the same, possibly stale, objects.      *)
(* `view` holds the step statuses that session believes in.  The approval  *)
(* row is not kept and is read again each time it is needed.               *)
(***************************************************************************)
EXTENDS MissionStore, MissionQueue

CONSTANT Executors      \* worker processes, or background-task threads

VARIABLES
    session,            \* the execution each executor is in
    invoked             \* provider calls made for each step, up to CallCap

(* Bound: calls are counted as none, one, or more than one. *)
CallCap == 2

execution == <<session, invoked>>

(* An executor between two jobs. *)
Closed ==
    [pc |-> "idle", job |-> NoMission, loaded |-> "draft",
     view |-> [s \in Steps |-> "pending"], todo |-> {}, cur |-> NoStep,
     progressed |-> FALSE]

(* Where an execution stands between two of its actions. *)
Places ==
    {"idle", "load_mission", "load_steps", "start", "loop", "pass",
     "ask", "hold", "deny", "begin", "call", "record"}

(* The places at which _approval_allows or _run_step works on `cur`. *)
AtStep == {"ask", "hold", "deny", "begin", "call", "record"}

Sessions ==
    [pc : Places, job : Missions \cup {NoMission},
     loaded : MissionStatuses, view : [Steps -> StepStatuses],
     todo : SUBSET Steps, cur : Steps \cup {NoStep}, progressed : BOOLEAN]

ExecutorTypeOK ==
    /\ session \in [Executors -> Sessions]
    /\ invoked \in [Steps -> 0..CallCap]

ExecutorInit ==
    /\ session = [e \in Executors |-> Closed]
    /\ invoked = [s \in Steps |-> 0]

(* The execution of executor e goes on as x. *)
Becomes(e, x) == session' = [session EXCEPT ![e] = x]

Close(e) == Becomes(e, Closed)

(* Some step of the execution's mission has this status in its view. *)
Sees(e, st) == \E s \in StepsOf(session[e].job) : session[e].view[s] = st

(* worker.main: blpop, or the start of a local background task *)
Blpop(e) ==
    /\ session[e].pc = "idle"
    /\ \E m \in Missions :
          /\ Take(m)
          /\ Becomes(e, [Closed EXCEPT !.pc = "load_mission", !.job = m])
    /\ UNCHANGED <<store, faults, invoked>>

(* _load: the SELECT of the mission row *)
LoadMission(e) ==
    /\ session[e].pc = "load_mission"
    /\ Becomes(e, [session[e] EXCEPT !.pc = "load_steps",
                                     !.loaded = mstatus[session[e].job]])
    /\ UNCHANGED <<store, faults, queue, invoked>>

(* The view of the steps that the SELECT of the selectinload fills. *)
LoadedView(m) ==
    [s \in Steps |-> IF s \in StepsOf(m) THEN sstatus[s] ELSE "pending"]

(* _load: the SELECT of the steps; a finished mission is left alone. *)
LoadSteps(e) ==
    /\ session[e].pc = "load_steps"
    /\ IF session[e].loaded \in FinalStatuses
         THEN Close(e)
         ELSE Becomes(e, [session[e] EXCEPT !.pc = "start",
                                            !.view = LoadedView(session[e].job)])
    /\ UNCHANGED <<store, faults, queue, invoked>>

(* Mutant of Start: the start is not audited. *)
StartUnaudited(e) ==
    LET m == session[e].job IN
    /\ session[e].pc = "start"
    /\ mstatus' = [mstatus EXCEPT ![m] = "running"]
    /\ Becomes(e, [session[e] EXCEPT !.pc = "loop", !.loaded = "running"])
    /\ UNCHANGED <<sstatus, approval, handoffs, audit, faults, queue, invoked>>

(* execute: the mission is marked running. *)
Start(e) ==
    LET m == session[e].job IN
    /\ session[e].pc = "start"
    /\ mstatus' = [mstatus EXCEPT ![m] =
                      Flushed(@, session[e].loaded, "running")]
    /\ RecordAudit("mission", "started", m)
    /\ Becomes(e, [session[e] EXCEPT !.pc = "loop", !.loaded = "running"])
    /\ UNCHANGED <<sstatus, approval, handoffs, faults, queue, invoked>>

(* Mutant of Verdict: a mission is complete when no step is pending. *)
VerdictNonePending(e) ==
    IF Sees(e, "rejected") THEN "rejected"
    ELSE IF Sees(e, "failed") THEN "failed"
    ELSE IF ~Sees(e, "pending") THEN "completed" ELSE "open"

(* Mutant of Verdict: failed steps are not looked for. *)
VerdictIgnoresFailure(e) ==
    IF Sees(e, "rejected") THEN "rejected"
    ELSE IF \A s \in StepsOf(session[e].job) : session[e].view[s] = "completed"
         THEN "completed"
         ELSE "open"

(* The loop's verdict on the view, in the order the code asks. *)
Verdict(e) ==
    IF Sees(e, "rejected") THEN "rejected"
    ELSE IF Sees(e, "failed") THEN "failed"
    ELSE IF \A s \in StepsOf(session[e].job) : session[e].view[s] = "completed"
         THEN "completed"
         ELSE "open"

(* The execution returns with this status committed for the mission. *)
Return(e, status) ==
    /\ mstatus' = [mstatus EXCEPT ![session[e].job] = status]
    /\ Close(e)
    /\ UNCHANGED <<sstatus, approval, handoffs, faults, queue, invoked>>

(* execute: the loop ends with a final status. *)
Conclude(e) ==
    /\ session[e].pc = "loop"
    /\ Verdict(e) # "open"
    /\ RecordAudit("mission", Verdict(e), session[e].job)
    /\ Return(e, Verdict(e))

(* Mutant of Ready: dependencies are not looked at. *)
ReadyTooSoon(e) ==
    {s \in StepsOf(session[e].job) : session[e].view[s] = "pending"}

(* Mutant of Ready: a step found running is taken for interrupted. *)
ReadyAgain(e) ==
    {s \in StepsOf(session[e].job) :
        /\ session[e].view[s] \in {"pending", "running"}
        /\ \A d \in DependsOn[s] : session[e].view[d] = "completed"}

(* The steps one pass of the loop goes through. *)
Ready(e) ==
    {s \in StepsOf(session[e].job) :
        /\ session[e].view[s] = "pending"
        /\ \A d \in DependsOn[s] : session[e].view[d] = "completed"}

(* execute: a pass over the ready steps begins. *)
BeginPass(e) ==
    /\ session[e].pc = "loop"
    /\ Verdict(e) = "open"
    /\ Becomes(e, [session[e] EXCEPT !.pc = "pass", !.todo = Ready(e),
                                     !.progressed = FALSE])
    /\ UNCHANGED <<store, faults, queue, invoked>>

(* The order of Mission.steps *)
IsNext(s, todo) == s \in todo /\ \A t \in todo : Position[s] <= Position[t]

(* Mutant of Ruling: any approval that is not rejected lets the step run. *)
RulingUnlessRejected(s) ==
    IF ~RequiresApproval(s) THEN "begin"
    ELSE CASE approval[s] = "none"     -> "ask"
           [] approval[s] = "rejected" -> "deny"
           [] OTHER                    -> "begin"

(* Where _approval_allows goes from the approval row it reads. *)
Ruling(s) ==
    IF ~RequiresApproval(s) THEN "begin"
    ELSE CASE approval[s] = "none"     -> "ask"
           [] approval[s] = "approved" -> "begin"
           [] approval[s] = "rejected" -> "deny"
           [] approval[s] = "pending"  -> "hold"

(* _approval_allows: the policy, and the SELECT of the approval *)
Gate(e) ==
    /\ session[e].pc = "pass"
    /\ \E s \in session[e].todo :
          /\ IsNext(s, session[e].todo)
          /\ Becomes(e, [session[e] EXCEPT
                           !.pc = Ruling(s), !.cur = s, !.todo = @ \ {s},
                           !.progressed = @ \/ Ruling(s) = "begin"])
    /\ UNCHANGED <<store, faults, queue, invoked>>

(* The status of the current step, in the view and in the row. *)
SetStep(e, status, pc) ==
    /\ sstatus' = [sstatus EXCEPT ![session[e].cur] = status]
    /\ Becomes(e, [session[e] EXCEPT
                     !.pc = pc, !.view = [@ EXCEPT ![session[e].cur] = status],
                     !.cur = IF pc = "pass" THEN NoStep ELSE @])

(* _approval_allows: the approval is requested and the step waits. *)
RequestApproval(e) ==
    LET s == session[e].cur IN
    /\ session[e].pc = "ask"
    /\ approval[s] = "none"
    /\ approval' = [approval EXCEPT ![s] = "pending"]
    /\ SetStep(e, "waiting_approval", "pass")
    /\ RecordAudit("approval", "requested", s)
    /\ UNCHANGED <<mstatus, handoffs, faults, queue, invoked>>

(***************************************************************************)
(* Another execution inserted the approval first: approvals.step_id is     *)
(* unique, the flush raises IntegrityError and the job is given up.        *)
(***************************************************************************)
ApprovalConflict(e) ==
    /\ session[e].pc = "ask"
    /\ approval[session[e].cur] # "none"
    /\ Close(e)
    /\ UNCHANGED <<store, faults, queue, invoked>>

(* Mutant of HoldStep: a status the enumeration does not have. *)
HoldStepAsHeld(e) ==
    /\ session[e].pc = "hold"
    /\ SetStep(e, "held", "pass")
    /\ UNCHANGED <<mstatus, approval, handoffs, audit, faults, queue, invoked>>

(* _approval_allows: the approval that was read is pending. *)
HoldStep(e) ==
    /\ session[e].pc = "hold"
    /\ SetStep(e, "waiting_approval", "pass")
    /\ UNCHANGED <<mstatus, approval, handoffs, audit, faults, queue, invoked>>

(* _approval_allows: the approval that was read is rejected. *)
DenyStep(e) ==
    /\ session[e].pc = "deny"
    /\ SetStep(e, "rejected", "pass")
    /\ UNCHANGED <<mstatus, approval, handoffs, audit, faults, queue, invoked>>

(* _run_step: the hand-offs and the start of the step are committed. *)
BeginStep(e) ==
    LET s == session[e].cur IN
    /\ session[e].pc = "begin"
    /\ handoffs' = handoffs \cup {<<d, s>> : d \in DependsOn[s]}
    /\ SetStep(e, "running", "call")
    /\ RecordAudit("step", "started", s)
    /\ UNCHANGED <<mstatus, approval, faults, queue, invoked>>

(* Mutant of CallProvider: an output is recorded without a call. *)
CallProviderSkipped(e) ==
    /\ session[e].pc = "call"
    /\ Becomes(e, [session[e] EXCEPT !.pc = "record"])
    /\ UNCHANGED <<store, faults, queue, invoked>>

(* RuntimeEngine.run: the provider is called, with what effects it has. *)
CallProvider(e) ==
    LET s == session[e].cur IN
    /\ session[e].pc = "call"
    /\ invoked' = [invoked EXCEPT ![s] = IF @ < CallCap THEN @ + 1 ELSE @]
    /\ Becomes(e, [session[e] EXCEPT !.pc = "record"])
    /\ UNCHANGED <<store, faults, queue>>

(* _run_step: the output is committed. *)
RecordSuccess(e) ==
    /\ session[e].pc = "record"
    /\ RecordAudit("step", "completed", session[e].cur)
    /\ SetStep(e, "completed", "pass")
    /\ UNCHANGED <<mstatus, approval, handoffs, faults, queue, invoked>>

(* _run_step: the error is committed; the failure breaks off the pass. *)
RecordFailure(e) ==
    LET s == session[e].cur IN
    /\ session[e].pc = "record"
    /\ RecordAudit("step", "failed", s)
    /\ sstatus' = [sstatus EXCEPT ![s] = "failed"]
    /\ Becomes(e, [session[e] EXCEPT
                     !.pc = "pass", !.view = [@ EXCEPT ![s] = "failed"],
                     !.cur = NoStep, !.todo = {}])
    /\ UNCHANGED <<mstatus, approval, handoffs, faults, queue, invoked>>

(* Mutant of NextPass: the loop goes round whatever the pass did. *)
NextPassAlways(e) ==
    /\ session[e].pc = "pass"
    /\ session[e].todo = {}
    /\ Becomes(e, [session[e] EXCEPT !.pc = "loop"])
    /\ UNCHANGED <<store, faults, queue, invoked>>

(* execute: the pass ran a step, the loop goes round. *)
NextPass(e) ==
    /\ session[e].pc = "pass"
    /\ session[e].todo = {}
    /\ session[e].progressed
    /\ Becomes(e, [session[e] EXCEPT !.pc = "loop"])
    /\ UNCHANGED <<store, faults, queue, invoked>>

(* execute: nothing could run and the view has a step awaiting approval. *)
Park(e) ==
    /\ session[e].pc = "pass"
    /\ session[e].todo = {} /\ ~session[e].progressed
    /\ Sees(e, "waiting_approval")
    /\ Return(e, "waiting_approval")
    /\ UNCHANGED audit

(* Mutant of Deadlock: the failure is not audited. *)
DeadlockUnaudited(e) ==
    /\ session[e].pc = "pass"
    /\ session[e].todo = {} /\ ~session[e].progressed
    /\ ~Sees(e, "waiting_approval")
    /\ Return(e, "failed")
    /\ UNCHANGED audit

(* execute: nothing could run and nothing awaits approval. *)
Deadlock(e) ==
    /\ session[e].pc = "pass"
    /\ session[e].todo = {} /\ ~session[e].progressed
    /\ ~Sees(e, "waiting_approval")
    /\ RecordAudit("mission", "deadlocked", session[e].job)
    /\ Return(e, "failed")

(***************************************************************************)
(* The execution stops between two of its actions and leaves what it has   *)
(* committed: the worker is killed, or a database error escapes execute    *)
(* and worker.main logs it.  The job is not put back.                      *)
(***************************************************************************)
Abandon(e) ==
    /\ session[e].pc # "idle"
    /\ Fault("crash")
    /\ Close(e)
    /\ UNCHANGED <<store, queue, invoked>>

(* The steps of the execution of a job once it is taken. *)
Advance(e) ==
    \/ LoadMission(e) \/ LoadSteps(e) \/ Start(e)
    \/ Conclude(e) \/ BeginPass(e) \/ Gate(e)
    \/ RequestApproval(e) \/ ApprovalConflict(e) \/ HoldStep(e) \/ DenyStep(e)
    \/ BeginStep(e) \/ CallProvider(e) \/ RecordSuccess(e) \/ RecordFailure(e)
    \/ NextPass(e) \/ Park(e) \/ Deadlock(e)

ExecutorNext(e) == Blpop(e) \/ Advance(e)
===============================================================================
