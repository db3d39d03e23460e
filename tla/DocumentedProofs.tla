-------------------------- MODULE DocumentedProofs ---------------------------
(***************************************************************************)
(* Proofs about the documented deployment: one worker, one administrator   *)
(* deciding at a time, for every plan, queue and number of faults.         *)
(***************************************************************************)
EXTENDS DocumentedInvariant, OrchestratorProofs, FiniteSetTheorems

----------------------------------------------------------------------------
(* The tables, the one session and the handlers agree. *)

(* The part of Agreed that is not about the session. *)
TablesAgree ==
    /\ RowsAgree /\ CallsFresh /\ CompletedMeansAllSteps
    /\ \A r \in Requests : DecisionSound(r)

(* With one worker, what the worker's session becomes is all there is. *)
LEMMA AgreedBecomes ==
    ASSUME OneWorker, Shape, NEW e \in Executors, NEW x, Becomes(e, x),
           TablesAgree', ViewFresh(x)', PlaceFresh(x)'
    PROVE  Agreed'
<1>1. \A f \in Executors : session'[f] = x
  BY DEF OneWorker, Becomes, Shape, TypeOK, ExecutorTypeOK
<1> QED
  BY <1>1 DEF Agreed, TablesAgree, ViewFresh, PlaceFresh, Viewing

(* Writes to missions that do not call them completed disturb no agreement. *)
LEMMA AgreementKept ==
    ASSUME Agreed, UNCHANGED <<sstatus, approval, invoked, request>>,
           \A m \in Missions : mstatus'[m] = "completed" => mstatus[m] = "completed"
    PROVE  /\ TablesAgree'
           /\ \A x : ViewFresh(x) => ViewFresh(x)'
           /\ \A x : PlaceFresh(x) => PlaceFresh(x)'
<1>1. TablesAgree'
  BY DEF Agreed, TablesAgree, RowsAgree, CallsFresh, CompletedMeansAllSteps, DecisionSound
<1>2. \A x : ViewFresh(x) => ViewFresh(x)'
  BY DEF ViewFresh, Viewing
<1>3. \A x : PlaceFresh(x) => PlaceFresh(x)'
  BY DEF PlaceFresh, Viewing
<1> QED
  BY <1>1, <1>2, <1>3

(* A worker between two jobs has nothing to agree with. *)
LEMMA ClosedFresh == ViewFresh(Closed) /\ PlaceFresh(Closed)
  BY DEF ViewFresh, PlaceFresh, Viewing, Closed, AtStep

(* Letting go of the job keeps the agreement. *)
LEMMA CloseAgreed ==
    ASSUME OneWorker, Shape, Agreed, NEW e \in Executors, Close(e),
           UNCHANGED <<sstatus, approval, invoked, request>>,
           \A m \in Missions : mstatus'[m] = "completed" => mstatus[m] = "completed"
    PROVE  Agreed'
<1>1. PICK x : x = Closed
  OBVIOUS
<1>2. Becomes(e, x) /\ ViewFresh(x) /\ PlaceFresh(x)
  BY <1>1, ClosedFresh DEF Close
<1> QED
  BY <1>2, AgreementKept, AgreedBecomes

(* The worker's actions that write nothing but a mission's status. *)
LEMMA ExecutorAgreedQuiet ==
    ASSUME OneWorker, Shape, Agreed, NEW e \in Executors, UNCHANGED request,
           \/ Blpop(e) \/ LoadMission(e) \/ LoadSteps(e) \/ Start(e)
           \/ BeginPass(e) \/ Gate(e) \/ ApprovalConflict(e) \/ NextPass(e)
           \/ Conclude(e) \/ Park(e) \/ Deadlock(e) \/ CrashStep(e)
    PROVE  Agreed'
<1>0. /\ SessionShape(session[e]) /\ ViewFresh(session[e]) /\ PlaceFresh(session[e])
      /\ session[e].view \in [Steps -> StepStatuses]
      /\ session[e].cur \in Steps \cup {NoStep} /\ mstatus \in [Missions -> MissionStatuses]
      /\ sstatus \in [Steps -> StepStatuses] /\ approval \in [Steps -> ApprovalStatuses]
  BY DEF Shape, SessionShape, Sessions, Agreed, TypeOK, StoreTypeOK
<1>c. ASSUME Close(e), UNCHANGED <<sstatus, approval, invoked>>,
             \A m \in Missions : mstatus'[m] = "completed" => mstatus[m] = "completed"
      PROVE  Agreed'
  BY <1>c, CloseAgreed
<1>b. ASSUME NEW x, Becomes(e, x), ViewFresh(x), PlaceFresh(x),
             UNCHANGED <<sstatus, approval, invoked>>,
             \A m \in Missions : mstatus'[m] = "completed" => mstatus[m] = "completed"
      PROVE  Agreed'
  BY <1>b, AgreementKept, AgreedBecomes
<1>1. CASE Blpop(e)
  <2>1. PICK m \in Missions :
          Becomes(e, [Closed EXCEPT !.pc = "load_mission", !.job = m])
    BY <1>1 DEF Blpop
  <2>2. PICK x : x = [Closed EXCEPT !.pc = "load_mission", !.job = m]
    OBVIOUS
  <2>3. ViewFresh(x) /\ PlaceFresh(x)
    BY <2>2 DEF ViewFresh, PlaceFresh, Viewing, Closed, AtStep
  <2> QED
    BY <1>1, <1>b, <2>1, <2>2, <2>3 DEF Blpop, store
<1>2. CASE LoadMission(e)
  <2>1. PICK x : x = [session[e] EXCEPT !.pc = "load_steps",
                                        !.loaded = mstatus[session[e].job]]
    OBVIOUS
  <2>2. ViewFresh(x) /\ PlaceFresh(x)
    BY <1>0, <1>2, <2>1 DEF LoadMission, ViewFresh, PlaceFresh, Viewing, AtStep,
       SessionShape, Sessions
  <2> QED
    BY <1>2, <1>b, <2>1, <2>2 DEF LoadMission, store
<1>3. CASE LoadSteps(e)
  <2>1. CASE Close(e)
    BY <1>3, <1>c, <2>1 DEF LoadSteps, store
  <2>2. CASE ~Close(e)
    <3>1. PICK x : x = [session[e] EXCEPT !.pc = "start",
                                          !.view = LoadedView(session[e].job)]
      OBVIOUS
    <3>2. ViewFresh(x) /\ PlaceFresh(x)
      BY <1>0, <1>3, <3>1 DEF LoadSteps, ViewFresh, PlaceFresh, Viewing, AtStep,
         SessionShape, Sessions, LoadedView, StepsOf
    <3> QED
      BY <1>3, <1>b, <2>2, <3>1, <3>2 DEF LoadSteps, store
  <2> QED
    BY <2>1, <2>2
<1>4. CASE Start(e)
  <2>1. PICK x : x = [session[e] EXCEPT !.pc = "loop", !.loaded = "running"]
    OBVIOUS
  <2>2. ViewFresh(x) /\ PlaceFresh(x)
    BY <1>0, <1>4, <2>1 DEF Start, ViewFresh, PlaceFresh, Viewing, AtStep,
       SessionShape, Sessions
  <2>3. \A m \in Missions : mstatus'[m] = "completed" => mstatus[m] = "completed"
    BY <1>0, <1>4 DEF Start, Flushed
  <2> QED
    BY <1>4, <1>b, <2>1, <2>2, <2>3 DEF Start
<1>5. CASE BeginPass(e)
  <2>1. PICK x : x = [session[e] EXCEPT !.pc = "pass", !.todo = Ready(e),
                                        !.progressed = FALSE]
    OBVIOUS
  <2>2. ViewFresh(x) /\ PlaceFresh(x)
    BY <1>0, <1>5, <2>1 DEF BeginPass, ViewFresh, PlaceFresh, Viewing, AtStep,
       SessionShape, Sessions, Ready
  <2> QED
    BY <1>5, <1>b, <2>1, <2>2 DEF BeginPass, store
<1>6. CASE Gate(e)
  <2>1. PICK s \in session[e].todo :
          Becomes(e, [session[e] EXCEPT
                         !.pc = Ruling(s), !.cur = s, !.todo = @ \ {s},
                         !.progressed = @ \/ Ruling(s) = "begin"])
    BY <1>6 DEF Gate
  <2>2. PICK x : x = [session[e] EXCEPT
                         !.pc = Ruling(s), !.cur = s, !.todo = @ \ {s},
                         !.progressed = @ \/ Ruling(s) = "begin"]
    OBVIOUS
  <2>3. s \in StepsOf(session[e].job) /\ s \in Steps /\ session[e].view[s] = "pending"
    BY <1>0, <1>6 DEF SessionShape, StepsOf, PlaceFresh
  <2>4. sstatus[s] = "pending" /\ approval[s] \notin {"pending", "rejected"}
    BY <1>0, <1>6, <2>3 DEF Gate, ViewFresh, Viewing, Agreed, RowsAgree
  <2>5. /\ Ruling(s) \in {"ask", "begin"}
        /\ Ruling(s) = "ask" => approval[s] = "none"
        /\ Ruling(s) = "begin" /\ RequiresApproval(s) => approval[s] # "none"
    BY <1>0, <2>3, <2>4 DEF Ruling, ApprovalStatuses
  <2>6. ViewFresh(x)
    BY <1>0, <1>6, <2>2, <2>3, <2>5 DEF Gate, ViewFresh, Viewing, SessionShape, Sessions
  <2>7. PlaceFresh(x)
    BY <1>0, <1>6, <2>2, <2>3, <2>5 DEF Gate, PlaceFresh, Viewing, SessionShape, Sessions,
       AtStep
  <2> QED
    BY <1>6, <1>b, <2>1, <2>2, <2>6, <2>7 DEF Gate, store
<1>7. CASE NextPass(e)
  <2>1. PICK x : x = [session[e] EXCEPT !.pc = "loop"]
    OBVIOUS
  <2>2. ViewFresh(x) /\ PlaceFresh(x)
    BY <1>0, <1>7, <2>1 DEF NextPass, ViewFresh, PlaceFresh, Viewing, AtStep,
       SessionShape, Sessions
  <2> QED
    BY <1>7, <1>b, <2>1, <2>2 DEF NextPass, store
<1>8. CASE ApprovalConflict(e) \/ CrashStep(e)
  BY <1>8, <1>c DEF ApprovalConflict, CrashStep, Abandon, store
<1>9. CASE Park(e) \/ Deadlock(e)
  BY <1>0, <1>9, <1>c DEF Park, Deadlock, Return
<1>10. CASE Conclude(e)
  <2>1. session[e].job \in Missions
    BY <1>0, <1>10 DEF Conclude, SessionShape
  <2>2. PICK m, v : m \in Missions /\ m = session[e].job /\ v = Verdict(e)
    BY <2>1
  <2>3. mstatus' = [mstatus EXCEPT ![m] = v] /\ Close(e)
        /\ UNCHANGED <<sstatus, approval, invoked>>
    BY <1>10, <2>2 DEF Conclude, Return
  <2>4. CASE v # "completed"
    BY <1>0, <1>c, <2>3, <2>4
  <2>5. CASE v = "completed"
    <3>1. \A s \in StepsOf(m) : sstatus[s] = "completed"
      BY <1>0, <1>10, <2>2, <2>5 DEF Conclude, Verdict, ViewFresh, Viewing
    <3>2. TablesAgree'
      BY <1>0, <2>3, <3>1 DEF Agreed, TablesAgree, RowsAgree, CallsFresh,
         CompletedMeansAllSteps, DecisionSound, StepsOf
    <3>3. PICK x : x = Closed
      OBVIOUS
    <3>4. ViewFresh(x)' /\ PlaceFresh(x)'
      BY <2>3, <3>3, ClosedFresh DEF ViewFresh, PlaceFresh, Viewing
    <3> QED
      BY <2>3, <3>2, <3>3, <3>4, AgreedBecomes DEF Close
  <2> QED
    BY <2>4, <2>5
<1> QED
  BY <1>1, <1>2, <1>3, <1>4, <1>5, <1>6, <1>7, <1>8, <1>9, <1>10

(***************************************************************************)
(* A write of the current step's status, in the row and in the view.  The  *)
(* mission is not a completed one: the step's row was not completed.       *)
(***************************************************************************)
LEMMA StepAgreed ==
    ASSUME OneWorker, Shape, Agreed, NEW e \in Executors, UNCHANGED <<mstatus, request>>,
           NEW s \in Steps, NEW st \in StepStatuses, NEW x,
           s = session[e].cur, session[e].pc \in AtStep, sstatus[s] # "completed",
           sstatus' = [sstatus EXCEPT ![s] = st], Becomes(e, x),
           x.view = [session[e].view EXCEPT ![s] = st], x.job = session[e].job,
           RowsAgree', CallsFresh', PlaceFresh(x)',
           \A t \in Steps : approval[t] = "pending" => approval'[t] = "pending"
    PROVE  Agreed'
<1>0. /\ SessionShape(session[e]) /\ ViewFresh(session[e])
      /\ session[e].view \in [Steps -> StepStatuses]
      /\ sstatus \in [Steps -> StepStatuses]
  BY DEF Shape, SessionShape, Sessions, Agreed, TypeOK, StoreTypeOK
<1>1. ViewFresh(x)'
  BY <1>0 DEF ViewFresh, Viewing, AtStep, StepsOf
<1>2. CompletedMeansAllSteps'
  BY <1>0 DEF Agreed, CompletedMeansAllSteps, StepsOf
<1>3. \A r \in Requests : DecisionSound(r)'
  BY DEF Agreed, DecisionSound, Shape, HandlerShape
<1> QED
  BY <1>1, <1>2, <1>3, AgreedBecomes DEF TablesAgree

(* The worker's actions that write a step or count a provider call. *)
LEMMA ExecutorAgreedWrites ==
    ASSUME OneWorker, Shape, Agreed, NEW e \in Executors, UNCHANGED request,
           \/ RequestApproval(e) \/ HoldStep(e) \/ DenyStep(e)
           \/ BeginStep(e) \/ CallProvider(e) \/ RecordSuccess(e) \/ RecordFailure(e)
    PROVE  Agreed'
<1>0. /\ SessionShape(session[e]) /\ ViewFresh(session[e]) /\ PlaceFresh(session[e])
      /\ session[e].view \in [Steps -> StepStatuses] /\ session[e] \in Sessions
      /\ invoked \in [Steps -> 0..2]
      /\ sstatus \in [Steps -> StepStatuses] /\ approval \in [Steps -> ApprovalStatuses]
  BY DEF Shape, SessionShape, Sessions, Agreed, TypeOK, StoreTypeOK, ExecutorTypeOK, CallCap
<1>1. session[e].pc \in AtStep
  BY <1>0 DEF RequestApproval, HoldStep, DenyStep, BeginStep, CallProvider, RecordSuccess,
     RecordFailure, AtStep
<1>2. PICK s \in Steps : s = session[e].cur
  BY <1>0, <1>1 DEF SessionShape, StepsOf
<1>3. s \in StepsOf(session[e].job) /\ s \notin session[e].todo
  BY <1>0, <1>1, <1>2 DEF SessionShape, PlaceFresh
<1>4. session[e].view[s] # "waiting_approval" => sstatus[s] = session[e].view[s]
  BY <1>0, <1>1, <1>3 DEF ViewFresh, Viewing, AtStep
<1>5. CASE RequestApproval(e)
  <2>1. PICK x : x = [session[e] EXCEPT !.pc = "pass", !.cur = NoStep,
                          !.view = [@ EXCEPT ![s] = "waiting_approval"]]
    OBVIOUS
  <2>2. /\ sstatus' = [sstatus EXCEPT ![s] = "waiting_approval"]
        /\ approval' = [approval EXCEPT ![s] = "pending"]
        /\ Becomes(e, x) /\ UNCHANGED <<mstatus, invoked>>
    BY <1>2, <1>5, <2>1 DEF RequestApproval, SetStep
  <2>3. sstatus[s] = "pending" /\ approval[s] = "none"
    BY <1>0, <1>2, <1>4, <1>5 DEF RequestApproval, PlaceFresh
  <2>4. RowsAgree' /\ CallsFresh'
    BY <1>0, <2>2, <2>3 DEF Agreed, RowsAgree, CallsFresh, RequiresApproval
  <2>5. PlaceFresh(x)'
    BY <1>0, <1>3, <1>5, <2>1 DEF RequestApproval, PlaceFresh, AtStep, Viewing, Sessions
  <2>6. x.view = [session[e].view EXCEPT ![s] = "waiting_approval"] /\ x.job = session[e].job
    BY <1>0, <2>1 DEF Sessions
  <2> QED
    BY <1>0, <1>1, <1>2, <2>2, <2>3, <2>4, <2>5, <2>6, StepAgreed DEF StepStatuses
<1>6. CASE BeginStep(e)
  <2>1. PICK x : x = [session[e] EXCEPT !.pc = "call",
                          !.view = [@ EXCEPT ![s] = "running"]]
    OBVIOUS
  <2>2. /\ sstatus' = [sstatus EXCEPT ![s] = "running"]
        /\ Becomes(e, x) /\ UNCHANGED <<mstatus, invoked, approval>>
    BY <1>0, <1>2, <1>6, <2>1 DEF BeginStep, SetStep, Sessions
  <2>3. /\ sstatus[s] = "pending" /\ invoked[s] = 0
        /\ RequiresApproval(s) => approval[s] # "none"
    BY <1>0, <1>2, <1>4, <1>6 DEF BeginStep, PlaceFresh, Agreed, CallsFresh
  <2>4. RowsAgree' /\ CallsFresh'
    BY <1>0, <2>2, <2>3 DEF Agreed, RowsAgree, CallsFresh, RequiresApproval
  <2>5. PlaceFresh(x)'
    BY <1>0, <1>2, <1>3, <1>6, <2>1, <2>2, <2>3
       DEF BeginStep, PlaceFresh, AtStep, Viewing, Sessions
  <2>6. x.view = [session[e].view EXCEPT ![s] = "running"] /\ x.job = session[e].job
    BY <1>0, <2>1 DEF Sessions
  <2> QED
    BY <1>0, <1>1, <1>2, <2>2, <2>3, <2>4, <2>5, <2>6, StepAgreed DEF StepStatuses
<1>7. CASE RecordSuccess(e) \/ RecordFailure(e)
  <2>1. PICK st \in {"completed", "failed"}, todo \in {session[e].todo, {}} :
          /\ sstatus' = [sstatus EXCEPT ![s] = st]
          /\ Becomes(e, [session[e] EXCEPT !.pc = "pass", !.cur = NoStep, !.todo = todo,
                             !.view = [@ EXCEPT ![s] = st]])
          /\ UNCHANGED <<mstatus, invoked, approval>>
    <3>1. CASE RecordSuccess(e)
      <4>1. [session[e] EXCEPT !.pc = "pass", !.view = [@ EXCEPT ![s] = "completed"],
                               !.cur = NoStep]
             = [session[e] EXCEPT !.pc = "pass", !.cur = NoStep, !.todo = session[e].todo,
                                  !.view = [@ EXCEPT ![s] = "completed"]]
        BY <1>0 DEF Sessions
      <4>2. /\ sstatus' = [sstatus EXCEPT ![s] = "completed"]
            /\ Becomes(e, [session[e] EXCEPT !.pc = "pass",
                               !.view = [@ EXCEPT ![s] = "completed"], !.cur = NoStep])
            /\ UNCHANGED <<mstatus, invoked, approval>>
        BY <1>2, <3>1 DEF RecordSuccess, SetStep
      <4> QED
        BY <4>1, <4>2
    <3>2. CASE RecordFailure(e)
      <4>1. [session[e] EXCEPT !.pc = "pass", !.view = [@ EXCEPT ![s] = "failed"],
                               !.cur = NoStep, !.todo = {}]
             = [session[e] EXCEPT !.pc = "pass", !.cur = NoStep, !.todo = {},
                                  !.view = [@ EXCEPT ![s] = "failed"]]
        BY <1>0 DEF Sessions
      <4>2. /\ sstatus' = [sstatus EXCEPT ![s] = "failed"]
            /\ Becomes(e, [session[e] EXCEPT !.pc = "pass",
                               !.view = [@ EXCEPT ![s] = "failed"], !.cur = NoStep,
                               !.todo = {}])
            /\ UNCHANGED <<mstatus, invoked, approval>>
        BY <1>2, <3>2 DEF RecordFailure
      <4> QED
        BY <4>1, <4>2
    <3> QED
      BY <1>7, <3>1, <3>2
  <2>2. PICK x : x = [session[e] EXCEPT !.pc = "pass", !.cur = NoStep, !.todo = todo,
                          !.view = [@ EXCEPT ![s] = st]]
    OBVIOUS
  <2>3. sstatus[s] = "running"
    BY <1>0, <1>2, <1>4, <1>7 DEF RecordSuccess, RecordFailure, PlaceFresh
  <2>4. RowsAgree' /\ CallsFresh'
    BY <1>0, <2>1, <2>3 DEF Agreed, RowsAgree, CallsFresh, RequiresApproval
  <2>5. PlaceFresh(x)'
    BY <1>0, <1>1, <1>3, <2>2 DEF PlaceFresh, AtStep, Viewing, Sessions
  <2>6. x.view = [session[e].view EXCEPT ![s] = st] /\ x.job = session[e].job
    BY <1>0, <2>2 DEF Sessions
  <2>7. st \in StepStatuses
    BY DEF StepStatuses
  <2> QED
    BY <1>0, <1>1, <1>2, <2>1, <2>2, <2>3, <2>4, <2>5, <2>6, <2>7, StepAgreed
<1>8. CASE CallProvider(e)
  <2>1. PICK x : x = [session[e] EXCEPT !.pc = "record"]
    OBVIOUS
  <2>2. /\ invoked' = [invoked EXCEPT ![s] = 1]
        /\ Becomes(e, x) /\ UNCHANGED <<mstatus, sstatus, approval>>
    <3>1. invoked[s] = 0
      BY <1>0, <1>2, <1>8 DEF CallProvider, PlaceFresh
    <3> QED
      BY <1>0, <1>2, <1>8, <2>1, <3>1 DEF CallProvider, CallCap, store
  <2>3. sstatus[s] = "running"
    BY <1>0, <1>2, <1>4, <1>8 DEF CallProvider, PlaceFresh
  <2>4. TablesAgree'
    BY <1>0, <2>2, <2>3 DEF Agreed, TablesAgree, RowsAgree, CallsFresh, CompletedMeansAllSteps,
       DecisionSound
  <2>5. ViewFresh(x)'
    BY <1>0, <1>8, <2>1, <2>2 DEF CallProvider, ViewFresh, Viewing, Sessions
  <2>6. PlaceFresh(x)'
    BY <1>0, <1>8, <2>1, <2>2 DEF CallProvider, PlaceFresh, AtStep, Viewing, Sessions
  <2> QED
    BY <2>2, <2>4, <2>5, <2>6, AgreedBecomes
<1>9. CASE HoldStep(e) \/ DenyStep(e)
  BY <1>0, <1>9 DEF HoldStep, DenyStep, PlaceFresh
<1> QED
  BY <1>5, <1>6, <1>7, <1>8, <1>9

(* The handlers: only DecideCommit writes rows that are agreed about. *)
LEMMA RequestAgreed ==
    ASSUME OneAdmin, Shape, Shape', Agreed, NEW r \in Requests, RequestStep(r)
    PROVE  Agreed'
<1> USE PlanAssumption, SentinelAssumption
<1>0. /\ HandlerShape(request[r]) /\ DecisionSound(r)
      /\ request \in [Requests -> Handlers] /\ UNCHANGED <<session, invoked>>
      /\ mstatus \in [Missions -> MissionStatuses]
      /\ sstatus \in [Steps -> StepStatuses] /\ approval \in [Steps -> ApprovalStatuses]
  BY DEF Shape, TypeOK, StoreTypeOK, RequestTypeOK, Agreed, RequestStep, execution
<1>a. ASSUME UNCHANGED <<sstatus, approval>>, \A p \in Requests : DecisionSound(p)',
             \A m \in Missions : mstatus'[m] = "completed" => mstatus[m] = "completed"
      PROVE  Agreed'
  BY <1>0, <1>a DEF Agreed, RowsAgree, CallsFresh, CompletedMeansAllSteps, ViewFresh,
     PlaceFresh, Viewing
<1>p. ASSUME NEW q, Proceeds(r, q)
      PROVE  request'[r] = q /\ \A p \in Requests \ {r} : request'[p] = request[p]
  BY <1>0, <1>p DEF Proceeds
<1>f. ASSUME NEW q, Proceeds(r, q), q.pc \notin {"decide_load", "decide_commit"},
             UNCHANGED approval
      PROVE  \A p \in Requests : DecisionSound(p)'
  BY <1>f, <1>p DEF Agreed, DecisionSound
<1>d. ASSUME \A p \in Requests \ {r} : request'[p] = request[p], UNCHANGED approval,
             DecisionSound(r)'
      PROVE  \A p \in Requests : DecisionSound(p)'
  BY <1>d DEF Agreed, DecisionSound
<1>n. NoRequest.pc = "free"
  BY DEF NoRequest
<1>1. CASE RunRead(r) \/ RunCommit(r) \/ Enqueue(r) \/ EnqueueFails(r)
  <2>1. PICK q : Proceeds(r, q) /\ q.pc \notin {"decide_load", "decide_commit"}
    <3>1. ASSUME NEW m, NEW st
          PROVE  /\ [NoRequest EXCEPT !.pc = "enqueue", !.mission = m].pc = "enqueue"
                 /\ [NoRequest EXCEPT !.pc = "run_commit", !.mission = m,
                                      !.seenMission = st].pc = "run_commit"
      BY DEF NoRequest
    <3>2. CASE RunRead(r)
      <4>1. PICK m \in Missions, st \in MissionStatuses :
              Proceeds(r, [NoRequest EXCEPT !.pc = "run_commit", !.mission = m,
                                            !.seenMission = st])
        BY <1>0, <3>2 DEF RunRead
      <4>2. [NoRequest EXCEPT !.pc = "run_commit", !.mission = m,
                              !.seenMission = st].pc = "run_commit"
        BY <3>1
      <4> QED
        BY <4>1, <4>2
    <3>3. CASE RunCommit(r)
      BY <3>1, <3>3 DEF RunCommit
    <3>4. CASE Enqueue(r) \/ EnqueueFails(r)
      BY <1>n, <3>4 DEF Enqueue, EnqueueFails, Finish
    <3> QED
      BY <1>1, <3>2, <3>3, <3>4
  <2>2. UNCHANGED <<sstatus, approval>>
    BY <1>1 DEF RunRead, RunCommit, Enqueue, EnqueueFails, store
  <2>3. \A m \in Missions : mstatus'[m] = "completed" => mstatus[m] = "completed"
    <3>1. CASE RunCommit(r)
      BY <1>0, <3>1 DEF RunCommit, Flushed
    <3>2. CASE mstatus' = mstatus
      BY <3>2
    <3> QED
      BY <1>1, <3>1, <3>2 DEF RunRead, Enqueue, EnqueueFails, store
  <2> QED
    BY <1>a, <1>f, <2>1, <2>2, <2>3
<1>2. CASE DecideRead(r)
  <2>1. PICK s \in Steps, dec \in {"approved", "rejected"} :
          /\ approval[s] = "pending"
          /\ Proceeds(r, [NoRequest EXCEPT !.pc = "decide_load", !.decision = dec,
                                           !.step = s, !.mission = MissionOf[s]])
    BY <1>2 DEF DecideRead
  <2>2. /\ request'[r] = [NoRequest EXCEPT !.pc = "decide_load", !.decision = dec,
                                           !.step = s, !.mission = MissionOf[s]]
        /\ \A p \in Requests \ {r} : request'[p] = request[p]
    BY <1>p, <2>1
  <2>3. request'[r].pc = "decide_load" /\ request'[r].step = s
    BY <2>2 DEF NoRequest
  <2>4. r \in Admins /\ UNCHANGED <<sstatus, approval, mstatus>>
    BY <1>2 DEF DecideRead, store
  <2>5. DecisionSound(r)'
    BY <2>1, <2>3, <2>4 DEF DecisionSound
  <2>6. \A p \in Requests : DecisionSound(p)'
    BY <1>d, <2>2, <2>4, <2>5
  <2> QED
    BY <1>a, <2>4, <2>6
<1>3. CASE DecideLoad(r)
  <2>1. /\ request'[r] = [request[r] EXCEPT !.pc = "decide_commit",
                       !.seenStep = sstatus[request[r].step],
                       !.seenMission = mstatus[request[r].mission]]
        /\ \A p \in Requests \ {r} : request'[p] = request[p]
        /\ UNCHANGED <<sstatus, approval, mstatus>>
    BY <1>3, <1>p DEF DecideLoad, store
  <2>2. /\ request[r].step \in Steps /\ r \in Admins
        /\ approval[request[r].step] = "pending"
        /\ sstatus[request[r].step] = "waiting_approval"
    BY <1>0, <1>3 DEF DecideLoad, DecisionSound, HandlerShape, Agreed, RowsAgree
  <2>3. /\ request'[r].pc = "decide_commit" /\ request'[r].step = request[r].step
        /\ request'[r].seenStep = "waiting_approval"
    BY <1>0, <2>1, <2>2 DEF Handlers
  <2>4. DecisionSound(r)' /\ UNCHANGED approval
    BY <2>1, <2>2, <2>3 DEF DecisionSound
  <2>5. \A p \in Requests : DecisionSound(p)'
    BY <1>d, <2>1, <2>4
  <2> QED
    BY <1>a, <2>1, <2>5
<1>4. CASE DecideCommit(r)
  <2>1. PICK s \in Steps, m \in Missions, dec \in {"approved", "rejected"} :
          s = request[r].step /\ m = request[r].mission /\ dec = request[r].decision
    BY <1>0, <1>4 DEF DecideCommit, HandlerShape
  <2>2. /\ r \in Admins /\ approval[s] = "pending" /\ sstatus[s] = "waiting_approval"
        /\ request[r].seenStep = "waiting_approval" /\ MissionOf[s] = m
    BY <1>0, <1>4, <2>1 DEF DecideCommit, DecisionSound, HandlerShape, Agreed, RowsAgree
  <2>3. DecidedStep(dec) \in {"pending", "rejected"} /\ DecidedMission(dec) \in {"queued", "rejected"}
    BY DEF DecidedStep, DecidedMission
  <2>4. /\ approval' = [approval EXCEPT ![s] = dec]
        /\ sstatus' = [sstatus EXCEPT ![s] = DecidedStep(dec)]
        /\ \A n \in Missions : mstatus'[n] = "completed" => mstatus[n] = "completed"
    BY <1>0, <1>4, <2>1, <2>2, <2>3 DEF DecideCommit, Flushed
  <2>5. /\ request'[r].pc \in {"enqueue", "free"}
        /\ \A p \in Requests \ {r} : request'[p] = request[p]
    <3>1. [NoRequest EXCEPT !.pc = "enqueue", !.mission = m].pc = "enqueue"
      BY DEF NoRequest
    <3> QED
      BY <1>4, <1>p, <1>n, <2>1, <3>1 DEF DecideCommit, Finish
  <2>6. \A p \in Requests : DecisionSound(p)'
    BY <2>2, <2>4, <2>5 DEF Agreed, DecisionSound, OneAdmin
  <2>7. RowsAgree' /\ CallsFresh'
    <3>1. dec = "rejected" <=> DecidedStep(dec) = "rejected"
      BY DEF DecidedStep
    <3> QED
      BY <1>0, <2>2, <2>3, <2>4, <3>1 DEF Agreed, RowsAgree, CallsFresh, RequiresApproval
  <2>8. CompletedMeansAllSteps'
    BY <1>0, <2>1, <2>2, <2>4 DEF Agreed, CompletedMeansAllSteps, StepsOf
  <2>9. ASSUME NEW e \in Executors PROVE ViewFresh(session[e])' /\ PlaceFresh(session[e])'
    <3>1. ViewFresh(session[e]) /\ PlaceFresh(session[e]) /\ SessionShape(session[e])
      BY DEF Agreed, Shape
    <3>2. ViewFresh(session[e])'
      BY <1>0, <2>2, <2>4, <3>1 DEF ViewFresh, Viewing, StepsOf
    <3>3. PlaceFresh(session[e])'
      BY <1>0, <2>2, <2>4, <3>1 DEF PlaceFresh, Viewing, SessionShape, StepsOf, AtStep,
         RequiresApproval
    <3> QED
      BY <3>2, <3>3
  <2> QED
    BY <2>6, <2>7, <2>8, <2>9 DEF Agreed
<1> QED
  BY <1>1, <1>2, <1>3, <1>4 DEF RequestStep, RequestNext, Submit, Handle

(* The death of the process of the local backend *)
LEMMA ProcessCrashAgreed == ASSUME Agreed, ProcessCrash PROVE Agreed'
<1>1. /\ session' = [e \in Executors |-> Closed] /\ UNCHANGED <<store, invoked>>
      /\ request' = [r \in Requests |-> NoRequest]
  BY DEF ProcessCrash
<1>2. \A e \in Executors : ViewFresh(session[e])' /\ PlaceFresh(session[e])'
  BY <1>1 DEF ViewFresh, PlaceFresh, Viewing, Closed, AtStep
<1>3. \A r \in Requests : DecisionSound(r)'
  BY <1>1 DEF DecisionSound, NoRequest
<1> QED
  BY <1>1, <1>2, <1>3 DEF Agreed, RowsAgree, CallsFresh, CompletedMeansAllSteps, store

(* The agreement holds initially. *)
LEMMA InitAgreed == Init => Agreed
<1> SUFFICES ASSUME Init PROVE Agreed
  OBVIOUS
<1>1. \A e \in Executors : ViewFresh(session[e]) /\ PlaceFresh(session[e])
  BY ClosedFresh DEF Init, ExecutorInit
<1>2. \A r \in Requests : DecisionSound(r)
  BY DEF Init, RequestInit, NoRequest, DecisionSound
<1>3. RowsAgree /\ CallsFresh /\ CompletedMeansAllSteps
  BY DEF Init, StoreInit, ExecutorInit, RowsAgree, CallsFresh, CompletedMeansAllSteps
<1> QED
  BY <1>1, <1>2, <1>3 DEF Agreed

(* Every step of the documented deployment keeps the agreement. *)
LEMMA AgreedStep ==
    ASSUME OneWorker, OneAdmin, Shape, Agreed, [Next]_vars
    PROVE  Agreed'
<1>0. Shape'
  BY ShapeStep
<1>1. CASE UNCHANGED vars
  BY <1>1 DEF vars, store, execution, Agreed, RowsAgree, CallsFresh, CompletedMeansAllSteps,
     DecisionSound, ViewFresh, PlaceFresh, Viewing
<1>2. ASSUME NEW e \in Executors, ExecutorStep(e) PROVE Agreed'
  BY <1>2, ExecutorAgreedQuiet, ExecutorAgreedWrites DEF ExecutorStep, ExecutorNext, Advance
<1>3. ASSUME NEW e \in Executors, CrashStep(e) PROVE Agreed'
  BY <1>3, ExecutorAgreedQuiet DEF CrashStep
<1>4. ASSUME NEW r \in Requests, RequestStep(r) PROVE Agreed'
  BY <1>0, <1>4, RequestAgreed
<1> QED
  BY <1>1, <1>2, <1>3, <1>4, ProcessCrashAgreed DEF Next

(***************************************************************************)
(* With one worker and one decision at a time, the tables, the session and *)
(* the handlers agree at all times, whatever crashes and is lost.          *)
(***************************************************************************)
THEOREM Agreement == ASSUME OneWorker, OneAdmin PROVE Spec => [](Shape /\ Agreed)
<1>1. Init => Shape /\ Agreed
  BY InitShape, InitAgreed
<1>2. Shape /\ Agreed /\ [Next]_vars => Shape' /\ Agreed'
  BY ShapeStep, AgreedStep
<1> QED
  BY <1>1, <1>2, PTL DEF Spec

(***************************************************************************)
(* No step has its provider called twice: neither a job delivered twice    *)
(* nor a decision that re-queues the mission makes CallProvider repeat.    *)
(***************************************************************************)
THEOREM CallsOnce == ASSUME OneWorker, OneAdmin PROVE Spec => []AtMostOnceInvocation
<1>1. Agreed => AtMostOnceInvocation
  BY DEF Agreed, CallsFresh, AtMostOnceInvocation
<1> QED
  BY <1>1, Agreement, PTL

(***************************************************************************)
(* A mission with status completed has completed steps: a pass concluded   *)
(* on a stale view cannot have overlooked a decision.                      *)
(***************************************************************************)
THEOREM CompletedIsComplete ==
    ASSUME OneWorker, OneAdmin PROVE Spec => []CompletedMeansAllSteps
<1>1. Agreed => CompletedMeansAllSteps
  BY DEF Agreed
<1> QED
  BY <1>1, Agreement, PTL

----------------------------------------------------------------------------
(* A decision stands, however many workers there are. *)

(* A decision in progress is an administrator's and about an approval that *)
(* nobody has decided: the part of Agreed that takes no single worker.     *)
Deciding ==
    \A r \in Requests : request[r].pc \in {"decide_load", "decide_commit"} =>
        r \in Admins /\ approval[request[r].step] = "pending"

(* A decided approval keeps its decision in this step. *)
Stands ==
    \A s \in Steps : approval[s] \in {"approved", "rejected"}
                        => approval'[s] = approval[s]

(* An executor writes an approval only when there is none. *)
LEMMA ExecutorApproves ==
    ASSUME Shape, NEW e \in Executors, ExecutorStep(e)
    PROVE  \A s \in Steps : approval'[s] # approval[s] => approval[s] = "none"
<1>0. approval \in [Steps -> ApprovalStatuses]
  BY DEF Shape, TypeOK, StoreTypeOK
<1>1. CASE RequestApproval(e)
  BY <1>0, <1>1 DEF RequestApproval
<1>2. CASE approval' = approval
  BY <1>2
<1> QED
  BY <1>1, <1>2 DEF ExecutorStep, ExecutorNext, Advance, Blpop, LoadMission, LoadSteps, Start,
     Conclude, BeginPass, Gate, ApprovalConflict, HoldStep, DenyStep, BeginStep, CallProvider,
     RecordSuccess, RecordFailure, NextPass, Park, Deadlock, Return, store

(* A handler decides the approval it found undecided, and nobody else does.*)
LEMMA HandlerDecides ==
    ASSUME OneAdmin, Shape, Deciding, NEW r \in Requests, RequestStep(r)
    PROVE  Deciding' /\ Stands
<1>0. /\ approval \in [Steps -> ApprovalStatuses]
      /\ request \in [Requests -> Handlers]
      /\ request[r].pc \in {"decide_load", "decide_commit"} => request[r].step \in Steps
  BY DEF Shape, TypeOK, StoreTypeOK, RequestTypeOK, HandlerShape
<1>p. ASSUME NEW q, Proceeds(r, q)
      PROVE  request'[r] = q /\ \A p \in Requests \ {r} : request'[p] = request[p]
  BY <1>0, <1>p DEF Proceeds
<1>n. /\ NoRequest.pc = "free"
      /\ \A m : [NoRequest EXCEPT !.pc = "enqueue", !.mission = m].pc = "enqueue"
  BY DEF NoRequest
<1>1. CASE DecideCommit(r)
  <2>1. PICK s \in Steps : /\ s = request[r].step
                           /\ r \in Admins /\ approval[s] = "pending"
    BY <1>0, <1>1 DEF DecideCommit, Deciding
  <2>2. PICK q : Proceeds(r, q) /\ q.pc \in {"enqueue", "free"}
    BY <1>1, <1>n DEF DecideCommit, Finish
  <2>3. \A p \in Requests \ {r} : request'[p] = request[p]
    BY <1>p, <2>2
  <2>4. \A p \in Requests : request'[p].pc \notin {"decide_load", "decide_commit"}
    BY <1>p, <2>1, <2>2, <2>3 DEF Deciding, OneAdmin
  <2>5. \A t \in Steps : t # s => approval'[t] = approval[t]
    BY <1>0, <1>1, <2>1 DEF DecideCommit
  <2> QED
    BY <2>1, <2>4, <2>5 DEF Deciding, Stands
<1>2. CASE DecideRead(r)
  <2>1. PICK s \in Steps, d \in {"approved", "rejected"} :
          /\ approval[s] = "pending"
          /\ Proceeds(r, [NoRequest EXCEPT !.pc = "decide_load", !.decision = d,
                                           !.step = s, !.mission = MissionOf[s]])
    BY <1>2 DEF DecideRead
  <2>2. [NoRequest EXCEPT !.pc = "decide_load", !.decision = d,
                          !.step = s, !.mission = MissionOf[s]].step = s
    BY DEF NoRequest
  <2>3. r \in Admins /\ approval' = approval
    BY <1>2 DEF DecideRead, store
  <2> QED
    <3>1. request'[r].step = s /\ \A p \in Requests \ {r} : request'[p] = request[p]
      BY <1>p, <2>1, <2>2, Zenon
    <3> QED
      BY <2>1, <2>3, <3>1 DEF Deciding, Stands
<1>3. CASE DecideLoad(r)
  <2>1. /\ Proceeds(r, [request[r] EXCEPT !.pc = "decide_commit",
                                          !.seenStep = sstatus[request[r].step],
                                          !.seenMission = mstatus[request[r].mission]])
        /\ request[r].pc = "decide_load" /\ approval' = approval
    BY <1>3 DEF DecideLoad, store
  <2>2. [request[r] EXCEPT !.pc = "decide_commit", !.seenStep = sstatus[request[r].step],
                           !.seenMission = mstatus[request[r].mission]].step = request[r].step
    BY <1>0 DEF Handlers
  <2> QED
    <3>1. /\ request'[r].step = request[r].step
          /\ \A p \in Requests \ {r} : request'[p] = request[p]
      BY <1>p, <2>1, <2>2, Zenon
    <3> QED
      BY <2>1, <3>1 DEF Deciding, Stands
<1>4. CASE RunRead(r) \/ RunCommit(r) \/ Enqueue(r) \/ EnqueueFails(r)
  <2>1. PICK q : Proceeds(r, q) /\ q.pc \notin {"decide_load", "decide_commit"}
    <3>1. CASE RunRead(r)
      <4>1. PICK m \in Missions :
              Proceeds(r, [NoRequest EXCEPT !.pc = "run_commit", !.mission = m,
                                            !.seenMission = mstatus[m]])
        BY <3>1 DEF RunRead
      <4>2. [NoRequest EXCEPT !.pc = "run_commit", !.mission = m,
                              !.seenMission = mstatus[m]].pc = "run_commit"
        BY DEF NoRequest
      <4> QED
        BY <4>1, <4>2
    <3>2. CASE RunCommit(r) \/ Enqueue(r) \/ EnqueueFails(r)
      BY <1>n, <3>2 DEF RunCommit, Enqueue, EnqueueFails, Finish
    <3> QED
      BY <1>4, <3>1, <3>2
  <2>2. approval' = approval
    BY <1>4 DEF RunRead, RunCommit, Enqueue, EnqueueFails, store
  <2> QED
    BY <1>p, <2>1, <2>2 DEF Deciding, Stands
<1> QED
  BY <1>1, <1>2, <1>3, <1>4 DEF RequestStep, RequestNext, Submit, Handle

(* When decisions do not overlap, each is about an undecided approval. *)
LEMMA DecidingStep ==
    ASSUME OneAdmin, Shape, Deciding, [Next]_vars
    PROVE  Deciding' /\ Stands
<1>0. /\ approval \in [Steps -> ApprovalStatuses]
      /\ request \in [Requests -> Handlers]
      /\ \A r \in Requests : request[r].pc \in {"decide_load", "decide_commit"} =>
            request[r].step \in Steps
  BY DEF Shape, TypeOK, StoreTypeOK, RequestTypeOK, HandlerShape
<1>1. CASE UNCHANGED <<approval, request>>
  BY <1>1 DEF Deciding, Stands
<1>2. ASSUME NEW e \in Executors, ExecutorStep(e) PROVE Deciding' /\ Stands
  <2>1. \A s \in Steps : approval'[s] # approval[s] => approval[s] = "none"
    BY <1>2, ExecutorApproves
  <2>2. request' = request
    BY <1>2 DEF ExecutorStep
  <2>3. Stands
    BY <2>1 DEF Stands
  <2>4. ASSUME NEW r \in Requests, request[r].pc \in {"decide_load", "decide_commit"}
        PROVE  r \in Admins /\ approval'[request[r].step] = "pending"
    BY <1>0, <2>1, <2>4 DEF Deciding
  <2> QED
    BY <2>2, <2>3, <2>4 DEF Deciding
<1>3. ASSUME NEW r \in Requests, RequestStep(r) PROVE Deciding' /\ Stands
  BY <1>3, HandlerDecides
<1>4. ASSUME NEW e \in Executors, CrashStep(e) PROVE Deciding' /\ Stands
  BY <1>1, <1>4 DEF CrashStep, Abandon, store
<1>5. CASE ProcessCrash
  BY <1>5 DEF ProcessCrash, store, NoRequest, Deciding, Stands
<1> QED
  BY <1>1, <1>2, <1>3, <1>4, <1>5 DEF Next, vars, store

(***************************************************************************)
(* A decision stands: the 409 of decide_approval, when no two decisions    *)
(* overlap, and the executors' own requests for approval never reset one,  *)
(* however many workers hold the mission, stale or not.                    *)
(***************************************************************************)
THEOREM DecisionsStand == ASSUME OneAdmin PROVE Spec => DecisionsImmutable
<1>1. Init => Shape /\ Deciding
  BY InitShape DEF Init, RequestInit, NoRequest, Deciding
<1>2. Shape /\ Deciding /\ [Next]_vars => Shape' /\ Deciding'
  BY ShapeStep, DecidingStep
<1>3. Shape /\ Deciding /\ [Next]_vars =>
        [\A s \in Steps : approval[s] \in {"approved", "rejected"}
                              => approval'[s] = approval[s]]_vars
  BY DecidingStep DEF Stands
<1> QED
  BY <1>1, <1>2, <1>3, PTL DEF Spec, DecisionsImmutable

----------------------------------------------------------------------------
(* No mission is left behind, but by a fault that takes it. *)

(* What the queue and the handlers hold of a mission *)
LEMMA LineKept == ASSUME UNCHANGED <<queue, request>> PROVE \A m : InLine(m) => InLine(m)'
  BY DEF InLine, Queued

(* The worker goes on with its mission: that one is attended to, and what  *)
(* its session sees waiting has a decision to come; the others stay.       *)
LEMMA SafeGoesOn ==
    ASSUME OneWorker, Shape, NEW e \in Executors, NEW x, Becomes(e, x),
           UNCHANGED <<queue, request>>, session[e].pc # "idle",
           x.job = session[e].job, Viewing(x),
           \A n \in Missions : n # x.job => mstatus'[n] = mstatus[n],
           \A s \in Steps : Undecided(s) => Undecided(s)',
           \A s \in StepsOf(x.job) : x.view[s] = "waiting_approval" =>
               Undecided(s)' \/ (Viewing(session[e]) /\ session[e].view[s] = "waiting_approval")
    PROVE  \A m \in Missions : Safe(m) => Safe(m)'
<1> SUFFICES ASSUME NEW m \in Missions, Safe(m) PROVE Safe(m)'
  OBVIOUS
<1>1. \A f \in Executors : f = e /\ session'[f] = x
  BY DEF OneWorker, Becomes, Shape, TypeOK, ExecutorTypeOK
<1>2. InLine(m) => InLine(m)'
  BY LineKept
<1>3. CASE m = x.job
  <2>1. Working(m)'
    BY <1>1, <1>3 DEF Working, Viewing
  <2>2. \A s \in StepsOf(m) : x.view[s] = "waiting_approval" => InLine(m)' \/ Undecided(s)'
    BY <1>2, <1>3 DEF Safe, StepsOf
  <2> QED
    BY <1>1, <2>1, <2>2 DEF Safe, StepsOf
<1>4. CASE m # x.job
  <2>1. ~Working(m) /\ mstatus'[m] = mstatus[m]
    BY <1>1, <1>4 DEF Working
  <2>2. \A f \in Executors : session'[f].job # m
    BY <1>1, <1>4
  <2> QED
    BY <1>2, <2>1, <2>2 DEF Safe, StepsOf
<1> QED
  BY <1>3, <1>4

(* The worker lets go of its mission: it is over, or safe without a worker. *)
LEMMA SafeLetsGo ==
    ASSUME OneWorker, Shape, NEW e \in Executors, Close(e),
           UNCHANGED <<queue, request, approval>>,
           \A n \in Missions : n # session[e].job => mstatus'[n] = mstatus[n]
    PROVE  \A m \in Missions :
             /\ Safe(m) /\ m # session[e].job => Safe(m)'
             /\ Safe(m) /\ ~Working(m) /\ mstatus'[m] = mstatus[m] => Safe(m)'
             /\ mstatus'[m] \in FinalStatuses => Safe(m)'
             /\ /\ mstatus'[m] = "waiting_approval"
                /\ InLine(m) \/ \E s \in StepsOf(m) : Undecided(s)
                => Safe(m)'
<1> TAKE m \in Missions
<1>1. \A f \in Executors : f = e /\ session'[f] = Closed
  BY DEF OneWorker, Close, Becomes, Shape, TypeOK, ExecutorTypeOK
<1>2. \A f \in Executors : session'[f].job # m
  BY <1>1, SentinelAssumption DEF Closed
<1>3. (InLine(m) => InLine(m)') /\ \A s \in Steps : Undecided(s) => Undecided(s)'
  BY LineKept DEF Undecided
<1>4. m # session[e].job => ~Working(m)
  BY <1>1 DEF Working
<1> QED
  BY <1>2, <1>3, <1>4 DEF Safe, FinalStatuses, StepsOf

(* Taking a job from the queue brings its mission a worker. *)
LEMMA BlpopSafe ==
    ASSUME OneWorker, Shape, NEW e \in Executors, Blpop(e), UNCHANGED request
    PROVE  \A m \in Missions : Safe(m) => Safe(m)'
<1> SUFFICES ASSUME NEW m \in Missions, Safe(m) PROVE Safe(m)'
  OBVIOUS
<1>1. PICK n \in Missions :
        Take(n) /\ Becomes(e, [Closed EXCEPT !.pc = "load_mission", !.job = n])
  BY DEF Blpop
<1>2. PICK x : x = [Closed EXCEPT !.pc = "load_mission", !.job = n]
  OBVIOUS
<1>3. x.pc = "load_mission" /\ x.job = n
  BY <1>2 DEF Closed
<1>4. \A f \in Executors : f = e /\ session'[f] = x
  BY <1>1, <1>2 DEF OneWorker, Becomes, Shape, TypeOK, ExecutorTypeOK
<1>5. session[e].pc = "idle" /\ UNCHANGED <<mstatus, approval>>
  BY DEF Blpop, store
<1>6. CASE m = n
  BY <1>3, <1>4, <1>6 DEF Safe, Working, Viewing
<1>7. CASE m # n
  <2>1. Queued(m) => Queued(m)'
    <3> SUFFICES ASSUME NEW k \in 1..Len(queue), queue[k] = m PROVE Queued(m)'
      BY DEF Queued
    <3>1. PICK i \in 1..Len(queue) : queue[i] = n /\ queue' = Without(i)
      BY <1>1 DEF Take
    <3>2. Len(queue) \in Nat /\ i # k
      BY <1>7, <3>1 DEF Shape, TypeOK, QueueTypeOK
    <3>3. /\ Len(queue) - 1 \in Nat
          /\ queue' = [j \in 1..(Len(queue) - 1) |-> IF j < i THEN queue[j] ELSE queue[j + 1]]
      BY <3>1, <3>2 DEF Without
    <3>4. Len(queue') = Len(queue) - 1
      BY <3>3
    <3>5. CASE k < i
      BY <3>2, <3>3, <3>4, <3>5 DEF Queued
    <3>6. CASE k > i
      <4>1. k - 1 \in 1..(Len(queue) - 1) /\ ~(k - 1 < i) /\ (k - 1) + 1 = k
        BY <3>2, <3>6
      <4>2. queue'[k - 1] = queue[k]
        BY <3>3, <4>1
      <4> QED
        BY <3>4, <4>1, <4>2 DEF Queued
    <3> QED
      BY <3>2, <3>5, <3>6
  <2>2. InLine(m) => InLine(m)'
    BY <2>1 DEF InLine
  <2>3. ~Working(m)
    BY <1>4, <1>5 DEF Working
  <2> QED
    BY <1>3, <1>4, <1>5, <1>7, <2>2, <2>3 DEF Safe, Viewing, Undecided, StepsOf
<1> QED
  BY <1>6, <1>7

(* Whatever the worker does, short of dying, leaves no mission behind. *)
LEMMA ExecutorSafe ==
    ASSUME OneWorker, Shape, Agreed, NEW e \in Executors, Advance(e), UNCHANGED request
    PROVE  \A m \in Missions : Safe(m) => Safe(m)'
<1>0. /\ SessionShape(session[e]) /\ ViewFresh(session[e]) /\ PlaceFresh(session[e])
      /\ session[e].view \in [Steps -> StepStatuses] /\ session[e] \in Sessions
      /\ mstatus \in [Missions -> MissionStatuses]
      /\ sstatus \in [Steps -> StepStatuses] /\ approval \in [Steps -> ApprovalStatuses]
  BY DEF Shape, SessionShape, Sessions, Agreed, TypeOK, StoreTypeOK
<1>1. CASE LoadMission(e)
  <2>1. PICK x : x = [session[e] EXCEPT !.pc = "load_steps",
                                        !.loaded = mstatus[session[e].job]]
    OBVIOUS
  <2>2. /\ x.pc = "load_steps" /\ x.loaded = mstatus[x.job] /\ x.job = session[e].job
    BY <1>0, <2>1 DEF Sessions
  <2>3. \A f \in Executors : f = e /\ session'[f] = x
    BY <1>1, <2>1 DEF LoadMission, OneWorker, Becomes, Shape, TypeOK, ExecutorTypeOK
  <2>4. UNCHANGED <<mstatus, approval, queue>>
    BY <1>1 DEF LoadMission, store
  <2> SUFFICES ASSUME NEW m \in Missions, Safe(m) PROVE Safe(m)'
    OBVIOUS
  <2>5. Working(m) => Working(m)' \/ mstatus'[m] \in FinalStatuses
    BY <2>2, <2>3, <2>4 DEF Working
  <2> QED
    BY <2>2, <2>3, <2>4, <2>5, LineKept DEF Safe, Viewing, FinalStatuses, Undecided, StepsOf
<1>2. CASE LoadSteps(e)
  <2>1. UNCHANGED <<mstatus, approval, queue>>
    BY <1>2 DEF LoadSteps, store
  <2>2. CASE session[e].loaded \in FinalStatuses
    <3>1. Close(e) /\ \A m \in Missions : ~Working(m)
      BY <1>2, <2>2 DEF LoadSteps, Working, OneWorker
    <3> QED
      BY <2>1, <3>1, SafeLetsGo
  <2>3. CASE session[e].loaded \notin FinalStatuses
    <3>1. PICK x : x = [session[e] EXCEPT !.pc = "start",
                                          !.view = LoadedView(session[e].job)]
      OBVIOUS
    <3>2. x.pc = "start" /\ x.job = session[e].job /\ x.view = LoadedView(session[e].job)
      BY <1>0, <3>1 DEF Sessions
    <3>3. \A s \in StepsOf(x.job) : x.view[s] = "waiting_approval" => Undecided(s)'
      BY <2>1, <3>2 DEF LoadedView, StepsOf, Agreed, RowsAgree, Undecided
    <3> QED
      BY <1>2, <2>1, <2>3, <3>1, <3>2, <3>3, SafeGoesOn DEF LoadSteps, Viewing, Undecided
  <2> QED
    BY <2>2, <2>3
<1>3. CASE Conclude(e) \/ Park(e) \/ Deadlock(e)
  <2>1. session[e].job \in Missions /\ Viewing(session[e])
    BY <1>0, <1>3 DEF Conclude, Park, Deadlock, SessionShape, Viewing
  <2>2. PICK m \in Missions, st \in FinalStatuses \cup {"waiting_approval"} :
          /\ m = session[e].job /\ mstatus' = [mstatus EXCEPT ![m] = st]
          /\ st = "waiting_approval" => Park(e)
    <3>1. CASE Conclude(e)
      <4>1. Verdict(e) \in FinalStatuses
        BY <3>1 DEF Conclude, Verdict, FinalStatuses
      <4> QED
        BY <2>1, <3>1, <4>1 DEF Conclude, Return, FinalStatuses
    <3>2. CASE Park(e) \/ Deadlock(e)
      BY <2>1, <3>2 DEF Park, Deadlock, Return, FinalStatuses
    <3> QED
      BY <1>3, <3>1, <3>2
  <2>3. Close(e) /\ UNCHANGED <<queue, approval>>
    BY <1>3 DEF Conclude, Park, Deadlock, Return
  <2>4. mstatus'[m] = st /\ \A n \in Missions : n # m => mstatus'[n] = mstatus[n]
    BY <1>0, <2>2
  <2>5. st = "waiting_approval" /\ Safe(m)
          => InLine(m) \/ \E s \in StepsOf(m) : Undecided(s)
    BY <2>1, <2>2 DEF Park, Sees, Safe
  <2> QED
    BY <2>2, <2>3, <2>4, <2>5, SafeLetsGo
<1>4. CASE \/ Start(e) \/ BeginPass(e) \/ Gate(e) \/ RequestApproval(e) \/ BeginStep(e)
           \/ CallProvider(e) \/ RecordSuccess(e) \/ RecordFailure(e) \/ NextPass(e)
  <2>0. /\ session[e].pc \in {"start", "loop", "pass", "ask", "begin", "call", "record"}
        /\ UNCHANGED queue
    BY <1>4 DEF Start, BeginPass, Gate, RequestApproval, BeginStep, CallProvider,
       RecordSuccess, RecordFailure, NextPass
  <2>1. session[e].job \in Missions /\ Viewing(session[e])
    BY <1>0, <2>0 DEF SessionShape, Viewing
  <2>2. \A n \in Missions : n # session[e].job => mstatus'[n] = mstatus[n]
    <3>1. CASE Start(e)
      BY <1>0, <2>1, <3>1 DEF Start
    <3>2. CASE UNCHANGED mstatus
      BY <3>2
    <3> QED
      BY <1>4, <3>1, <3>2 DEF BeginPass, Gate, RequestApproval, BeginStep, CallProvider,
         RecordSuccess, RecordFailure, NextPass, store
  <2>3. \A s \in Steps : Undecided(s) => Undecided(s)'
    <3>1. CASE RequestApproval(e)
      BY <1>0, <3>1 DEF RequestApproval, Undecided
    <3>2. CASE UNCHANGED approval
      BY <3>2 DEF Undecided
    <3> QED
      BY <1>4, <3>1, <3>2 DEF Start, BeginPass, Gate, BeginStep, CallProvider,
         RecordSuccess, RecordFailure, NextPass, store
  <2>4. ASSUME NEW x, Becomes(e, x), x.job = session[e].job, Viewing(x),
               \/ x.view = session[e].view
               \/ \E st \in {"running", "completed", "failed"} :
                     x.view = [session[e].view EXCEPT ![session[e].cur] = st]
        PROVE  \A m \in Missions : Safe(m) => Safe(m)'
    <3>1. \A s \in StepsOf(x.job) : x.view[s] = "waiting_approval"
              => session[e].view[s] = "waiting_approval"
      BY <1>0, <2>4 DEF StepsOf
    <3> QED
      BY <2>0, <2>1, <2>2, <2>3, <2>4, <3>1, SafeGoesOn
  <2>5. CASE Start(e) \/ BeginPass(e) \/ CallProvider(e) \/ NextPass(e)
    <3>1. PICK x : /\ Becomes(e, x) /\ x.job = session[e].job /\ x.view = session[e].view
                   /\ x.pc \in {"loop", "pass", "record"}
      <4>1. \A z : z = [session[e] EXCEPT !.pc = "loop", !.loaded = "running"]
              \/ z = [session[e] EXCEPT !.pc = "pass", !.todo = Ready(e), !.progressed = FALSE]
              \/ z = [session[e] EXCEPT !.pc = "record"]
              \/ z = [session[e] EXCEPT !.pc = "loop"]
              => /\ z.job = session[e].job /\ z.view = session[e].view
                 /\ z.pc \in {"loop", "pass", "record"}
        BY <1>0 DEF Sessions
      <4> QED
        BY <2>5, <4>1 DEF Start, BeginPass, CallProvider, NextPass
    <3> QED
      BY <2>4, <3>1 DEF Viewing
  <2>6. CASE Gate(e)
    <3>1. PICK s \in session[e].todo :
            Becomes(e, [session[e] EXCEPT
                           !.pc = Ruling(s), !.cur = s, !.todo = @ \ {s},
                           !.progressed = @ \/ Ruling(s) = "begin"])
      BY <2>6 DEF Gate
    <3>2. PICK x : x = [session[e] EXCEPT
                           !.pc = Ruling(s), !.cur = s, !.todo = @ \ {s},
                           !.progressed = @ \/ Ruling(s) = "begin"]
      OBVIOUS
    <3>3. Ruling(s) \in {"ask", "begin", "deny", "hold"}
      BY <1>0 DEF Ruling, StepsOf, SessionShape, ApprovalStatuses
    <3>4. x.job = session[e].job /\ x.view = session[e].view /\ Viewing(x)
      BY <1>0, <3>2, <3>3 DEF Sessions, Viewing
    <3> QED
      BY <2>4, <3>1, <3>2, <3>4
  <2>7. CASE RequestApproval(e)
    <3>1. PICK s \in Steps : s = session[e].cur
      BY <1>0, <2>7 DEF RequestApproval, SessionShape, AtStep, StepsOf
    <3>2. PICK x : x = [session[e] EXCEPT !.pc = "pass",
                            !.view = [@ EXCEPT ![s] = "waiting_approval"],
                            !.cur = NoStep]
      OBVIOUS
    <3>3. Becomes(e, x) /\ approval' = [approval EXCEPT ![s] = "pending"]
      BY <2>7, <3>1, <3>2 DEF RequestApproval, SetStep
    <3>4. /\ x.job = session[e].job /\ x.pc = "pass"
          /\ x.view = [session[e].view EXCEPT ![s] = "waiting_approval"]
      BY <1>0, <3>2 DEF Sessions
    <3>5. \A t \in StepsOf(x.job) : x.view[t] = "waiting_approval"
              => Undecided(t)' \/ session[e].view[t] = "waiting_approval"
      BY <1>0, <3>3, <3>4 DEF Undecided, StepsOf
    <3> QED
      BY <2>0, <2>1, <2>2, <2>3, <3>3, <3>4, <3>5, SafeGoesOn DEF Viewing
  <2>8. CASE BeginStep(e) \/ RecordSuccess(e) \/ RecordFailure(e)
    <3>0. \E st \in {"running", "completed", "failed"} : \E x :
            /\ Becomes(e, x) /\ x.job = session[e].job /\ x.pc \in {"call", "pass"}
            /\ x.view = [session[e].view EXCEPT ![session[e].cur] = st]
      <4>1. CASE BeginStep(e)
        <5>1. PICK x : x = [session[e] EXCEPT !.pc = "call",
                       !.view = [@ EXCEPT ![session[e].cur] = "running"],
                       !.cur = IF "call" = "pass" THEN NoStep ELSE @]
          OBVIOUS
        <5>2. Becomes(e, x)
          BY <4>1, <5>1 DEF BeginStep, SetStep
        <5>3. /\ x.job = session[e].job /\ x.pc = "call"
              /\ x.view = [session[e].view EXCEPT ![session[e].cur] = "running"]
          BY <1>0, <5>1 DEF Sessions
        <5> QED
          BY <5>2, <5>3
      <4>2. CASE RecordSuccess(e)
        <5>1. PICK x : x = [session[e] EXCEPT !.pc = "pass",
                       !.view = [@ EXCEPT ![session[e].cur] = "completed"],
                       !.cur = IF "pass" = "pass" THEN NoStep ELSE @]
          OBVIOUS
        <5>2. Becomes(e, x)
          BY <4>2, <5>1 DEF RecordSuccess, SetStep
        <5>3. /\ x.job = session[e].job /\ x.pc = "pass"
              /\ x.view = [session[e].view EXCEPT ![session[e].cur] = "completed"]
          BY <1>0, <5>1 DEF Sessions
        <5> QED
          BY <5>2, <5>3
      <4>3. CASE RecordFailure(e)
        <5>1. PICK x : x = [session[e] EXCEPT !.pc = "pass",
                       !.view = [@ EXCEPT ![session[e].cur] = "failed"],
                       !.cur = NoStep, !.todo = {}]
          OBVIOUS
        <5>2. Becomes(e, x)
          BY <4>3, <5>1 DEF RecordFailure
        <5>3. /\ x.job = session[e].job /\ x.pc = "pass"
              /\ x.view = [session[e].view EXCEPT ![session[e].cur] = "failed"]
          BY <1>0, <5>1 DEF Sessions
        <5> QED
          BY <5>2, <5>3
      <4> QED
        BY <2>8, <4>1, <4>2, <4>3
    <3>1. PICK st \in {"running", "completed", "failed"} : \E x :
            /\ Becomes(e, x) /\ x.job = session[e].job /\ x.pc \in {"call", "pass"}
            /\ x.view = [session[e].view EXCEPT ![session[e].cur] = st]
      BY <3>0
    <3>2. PICK x :
            /\ Becomes(e, x) /\ x.job = session[e].job /\ x.pc \in {"call", "pass"}
            /\ x.view = [session[e].view EXCEPT ![session[e].cur] = st]
      BY <3>1
    <3> QED
      BY <2>4, <3>2 DEF Viewing
  <2> QED
    BY <1>4, <2>5, <2>6, <2>7, <2>8
<1>5. ~(ApprovalConflict(e) \/ HoldStep(e) \/ DenyStep(e))
  BY <1>0 DEF ApprovalConflict, HoldStep, DenyStep, PlaceFresh
<1> QED
  BY <1>1, <1>2, <1>3, <1>4, <1>5 DEF Advance

(* Whatever the handlers do, if the hand-over works, leaves none behind. *)
LEMMA RequestSafe ==
    ASSUME Shape, Agreed, NEW r \in Requests, Submit(r) \/ Handle(r), UNCHANGED execution
    PROVE  \A m \in Missions : Safe(m) => Safe(m)'
<1> USE PlanAssumption, SentinelAssumption
<1>0. /\ HandlerShape(request[r]) /\ DecisionSound(r)
      /\ request \in [Requests -> Handlers] /\ UNCHANGED session
      /\ mstatus \in [Missions -> MissionStatuses] /\ QueueTypeOK
      /\ sstatus \in [Steps -> StepStatuses] /\ approval \in [Steps -> ApprovalStatuses]
  BY DEF Shape, TypeOK, StoreTypeOK, RequestTypeOK, Agreed, execution
<1>p. ASSUME NEW q, Proceeds(r, q)
      PROVE  request'[r] = q /\ \A p \in Requests \ {r} : request'[p] = request[p]
  BY <1>0, <1>p DEF Proceeds
<1>l. ASSUME request[r].pc # "enqueue", NEW q, Proceeds(r, q), UNCHANGED queue
      PROVE  \A m \in Missions : InLine(m) => InLine(m)'
  <2> SUFFICES ASSUME NEW m \in Missions, InLine(m) PROVE InLine(m)'
    OBVIOUS
  <2>1. CASE Queued(m)
    BY <1>l, <2>1 DEF Queued, InLine
  <2>2. ASSUME NEW p \in Requests, request[p].pc = "enqueue", request[p].mission = m
        PROVE  InLine(m)'
    BY <1>l, <1>p, <2>2 DEF InLine
  <2> QED
    BY <2>1, <2>2 DEF InLine
<1>q. ASSUME NEW m \in Missions, Safe(m), InLine(m) => InLine(m)', UNCHANGED <<mstatus, approval>>
      PROVE  Safe(m)'
  BY <1>0, <1>q DEF Safe, Working, Viewing, Undecided, StepsOf
<1>e. ASSUME NEW m \in Missions, Proceeds(r, [NoRequest EXCEPT !.pc = "enqueue", !.mission = m])
      PROVE  InLine(m)' /\ Safe(m)'
  <2>1. request'[r] = [NoRequest EXCEPT !.pc = "enqueue", !.mission = m]
    BY <1>e, <1>p
  <2>2. request'[r].pc = "enqueue" /\ request'[r].mission = m
    BY <2>1 DEF NoRequest
  <2>3. InLine(m)'
    BY <2>2 DEF InLine
  <2> QED
    BY <2>3 DEF Safe
<1>1. CASE RunRead(r) \/ DecideRead(r) \/ DecideLoad(r)
  <2>1. PICK q : Proceeds(r, q)
    BY <1>1 DEF RunRead, DecideRead, DecideLoad
  <2>2. request[r].pc # "enqueue" /\ UNCHANGED <<queue, mstatus, approval>>
    BY <1>1 DEF RunRead, DecideRead, DecideLoad, store
  <2> QED
    BY <1>l, <1>q, <2>1, <2>2
<1>2. CASE RunCommit(r)
  <2>1. PICK n \in Missions : n = request[r].mission
    BY <1>0, <1>2 DEF RunCommit, HandlerShape
  <2>2. Proceeds(r, [NoRequest EXCEPT !.pc = "enqueue", !.mission = n])
    BY <1>2, <2>1 DEF RunCommit
  <2>3. /\ \A m \in Missions : m # n => mstatus'[m] = mstatus[m]
        /\ UNCHANGED <<approval, queue>> /\ request[r].pc # "enqueue"
    BY <1>0, <1>2, <2>1 DEF RunCommit
  <2>4. \A m \in Missions : InLine(m) => InLine(m)'
    BY <1>l, <2>2, <2>3
  <2>5. ASSUME NEW m \in Missions, Safe(m), m # n PROVE Safe(m)'
    BY <1>0, <2>3, <2>4, <2>5 DEF Safe, Working, Viewing, Undecided, StepsOf
  <2> QED
    BY <1>e, <2>2, <2>5
<1>3. CASE DecideCommit(r)
  <2>1. PICK s \in Steps, n \in Missions, dec \in {"approved", "rejected"} :
          s = request[r].step /\ n = request[r].mission /\ dec = request[r].decision
    BY <1>0, <1>3 DEF DecideCommit, HandlerShape
  <2>2. MissionOf[s] = n
    BY <1>0, <1>3, <2>1 DEF DecideCommit, HandlerShape
  <2>3. /\ \A m \in Missions : m # n => mstatus'[m] = mstatus[m]
        /\ mstatus'[n] \in {mstatus[n], DecidedMission(dec)}
        /\ approval' = [approval EXCEPT ![s] = dec]
        /\ UNCHANGED queue /\ request[r].pc # "enqueue"
    BY <1>0, <1>3, <2>1 DEF DecideCommit, Flushed
  <2>4. PICK q : Proceeds(r, q)
    BY <1>3 DEF DecideCommit, Finish
  <2>5. \A m \in Missions : InLine(m) => InLine(m)'
    BY <1>l, <2>3, <2>4
  <2>6. ASSUME NEW m \in Missions, Safe(m), m # n PROVE Safe(m)'
    <3>1. \A t \in StepsOf(m) : Undecided(t)' <=> Undecided(t)
      BY <1>0, <2>2, <2>3, <2>6 DEF StepsOf, Undecided
    <3> QED
      BY <1>0, <2>3, <2>5, <2>6, <3>1 DEF Safe, Working, Viewing, StepsOf
  <2>7. CASE dec = "approved"
    <3>1. Proceeds(r, [NoRequest EXCEPT !.pc = "enqueue", !.mission = n])
      BY <1>3, <2>1, <2>7 DEF DecideCommit
    <3> QED
      BY <1>e, <2>6, <3>1
  <2>8. CASE dec = "rejected"
    <3>1. s \in StepsOf(n) /\ \A t \in Steps : Undecided(t) => Undecided(t)'
      BY <1>0, <2>2, <2>3, <2>8 DEF Undecided, StepsOf
    <3>2. Undecided(s)' /\ mstatus'[n] \in {mstatus[n], "rejected"}
      BY <1>0, <2>3, <2>8 DEF Undecided, DecidedMission
    <3>3. Safe(n) => Safe(n)'
      BY <1>0, <2>5, <3>1, <3>2 DEF Safe, Working, Viewing, StepsOf
    <3> QED
      BY <2>6, <3>3
  <2> QED
    BY <2>7, <2>8
<1>4. CASE Enqueue(r)
  <2>1. PICK n \in Missions : n = request[r].mission
    BY <1>0, <1>4 DEF Enqueue, HandlerShape
  <2>2. /\ queue' = Append(queue, n) /\ UNCHANGED <<mstatus, approval>>
        /\ Proceeds(r, NoRequest)
    BY <1>4, <2>1 DEF Enqueue, Push, Finish, store
  <2>3. ASSUME NEW m \in Missions, InLine(m) PROVE InLine(m)'
    <3>1. Queued(m) \/ m = n => Queued(m)'
      BY <1>0, <2>2 DEF QueueTypeOK, Queued
    <3>2. ASSUME NEW p \in Requests, request[p].pc = "enqueue", request[p].mission = m
          PROVE  InLine(m)'
      BY <1>p, <2>1, <2>2, <3>1, <3>2 DEF InLine
    <3> QED
      BY <2>3, <3>1, <3>2 DEF InLine
  <2> QED
    BY <1>q, <2>2, <2>3
<1> QED
  BY <1>1, <1>2, <1>3, <1>4 DEF Submit, Handle

(* Without a fault, a step of the system leaves no mission behind. *)
LEMMA StepSafe ==
    ASSUME OneWorker, Shape, Agreed, [Next]_vars, UNCHANGED faults
    PROVE  \A m \in Missions : Safe(m) => Safe(m)'
<1>f. ASSUME NEW kind, Fault(kind) PROVE FALSE
  BY <1>f DEF Fault, Shape, TypeOK, StoreTypeOK
<1>1. CASE UNCHANGED vars
  BY <1>1, LineKept DEF vars, store, execution, Safe, Working, Viewing, Undecided, StepsOf
<1>2. ASSUME NEW e \in Executors, ExecutorStep(e) PROVE \A m \in Missions : Safe(m) => Safe(m)'
  BY <1>2, BlpopSafe, ExecutorSafe DEF ExecutorStep, ExecutorNext
<1>3. ASSUME NEW r \in Requests, RequestStep(r) PROVE \A m \in Missions : Safe(m) => Safe(m)'
  BY <1>3, <1>f, RequestSafe DEF RequestStep, RequestNext, EnqueueFails
<1> QED
  BY <1>1, <1>2, <1>3, <1>f DEF Next, CrashStep, Abandon, ProcessCrash

(* No step changes the backend. *)
LEMMA BackendStays == [Next]_vars => backend' = backend
BY DEF Next, vars, ExecutorStep, RequestStep, CrashStep, ProcessCrash

(* A fault of the Redis backend costs at most one mission. *)
LEMMA FaultSafe ==
    ASSUME OneWorker, Shape, Agreed, backend = "redis", [Next]_vars, faults' # faults
    PROVE  /\ faults' = faults + 1
           /\ \E lost : \A m \in Missions : m # lost /\ Safe(m) => Safe(m)'
<1>1. CASE \E e \in Executors : CrashStep(e)
  <2>1. PICK e \in Executors : CrashStep(e)
    BY <1>1
  <2>2. /\ Close(e) /\ UNCHANGED <<queue, request, approval, mstatus>>
        /\ faults' = faults + 1
    BY <2>1 DEF CrashStep, Abandon, Fault, store
  <2>3. \A m \in Missions : m # session[e].job /\ Safe(m) => Safe(m)'
    BY <2>2, SafeLetsGo
  <2> QED
    BY <2>2, <2>3
<1>2. CASE \E r \in Requests : RequestStep(r) /\ EnqueueFails(r)
  <2>1. PICK r \in Requests : RequestStep(r) /\ EnqueueFails(r)
    BY <1>2
  <2>2. /\ UNCHANGED <<queue, session, approval, mstatus>> /\ faults' = faults + 1
        /\ request' = [request EXCEPT ![r] = NoRequest]
        /\ request \in [Requests -> Handlers]
    BY <2>1 DEF RequestStep, EnqueueFails, Fault, store, execution, Finish, Proceeds,
       Shape, TypeOK, RequestTypeOK
  <2>3. ASSUME NEW m \in Missions, m # request[r].mission, Safe(m) PROVE Safe(m)'
    <3>1. InLine(m) => InLine(m)'
      BY <2>2, <2>3 DEF InLine, Queued
    <3> QED
      BY <2>2, <2>3, <3>1 DEF Safe, Working, Viewing, Undecided, StepsOf
  <2> QED
    BY <2>2, <2>3
<1>3. CASE ProcessCrash
  BY <1>3 DEF ProcessCrash
<1>4. CASE UNCHANGED faults
  BY <1>4
<1> QED
  BY <1>1, <1>2, <1>3, <1>4 DEF Next, vars, ExecutorStep, ExecutorNext, Advance, RequestStep,
     RequestNext, Submit, Handle, Blpop, LoadMission, LoadSteps, Start, Conclude, BeginPass,
     Gate, RequestApproval, ApprovalConflict, HoldStep, DenyStep, BeginStep, CallProvider,
     RecordSuccess, RecordFailure, NextPass, Park, Deadlock, Return, RunRead, RunCommit,
     DecideRead, DecideLoad, DecideCommit, Enqueue

(* A mission left behind is one that was not safe. *)
LEMMA SafeIsAttended == \A m \in Missions : Shape /\ Safe(m) => ~LeftBehind(m)
<1> SUFFICES ASSUME NEW m \in Missions, Shape, Safe(m), LeftBehind(m) PROVE FALSE
  OBVIOUS
<1>1. ~InLine(m) /\ ~Working(m)
  BY DEF LeftBehind, Attended, InLine, Working
<1>2. mstatus[m] \in {"queued", "running", "waiting_approval"}
  BY DEF LeftBehind, Shape, TypeOK, StoreTypeOK, MissionStatuses, FinalStatuses
<1> QED
  BY <1>1, <1>2 DEF Safe, LeftBehind, Undecided

(* Before anything is submitted, everything is safe. *)
LEMMA InitSafe == Init => \A m \in Missions : Safe(m)
  BY SentinelAssumption DEF Init, StoreInit, ExecutorInit, Closed, Safe

(***************************************************************************)
(* While no fault happens, one worker and one decision at a time leave no  *)
(* submitted mission without a job, a worker or a decision to come.        *)
(***************************************************************************)
THEOREM NoneLeftBehind ==
    ASSUME OneWorker, OneAdmin, FaultKinds = {} PROVE Spec => []NotLeftBehind
<1> DEFINE AllSafe == \A m \in Missions : Safe(m)
<1>1. Init => AllSafe
  BY InitSafe
<1>2. Shape /\ Agreed /\ AllSafe /\ [Next]_vars => AllSafe'
  <2> SUFFICES ASSUME Shape, Agreed, AllSafe, [Next]_vars PROVE AllSafe'
    OBVIOUS
  <2>1. UNCHANGED faults
    BY DEF Next, vars, ExecutorStep, ExecutorNext, Advance, RequestStep, CrashStep, Abandon,
     ProcessCrash, EnqueueFails, Fault, RequestNext, Submit, Handle, Blpop, LoadMission,
     LoadSteps, Start, Conclude, BeginPass, Gate, RequestApproval, ApprovalConflict, HoldStep,
     DenyStep, BeginStep, CallProvider, RecordSuccess, RecordFailure, NextPass, Park,
     Deadlock, Return, RunRead, RunCommit, DecideRead, DecideLoad, DecideCommit, Enqueue
  <2> QED
    BY <2>1, StepSafe
<1>3. Shape /\ AllSafe => NotLeftBehind
  BY SafeIsAttended DEF NotLeftBehind
<1> QED
  BY <1>1, <1>2, <1>3, Agreement, PTL DEF Spec

(***************************************************************************)
(* A lost worker or a lost hand-over to Redis costs at most one mission.   *)
(***************************************************************************)
THEOREM FaultsCostOneEach ==
    ASSUME OneWorker, OneAdmin, IsFiniteSet(Missions)
    PROVE  Spec => []FaultsStrandOne
<1> DEFINE Few == backend = "redis" => Cardinality(Stranded) <= faults
<1>0. IsFiniteSet(Stranded) /\ Cardinality(Stranded) \in Nat
  BY FS_Subset, FS_CardinalityType DEF Stranded
<1>1. Init => Few
  <2> SUFFICES ASSUME Init PROVE Few
    OBVIOUS
  <2>1. Stranded = {}
    BY InitSafe DEF Stranded
  <2> QED
    BY <2>1, FS_EmptySet DEF Init, StoreInit
<1>2. Shape /\ Agreed /\ Few /\ [Next]_vars => Few'
  <2> SUFFICES ASSUME Shape, Agreed, Few, [Next]_vars, backend' = "redis"
               PROVE  Cardinality(Stranded') <= faults'
    OBVIOUS
  <2>0. faults \in Nat /\ backend = "redis"
    BY BackendStays DEF Shape, TypeOK, StoreTypeOK
  <2>1. CASE UNCHANGED faults
    <3>1. Stranded' \subseteq Stranded
      BY <2>1, StepSafe DEF Stranded
    <3>2. IsFiniteSet(Stranded') /\ Cardinality(Stranded') <= Cardinality(Stranded)
          /\ Cardinality(Stranded') \in Nat
      BY <1>0, <3>1, FS_Subset, FS_CardinalityType
    <3> QED
      BY <1>0, <2>0, <2>1, <3>2
  <2>2. CASE faults' # faults
    <3>1. PICK lost : faults' = faults + 1
                      /\ \A m \in Missions : m # lost /\ Safe(m) => Safe(m)'
      BY <2>0, <2>2, FaultSafe
    <3>2. Stranded' \subseteq Stranded \cup {lost}
      BY <3>1 DEF Stranded
    <3>3. /\ IsFiniteSet(Stranded \cup {lost})
          /\ Cardinality(Stranded \cup {lost}) <= Cardinality(Stranded) + 1
          /\ Cardinality(Stranded \cup {lost}) \in Nat
      <4>1. IsFiniteSet(Stranded \cup {lost})
            /\ Cardinality(Stranded \cup {lost})
                 \in {Cardinality(Stranded), Cardinality(Stranded) + 1}
        BY <1>0, FS_AddElement
      <4> QED
        BY <1>0, <4>1
    <3>4. Cardinality(Stranded') <= Cardinality(Stranded \cup {lost})
          /\ Cardinality(Stranded') \in Nat
      BY <3>2, <3>3, FS_Subset, FS_CardinalityType
    <3> QED
      BY <1>0, <2>0, <3>1, <3>3, <3>4
  <2> QED
    BY <2>1, <2>2
<1>3. Shape /\ Few => FaultsStrandOne
  <2> SUFFICES ASSUME Shape, Few PROVE FaultsStrandOne
    OBVIOUS
  <2>1. {m \in Missions : LeftBehind(m)} \subseteq Stranded
    BY SafeIsAttended DEF Stranded
  <2>2. /\ Cardinality({m \in Missions : LeftBehind(m)}) <= Cardinality(Stranded)
        /\ Cardinality({m \in Missions : LeftBehind(m)}) \in Nat
    BY <1>0, <2>1, FS_Subset, FS_CardinalityType
  <2>3. faults \in Nat
    BY DEF Shape, TypeOK, StoreTypeOK
  <2> QED
    BY <1>0, <2>2, <2>3 DEF FaultsStrandOne
<1> QED
  BY <1>1, <1>2, <1>3, Agreement, PTL DEF Spec

----------------------------------------------------------------------------
(* The executor never declares a deadlock. *)

(* A set of positions has a least one. *)
LEMMA LeastPosition ==
    ASSUME NEW T, T \subseteq Nat, T # {}
    PROVE  \E n \in T : \A k \in T : n <= k
<1> DEFINE U == {0..n : n \in T}
<1>1. U \subseteq FiniteSubsetsOf(Nat) /\ U # {}
  <2>1. ASSUME NEW n \in T PROVE 0..n \subseteq Nat /\ IsFiniteSet(0..n)
    BY FS_Interval
  <2> QED
    BY <2>1 DEF FiniteSubsetsOf
<1>2. PICK A \in U : \A B \in U : <<B, A>> \notin StrictSubsetOrdering(Nat)
  BY <1>1, FS_StrictSubsetOrderingWellFounded, WFMin
<1>3. PICK n \in T : A = 0..n
  OBVIOUS
<1>4. ASSUME NEW k \in T, k < n PROVE FALSE
  <2>1. 0..k \subseteq Nat /\ A \subseteq Nat /\ 0..k \subseteq A /\ n \in A /\ n \notin 0..k
    BY <1>3, <1>4
  <2> QED
    BY <1>2, <2>1 DEF StrictSubsetOrdering
<1> QED
  BY <1>4

(* A plan is acyclic: if all its steps are pending or completed, and some  *)
(* are pending, the pending step of least position has its inputs.         *)
LEMMA FirstPending ==
    ASSUME NEW m \in Missions, NEW view,
           \A s \in StepsOf(m) : view[s] \in {"pending", "completed"},
           \E s \in StepsOf(m) : view[s] = "pending"
    PROVE  \E s \in StepsOf(m) :
             view[s] = "pending" /\ \A d \in DependsOn[s] : view[d] = "completed"
<1> USE PlanAssumption
<1> DEFINE Pending == {s \in StepsOf(m) : view[s] = "pending"}
           T == {Position[s] : s \in Pending}
<1>1. T \subseteq Nat /\ T # {}
  BY DEF StepsOf
<1>2. PICK n \in T : \A k \in T : n <= k
  BY <1>1, LeastPosition
<1>3. PICK s \in Pending : \A t \in Pending : Position[s] <= Position[t]
  BY <1>2
<1>4. s \in Steps /\ MissionOf[s] = m /\ Position[s] \in Nat
  BY DEF StepsOf
<1>5. ASSUME NEW d \in DependsOn[s] PROVE view[d] = "completed"
  <2>1. d \in StepsOf(m) /\ Position[d] < Position[s] /\ Position[d] \in Nat
    BY <1>4, <1>5 DEF StepsOf
  <2>2. ~(Position[s] <= Position[d])
    BY <1>4, <2>1
  <2> QED
    BY <1>3, <2>1, <2>2
<1> QED
  BY <1>3, <1>5

(* With one worker, its session decides what is scheduled. *)
LEMMA ScheduledBecomes ==
    ASSUME OneWorker, Shape, NEW e \in Executors, NEW x, Becomes(e, x), PassSound(x),
           NoSchedulingDeadlock',
           \A s \in Steps : sstatus'[s] = "running" => x.pc \in {"call", "record"} /\ x.cur = s
    PROVE  Scheduled'
<1>1. \A f \in Executors : session'[f] = x
  BY DEF OneWorker, Becomes, Shape, TypeOK, ExecutorTypeOK
<1> QED
  BY <1>1 DEF Scheduled, RunningIsCurrent, PassSound, StepsOf

(* Whatever the worker does, short of dying, keeps the schedule sound. *)
LEMMA ExecutorScheduled ==
    ASSUME OneWorker, Shape, Agreed, Scheduled, NEW e \in Executors, ExecutorStep(e)
    PROVE  Scheduled'
<1>0. /\ SessionShape(session[e]) /\ ViewFresh(session[e]) /\ PlaceFresh(session[e])
      /\ PassSound(session[e]) /\ session[e] \in Sessions
      /\ session[e].view \in [Steps -> StepStatuses] /\ session[e].progressed \in BOOLEAN
      /\ sstatus \in [Steps -> StepStatuses] /\ approval \in [Steps -> ApprovalStatuses]
  BY DEF Shape, SessionShape, Sessions, Agreed, TypeOK, StoreTypeOK, Scheduled
<1>a. \A s \in Steps : sstatus[s] = "running"
        => session[e].pc \in {"call", "record"} /\ session[e].cur = s
  BY DEF Scheduled, RunningIsCurrent, OneWorker
<1>m. NoSchedulingDeadlock'
  <2>1. CASE Deadlock(e)
    BY <1>0, <2>1 DEF Deadlock, PassSound, Sees
  <2>2. CASE UNCHANGED audit
    BY <2>2 DEF Scheduled, NoSchedulingDeadlock
  <2>3. ASSUME NEW kind, NEW verb, NEW id, RecordAudit(kind, verb, id),
               kind # "mission" \/ verb # "deadlocked"
        PROVE  NoSchedulingDeadlock'
    BY <2>3 DEF Scheduled, NoSchedulingDeadlock, RecordAudit
  <2>4. CASE Conclude(e)
    <3>1. Verdict(e) # "deadlocked"
      BY DEF Verdict
    <3> QED
      BY <2>3, <2>4, <3>1 DEF Conclude
  <2> QED
    BY <2>1, <2>2, <2>3, <2>4 DEF ExecutorStep, ExecutorNext, Advance, Blpop, LoadMission,
       LoadSteps, Start, BeginPass, Gate, RequestApproval, ApprovalConflict, HoldStep,
       DenyStep, BeginStep, CallProvider, RecordSuccess, RecordFailure, NextPass, Park, store
<1>b. ASSUME NEW x, Becomes(e, x), PassSound(x), UNCHANGED sstatus,
             session[e].pc \notin {"call", "record"}
      PROVE  Scheduled'
  BY <1>a, <1>b, <1>m, ScheduledBecomes
<1>c. ASSUME Close(e), UNCHANGED sstatus, session[e].pc \notin {"call", "record"}
      PROVE  Scheduled'
  <2>1. PICK x : x = Closed
    OBVIOUS
  <2>2. PassSound(x)
    BY <2>1 DEF PassSound, Closed
  <2> QED
    BY <1>b, <1>c, <2>1, <2>2 DEF Close
<1>1. CASE Blpop(e)
  <2>1. PICK m \in Missions :
          Becomes(e, [Closed EXCEPT !.pc = "load_mission", !.job = m])
    BY <1>1 DEF Blpop
  <2>2. PICK x : x = [Closed EXCEPT !.pc = "load_mission", !.job = m]
    OBVIOUS
  <2>3. PassSound(x)
    BY <2>2 DEF PassSound, Closed
  <2> QED
    BY <1>1, <1>b, <2>1, <2>2, <2>3 DEF Blpop, store
<1>2. CASE LoadMission(e) \/ LoadSteps(e) \/ Start(e) \/ NextPass(e)
  <2>1. CASE Close(e)
    BY <1>2, <1>c, <2>1 DEF LoadMission, LoadSteps, Start, NextPass, store
  <2>2. CASE ~Close(e)
    <3>1. PICK x : Becomes(e, x) /\ x.pc \in {"load_steps", "start", "loop"}
      <4>1. \A z : \/ z = [session[e] EXCEPT !.pc = "load_steps",
                                             !.loaded = mstatus[session[e].job]]
                   \/ z = [session[e] EXCEPT !.pc = "start",
                                             !.view = LoadedView(session[e].job)]
                   \/ z = [session[e] EXCEPT !.pc = "loop", !.loaded = "running"]
                   \/ z = [session[e] EXCEPT !.pc = "loop"]
                   => z.pc \in {"load_steps", "start", "loop"}
        BY <1>0 DEF Sessions
      <4> QED
        BY <1>2, <2>2, <4>1 DEF LoadMission, LoadSteps, Start, NextPass
    <3>2. PassSound(x)
      BY <3>1 DEF PassSound
    <3> QED
      BY <1>2, <1>b, <3>1, <3>2 DEF LoadMission, LoadSteps, Start, NextPass, store
  <2> QED
    BY <2>1, <2>2
<1>3. CASE BeginPass(e)
  <2>1. PICK x : x = [session[e] EXCEPT !.pc = "pass", !.todo = Ready(e),
                                        !.progressed = FALSE]
    OBVIOUS
  <2>2. x.pc = "pass" /\ x.todo = Ready(e) /\ x.job = session[e].job /\ x.view = session[e].view
    BY <1>0, <2>1 DEF Sessions
  <2>3. PICK m \in Missions, view \in [Steps -> StepStatuses] :
          m = session[e].job /\ view = session[e].view
    BY <1>0, <1>3 DEF BeginPass, SessionShape
  <2>4. \A s \in StepsOf(m) : view[s] # "running"
    BY <1>0, <1>3, <1>a, <2>3 DEF BeginPass, ViewFresh, Viewing, StepsOf
  <2>5. /\ \A s \in StepsOf(m) : view[s] \notin {"rejected", "failed"}
        /\ \E s \in StepsOf(m) : view[s] # "completed"
    BY <1>3, <2>3 DEF BeginPass, Verdict, Sees
  <2>6. CASE \E s \in StepsOf(m) : view[s] = "waiting_approval"
    BY <1>3, <1>b, <2>1, <2>2, <2>3, <2>6 DEF BeginPass, PassSound, store
  <2>7. CASE \A s \in StepsOf(m) : view[s] # "waiting_approval"
    <3>1. \A s \in StepsOf(m) : view[s] \in {"pending", "completed"}
      BY <2>4, <2>5, <2>7 DEF StepsOf, StepStatuses
    <3>2. Ready(e) # {}
      BY <2>3, <2>5, <3>1, FirstPending DEF Ready
    <3>3. PassSound(x)
      BY <2>2, <3>2 DEF PassSound
    <3> QED
      BY <1>3, <1>b, <2>1, <3>3 DEF BeginPass, store
  <2> QED
    BY <2>6, <2>7
<1>4. CASE Gate(e)
  <2>1. PICK s \in session[e].todo :
          Becomes(e, [session[e] EXCEPT
                         !.pc = Ruling(s), !.cur = s, !.todo = @ \ {s},
                         !.progressed = @ \/ Ruling(s) = "begin"])
    BY <1>4 DEF Gate
  <2>2. PICK x : x = [session[e] EXCEPT
                         !.pc = Ruling(s), !.cur = s, !.todo = @ \ {s},
                         !.progressed = @ \/ Ruling(s) = "begin"]
    OBVIOUS
  <2>3. Ruling(s) \in {"ask", "begin", "deny", "hold"}
    BY <1>0 DEF Ruling, StepsOf, SessionShape, ApprovalStatuses
  <2>4. x.pc = Ruling(s) /\ (Ruling(s) = "begin" => x.progressed)
    BY <1>0, <2>2 DEF Sessions
  <2>5. PassSound(x)
    BY <2>3, <2>4 DEF PassSound
  <2> QED
    BY <1>4, <1>b, <2>1, <2>2, <2>5 DEF Gate, store
<1>5. CASE RequestApproval(e)
  <2>1. PICK s \in Steps : s = session[e].cur /\ s \in StepsOf(session[e].job)
    BY <1>0, <1>5 DEF RequestApproval, SessionShape, AtStep, StepsOf
  <2>2. PICK x : x = [session[e] EXCEPT !.pc = "pass",
                          !.view = [@ EXCEPT ![s] = "waiting_approval"],
                          !.cur = NoStep]
    OBVIOUS
  <2>3. Becomes(e, x) /\ sstatus' = [sstatus EXCEPT ![s] = "waiting_approval"]
    BY <1>5, <2>1, <2>2 DEF RequestApproval, SetStep
  <2>4. /\ x.job = session[e].job /\ x.pc = "pass" /\ x.view[s] = "waiting_approval"
    BY <1>0, <2>2 DEF Sessions
  <2>5. PassSound(x)
    BY <2>1, <2>4 DEF PassSound
  <2>6. session[e].pc = "ask"
    BY <1>5 DEF RequestApproval
  <2>7. \A t \in Steps : sstatus'[t] # "running"
    BY <1>0, <1>a, <2>3, <2>6
  <2> QED
    BY <1>m, <2>3, <2>5, <2>7, ScheduledBecomes
<1>6. CASE BeginStep(e)
  <2>1. PICK s \in Steps : s = session[e].cur
    BY <1>0, <1>6 DEF BeginStep, SessionShape, AtStep, StepsOf
  <2>2. PICK x : x = [session[e] EXCEPT !.pc = "call",
                          !.view = [@ EXCEPT ![s] = "running"],
                          !.cur = IF "call" = "pass" THEN NoStep ELSE @]
    OBVIOUS
  <2>3. Becomes(e, x) /\ sstatus' = [sstatus EXCEPT ![s] = "running"]
    BY <1>6, <2>1, <2>2 DEF BeginStep, SetStep
  <2>4. x.pc = "call" /\ x.cur = s /\ x.progressed = session[e].progressed
    BY <1>0, <2>1, <2>2 DEF Sessions
  <2>5. session[e].pc = "begin"
    BY <1>6 DEF BeginStep
  <2>6. PassSound(x)
    BY <1>0, <2>4, <2>5 DEF PassSound
  <2>7. \A t \in Steps : sstatus'[t] = "running" => t = s
    BY <1>0, <1>a, <2>3, <2>5
  <2> QED
    BY <1>m, <2>3, <2>4, <2>6, <2>7, ScheduledBecomes
<1>7. CASE CallProvider(e)
  <2>1. PICK x : x = [session[e] EXCEPT !.pc = "record"]
    OBVIOUS
  <2>2. x.pc = "record" /\ x.cur = session[e].cur /\ x.progressed = session[e].progressed
    BY <1>0, <2>1 DEF Sessions
  <2>3. Becomes(e, x) /\ UNCHANGED sstatus /\ session[e].pc = "call"
    BY <1>7, <2>1 DEF CallProvider, store
  <2>4. PassSound(x)
    BY <1>0, <2>2, <2>3 DEF PassSound
  <2> QED
    BY <1>a, <1>m, <2>2, <2>3, <2>4, ScheduledBecomes
<1>8. CASE RecordSuccess(e) \/ RecordFailure(e)
  <2>1. PICK s \in Steps : s = session[e].cur
    BY <1>0, <1>8 DEF RecordSuccess, RecordFailure, SessionShape, AtStep, StepsOf
  <2>2. session[e].pc = "record" /\ session[e].progressed
    BY <1>0, <1>8 DEF RecordSuccess, RecordFailure, PassSound
  <2> DEFINE Recorded(x, st) ==
               /\ Becomes(e, x) /\ sstatus' = [sstatus EXCEPT ![s] = st]
               /\ x.pc = "pass" /\ x.progressed = session[e].progressed
  <2> HIDE DEF Recorded
  <2>3. \E x : Recorded(x, "completed") \/ Recorded(x, "failed")
    <3>1. CASE RecordSuccess(e)
      <4>1. PICK x : x = [session[e] EXCEPT !.pc = "pass",
                     !.view = [@ EXCEPT ![s] = "completed"],
                     !.cur = IF "pass" = "pass" THEN NoStep ELSE @]
        OBVIOUS
      <4>2. Becomes(e, x) /\ sstatus' = [sstatus EXCEPT ![s] = "completed"]
        BY <2>1, <3>1, <4>1 DEF RecordSuccess, SetStep
      <4>3. x.pc = "pass" /\ x.progressed = session[e].progressed
        BY <1>0, <4>1 DEF Sessions
      <4>4. Recorded(x, "completed")
        BY <4>2, <4>3 DEF Recorded
      <4> QED
        BY <4>4
    <3>2. CASE RecordFailure(e)
      <4>1. PICK x : x = [session[e] EXCEPT !.pc = "pass",
                     !.view = [@ EXCEPT ![s] = "failed"],
                     !.cur = NoStep, !.todo = {}]
        OBVIOUS
      <4>2. Becomes(e, x) /\ sstatus' = [sstatus EXCEPT ![s] = "failed"]
        BY <2>1, <3>2, <4>1 DEF RecordFailure
      <4>3. x.pc = "pass" /\ x.progressed = session[e].progressed
        BY <1>0, <4>1 DEF Sessions
      <4>4. Recorded(x, "failed")
        BY <4>2, <4>3 DEF Recorded
      <4> QED
        BY <4>4
    <3> QED
      BY <1>8, <3>1, <3>2
  <2>4. PICK x : \E st \in {"completed", "failed"} : Recorded(x, st)
    BY <2>3
  <2>5. \A t \in Steps : sstatus'[t] # "running"
    BY <1>0, <1>a, <2>1, <2>4 DEF Recorded
  <2>6. PassSound(x)
    BY <2>2, <2>4 DEF PassSound, Recorded
  <2> QED
    BY <1>m, <2>4, <2>5, <2>6, ScheduledBecomes DEF Recorded
<1>9. CASE Conclude(e) \/ Park(e) \/ Deadlock(e)
  BY <1>9, <1>c DEF Conclude, Park, Deadlock, Return
<1>10. ~(ApprovalConflict(e) \/ HoldStep(e) \/ DenyStep(e))
  BY <1>0 DEF ApprovalConflict, HoldStep, DenyStep, PlaceFresh
<1> QED
  BY <1>1, <1>2, <1>3, <1>4, <1>5, <1>6, <1>7, <1>8, <1>9, <1>10
     DEF ExecutorStep, ExecutorNext, Advance

(* No handler makes a step running or declares a deadlock. *)
LEMMA RequestScheduled ==
    ASSUME Shape, Agreed, Scheduled, NEW r \in Requests, RequestStep(r)
    PROVE  Scheduled'
<1>0. /\ UNCHANGED session /\ sstatus \in [Steps -> StepStatuses]
  BY DEF RequestStep, execution, Shape, TypeOK, StoreTypeOK
<1>1. CASE DecideCommit(r)
  <2>1. PICK s \in Steps, dec \in {"approved", "rejected"} :
          s = request[r].step /\ dec = request[r].decision
    BY <1>1 DEF Shape, DecideCommit, HandlerShape
  <2>2. /\ sstatus' = [sstatus EXCEPT ![s] = DecidedStep(dec)] \/ UNCHANGED sstatus
        /\ audit' = audit \cup {<<"approval", dec, s>>}
    BY <1>0, <1>1, <2>1 DEF DecideCommit, Flushed, RecordAudit
  <2>3. DecidedStep(dec) # "running"
    BY DEF DecidedStep
  <2>4. \A t \in Steps : sstatus'[t] = "running" => sstatus[t] = "running"
    BY <1>0, <2>2, <2>3
  <2>5. RunningIsCurrent'
    BY <1>0, <2>4 DEF Scheduled, RunningIsCurrent
  <2>6. NoSchedulingDeadlock'
    BY <2>2 DEF Scheduled, NoSchedulingDeadlock
  <2>7. \A e \in Executors : PassSound(session[e])'
    BY <1>0 DEF Scheduled, PassSound, StepsOf
  <2> QED
    BY <2>5, <2>6, <2>7 DEF Scheduled
<1>2. CASE ~DecideCommit(r)
  <2>1. /\ UNCHANGED sstatus
        /\ \/ UNCHANGED audit
           \/ audit' = audit \cup {<<"mission", "queued", request[r].mission>>}
    BY <1>2 DEF RequestStep, RequestNext, Submit, Handle, RunRead, RunCommit, DecideRead,
       DecideLoad, Enqueue, EnqueueFails, store, RecordAudit
  <2>2. ASSUME NEW n, audit' = audit \cup {<<"mission", "queued", n>>}
        PROVE  NoSchedulingDeadlock'
    BY <2>2 DEF Scheduled, NoSchedulingDeadlock
  <2>3. NoSchedulingDeadlock'
    BY <2>1, <2>2 DEF Scheduled, NoSchedulingDeadlock
  <2> QED
    BY <1>0, <2>1, <2>3 DEF Scheduled, RunningIsCurrent, PassSound, StepsOf
<1> QED
  BY <1>1, <1>2

(***************************************************************************)
(* Unless a worker dies on its job, the executor never gives a validated   *)
(* plan up as a scheduling deadlock: an acyclic plan always has a step to  *)
(* run, a step that waits, or a verdict.                                   *)
(***************************************************************************)
THEOREM NeverDeadlocked ==
    ASSUME OneWorker, OneAdmin, "crash" \notin FaultKinds
    PROVE  Spec => []NoSchedulingDeadlock
<1>1. Init => Scheduled
  BY DEF Init, StoreInit, ExecutorInit, Closed, Scheduled, NoSchedulingDeadlock,
     RunningIsCurrent, PassSound
<1>2. Shape /\ Agreed /\ Scheduled /\ [Next]_vars => Scheduled'
  <2> SUFFICES ASSUME Shape, Agreed, Scheduled, [Next]_vars PROVE Scheduled'
    OBVIOUS
  <2>1. CASE UNCHANGED vars
    BY <2>1 DEF vars, store, execution, Scheduled, NoSchedulingDeadlock, RunningIsCurrent,
       PassSound, StepsOf
  <2>2. ~(\E e \in Executors : CrashStep(e)) /\ ~ProcessCrash
    BY DEF CrashStep, Abandon, ProcessCrash, Fault
  <2> QED
    BY <2>1, <2>2, ExecutorScheduled, RequestScheduled DEF Next
<1>3. Scheduled => NoSchedulingDeadlock
  BY DEF Scheduled
<1> QED
  BY <1>1, <1>2, <1>3, Agreement, PTL DEF Spec
===============================================================================
