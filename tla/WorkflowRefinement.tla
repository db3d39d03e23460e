------------------------- MODULE WorkflowRefinement --------------------------
(***************************************************************************)
(* Proof that the orchestration core implements GatedWorkflow: the steps   *)
(* that commit an approval, start a step, call a provider, record an       *)
(* output or conclude a completed mission are steps of the workflow, and   *)
(* nothing else touches what the workflow is read off.                     *)
(***************************************************************************)
EXTENDS OrchestratorProofs

(* The variables of the workflow, as the instance of Orchestrator maps them. *)
grantedSteps == {s \in Steps : Granted(s)}
startedSteps == {s \in Steps : Started(s)}
calledSteps == {s \in Steps : invoked[s] > 0}
completedSteps == {s \in Steps : Done(s)}
finishedMissions == {m \in Missions : <<"mission", "completed", m>> \in audit}

mapped == <<grantedSteps, startedSteps, calledSteps, completedSteps, finishedMissions>>

(* What the trail and the provider calls do not show is a stutter. *)
LEMMA Unseen ==
    ASSUME UNCHANGED invoked,
           NEW ev, audit' = audit \/ audit' = audit \cup {ev},
           \A s \in Steps : ev \notin {<<"step", "started", s>>, <<"step", "completed", s>>,
                                     <<"approval", "approved", s>>},
           \A m \in Missions : ev # <<"mission", "completed", m>>
    PROVE  UNCHANGED mapped
<1>1. \A s \in Steps : /\ Started(s)' <=> Started(s)
                       /\ Done(s)' <=> Done(s)
                       /\ Granted(s)' <=> Granted(s)
  BY DEF Started, Done, Granted
<1>2. \A m \in Missions : <<"mission", "completed", m>> \in audit'
                            <=> <<"mission", "completed", m>> \in audit
  OBVIOUS
<1> QED
  BY <1>1, <1>2 DEF mapped, grantedSteps, startedSteps, calledSteps, completedSteps,
     finishedMissions

(* A worker's action is a step of the workflow, or a stutter. *)
LEMMA ExecutorRefines ==
    ASSUME IInv, NEW e \in Executors, ExecutorNext(e)
    PROVE  [Workflow!WorkflowNext]_mapped
<1> USE PlanAssumption
<1>0. /\ SessionShape(session[e]) /\ SessionAccounted(session[e])
      /\ invoked \in [Steps -> 0..2]
  BY DEF IInv, Shape, Accounted, TypeOK, ExecutorTypeOK, CallCap
<1>c. ASSUME session[e].pc \in AtStep PROVE session[e].cur \in Steps
  BY <1>0, <1>c DEF SessionShape, StepsOf
<1>1. CASE BeginStep(e)
  <2>1. PICK c \in Steps : c = session[e].cur
    BY <1>1, <1>c DEF BeginStep, AtStep
  <2>2. /\ audit' = audit \cup {<<"step", "started", c>>} /\ UNCHANGED invoked
        /\ RequiresApproval(c) => Granted(c)
        /\ \A dep \in DependsOn[c] : Done(dep) /\ dep \in Steps
    BY <1>0, <1>1, <2>1 DEF BeginStep, RecordAudit, SessionAccounted, InputsAccounted,
       PlaceAccounted, AtStep
  <2>3. \A s \in Steps : /\ Started(s)' <=> (Started(s) \/ s = c)
                         /\ Done(s)' <=> Done(s)
                         /\ Granted(s)' <=> Granted(s)
    BY <2>2 DEF Started, Done, Granted
  <2>4. /\ startedSteps' = startedSteps \cup {c}
        /\ UNCHANGED <<grantedSteps, calledSteps, completedSteps, finishedMissions>>
    BY <2>2, <2>3 DEF startedSteps, grantedSteps, calledSteps, completedSteps,
       finishedMissions
  <2>5. Workflow!Begin(c)
    BY <2>2, <2>4 DEF Workflow!Begin, startedSteps, grantedSteps, calledSteps,
       completedSteps, finishedMissions
  <2> QED
    BY <2>5 DEF Workflow!WorkflowNext
<1>2. CASE CallProvider(e)
  <2>1. PICK c \in Steps : c = session[e].cur
    BY <1>2, <1>c DEF CallProvider, AtStep
  <2>2. /\ UNCHANGED audit /\ Started(c)
        /\ \A s \in Steps : invoked'[s] > 0 <=> invoked[s] > 0 \/ s = c
    BY <1>0, <1>2, <2>1 DEF CallProvider, store, CallCap, SessionAccounted, PlaceAccounted
  <2>3. /\ calledSteps' = calledSteps \cup {c}
        /\ UNCHANGED <<grantedSteps, startedSteps, completedSteps, finishedMissions>>
    BY <2>2 DEF startedSteps, grantedSteps, calledSteps, completedSteps,
       finishedMissions, Started, Done, Granted
  <2>4. Workflow!Call(c)
    BY <2>2, <2>3 DEF Workflow!Call, startedSteps, grantedSteps, calledSteps,
       completedSteps, finishedMissions
  <2> QED
    BY <2>4 DEF Workflow!WorkflowNext
<1>3. CASE RecordSuccess(e)
  <2>1. PICK c \in Steps : c = session[e].cur
    BY <1>3, <1>c DEF RecordSuccess, AtStep
  <2>2. /\ audit' = audit \cup {<<"step", "completed", c>>} /\ UNCHANGED invoked
        /\ invoked[c] > 0
    BY <1>0, <1>3, <2>1 DEF RecordSuccess, RecordAudit, SessionAccounted, PlaceAccounted
  <2>3. \A s \in Steps : /\ Started(s)' <=> Started(s)
                         /\ Done(s)' <=> Done(s) \/ s = c
                         /\ Granted(s)' <=> Granted(s)
    BY <2>2 DEF Started, Done, Granted
  <2>4. /\ completedSteps' = completedSteps \cup {c}
        /\ UNCHANGED <<grantedSteps, startedSteps, calledSteps, finishedMissions>>
    BY <2>2, <2>3 DEF startedSteps, grantedSteps, calledSteps, completedSteps,
       finishedMissions
  <2>5. Workflow!Complete(c)
    BY <2>2, <2>4 DEF Workflow!Complete, startedSteps, grantedSteps, calledSteps,
       completedSteps, finishedMissions
  <2> QED
    BY <2>5 DEF Workflow!WorkflowNext
<1>4. CASE Conclude(e) /\ Verdict(e) = "completed"
  <2>1. PICK m \in Missions : m = session[e].job
    BY <1>0, <1>4 DEF Conclude, SessionShape
  <2>2. /\ audit' = audit \cup {<<"mission", "completed", m>>} /\ UNCHANGED invoked
        /\ \A s \in Steps : MissionOf[s] = m => Done(s)
    BY <1>0, <1>4, <2>1 DEF Conclude, Return, RecordAudit, Verdict, StepsOf,
       SessionAccounted, ViewAccounted, StepAccount
  <2>3. \A s \in Steps : /\ Started(s)' <=> Started(s)
                         /\ Done(s)' <=> Done(s)
                         /\ Granted(s)' <=> Granted(s)
    BY <2>2 DEF Started, Done, Granted
  <2>4. /\ finishedMissions' = finishedMissions \cup {m}
        /\ UNCHANGED <<grantedSteps, startedSteps, calledSteps, completedSteps>>
    BY <2>2, <2>3 DEF startedSteps, grantedSteps, calledSteps, completedSteps,
       finishedMissions
  <2>5. Workflow!Finalise(m)
    BY <2>2, <2>4 DEF Workflow!Finalise, startedSteps, grantedSteps, calledSteps,
       completedSteps, finishedMissions
  <2> QED
    BY <2>5 DEF Workflow!WorkflowNext
<1>5. CASE \/ Blpop(e) \/ LoadMission(e) \/ LoadSteps(e) \/ BeginPass(e) \/ Gate(e)
           \/ ApprovalConflict(e) \/ HoldStep(e) \/ DenyStep(e) \/ NextPass(e) \/ Park(e)
  <2>1. UNCHANGED <<audit, invoked>>
    BY <1>5 DEF Blpop, LoadMission, LoadSteps, BeginPass, Gate, ApprovalConflict,
       HoldStep, DenyStep, NextPass, Park, Return, store
  <2> QED
    BY <2>1 DEF mapped, startedSteps, grantedSteps, calledSteps, completedSteps,
       finishedMissions, Started, Done, Granted
<1>6. CASE \/ Start(e) \/ RequestApproval(e) \/ RecordFailure(e) \/ Deadlock(e)
           \/ Conclude(e) /\ Verdict(e) # "completed"
  <2>1. CASE Start(e)
    <3>1. audit' = audit \cup {<<"mission", "started", session[e].job>>} /\ UNCHANGED invoked
      BY <2>1 DEF Start, RecordAudit
    <3>2. /\ \A s \in Steps : <<"mission", "started", session[e].job>> \notin
               {<<"step", "started", s>>, <<"step", "completed", s>>,
                <<"approval", "approved", s>>}
            /\ \A m \in Missions : <<"mission", "started", session[e].job>> # <<"mission", "completed", m>>
      BY <2>1
    <3> QED
      BY <3>1, <3>2, Unseen
  <2>2. CASE RequestApproval(e)
    <3>1. audit' = audit \cup {<<"approval", "requested", session[e].cur>>} /\ UNCHANGED invoked
      BY <2>2 DEF RequestApproval, RecordAudit
    <3>2. /\ \A s \in Steps : <<"approval", "requested", session[e].cur>> \notin
               {<<"step", "started", s>>, <<"step", "completed", s>>,
                <<"approval", "approved", s>>}
            /\ \A m \in Missions : <<"approval", "requested", session[e].cur>> # <<"mission", "completed", m>>
      BY <2>2
    <3> QED
      BY <3>1, <3>2, Unseen
  <2>3. CASE RecordFailure(e)
    <3>1. audit' = audit \cup {<<"step", "failed", session[e].cur>>} /\ UNCHANGED invoked
      BY <2>3 DEF RecordFailure, RecordAudit
    <3>2. /\ \A s \in Steps : <<"step", "failed", session[e].cur>> \notin
               {<<"step", "started", s>>, <<"step", "completed", s>>,
                <<"approval", "approved", s>>}
            /\ \A m \in Missions : <<"step", "failed", session[e].cur>> # <<"mission", "completed", m>>
      BY <2>3
    <3> QED
      BY <3>1, <3>2, Unseen
  <2>4. CASE Deadlock(e)
    <3>1. audit' = audit \cup {<<"mission", "deadlocked", session[e].job>>} /\ UNCHANGED invoked
      BY <2>4 DEF Deadlock, Return, RecordAudit
    <3>2. /\ \A s \in Steps : <<"mission", "deadlocked", session[e].job>> \notin
               {<<"step", "started", s>>, <<"step", "completed", s>>,
                <<"approval", "approved", s>>}
            /\ \A m \in Missions : <<"mission", "deadlocked", session[e].job>> # <<"mission", "completed", m>>
      BY <2>4
    <3> QED
      BY <3>1, <3>2, Unseen
  <2>5. CASE Conclude(e) /\ Verdict(e) # "completed"
    <3>1. audit' = audit \cup {<<"mission", Verdict(e), session[e].job>>} /\ UNCHANGED invoked
      BY <2>5 DEF Conclude, Return, RecordAudit
    <3>2. /\ \A s \in Steps : <<"mission", Verdict(e), session[e].job>> \notin
               {<<"step", "started", s>>, <<"step", "completed", s>>,
                <<"approval", "approved", s>>}
            /\ \A m \in Missions : <<"mission", Verdict(e), session[e].job>> # <<"mission", "completed", m>>
      BY <2>5
    <3> QED
      BY <3>1, <3>2, Unseen
  <2> QED
    BY <1>6, <2>1, <2>2, <2>3, <2>4, <2>5
<1> QED
  BY <1>1, <1>2, <1>3, <1>4, <1>5, <1>6 DEF ExecutorNext, Advance

(* A handler's action is a grant, or a stutter. *)
LEMMA RequestRefines ==
    ASSUME IInv, NEW r \in Requests, RequestNext(r), UNCHANGED execution
    PROVE  [Workflow!WorkflowNext]_mapped
<1>1. CASE DecideCommit(r) /\ request[r].decision = "approved"
  <2>1. PICK c \in Steps : c = request[r].step
    BY <1>1 DEF DecideCommit, IInv, Shape, HandlerShape
  <2>2. /\ audit' = audit \cup {<<"approval", "approved", c>>} /\ UNCHANGED invoked
        /\ RequiresApproval(c)
    BY <1>1, <2>1 DEF DecideCommit, RecordAudit, execution, IInv, Accounted,
       DecisionsAccounted, ApprovalsAccounted
  <2>3. \A s \in Steps : /\ Started(s)' <=> Started(s)
                         /\ Done(s)' <=> Done(s)
                         /\ Granted(s)' <=> Granted(s) \/ s = c
    BY <2>2 DEF Started, Done, Granted
  <2>4. /\ grantedSteps' = grantedSteps \cup {c}
        /\ UNCHANGED <<startedSteps, calledSteps, completedSteps, finishedMissions>>
    BY <2>2, <2>3 DEF startedSteps, grantedSteps, calledSteps, completedSteps,
       finishedMissions
  <2>5. Workflow!Grant(c)
    BY <2>2, <2>4 DEF Workflow!Grant, startedSteps, grantedSteps, calledSteps,
       completedSteps, finishedMissions
  <2> QED
    BY <2>5 DEF Workflow!WorkflowNext
<1>2. CASE ~(DecideCommit(r) /\ request[r].decision = "approved")
  <2>1. CASE RunCommit(r)
    <3>1. PICK ev : ev = <<"mission", "queued", request[r].mission>>
      OBVIOUS
    <3>2. audit' = audit \cup {ev} /\ UNCHANGED invoked
      BY <2>1, <3>1 DEF RunCommit, RecordAudit, execution
    <3>3. /\ \A s \in Steps :
                ev \notin {<<"step", "started", s>>, <<"step", "completed", s>>,
                           <<"approval", "approved", s>>}
          /\ \A m \in Missions : ev # <<"mission", "completed", m>>
      BY <3>1
    <3> QED
      BY <3>2, <3>3, Unseen
  <2>2. CASE DecideCommit(r)
    <3>1. PICK ev : ev = <<"approval", request[r].decision, request[r].step>>
      OBVIOUS
    <3>2. audit' = audit \cup {ev} /\ UNCHANGED invoked
      BY <2>2, <3>1 DEF DecideCommit, RecordAudit, execution
    <3>3. /\ \A s \in Steps :
                ev \notin {<<"step", "started", s>>, <<"step", "completed", s>>,
                           <<"approval", "approved", s>>}
          /\ \A m \in Missions : ev # <<"mission", "completed", m>>
      BY <1>2, <2>2, <3>1
    <3> QED
      BY <3>2, <3>3, Unseen
  <2>3. CASE ~RunCommit(r) /\ ~DecideCommit(r)
    <3>1. UNCHANGED <<audit, invoked>>
      BY <2>3 DEF RequestNext, Submit, Handle, RunRead, DecideRead, DecideLoad, Enqueue,
         EnqueueFails, store, execution
    <3> QED
      BY <3>1 DEF mapped, startedSteps, grantedSteps, calledSteps, completedSteps,
         finishedMissions, Started, Done, Granted
  <2> QED
    BY <2>1, <2>2, <2>3
<1> QED
  BY <1>1, <1>2

(***************************************************************************)
(* The orchestrator implements the gated workflow: whatever workers,       *)
(* handlers and crashes do, work happens in the order the workflow allows. *)
(***************************************************************************)
THEOREM Implements == Spec => ImplementsWorkflow
<1>1. Init => Workflow!WorkflowInit
  BY DEF Init, StoreInit, ExecutorInit, Workflow!WorkflowInit, Started, Done, Granted
<1>2. IInv /\ [Next]_vars => [Workflow!WorkflowNext]_mapped
  <2> SUFFICES ASSUME IInv, [Next]_vars PROVE [Workflow!WorkflowNext]_mapped
    OBVIOUS
  <2>1. CASE UNCHANGED <<audit, invoked>>
    BY <2>1 DEF mapped, startedSteps, grantedSteps, calledSteps, completedSteps,
       finishedMissions, Started, Done, Granted
  <2>2. ASSUME NEW e \in Executors, ExecutorStep(e) PROVE [Workflow!WorkflowNext]_mapped
    BY <2>2, ExecutorRefines DEF ExecutorStep
  <2>3. ASSUME NEW r \in Requests, RequestStep(r) PROVE [Workflow!WorkflowNext]_mapped
    BY <2>3, RequestRefines DEF RequestStep
  <2>4. ASSUME (\E e \in Executors : CrashStep(e)) \/ ProcessCrash
        PROVE  [Workflow!WorkflowNext]_mapped
    BY <2>1, <2>4 DEF CrashStep, Abandon, ProcessCrash, store
  <2> QED
    BY <2>1, <2>2, <2>3, <2>4 DEF Next, vars, store, execution
<1>3. [Workflow!WorkflowNext]_mapped <=> [Workflow!WorkflowNext]_(Workflow!workflow)
  BY DEF mapped, Workflow!workflow, startedSteps, grantedSteps, calledSteps,
     completedSteps, finishedMissions
<1> QED
  BY <1>1, <1>2, <1>3, Invariant, PTL DEF Spec, ImplementsWorkflow, Workflow!WorkflowSpec
===============================================================================
