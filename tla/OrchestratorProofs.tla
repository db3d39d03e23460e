------------------------- MODULE OrchestratorProofs --------------------------
(***************************************************************************)
(* Proofs that the orchestration core keeps its promises for every plan,   *)
(* every number of workers, handlers and faults, and either backend.       *)
(***************************************************************************)
EXTENDS OrchestratorInvariant, FiniteSetTheorems, TLAPS

----------------------------------------------------------------------------
(* The queue *)

(* Taking a job from the queue leaves a queue of missions. *)
LEMMA TakeType ==
    ASSUME QueueTypeOK, NEW m \in Missions, Take(m)
    PROVE  QueueTypeOK'
<1>1. PICK i \in 1..Len(queue) : queue' = Without(i)
  BY DEF Take
<1>2. Len(queue) \in Nat /\ queue \in [1..Len(queue) -> Missions]
  BY DEF QueueTypeOK
<1>3. Len(queue) - 1 \in Nat
  BY <1>1, <1>2
<1>4. \A j \in 1..(Len(queue) - 1) : Without(i)[j] \in Missions
  BY <1>1, <1>2 DEF Without
<1>5. Without(i) \in [1..(Len(queue) - 1) -> Missions]
  BY <1>4 DEF Without
<1> QED
  BY <1>1, <1>3, <1>5 DEF QueueTypeOK

(* Enqueueing a mission leaves a queue of missions. *)
LEMMA PushType ==
    ASSUME QueueTypeOK, NEW m \in Missions, Push(m)
    PROVE  QueueTypeOK'
  BY DEF QueueTypeOK, Push

----------------------------------------------------------------------------
(* Types *)

(* An executor without a job, and a slot without a handler, have their shape. *)
LEMMA ClosedShape == SessionShape(Closed) /\ HandlerShape(NoRequest)
  BY DEF SessionShape, Closed, Sessions, Places, AtStep, MissionStatuses,
         StepStatuses, HandlerShape, NoRequest, Handlers, HandlerPlaces,
         ApprovalStatuses

(* One execution moves to a record of the right shape, the others stay. *)
LEMMA BecomesShape ==
    ASSUME Shape, NEW e \in Executors, NEW x, SessionShape(x), Becomes(e, x)
    PROVE  /\ session' \in [Executors -> Sessions]
           /\ \A f \in Executors : SessionShape(session[f])'
  BY DEF Shape, TypeOK, ExecutorTypeOK, Becomes, SessionShape

LEMMA ProceedsShape ==
    ASSUME Shape, NEW r \in Requests, NEW q, HandlerShape(q), Proceeds(r, q)
    PROVE  /\ RequestTypeOK'
           /\ \A p \in Requests : HandlerShape(request[p])'
  BY DEF Shape, TypeOK, RequestTypeOK, Proceeds, HandlerShape
(* Recording the status of the current step keeps the types and the shape. *)
LEMMA SetStepShape ==
    ASSUME Shape, NEW e \in Executors, session[e].pc \in AtStep,
           NEW st \in StepStatuses, NEW pc \in {"pass", "call"},
           SetStep(e, st, pc)
    PROVE  /\ sstatus' \in [Steps -> StepStatuses]
           /\ session' \in [Executors -> Sessions]
           /\ \A f \in Executors : SessionShape(session[f])'
<1> DEFINE x == [session[e] EXCEPT
                     !.pc = pc, !.view = [@ EXCEPT ![session[e].cur] = st],
                     !.cur = IF pc = "pass" THEN NoStep ELSE @]
<1>1. SessionShape(session[e])
  BY DEF Shape
<1>2. SessionShape(x)
  BY <1>1 DEF SessionShape, Sessions, Places, AtStep, StepsOf
<1>3. sstatus' \in [Steps -> StepStatuses]
  BY DEF SetStep, Shape, TypeOK, StoreTypeOK
<1>4. Becomes(e, x)
  BY DEF SetStep
<1> QED
  BY <1>2, <1>3, <1>4, BecomesShape

(* A worker's action keeps the types and the shape. *)
LEMMA ExecutorShapeStep ==
    ASSUME Shape, NEW e \in Executors, ExecutorNext(e), UNCHANGED <<request, backend>>
    PROVE  Shape'
<1> USE PlanAssumption, SentinelAssumption DEF PlanAssumption, SentinelAssumption
<1>0. /\ SessionShape(session[e]) /\ SessionShape(Closed)
      /\ StoreTypeOK /\ QueueTypeOK /\ RequestTypeOK /\ backend \in Backends
      /\ invoked \in [Steps -> 0..CallCap]
      /\ \A r \in Requests : HandlerShape(request[r])
  BY ClosedShape DEF Shape, TypeOK, ExecutorTypeOK
<1>r. /\ RequestTypeOK' /\ backend' \in Backends /\ \A r \in Requests : HandlerShape(request[r])'
  BY <1>0 DEF RequestTypeOK, HandlerShape
<1> DEFINE Kept == session' \in [Executors -> Sessions]
                     /\ \A f \in Executors : SessionShape(session[f])'
<1>q. ASSUME StoreTypeOK', QueueTypeOK', Kept, invoked' \in [Steps -> 0..CallCap]
      PROVE  Shape'
  BY <1>q, <1>r DEF Shape, TypeOK, ExecutorTypeOK
<1>c. ASSUME Close(e) PROVE Kept
  BY <1>c, ClosedShape, BecomesShape DEF Close
<1>1. CASE Blpop(e)
  <2>1. PICK m \in Missions :
          Take(m) /\ Becomes(e, [Closed EXCEPT !.pc = "load_mission", !.job = m])
    BY <1>1 DEF Blpop
  <2>2. SessionShape([Closed EXCEPT !.pc = "load_mission", !.job = m])
    BY <1>0 DEF SessionShape, Sessions, Closed, Places, AtStep
  <2>3. Kept
    BY <2>1, <2>2, BecomesShape
  <2>4. QueueTypeOK'
    BY <1>0, <2>1, TakeType
  <2> QED
    BY <1>0, <1>q, <2>3, <2>4, <1>1 DEF Blpop, StoreTypeOK, store
<1>2. CASE LoadMission(e)
  <2> DEFINE x == [session[e] EXCEPT !.pc = "load_steps", !.loaded = mstatus[session[e].job]]
  <2>1. SessionShape(x)
    BY <1>0, <1>2 DEF LoadMission, SessionShape, Sessions, Places, AtStep, StepsOf, StoreTypeOK
  <2>2. Becomes(e, x)
    BY <1>2 DEF LoadMission
  <2>3. Kept
    BY <2>1, <2>2, BecomesShape
  <2>4. StoreTypeOK' /\ QueueTypeOK' /\ invoked' \in [Steps -> 0..CallCap]
    BY <1>0, <1>2 DEF LoadMission, SessionShape, AtStep, StepsOf, StoreTypeOK, store, QueueTypeOK
  <2> QED
    BY <1>q, <2>3, <2>4
<1>3. CASE Start(e)
  <2> DEFINE x == [session[e] EXCEPT !.pc = "loop", !.loaded = "running"]
  <2>1. SessionShape(x)
    BY <1>0, <1>3 DEF Start, SessionShape, Sessions, Places, AtStep, StepsOf, MissionStatuses
  <2>2. Becomes(e, x)
    BY <1>3 DEF Start
  <2>3. Kept
    BY <2>1, <2>2, BecomesShape
  <2>4. session[e].job \in Missions
    BY <1>0, <1>3 DEF Start, SessionShape
  <2>5. mstatus' \in [Missions -> MissionStatuses]
    BY <1>0, <1>3 DEF Start, StoreTypeOK, Flushed, MissionStatuses
  <2>6. audit' \subseteq AuditEvents
    BY <1>0, <1>3, <2>4 DEF Start, StoreTypeOK, RecordAudit, AuditEvents
  <2>7. UNCHANGED <<sstatus, approval, handoffs, faults, queue, invoked>>
    BY <1>3 DEF Start
  <2>8. StoreTypeOK' /\ QueueTypeOK' /\ invoked' \in [Steps -> 0..CallCap]
    BY <1>0, <2>5, <2>6, <2>7 DEF StoreTypeOK, QueueTypeOK
  <2> QED
    BY <1>q, <2>3, <2>8
<1>4. CASE BeginPass(e)
  <2> DEFINE x == [session[e] EXCEPT !.pc = "pass", !.todo = Ready(e), !.progressed = FALSE]
  <2>1. SessionShape(x)
    BY <1>0, <1>4 DEF BeginPass, SessionShape, Sessions, Places, AtStep, StepsOf, Ready
  <2>2. Becomes(e, x)
    BY <1>4 DEF BeginPass
  <2>3. Kept
    BY <2>1, <2>2, BecomesShape
  <2>4. StoreTypeOK' /\ QueueTypeOK' /\ invoked' \in [Steps -> 0..CallCap]
    BY <1>0, <1>4 DEF BeginPass, SessionShape, AtStep, StepsOf, StoreTypeOK, store, QueueTypeOK
  <2> QED
    BY <1>q, <2>3, <2>4
<1>5. CASE CallProvider(e)
  <2> DEFINE x == [session[e] EXCEPT !.pc = "record"]
  <2>1. SessionShape(x)
    BY <1>0, <1>5 DEF CallProvider, SessionShape, Sessions, Places, AtStep, StepsOf
  <2>2. Becomes(e, x)
    BY <1>5 DEF CallProvider
  <2>3. Kept
    BY <2>1, <2>2, BecomesShape
  <2>4. StoreTypeOK' /\ QueueTypeOK'
    BY <1>0, <1>5 DEF CallProvider, StoreTypeOK, store, QueueTypeOK
  <2>5. invoked' \in [Steps -> 0..CallCap]
    <3>1. PICK s : s = session[e].cur
      OBVIOUS
    <3>2. invoked' = [invoked EXCEPT ![s] = IF invoked[s] < 2 THEN invoked[s] + 1 ELSE invoked[s]]
      BY <1>5, <3>1 DEF CallProvider, CallCap
    <3>3. invoked \in [Steps -> 0..2]
      BY <1>0 DEF CallCap
    <3>4. ASSUME NEW t \in Steps PROVE invoked'[t] \in 0..2
      BY <3>2, <3>3
    <3> QED
      BY <3>2, <3>3, <3>4 DEF CallCap
  <2> QED
    BY <1>q, <2>3, <2>4, <2>5
<1>6. CASE NextPass(e)
  <2> DEFINE x == [session[e] EXCEPT !.pc = "loop"]
  <2>1. SessionShape(x)
    BY <1>0, <1>6 DEF NextPass, SessionShape, Sessions, Places, AtStep, StepsOf
  <2>2. Becomes(e, x)
    BY <1>6 DEF NextPass
  <2>3. Kept
    BY <2>1, <2>2, BecomesShape
  <2>4. StoreTypeOK' /\ QueueTypeOK' /\ invoked' \in [Steps -> 0..CallCap]
    BY <1>0, <1>6 DEF NextPass, SessionShape, AtStep, StepsOf, StoreTypeOK, store, QueueTypeOK
  <2> QED
    BY <1>q, <2>3, <2>4
<1>7. CASE RecordFailure(e)
  <2> DEFINE x == [session[e] EXCEPT !.pc = "pass", !.view = [@ EXCEPT ![session[e].cur] = "failed"], !.cur = NoStep, !.todo = {}]
  <2>1. SessionShape(x)
    BY <1>0, <1>7 DEF RecordFailure, SessionShape, Sessions, Places, AtStep, StepsOf, StepStatuses
  <2>2. Becomes(e, x)
    BY <1>7 DEF RecordFailure
  <2>3. Kept
    BY <2>1, <2>2, BecomesShape
  <2>4. StoreTypeOK' /\ QueueTypeOK' /\ invoked' \in [Steps -> 0..CallCap]
    BY <1>0, <1>7 DEF RecordFailure, SessionShape, AtStep, StepsOf, StoreTypeOK, store, QueueTypeOK, RecordAudit, AuditEvents, StepStatuses
  <2> QED
    BY <1>q, <2>3, <2>4
<1>8. CASE LoadSteps(e)
  <2> DEFINE x == [session[e] EXCEPT !.pc = "start",
                                     !.view = LoadedView(session[e].job)]
  <2>1. SessionShape(x)
    BY <1>0, <1>8 DEF LoadSteps, SessionShape, Sessions, Places, AtStep, StepsOf,
       LoadedView, StoreTypeOK, StepStatuses
  <2>2. Close(e) \/ Becomes(e, x)
    BY <1>8 DEF LoadSteps
  <2>3. Kept
    BY <1>c, <2>1, <2>2, BecomesShape
  <2> QED
    BY <1>0, <1>q, <2>3, <1>8 DEF LoadSteps, StoreTypeOK, store, QueueTypeOK
<1>9. CASE Gate(e)
  <2>1. PICK s \in session[e].todo :
          Becomes(e, [session[e] EXCEPT
                         !.pc = Ruling(s), !.cur = s, !.todo = @ \ {s},
                         !.progressed = @ \/ Ruling(s) = "begin"])
    BY <1>9 DEF Gate
  <2>2. s \in StepsOf(session[e].job) /\ s \in Steps /\ session[e].job \in Missions
    BY <1>0, <1>9 DEF SessionShape, StepsOf, Gate
  <2>3. Ruling(s) \in {"ask", "begin", "deny", "hold"}
    BY <1>0, <2>2 DEF Ruling, StoreTypeOK, ApprovalStatuses
  <2>4. SessionShape([session[e] EXCEPT
                         !.pc = Ruling(s), !.cur = s, !.todo = @ \ {s},
                         !.progressed = @ \/ Ruling(s) = "begin"])
    BY <1>0, <2>2, <2>3 DEF SessionShape, Sessions, Places, AtStep
  <2>5. Kept
    BY <2>1, <2>4, BecomesShape
  <2> QED
    BY <1>0, <1>q, <2>5, <1>9 DEF Gate, StoreTypeOK, store, QueueTypeOK
<1>10. CASE RequestApproval(e)
  <2>1. session[e].cur \in Steps /\ session[e].pc \in AtStep
    BY <1>0, <1>10 DEF RequestApproval, SessionShape, AtStep, StepsOf
  <2>2. SetStep(e, "waiting_approval", "pass")
    BY <1>10 DEF RequestApproval
  <2>3. Kept /\ sstatus' \in [Steps -> StepStatuses]
    BY <2>1, <2>2, SetStepShape DEF StepStatuses
  <2>4. StoreTypeOK' /\ QueueTypeOK' /\ invoked' \in [Steps -> 0..CallCap]
    BY <1>0, <2>1, <2>3, <1>10 DEF RequestApproval, StoreTypeOK, store, QueueTypeOK, RecordAudit, AuditEvents, ApprovalStatuses
  <2> QED
    BY <1>q, <2>3, <2>4
<1>11. CASE HoldStep(e)
  <2>1. session[e].cur \in Steps /\ session[e].pc \in AtStep
    BY <1>0, <1>11 DEF HoldStep, SessionShape, AtStep, StepsOf
  <2>2. SetStep(e, "waiting_approval", "pass")
    BY <1>11 DEF HoldStep
  <2>3. Kept /\ sstatus' \in [Steps -> StepStatuses]
    BY <2>1, <2>2, SetStepShape DEF StepStatuses
  <2>4. StoreTypeOK' /\ QueueTypeOK' /\ invoked' \in [Steps -> 0..CallCap]
    BY <1>0, <2>1, <2>3, <1>11 DEF HoldStep, StoreTypeOK, store, QueueTypeOK, RecordAudit, AuditEvents, ApprovalStatuses
  <2> QED
    BY <1>q, <2>3, <2>4
<1>12. CASE DenyStep(e)
  <2>1. session[e].cur \in Steps /\ session[e].pc \in AtStep
    BY <1>0, <1>12 DEF DenyStep, SessionShape, AtStep, StepsOf
  <2>2. SetStep(e, "rejected", "pass")
    BY <1>12 DEF DenyStep
  <2>3. Kept /\ sstatus' \in [Steps -> StepStatuses]
    BY <2>1, <2>2, SetStepShape DEF StepStatuses
  <2>4. StoreTypeOK' /\ QueueTypeOK' /\ invoked' \in [Steps -> 0..CallCap]
    BY <1>0, <2>1, <2>3, <1>12 DEF DenyStep, StoreTypeOK, store, QueueTypeOK, RecordAudit, AuditEvents, ApprovalStatuses
  <2> QED
    BY <1>q, <2>3, <2>4
<1>13. CASE BeginStep(e)
  <2>1. session[e].cur \in Steps /\ session[e].pc \in AtStep
    BY <1>0, <1>13 DEF BeginStep, SessionShape, AtStep, StepsOf
  <2>2. SetStep(e, "running", "call")
    BY <1>13 DEF BeginStep
  <2>3. Kept /\ sstatus' \in [Steps -> StepStatuses]
    BY <2>1, <2>2, SetStepShape DEF StepStatuses
  <2>4. {<<dep, session[e].cur>> : dep \in DependsOn[session[e].cur]}
           \subseteq Steps \X Steps
    BY <2>1
  <2>5. handoffs' \subseteq Steps \X Steps
    BY <1>0, <2>4, <1>13 DEF BeginStep, StoreTypeOK
  <2>6. audit' \subseteq AuditEvents
    BY <1>0, <2>1, <1>13 DEF BeginStep, StoreTypeOK, RecordAudit, AuditEvents
  <2>7. UNCHANGED <<mstatus, approval, faults, queue, invoked>>
    BY <1>13 DEF BeginStep
  <2>8. StoreTypeOK' /\ QueueTypeOK' /\ invoked' \in [Steps -> 0..CallCap]
    BY <1>0, <2>3, <2>5, <2>6, <2>7 DEF StoreTypeOK, QueueTypeOK
  <2> QED
    BY <1>q, <2>3, <2>8
<1>14. CASE RecordSuccess(e)
  <2>1. session[e].cur \in Steps /\ session[e].pc \in AtStep
    BY <1>0, <1>14 DEF RecordSuccess, SessionShape, AtStep, StepsOf
  <2>2. SetStep(e, "completed", "pass")
    BY <1>14 DEF RecordSuccess
  <2>3. Kept /\ sstatus' \in [Steps -> StepStatuses]
    BY <2>1, <2>2, SetStepShape DEF StepStatuses
  <2>4. audit' \subseteq AuditEvents
    BY <1>0, <2>1, <1>14 DEF RecordSuccess, StoreTypeOK, RecordAudit, AuditEvents
  <2>5. UNCHANGED <<mstatus, approval, handoffs, faults, queue, invoked>>
    BY <1>14 DEF RecordSuccess
  <2>6. StoreTypeOK' /\ QueueTypeOK' /\ invoked' \in [Steps -> 0..CallCap]
    BY <1>0, <2>3, <2>4, <2>5 DEF StoreTypeOK, QueueTypeOK
  <2> QED
    BY <1>q, <2>3, <2>6
<1>15. CASE ApprovalConflict(e)
  BY <1>0, <1>c, <1>q, <1>15 DEF ApprovalConflict, StoreTypeOK, store, QueueTypeOK
<1>16. CASE Conclude(e)
  <2>1. session[e].job \in Missions
    BY <1>0, <1>16 DEF Conclude, SessionShape
  <2>2. StoreTypeOK' /\ QueueTypeOK' /\ invoked' \in [Steps -> 0..CallCap]
    BY <1>0, <2>1, <1>16 DEF Conclude, Return, StoreTypeOK, store, QueueTypeOK, RecordAudit, AuditEvents, MissionStatuses, Verdict
  <2> QED
    BY <1>c, <1>q, <2>2, <1>16 DEF Conclude, Return
<1>17. CASE Park(e)
  <2>1. session[e].job \in Missions
    BY <1>0, <1>17 DEF Park, SessionShape
  <2>2. StoreTypeOK' /\ QueueTypeOK' /\ invoked' \in [Steps -> 0..CallCap]
    BY <1>0, <2>1, <1>17 DEF Park, Return, StoreTypeOK, store, QueueTypeOK, RecordAudit, AuditEvents, MissionStatuses
  <2> QED
    BY <1>c, <1>q, <2>2, <1>17 DEF Park, Return
<1>18. CASE Deadlock(e)
  <2>1. session[e].job \in Missions
    BY <1>0, <1>18 DEF Deadlock, SessionShape
  <2>2. StoreTypeOK' /\ QueueTypeOK' /\ invoked' \in [Steps -> 0..CallCap]
    BY <1>0, <2>1, <1>18 DEF Deadlock, Return, StoreTypeOK, store, QueueTypeOK, RecordAudit, AuditEvents, MissionStatuses
  <2> QED
    BY <1>c, <1>q, <2>2, <1>18 DEF Deadlock, Return
<1> QED
  BY <1>1, <1>2, <1>3, <1>4, <1>5, <1>6, <1>7, <1>8, <1>9, <1>10, <1>11, <1>12, <1>13, <1>14, <1>15, <1>16, <1>17, <1>18 DEF ExecutorNext, Advance

(* A handler's action keeps the types and the shape. *)
LEMMA RequestShapeStep ==
    ASSUME Shape, NEW r \in Requests, RequestNext(r), UNCHANGED <<execution, backend>>
    PROVE  Shape'
<1> USE PlanAssumption, SentinelAssumption
<1>0. /\ HandlerShape(request[r]) /\ HandlerShape(NoRequest)
      /\ StoreTypeOK /\ QueueTypeOK /\ ExecutorTypeOK /\ backend \in Backends
      /\ \A e \in Executors : SessionShape(session[e])
  BY ClosedShape DEF Shape, TypeOK
<1>r. ExecutorTypeOK' /\ backend' \in Backends /\ \A e \in Executors : SessionShape(session[e])'
  BY <1>0 DEF ExecutorTypeOK, SessionShape, execution
<1> DEFINE Kept == RequestTypeOK' /\ \A p \in Requests : HandlerShape(request[p])'
<1>q. ASSUME StoreTypeOK', QueueTypeOK', Kept PROVE Shape'
  BY <1>q, <1>r DEF Shape, TypeOK
<1>f. ASSUME Finish(r) PROVE Kept
  BY <1>0, <1>f, ProceedsShape DEF Finish
<1>e. ASSUME NEW m \in Missions, Proceeds(r, [NoRequest EXCEPT !.pc = "enqueue", !.mission = m])
      PROVE  Kept
  <2>1. HandlerShape([NoRequest EXCEPT !.pc = "enqueue", !.mission = m])
    BY <1>0 DEF HandlerShape, Handlers, NoRequest, HandlerPlaces
  <2> QED
    BY <1>e, <2>1, ProceedsShape
<1>1. CASE RunRead(r)
  <2>1. PICK m \in Missions :
          Proceeds(r, [NoRequest EXCEPT !.pc = "run_commit", !.mission = m,
                                        !.seenMission = mstatus[m]])
    BY <1>1 DEF RunRead
  <2>2. HandlerShape([NoRequest EXCEPT !.pc = "run_commit", !.mission = m,
                                       !.seenMission = mstatus[m]])
    BY <1>0 DEF HandlerShape, Handlers, NoRequest, HandlerPlaces, StoreTypeOK
  <2>3. Kept
    BY <2>1, <2>2, ProceedsShape
  <2> QED
    BY <1>0, <1>1, <1>q, <2>3 DEF RunRead, StoreTypeOK, store, QueueTypeOK
<1>2. CASE RunCommit(r)
  <2>1. request[r].mission \in Missions
    BY <1>0, <1>2 DEF RunCommit, HandlerShape
  <2>2. StoreTypeOK' /\ QueueTypeOK'
    BY <1>0, <1>2, <2>1 DEF RunCommit, StoreTypeOK, QueueTypeOK, Flushed,
       RecordAudit, AuditEvents, MissionStatuses
  <2> QED
    BY <1>2, <1>e, <1>q, <2>1, <2>2 DEF RunCommit
<1>3. CASE DecideRead(r)
  <2>1. PICK s \in Steps, dec \in {"approved", "rejected"} :
          Proceeds(r, [NoRequest EXCEPT !.pc = "decide_load", !.decision = dec,
                                        !.step = s, !.mission = MissionOf[s]])
    BY <1>3 DEF DecideRead
  <2>2. HandlerShape([NoRequest EXCEPT !.pc = "decide_load", !.decision = dec,
                                       !.step = s, !.mission = MissionOf[s]])
    <3> DEFINE q == [NoRequest EXCEPT !.pc = "decide_load", !.decision = dec,
                                      !.step = s, !.mission = MissionOf[s]]
    <3>1. MissionOf[s] \in Missions /\ NoRequest \in Handlers
      BY <1>0 DEF HandlerShape
    <3>2. q \in Handlers
      BY <3>1 DEF Handlers, HandlerPlaces, ApprovalStatuses
    <3>3. q.pc = "decide_load" /\ q.step = s /\ q.mission = MissionOf[s] /\ q.decision = dec
      BY <3>1 DEF Handlers
    <3> HIDE DEF q
    <3>4. HandlerShape(q)
      BY <3>1, <3>2, <3>3 DEF HandlerShape
    <3> QED
      BY <3>4 DEF q
  <2>3. Kept
    BY <2>1, <2>2, ProceedsShape
  <2> QED
    BY <1>0, <1>3, <1>q, <2>3 DEF DecideRead, StoreTypeOK, store, QueueTypeOK
<1>4. CASE DecideLoad(r)
  <2> DEFINE q == [request[r] EXCEPT !.pc = "decide_commit",
                       !.seenStep = sstatus[request[r].step],
                       !.seenMission = mstatus[request[r].mission]]
  <2>1. HandlerShape(q)
    BY <1>0, <1>4 DEF DecideLoad, HandlerShape, Handlers, HandlerPlaces, StoreTypeOK
  <2>2. Proceeds(r, q)
    BY <1>4 DEF DecideLoad
  <2>3. Kept
    BY <2>1, <2>2, ProceedsShape
  <2> QED
    BY <1>0, <1>4, <1>q, <2>3 DEF DecideLoad, StoreTypeOK, store, QueueTypeOK
<1>5. CASE DecideCommit(r)
  <2>1. /\ request[r].mission \in Missions /\ request[r].step \in Steps
        /\ request[r].decision \in {"approved", "rejected"}
    BY <1>0, <1>5 DEF DecideCommit, HandlerShape
  <2>2. Kept
    BY <1>5, <1>e, <1>f, <2>1 DEF DecideCommit
  <2>3. /\ mstatus' \in [Missions -> MissionStatuses]
        /\ sstatus' \in [Steps -> StepStatuses]
        /\ approval' \in [Steps -> ApprovalStatuses]
    BY <1>0, <1>5, <2>1 DEF DecideCommit, StoreTypeOK, Flushed, DecidedStep,
       DecidedMission, MissionStatuses, StepStatuses, ApprovalStatuses
  <2>4. audit' \subseteq AuditEvents
    BY <1>0, <1>5, <2>1 DEF DecideCommit, StoreTypeOK, RecordAudit, AuditEvents
  <2> QED
    BY <1>0, <1>5, <1>q, <2>2, <2>3, <2>4 DEF DecideCommit, StoreTypeOK, QueueTypeOK
<1>6. CASE Enqueue(r)
  <2>1. QueueTypeOK'
    BY <1>0, <1>6, PushType DEF Enqueue, HandlerShape
  <2> QED
    BY <1>0, <1>6, <1>f, <1>q, <2>1 DEF Enqueue, StoreTypeOK, store
<1>7. CASE EnqueueFails(r)
  BY <1>0, <1>7, <1>f, <1>q DEF EnqueueFails, Fault, StoreTypeOK, store, QueueTypeOK
<1> QED
  BY <1>1, <1>2, <1>3, <1>4, <1>5, <1>6, <1>7 DEF RequestNext, Submit, Handle

(* A crash of a worker or of the process keeps the types and the shape. *)
LEMMA CrashShapeStep ==
    ASSUME Shape, (\E e \in Executors : CrashStep(e)) \/ ProcessCrash
    PROVE  Shape'
<1>0. StoreTypeOK /\ QueueTypeOK /\ backend \in Backends /\ invoked \in [Steps -> 0..CallCap]
  BY DEF Shape, TypeOK, ExecutorTypeOK
<1>1. ASSUME NEW e \in Executors, CrashStep(e) PROVE Shape'
  <2>1. /\ session' \in [Executors -> Sessions]
        /\ \A f \in Executors : SessionShape(session[f])'
    BY <1>1, ClosedShape, BecomesShape DEF CrashStep, Abandon, Close
  <2>2. /\ StoreTypeOK' /\ QueueTypeOK' /\ backend' \in Backends
        /\ invoked' \in [Steps -> 0..CallCap]
    BY <1>0, <1>1 DEF CrashStep, Abandon, Fault, StoreTypeOK, store, QueueTypeOK
  <2>3. RequestTypeOK' /\ \A r \in Requests : HandlerShape(request[r])'
    BY <1>1 DEF CrashStep, Shape, TypeOK, RequestTypeOK, HandlerShape
  <2> QED
    BY <2>1, <2>2, <2>3 DEF Shape, TypeOK, ExecutorTypeOK
<1>2. CASE ProcessCrash
  <2>1. SessionShape(Closed) /\ Closed \in Sessions
    BY ClosedShape DEF SessionShape
  <2>2. HandlerShape(NoRequest) /\ NoRequest \in Handlers
    BY ClosedShape DEF HandlerShape
  <2>3. ExecutorTypeOK' /\ \A f \in Executors : SessionShape(session[f])'
    BY <1>0, <1>2, <2>1 DEF ProcessCrash, ExecutorTypeOK, SessionShape
  <2>4. RequestTypeOK' /\ \A r \in Requests : HandlerShape(request[r])'
    BY <1>2, <2>2 DEF ProcessCrash, RequestTypeOK, HandlerShape
  <2>5. StoreTypeOK' /\ QueueTypeOK' /\ backend' \in Backends
    BY <1>0, <1>2 DEF ProcessCrash, Fault, StoreTypeOK, store, QueueTypeOK
  <2> QED
    BY <2>3, <2>4, <2>5 DEF Shape, TypeOK
<1> QED
  BY <1>1, <1>2

(* The initial state has the types and the shape. *)
LEMMA InitShape == Init => Shape
<1> SUFFICES ASSUME Init PROVE Shape
  OBVIOUS
<1>1. SessionShape(Closed) /\ Closed \in Sessions
  BY ClosedShape DEF SessionShape
<1>2. HandlerShape(NoRequest) /\ NoRequest \in Handlers
  BY ClosedShape DEF HandlerShape
<1>3. StoreTypeOK
  BY DEF Init, StoreInit, StoreTypeOK, MissionStatuses, StepStatuses, ApprovalStatuses
<1>4. QueueTypeOK /\ backend \in Backends
  BY DEF Init, QueueInit, QueueTypeOK
<1> QED
  BY <1>1, <1>2, <1>3, <1>4 DEF Init, ExecutorInit, RequestInit, Shape, TypeOK,
     ExecutorTypeOK, RequestTypeOK, CallCap

(* Every step of the system keeps the types and the shape. *)
LEMMA ShapeStep == Shape /\ [Next]_vars => Shape'
<1> SUFFICES ASSUME Shape, [Next]_vars PROVE Shape'
  OBVIOUS
<1>1. CASE UNCHANGED vars
  BY <1>1 DEF vars, store, execution, Shape, TypeOK, StoreTypeOK, QueueTypeOK,
     ExecutorTypeOK, RequestTypeOK, SessionShape, HandlerShape
<1>2. ASSUME NEW e \in Executors, ExecutorStep(e) PROVE Shape'
  BY <1>2, ExecutorShapeStep DEF ExecutorStep
<1>3. ASSUME NEW r \in Requests, RequestStep(r) PROVE Shape'
  BY <1>3, RequestShapeStep DEF RequestStep
<1> QED
  BY <1>1, <1>2, <1>3, CrashShapeStep DEF Next

(***************************************************************************)
(* Type correctness of the orchestration core.                             *)
(***************************************************************************)
THEOREM TypeCorrect == Spec => []TypeOK
<1>1. Shape => TypeOK
  BY DEF Shape
<1> QED
  BY <1>1, InitShape, ShapeStep, PTL DEF Spec

----------------------------------------------------------------------------
(* Nothing that accounts for a status is ever taken back. *)

Grows ==
    /\ audit \subseteq audit' /\ handoffs \subseteq handoffs'
    /\ \A s \in Steps : invoked[s] > 0 => invoked'[s] > 0

(* No action removes an audited event, a hand-off or a provider call. *)
LEMMA Growth == Shape /\ [Next]_vars => Grows
<1> SUFFICES ASSUME Shape, [Next]_vars PROVE Grows
  OBVIOUS
<1>0. invoked \in [Steps -> 0..2]
  BY DEF Shape, TypeOK, ExecutorTypeOK, CallCap
<1>1. CASE UNCHANGED <<audit, handoffs, invoked>>
  BY <1>1 DEF Grows
<1>2. ASSUME NEW e \in Executors, ExecutorStep(e) PROVE Grows
  <2>1. CASE CallProvider(e)
    BY <1>0, <2>1 DEF CallProvider, Grows, CallCap, store
  <2> QED
    BY <1>2, <2>1 DEF ExecutorStep, ExecutorNext, Advance, Grows, store, RecordAudit,
       Blpop, LoadMission, LoadSteps, Start, Conclude, BeginPass, Gate, RequestApproval,
       ApprovalConflict, HoldStep, DenyStep, BeginStep, RecordSuccess, RecordFailure,
       NextPass, Park, Deadlock, Return
<1>3. ASSUME NEW r \in Requests, RequestStep(r) PROVE Grows
  BY <1>3 DEF RequestStep, RequestNext, Submit, Handle, Grows, store, execution,
     RecordAudit, RunRead, RunCommit, DecideRead, DecideLoad, DecideCommit, Enqueue,
     EnqueueFails
<1>4. ASSUME (\E e \in Executors : CrashStep(e)) \/ ProcessCrash PROVE Grows
  BY <1>1, <1>4 DEF CrashStep, Abandon, ProcessCrash, store
<1> QED
  BY <1>1, <1>2, <1>3, <1>4 DEF Next, vars, store, execution

(* What accounted for a status still does. *)
LEMMA AccountsPersist ==
    ASSUME Grows
    PROVE  /\ \A s \in Steps, st \in StepStatuses :
                StepAccount(s, st) => StepAccount(s, st)'
           /\ \A m \in Missions, st \in MissionStatuses :
                MissionAccount(m, st) => MissionAccount(m, st)'
<1>1. audit \subseteq audit'
  BY DEF Grows
<1>2. \A s \in Steps : /\ Started(s) => Started(s)'
                       /\ Requested(s) => Requested(s)'
                       /\ Done(s) => Done(s)'
                       /\ Denied(s) => Denied(s)'
                       /\ Granted(s) => Granted(s)'
  BY <1>1 DEF Started, Requested, Done, Denied, Granted
<1>3. \A s \in Steps, st \in StepStatuses : StepAccount(s, st) => StepAccount(s, st)'
  BY <1>1, <1>2 DEF StepAccount
<1>4. \A m \in Missions, st \in MissionStatuses :
         MissionAccount(m, st) => MissionAccount(m, st)'
  BY <1>1, <1>2 DEF MissionAccount, StepsOf
<1> QED
  BY <1>3, <1>4

(* A session that does not move stays accounted for. *)
LEMMA BecomesAccounted ==
    ASSUME Shape, Grows, NEW e \in Executors, SessionAccounted(session[e])',
           \A f \in Executors \ {e} : session'[f] = session[f],
           \A f \in Executors : SessionAccounted(session[f])
    PROVE  \A f \in Executors : SessionAccounted(session[f])'
<1> SUFFICES ASSUME NEW f \in Executors \ {e} PROVE SessionAccounted(session[f])'
  OBVIOUS
<1>1. /\ session'[f] = session[f] /\ SessionAccounted(session[f])
      /\ SessionShape(session[f])
  BY DEF Shape
<1>2. ViewAccounted(session[f])'
  BY <1>1 DEF SessionAccounted, ViewAccounted, StepAccount, Grows, Started, Requested,
     Done, Denied
<1>3. InputsAccounted(session[f])'
  BY <1>1, PlanAssumption DEF SessionAccounted, InputsAccounted, Grows, Done
<1>4. RunAccounted(session[f])'
  BY <1>1 DEF SessionAccounted, RunAccounted, Grows
<1>5. PlaceAccounted(session[f])'
  BY <1>1 DEF SessionAccounted, PlaceAccounted, Grows, Requested, Denied, Granted,
     Started, SessionShape, AtStep, StepsOf
<1> QED
  BY <1>2, <1>3, <1>4, <1>5 DEF SessionAccounted

(* Actions that change neither the tables nor the provider calls keep the  *)
(* tables accounted for; sessions and handlers are left to show.           *)
LEMMA QuietStep ==
    ASSUME Accounted, UNCHANGED <<store, invoked>>,
           \A e \in Executors : SessionAccounted(session[e])',
           DecisionsAccounted'
    PROVE  Accounted'
<1> USE DEF store, StepsOf, Granted, Requested, Denied, Started, Done
<1>1. ApprovalsAccounted'
  BY DEF Accounted, ApprovalsAccounted
<1>2. TrailExplainsState'
  BY DEF Accounted, TrailExplainsState, MissionAccount, StepAccount
<1>3. StepTrail'
  BY DEF Accounted, StepTrail
<1>4. MissionTrail'
  BY DEF Accounted, MissionTrail
<1> QED
  BY <1>1, <1>2, <1>3, <1>4 DEF Accounted

(* An executor that closes leaves every session accounted for. *)
LEMMA CloseAccounted ==
    ASSUME Shape, Accounted, Grows, NEW e \in Executors, Close(e)
    PROVE  \A f \in Executors : SessionAccounted(session[f])'
<1>1. session' = [session EXCEPT ![e] = Closed] /\ session \in [Executors -> Sessions]
  BY DEF Close, Becomes, Shape, TypeOK, ExecutorTypeOK
<1>2. session'[e] = Closed /\ \A f \in Executors \ {e} : session'[f] = session[f]
  BY <1>1
<1>3. SessionAccounted(session[e])'
  BY <1>2 DEF Closed, SessionAccounted, ViewAccounted, StepAccount, InputsAccounted,
     RunAccounted, PlaceAccounted, AtStep
<1> QED
  BY <1>2, <1>3, BecomesAccounted DEF Accounted

(* Reading the tables, and moving on, keeps everything accounted for. *)
LEMMA ExecutorQuietStep ==
    ASSUME Shape, Shape', Accounted, Grows, NEW e \in Executors, UNCHANGED request,
           \/ Blpop(e) \/ LoadMission(e) \/ LoadSteps(e) \/ BeginPass(e) \/ Gate(e)
           \/ ApprovalConflict(e) \/ NextPass(e)
    PROVE  Accounted'
<1> USE PlanAssumption
<1>0. /\ SessionShape(session[e]) /\ SessionAccounted(session[e])
      /\ session \in [Executors -> Sessions]
      /\ sstatus \in [Steps -> StepStatuses] /\ approval \in [Steps -> ApprovalStatuses]
  BY DEF Shape, Accounted, TypeOK, ExecutorTypeOK, StoreTypeOK
<1>u. UNCHANGED <<store, invoked>>
  BY DEF Blpop, LoadMission, LoadSteps, BeginPass, Gate, ApprovalConflict, NextPass
<1>d. DecisionsAccounted'
  BY <1>u DEF Accounted, DecisionsAccounted, store
<1>q. ASSUME \A f \in Executors : SessionAccounted(session[f])' PROVE Accounted'
  BY <1>u, <1>d, <1>q, QuietStep
<1>b. ASSUME NEW x, Becomes(e, x)
      PROVE  session'[e] = x /\ \A f \in Executors \ {e} : session'[f] = session[f]
  BY <1>0, <1>b DEF Becomes
<1>s. ASSUME NEW x, Becomes(e, x), SessionAccounted(session[e])' PROVE Accounted'
  BY <1>b, <1>q, <1>s, BecomesAccounted DEF Accounted
<1>k. StepAccount(session[e].cur, "pending") /\ \A s \in Steps : StepAccount(s, "pending")'
  BY DEF StepAccount
<1>1. CASE Blpop(e)
  <2>1. PICK m \in Missions :
          Becomes(e, [Closed EXCEPT !.pc = "load_mission", !.job = m])
    BY <1>1 DEF Blpop
  <2>2. session'[e] = [Closed EXCEPT !.pc = "load_mission", !.job = m]
    BY <1>b, <2>1
  <2>3. /\ session'[e].pc = "load_mission" /\ session'[e].todo = {}
        /\ \A s \in Steps : session'[e].view[s] = "pending"
    BY <2>2 DEF Closed
  <2>4. SessionAccounted(session[e])'
    BY <2>3 DEF SessionAccounted, ViewAccounted, StepAccount, InputsAccounted,
       RunAccounted, PlaceAccounted, AtStep
  <2> QED
    BY <1>s, <2>1, <2>4
<1>2. CASE LoadMission(e)
  <2>1. Becomes(e, [session[e] EXCEPT !.pc = "load_steps",
                                      !.loaded = mstatus[session[e].job]])
    BY <1>2 DEF LoadMission
  <2>2. session'[e] = [session[e] EXCEPT !.pc = "load_steps",
                                         !.loaded = mstatus[session[e].job]]
    BY <1>b, <2>1
  <2>3. /\ session'[e].pc = "load_steps" /\ session'[e].todo = session[e].todo
        /\ session'[e].view = session[e].view
    BY <1>0, <2>2 DEF SessionShape, Sessions
  <2>4. SessionAccounted(session[e])'
    BY <1>0, <1>u, <2>3 DEF SessionAccounted, ViewAccounted, StepAccount,
       InputsAccounted, RunAccounted, PlaceAccounted, AtStep, store, Started,
       Requested, Done, Denied
  <2> QED
    BY <1>s, <2>1, <2>4
<1>3. CASE LoadSteps(e)
  <2>1. CASE Close(e)
    BY <1>q, <2>1, CloseAccounted
  <2>2. CASE Becomes(e, [session[e] EXCEPT !.pc = "start",
                                           !.view = LoadedView(session[e].job)])
    <3>1. session'[e] = [session[e] EXCEPT !.pc = "start",
                                           !.view = LoadedView(session[e].job)]
      BY <1>b, <2>2
    <3>2. /\ session'[e].pc = "start" /\ session'[e].todo = session[e].todo
          /\ session'[e].view = LoadedView(session[e].job)
      BY <1>0, <3>1 DEF SessionShape, Sessions
    <3>3. ASSUME NEW s \in Steps PROVE StepAccount(s, session[e].view[s])'
      <4>1. session'[e].view[s] = sstatus[s] \/ session'[e].view[s] = "pending"
        BY <3>2 DEF LoadedView
      <4>2. StepAccount(s, sstatus[s])
        BY DEF Accounted, TrailExplainsState
      <4> QED
        BY <4>1, <4>2, <1>u DEF StepAccount, store, Started, Requested, Done, Denied
    <3>4. SessionAccounted(session[e])'
      BY <1>0, <1>u, <3>2, <3>3 DEF SessionAccounted, ViewAccounted,
         InputsAccounted, RunAccounted, PlaceAccounted, AtStep, store, Done
    <3> QED
      BY <1>s, <2>2, <3>4
  <2> QED
    BY <1>3, <2>1, <2>2 DEF LoadSteps
<1>4. CASE BeginPass(e)
  <2>1. Becomes(e, [session[e] EXCEPT !.pc = "pass", !.todo = Ready(e),
                                      !.progressed = FALSE])
    BY <1>4 DEF BeginPass
  <2>2. session'[e] = [session[e] EXCEPT !.pc = "pass", !.todo = Ready(e),
                                         !.progressed = FALSE]
    BY <1>b, <2>1
  <2>3. /\ session'[e].pc = "pass" /\ session'[e].todo = Ready(e)
        /\ session'[e].view = session[e].view /\ session'[e].job = session[e].job
    BY <1>0, <2>2 DEF SessionShape, Sessions
  <2>4. \A s \in Ready(e) : \A dep \in DependsOn[s] : Done(dep)
    BY <1>0 DEF Ready, StepsOf, SessionAccounted, ViewAccounted, StepAccount
  <2>5. InputsAccounted(session[e])'
    BY <1>u, <2>3, <2>4 DEF InputsAccounted, AtStep, store, Done
  <2>6. ViewAccounted(session[e])'
    BY <1>0, <1>u, <2>3 DEF SessionAccounted, ViewAccounted, StepAccount, store, Started,
       Requested, Done, Denied
  <2>7. RunAccounted(session[e])' /\ PlaceAccounted(session[e])'
    BY <1>0, <1>4, <1>u, <2>3 DEF BeginPass, SessionAccounted, RunAccounted,
       PlaceAccounted, store
  <2> QED
    BY <1>s, <2>1, <2>5, <2>6, <2>7 DEF SessionAccounted
<1>5. CASE Gate(e)
  <2>1. PICK s \in session[e].todo :
          Becomes(e, [session[e] EXCEPT
                         !.pc = Ruling(s), !.cur = s, !.todo = @ \ {s},
                         !.progressed = @ \/ Ruling(s) = "begin"])
    BY <1>5 DEF Gate
  <2>2. session'[e] = [session[e] EXCEPT
                         !.pc = Ruling(s), !.cur = s, !.todo = @ \ {s},
                         !.progressed = @ \/ Ruling(s) = "begin"]
    BY <1>b, <2>1
  <2>3. /\ session'[e].pc = Ruling(s) /\ session'[e].cur = s
        /\ session'[e].todo = session[e].todo \ {s}
        /\ session'[e].view = session[e].view /\ session'[e].job = session[e].job
    BY <1>0, <2>2 DEF SessionShape, Sessions
  <2>4. s \in Steps
    BY <1>0 DEF SessionShape, StepsOf
  <2>5. InputsAccounted(session[e])'
    BY <1>0, <1>u, <2>3 DEF SessionAccounted, InputsAccounted, store, Done
  <2>6. ViewAccounted(session[e])'
    BY <1>0, <1>u, <2>3 DEF SessionAccounted, ViewAccounted, StepAccount, store, Started,
       Requested, Done, Denied
  <2>7. RunAccounted(session[e])'
    BY <1>0, <1>5, <1>u, <2>3 DEF Gate, SessionAccounted, RunAccounted, store
  <2>8. PlaceAccounted(session[e])'
    <3>1. /\ approval[s] # "none" => Requested(s)
          /\ approval[s] = "approved" => Granted(s)
          /\ approval[s] = "rejected" => Denied(s)
          /\ approval[s] \in ApprovalStatuses
      BY <1>0, <2>4 DEF Accounted, ApprovalsAccounted
    <3> QED
      BY <1>u, <2>3, <3>1 DEF Ruling, ApprovalStatuses, PlaceAccounted, store, Requested,
         Granted, Denied
  <2> QED
    BY <1>s, <2>1, <2>5, <2>6, <2>7, <2>8 DEF SessionAccounted
<1>6. CASE ApprovalConflict(e)
  BY <1>6, <1>q, CloseAccounted DEF ApprovalConflict
<1>7. CASE NextPass(e)
  <2>1. Becomes(e, [session[e] EXCEPT !.pc = "loop"])
    BY <1>7 DEF NextPass
  <2>2. session'[e] = [session[e] EXCEPT !.pc = "loop"]
    BY <1>b, <2>1
  <2>3. /\ session'[e].pc = "loop" /\ session'[e].todo = session[e].todo
        /\ session'[e].view = session[e].view /\ session'[e].job = session[e].job
    BY <1>0, <2>2 DEF SessionShape, Sessions
  <2>4. SessionAccounted(session[e])'
    BY <1>0, <1>7, <1>u, <2>3 DEF NextPass, SessionAccounted, ViewAccounted, StepAccount,
       InputsAccounted, RunAccounted, PlaceAccounted, AtStep, store, Started,
       Requested, Done, Denied
  <2> QED
    BY <1>s, <2>1, <2>4
<1> QED
  BY <1>1, <1>2, <1>3, <1>4, <1>5, <1>6, <1>7

(* The row and the view of the current step take an accounted status. *)
LEMMA SetStepAccounted ==
    ASSUME Shape, Accounted, Grows, NEW e \in Executors, session[e].pc \in AtStep,
           NEW c \in Steps, c = session[e].cur, NEW st \in StepStatuses,
           NEW pc \in {"pass", "call"}, SetStep(e, st, pc), StepAccount(c, st)'
    PROVE  /\ session'[e].pc = pc /\ session'[e].todo = session[e].todo
           /\ session'[e].job = session[e].job
           /\ session'[e].cur = IF pc = "pass" THEN NoStep ELSE session[e].cur
           /\ \A f \in Executors \ {e} : session'[f] = session[f]
           /\ ViewAccounted(session[e])'
           /\ \A s \in Steps : StepAccount(s, sstatus[s])'
<1>0. /\ SessionShape(session[e]) /\ SessionAccounted(session[e])
      /\ session \in [Executors -> Sessions] /\ sstatus \in [Steps -> StepStatuses]
      /\ \A s \in Steps : StepAccount(s, sstatus[s])
  BY DEF Shape, Accounted, TypeOK, ExecutorTypeOK, StoreTypeOK, TrailExplainsState
<1>1. session[e].view \in [Steps -> StepStatuses]
  BY <1>0 DEF SessionShape, StepsOf, Sessions
<1>2. session'[e] = [session[e] EXCEPT
                       !.pc = pc, !.view = [@ EXCEPT ![c] = st],
                       !.cur = IF pc = "pass" THEN NoStep ELSE @]
      /\ \A f \in Executors \ {e} : session'[f] = session[f]
  BY <1>0 DEF SetStep, Becomes
<1>3. /\ session'[e].pc = pc /\ session'[e].todo = session[e].todo
      /\ session'[e].job = session[e].job
      /\ session'[e].cur = IF pc = "pass" THEN NoStep ELSE session[e].cur
      /\ session'[e].view = [session[e].view EXCEPT ![c] = st]
  BY <1>0, <1>2 DEF SessionShape, Sessions
<1>4. ASSUME NEW s \in Steps PROVE StepAccount(s, session[e].view[s])'
  <2>1. CASE s = c
    <3>1. session'[e].view[s] = st
      BY <1>1, <1>3, <2>1
    <3> QED
      BY <2>1, <3>1 DEF StepAccount, Started, Requested, Done, Denied
  <2>2. CASE s # c
    <3>1. session'[e].view[s] = session[e].view[s] /\ StepAccount(s, session[e].view[s])
      BY <1>0, <1>1, <1>3, <2>2 DEF SessionAccounted, ViewAccounted
    <3> QED
      BY <3>1 DEF Grows, StepAccount, Started, Requested, Done, Denied
  <2> QED
    BY <2>1, <2>2
<1>5. ASSUME NEW s \in Steps PROVE StepAccount(s, sstatus[s])'
  <2>1. sstatus' = [sstatus EXCEPT ![c] = st]
    BY DEF SetStep
  <2>2. CASE s = c
    <3>1. sstatus'[s] = st
      BY <1>0, <1>1, <2>1, <2>2
    <3> QED
      BY <2>2, <3>1 DEF StepAccount, Started, Requested, Done, Denied
  <2>3. CASE s # c
    <3>1. sstatus'[s] = sstatus[s] /\ StepAccount(s, sstatus[s])
      BY <1>0, <1>1, <2>1, <2>3
    <3> QED
      BY <3>1 DEF Grows, StepAccount, Started, Requested, Done, Denied
  <2> QED
    BY <2>2, <2>3
<1> QED
  BY <1>2, <1>3, <1>4, <1>5 DEF ViewAccounted

(* An action that leaves the missions alone keeps their statuses explained. *)
LEMMA MissionsExplained ==
    ASSUME Shape, Accounted, Grows, UNCHANGED mstatus
    PROVE  \A m \in Missions : MissionAccount(m, mstatus[m])'
<1> SUFFICES ASSUME NEW m \in Missions PROVE MissionAccount(m, mstatus[m])'
  OBVIOUS
<1>1. MissionAccount(m, mstatus[m])
  BY DEF Accounted, TrailExplainsState
<1> QED
  BY <1>1 DEF Grows, MissionAccount, StepsOf, Granted, Denied

(* Committing the status of one mission, or keeping it, keeps them explained. *)
LEMMA MissionExplained ==
    ASSUME Shape, Accounted, Grows, NEW m \in Missions, NEW st \in MissionStatuses,
           mstatus' = [mstatus EXCEPT ![m] = st] \/ UNCHANGED mstatus,
           MissionAccount(m, st)'
    PROVE  \A n \in Missions : MissionAccount(n, mstatus[n])'
<1>1. CASE UNCHANGED mstatus
  BY <1>1, MissionsExplained
<1>2. CASE mstatus' = [mstatus EXCEPT ![m] = st]
  <2> SUFFICES ASSUME NEW n \in Missions PROVE MissionAccount(n, mstatus[n])'
    OBVIOUS
  <2>0. mstatus \in [Missions -> MissionStatuses]
    BY DEF Shape, TypeOK, StoreTypeOK
  <2>1. CASE n = m
    <3>1. mstatus'[n] = st
      BY <1>2, <2>0, <2>1
    <3> QED
      BY <2>1, <3>1 DEF MissionAccount, StepsOf, Granted, Denied
  <2>2. CASE n # m
    <3>1. mstatus'[n] = mstatus[n] /\ MissionAccount(n, mstatus[n])
      BY <1>2, <2>0, <2>2 DEF Accounted, TrailExplainsState
    <3> QED
      BY <3>1 DEF Grows, MissionAccount, StepsOf, Granted, Denied
  <2> QED
    BY <2>1, <2>2
<1> QED
  BY <1>1, <1>2

(* The same for the steps. *)
LEMMA StepsExplained ==
    ASSUME Shape, Accounted, Grows, UNCHANGED sstatus
    PROVE  \A s \in Steps : StepAccount(s, sstatus[s])'
<1> SUFFICES ASSUME NEW s \in Steps PROVE StepAccount(s, sstatus[s])'
  OBVIOUS
<1>1. StepAccount(s, sstatus[s])
  BY DEF Accounted, TrailExplainsState
<1> QED
  BY <1>1 DEF Grows, StepAccount, Started, Requested, Done, Denied

(* Approvals that nobody changes stay accounted for. *)
LEMMA ApprovalsPersist ==
    ASSUME Accounted, Grows, UNCHANGED approval
    PROVE  /\ ApprovalsAccounted'
           /\ request' = request => DecisionsAccounted'
  BY DEF Accounted, Grows, ApprovalsAccounted, DecisionsAccounted, Requested, Granted,
     Denied

(* An audited event that is not about a step's work or grant, nor about a  *)
(* mission's completion, leaves the trails of steps and missions in order. *)
LEMMA TrailsPersist ==
    ASSUME Accounted, Grows, UNCHANGED invoked,
           NEW ev, audit' = audit \/ audit' = audit \cup {ev},
           \A s \in Steps : ev \notin {<<"step", "started", s>>, <<"step", "completed", s>>,
                                     <<"approval", "approved", s>>},
           \A m \in Missions : ev # <<"mission", "completed", m>>
    PROVE  StepTrail' /\ MissionTrail'
<1>1. ASSUME NEW s \in Steps
      PROVE  (Started(s)' <=> Started(s)) /\ (Done(s)' <=> Done(s)) /\ (Granted(s)' <=> Granted(s))
  BY DEF Started, Done, Granted
<1>2. StepTrail'
  BY <1>1, PlanAssumption DEF Accounted, StepTrail, Grows
<1>3. MissionTrail'
  BY <1>1 DEF Accounted, MissionTrail, StepsOf
<1> QED
  BY <1>2, <1>3

(* Waiting for an approval: the three ends of _approval_allows that refuse. *)
LEMMA RefusalStep ==
    ASSUME Shape, Accounted, Grows, NEW e \in Executors, UNCHANGED request,
           RequestApproval(e) \/ HoldStep(e) \/ DenyStep(e)
    PROVE  Accounted'
<1>0. /\ SessionShape(session[e]) /\ SessionAccounted(session[e])
      /\ approval \in [Steps -> ApprovalStatuses]
  BY DEF Shape, Accounted, TypeOK, StoreTypeOK
<1>1. session[e].pc \in {"ask", "hold", "deny"}
  BY DEF RequestApproval, HoldStep, DenyStep
<1>2. PICK c \in Steps : c = session[e].cur
  BY <1>0, <1>1 DEF SessionShape, AtStep, StepsOf
<1>3. PICK st \in {"waiting_approval", "rejected"} :
        SetStep(e, st, "pass") /\ StepAccount(c, st)'
  <2>1. CASE RequestApproval(e)
    BY <1>2, <2>1 DEF RequestApproval, RecordAudit, StepAccount, Requested
  <2>2. CASE HoldStep(e)
    BY <1>0, <1>2, <2>2 DEF HoldStep, StepAccount, SessionAccounted, PlaceAccounted,
       Requested
  <2>3. CASE DenyStep(e)
    BY <1>0, <1>2, <2>3 DEF DenyStep, StepAccount, SessionAccounted, PlaceAccounted,
       Denied
  <2> QED
    BY <2>1, <2>2, <2>3
<1>4. /\ session'[e].pc = "pass" /\ session'[e].todo = session[e].todo
      /\ session'[e].job = session[e].job
      /\ \A f \in Executors \ {e} : session'[f] = session[f]
      /\ ViewAccounted(session[e])'
      /\ \A s \in Steps : StepAccount(s, sstatus[s])'
  BY <1>1, <1>2, <1>3, SetStepAccounted DEF AtStep, StepStatuses
<1>5. \A f \in Executors : SessionAccounted(session[f])'
  <2>1. InputsAccounted(session[e])'
    BY <1>0, <1>4, PlanAssumption DEF SessionAccounted, InputsAccounted, AtStep, Grows, Done
  <2>2. RunAccounted(session[e])' /\ PlaceAccounted(session[e])'
    BY <1>0, <1>1, <1>4 DEF SessionAccounted, RunAccounted, PlaceAccounted, AtStep, Grows
  <2> QED
    BY <1>4, <2>1, <2>2, BecomesAccounted DEF SessionAccounted, Accounted
<1>6. TrailExplainsState'
  BY <1>4, MissionsExplained DEF TrailExplainsState, RequestApproval, HoldStep, DenyStep
<1>7. StepTrail' /\ MissionTrail'
  <2>1. /\ audit' = audit \/ audit' = audit \cup {<<"approval", "requested", c>>}
        /\ invoked' = invoked
    BY <1>2 DEF RequestApproval, HoldStep, DenyStep, RecordAudit
  <2>2. /\ \A s \in Steps : <<"approval", "requested", c>> \notin
               {<<"step", "started", s>>, <<"step", "completed", s>>,
                <<"approval", "approved", s>>}
        /\ \A m \in Missions :
               <<"approval", "requested", c>> # <<"mission", "completed", m>>
    OBVIOUS
  <2> QED
    BY <2>1, <2>2, TrailsPersist
<1>8. ApprovalsAccounted' /\ DecisionsAccounted'
  <2>1. CASE HoldStep(e) \/ DenyStep(e)
    BY <2>1, ApprovalsPersist DEF HoldStep, DenyStep
  <2>2. CASE RequestApproval(e)
    <3>1. /\ approval' = [approval EXCEPT ![c] = "pending"]
          /\ Requested(c)' /\ RequiresApproval(c)
      BY <1>0, <1>2, <2>2 DEF RequestApproval, RecordAudit, Requested,
         SessionAccounted, PlaceAccounted
    <3>2. ApprovalsAccounted'
      BY <1>0, <3>1 DEF Accounted, ApprovalsAccounted, Grows, Requested, Granted,
         Denied, RequiresApproval
    <3>3. DecisionsAccounted'
      BY <1>0, <3>1 DEF Accounted, DecisionsAccounted, Shape, HandlerShape
    <3> QED
      BY <3>2, <3>3
  <2> QED
    BY <2>1, <2>2 DEF RequestApproval
<1> QED
  BY <1>5, <1>6, <1>7, <1>8 DEF Accounted

(* Starting the mission, and ending its execution. *)
LEMMA MissionStep ==
    ASSUME Shape, Shape', Accounted, Grows, NEW e \in Executors, UNCHANGED request,
           Start(e) \/ Conclude(e) \/ Park(e) \/ Deadlock(e)
    PROVE  Accounted'
<1>0. /\ SessionShape(session[e]) /\ SessionAccounted(session[e])
      /\ session \in [Executors -> Sessions] /\ mstatus \in [Missions -> MissionStatuses]
      /\ \A f \in Executors : SessionAccounted(session[f])
  BY DEF Shape, Accounted, TypeOK, StoreTypeOK, ExecutorTypeOK
<1>1. PICK m \in Missions : m = session[e].job
  BY <1>0 DEF SessionShape, Start, Conclude, Park, Deadlock
<1>2. UNCHANGED <<sstatus, approval, handoffs, invoked>>
  BY DEF Start, Conclude, Park, Deadlock, Return
<1>3. ApprovalsAccounted' /\ DecisionsAccounted'
  BY <1>2, ApprovalsPersist
<1>4. \A s \in Steps : StepAccount(s, sstatus[s])'
  BY <1>2, StepsExplained
<1>5. \A f \in Executors : SessionAccounted(session[f])'
  <2>1. CASE Start(e)
    <3>1. /\ session'[e] = [session[e] EXCEPT !.pc = "loop", !.loaded = "running"]
          /\ \A f \in Executors \ {e} : session'[f] = session[f]
      BY <1>0, <2>1 DEF Start, Becomes
    <3>2. /\ session'[e].pc = "loop" /\ session'[e].todo = session[e].todo
          /\ session'[e].view = session[e].view /\ session'[e].job = session[e].job
      BY <1>0, <3>1 DEF SessionShape, Sessions
    <3>3. ViewAccounted(session[e])'
      BY <1>0, <3>2 DEF SessionAccounted, ViewAccounted, StepAccount, Grows, Started,
         Requested, Done, Denied
    <3>4. InputsAccounted(session[e])'
      BY <1>0, <3>2, PlanAssumption DEF SessionAccounted, InputsAccounted, AtStep, Grows,
         Done
    <3>5. RunAccounted(session[e])' /\ PlaceAccounted(session[e])'
      BY <2>1, <3>2 DEF Start, RecordAudit, RunAccounted, PlaceAccounted
    <3> QED
      BY <1>0, <3>1, <3>3, <3>4, <3>5, BecomesAccounted DEF SessionAccounted
  <2>2. CASE Conclude(e) \/ Park(e) \/ Deadlock(e)
    BY <2>2, CloseAccounted DEF Conclude, Park, Deadlock, Return
  <2> QED
    BY <2>1, <2>2
<1>6. PICK st \in MissionStatuses :
        /\ mstatus' = [mstatus EXCEPT ![m] = st] \/ UNCHANGED mstatus
        /\ MissionAccount(m, st)'
  <2>1. CASE Start(e)
    <3>1. mstatus' = [mstatus EXCEPT ![m] = "running"] \/ mstatus' = mstatus
      BY <1>0, <1>1, <2>1 DEF Start, Flushed
    <3>2. MissionAccount(m, "running")'
      BY <1>1, <2>1 DEF Start, RecordAudit, MissionAccount
    <3> QED
      BY <3>1, <3>2 DEF MissionStatuses
  <2>2. CASE Conclude(e)
    <3>1. mstatus' = [mstatus EXCEPT ![m] = Verdict(e)]
          /\ audit' = audit \cup {<<"mission", Verdict(e), m>>}
          /\ Verdict(e) # "open"
      BY <1>1, <2>2 DEF Conclude, Return, RecordAudit
    <3>2. CASE Verdict(e) = "rejected"
      <4>1. PICK s \in StepsOf(m) : session[e].view[s] = "rejected"
        BY <1>1, <3>2 DEF Verdict, Sees
      <4>2. Denied(s)
        BY <1>0, <4>1 DEF SessionAccounted, ViewAccounted, StepAccount, StepsOf
      <4>3. MissionAccount(m, "rejected")'
        BY <4>2 DEF MissionAccount, Denied, Grows, StepsOf
      <4> QED
        BY <3>1, <3>2, <4>3 DEF MissionStatuses
    <3>3. CASE Verdict(e) # "rejected"
      <4>1. Verdict(e) \in {"failed", "completed"}
        BY <3>1, <3>3 DEF Verdict
      <4>2. CASE Verdict(e) = "failed"
        BY <3>1, <4>2 DEF MissionAccount, MissionStatuses
      <4>3. CASE Verdict(e) = "completed"
        BY <3>1, <4>3 DEF MissionAccount, MissionStatuses
      <4> QED
        BY <4>1, <4>2, <4>3
    <3> QED
      BY <3>2, <3>3
  <2>3. CASE Park(e)
    <3>1. mstatus' = [mstatus EXCEPT ![m] = "waiting_approval"]
      BY <1>1, <2>3 DEF Park, Return
    <3>2. <<"mission", "started", m>> \in audit
      BY <1>0, <1>1, <2>3 DEF Park, SessionAccounted, RunAccounted
    <3> QED
      BY <3>1, <3>2 DEF MissionAccount, MissionStatuses, Grows
  <2>4. CASE Deadlock(e)
    BY <1>1, <2>4 DEF Deadlock, Return, RecordAudit, MissionAccount, MissionStatuses
  <2> QED
    BY <2>1, <2>2, <2>3, <2>4
<1>7. TrailExplainsState'
  BY <1>4, <1>6, MissionExplained DEF TrailExplainsState
<1>8. StepTrail' /\ MissionTrail'
  <2>1. CASE Conclude(e) /\ Verdict(e) = "completed"
    <3>1. audit' = audit \cup {<<"mission", "completed", m>>}
      BY <1>1, <2>1 DEF Conclude, RecordAudit
    <3>2. \A s \in StepsOf(m) : Done(s)
      BY <1>0, <1>1, <2>1 DEF Verdict, SessionAccounted, ViewAccounted, StepAccount,
         StepsOf
    <3>3. ASSUME NEW s \in Steps
          PROVE  (Started(s)' <=> Started(s)) /\ (Done(s)' <=> Done(s))
                 /\ (Granted(s)' <=> Granted(s))
      BY <3>1 DEF Started, Done, Granted
    <3>4. StepTrail'
      BY <1>2, <3>3, PlanAssumption DEF Accounted, StepTrail, Grows
    <3>5. MissionTrail'
      BY <3>1, <3>2, <3>3 DEF Accounted, MissionTrail, StepsOf
    <3> QED
      BY <3>4, <3>5
  <2>2. CASE ~(Conclude(e) /\ Verdict(e) = "completed")
    <3>1. PICK v \in {"started", "rejected", "failed", "deadlocked"} :
            audit' = audit \/ audit' = audit \cup {<<"mission", v, m>>}
      BY <1>1, <2>2 DEF Start, Conclude, Park, Deadlock, RecordAudit, Verdict
    <3>2. /\ \A s \in Steps : <<"mission", v, m>> \notin
                 {<<"step", "started", s>>, <<"step", "completed", s>>,
                  <<"approval", "approved", s>>}
          /\ \A n \in Missions : <<"mission", v, m>> # <<"mission", "completed", n>>
      OBVIOUS
    <3> QED
      BY <1>2, <3>1, <3>2, TrailsPersist
  <2> QED
    BY <2>1, <2>2
<1> QED
  BY <1>3, <1>5, <1>7, <1>8 DEF Accounted

(* Running a step: its start, the provider call, and its end. *)
LEMMA RunStep ==
    ASSUME Shape, Shape', Accounted, Grows, NEW e \in Executors, UNCHANGED request,
           BeginStep(e) \/ CallProvider(e) \/ RecordSuccess(e) \/ RecordFailure(e)
    PROVE  Accounted'
<1>0. /\ SessionShape(session[e]) /\ SessionAccounted(session[e])
      /\ session \in [Executors -> Sessions] /\ sstatus \in [Steps -> StepStatuses]
      /\ invoked \in [Steps -> 0..2]
      /\ \A f \in Executors : SessionAccounted(session[f])
  BY DEF Shape, Accounted, TypeOK, StoreTypeOK, ExecutorTypeOK, CallCap
<1>1. session[e].pc \in {"begin", "call", "record"}
  BY DEF BeginStep, CallProvider, RecordSuccess, RecordFailure
<1>2. PICK c \in Steps : c = session[e].cur
  BY <1>0, <1>1 DEF SessionShape, AtStep, StepsOf
<1>3. UNCHANGED <<mstatus, approval>>
  BY DEF BeginStep, CallProvider, RecordSuccess, RecordFailure, store
<1>4. ApprovalsAccounted' /\ DecisionsAccounted'
  BY <1>3, ApprovalsPersist
<1>5. \A m \in Missions : MissionAccount(m, mstatus[m])'
  BY <1>3, MissionsExplained
<1>6. MissionTrail'
  <2>1. ASSUME NEW m \in Missions
        PROVE  <<"mission", "completed", m>> \in audit' => <<"mission", "completed", m>> \in audit
    BY DEF BeginStep, CallProvider, RecordSuccess, RecordFailure, RecordAudit, store
  <2> QED
    BY <2>1 DEF Accounted, MissionTrail, Grows, StepsOf, Done
<1>q. ASSUME SessionAccounted(session[e])', StepTrail',
             \A f \in Executors \ {e} : session'[f] = session[f],
             \A s \in Steps : StepAccount(s, sstatus[s])'
      PROVE  Accounted'
  BY <1>0, <1>4, <1>5, <1>6, <1>q, BecomesAccounted DEF Accounted, TrailExplainsState
<1>t. /\ \A dep \in DependsOn[c] : Done(dep)
      /\ session[e].pc = "begin" /\ RequiresApproval(c) => Granted(c)
      /\ session[e].pc \in {"call", "record"} => Started(c)
      /\ session[e].pc = "record" => invoked[c] > 0
  BY <1>0, <1>1, <1>2 DEF SessionAccounted, InputsAccounted, PlaceAccounted, AtStep
<1>7. CASE BeginStep(e)
  <2>1. /\ audit' = audit \cup {<<"step", "started", c>>} /\ UNCHANGED invoked
        /\ handoffs' = handoffs \cup {<<dep, c>> : dep \in DependsOn[c]}
    BY <1>2, <1>7 DEF BeginStep, RecordAudit
  <2>2. SetStep(e, "running", "call") /\ StepAccount(c, "running")'
    BY <1>7, <2>1 DEF BeginStep, StepAccount, Started
  <2>3. /\ session'[e].pc = "call" /\ session'[e].todo = session[e].todo
        /\ session'[e].job = session[e].job /\ session'[e].cur = c
        /\ \A f \in Executors \ {e} : session'[f] = session[f]
        /\ ViewAccounted(session[e])'
        /\ \A s \in Steps : StepAccount(s, sstatus[s])'
    BY <1>1, <1>2, <2>2, SetStepAccounted DEF AtStep, StepStatuses
  <2>4. InputsAccounted(session[e])'
    BY <1>0, <1>t, <2>3, PlanAssumption DEF SessionAccounted, InputsAccounted, AtStep, Grows, Done
  <2>5. RunAccounted(session[e])' /\ PlaceAccounted(session[e])'
    BY <1>0, <1>1, <2>1, <2>3 DEF SessionAccounted, RunAccounted, PlaceAccounted, AtStep,
       Grows, Started
  <2>6. StepTrail'
    <3>1. ASSUME NEW s \in Steps, Started(s)'
          PROVE  /\ RequiresApproval(s) => Granted(s)'
                 /\ \A dep \in DependsOn[s] : Done(dep)' /\ <<dep, s>> \in handoffs'
      <4>1. CASE s = c
        BY <1>7, <1>t, <2>1, <4>1 DEF BeginStep, Grows, Granted, Done
      <4>2. CASE s # c
        <5>1. Started(s)
          BY <2>1, <3>1, <4>2 DEF Started
        <5>2. /\ RequiresApproval(s) => Granted(s)
              /\ \A dep \in DependsOn[s] : Done(dep) /\ <<dep, s>> \in handoffs
          BY <5>1 DEF Accounted, StepTrail
        <5> QED
          BY <5>2 DEF Grows, Granted, Done
      <4> QED
        BY <4>1, <4>2
    <3>2. ASSUME NEW s \in Steps
          PROVE  /\ invoked'[s] > 0 => Started(s)'
                 /\ Done(s)' => invoked'[s] > 0
                 /\ Granted(s)' => RequiresApproval(s)
      BY <2>1 DEF Accounted, StepTrail, Started, Done, Granted
    <3> QED
      BY <3>1, <3>2 DEF StepTrail, RequiresApproval
  <2> QED
    BY <1>q, <2>3, <2>4, <2>5, <2>6 DEF SessionAccounted
<1>8. CASE CallProvider(e)
  <2>1. /\ UNCHANGED store
        /\ invoked' = [invoked EXCEPT ![c] = IF @ < 2 THEN @ + 1 ELSE @]
        /\ session' = [session EXCEPT ![e] = [session[e] EXCEPT !.pc = "record"]]
    BY <1>2, <1>8 DEF CallProvider, Becomes, CallCap
  <2>2. /\ session'[e] = [session[e] EXCEPT !.pc = "record"]
        /\ \A f \in Executors \ {e} : session'[f] = session[f]
    BY <1>0, <2>1
  <2>3. /\ session'[e].pc = "record" /\ session'[e].todo = session[e].todo
        /\ session'[e].job = session[e].job /\ session'[e].cur = c
        /\ session'[e].view = session[e].view
    BY <1>0, <1>2, <2>2 DEF SessionShape, Sessions
  <2>4. invoked'[c] > 0 /\ \A s \in Steps \ {c} : invoked'[s] = invoked[s]
    BY <1>0, <2>1
  <2>5. SessionAccounted(session[e])'
    <3>1. ViewAccounted(session[e])'
      BY <1>0, <2>1, <2>3 DEF SessionAccounted, ViewAccounted, StepAccount, store, Started,
         Requested, Done, Denied
    <3>2. InputsAccounted(session[e])'
      BY <1>0, <1>t, <2>1, <2>3 DEF SessionAccounted, InputsAccounted, store, Done
    <3>3. RunAccounted(session[e])' /\ PlaceAccounted(session[e])'
      BY <1>0, <1>1, <1>8, <1>t, <2>1, <2>3, <2>4 DEF CallProvider, SessionAccounted,
         RunAccounted, PlaceAccounted, AtStep, store, Started
    <3> QED
      BY <3>1, <3>2, <3>3 DEF SessionAccounted
  <2>6. StepTrail'
    BY <1>8, <1>t, <2>1, <2>4 DEF CallProvider, Accounted, StepTrail, store, Started, Done,
       Granted, RequiresApproval
  <2>7. \A s \in Steps : StepAccount(s, sstatus[s])'
    BY <2>1, StepsExplained DEF store
  <2> QED
    BY <1>q, <2>2, <2>5, <2>6, <2>7
<1>9. CASE RecordSuccess(e)
  <2>1. audit' = audit \cup {<<"step", "completed", c>>} /\ UNCHANGED <<invoked, handoffs>>
    BY <1>2, <1>9 DEF RecordSuccess, RecordAudit
  <2>2. SetStep(e, "completed", "pass") /\ StepAccount(c, "completed")'
    BY <1>9, <2>1 DEF RecordSuccess, StepAccount, Done
  <2>3. /\ session'[e].pc = "pass" /\ session'[e].todo = session[e].todo
        /\ session'[e].job = session[e].job
        /\ \A f \in Executors \ {e} : session'[f] = session[f]
        /\ ViewAccounted(session[e])'
        /\ \A s \in Steps : StepAccount(s, sstatus[s])'
    BY <1>1, <1>2, <2>2, SetStepAccounted DEF AtStep, StepStatuses
  <2>4. InputsAccounted(session[e])'
    BY <1>0, <2>3, PlanAssumption DEF SessionAccounted, InputsAccounted, AtStep, Grows, Done
  <2>5. RunAccounted(session[e])' /\ PlaceAccounted(session[e])'
    BY <1>0, <1>1, <2>3 DEF SessionAccounted, RunAccounted, PlaceAccounted, AtStep, Grows
  <2>6. StepTrail'
    <3>1. invoked[c] > 0
      BY <1>9, <1>t DEF RecordSuccess
    <3>2. ASSUME NEW s \in Steps
          PROVE  /\ (Started(s)' <=> Started(s)) /\ (Granted(s)' <=> Granted(s))
                 /\ Done(s)' => Done(s) \/ s = c
      BY <2>1 DEF Started, Granted, Done
    <3> QED
      BY <2>1, <3>1, <3>2, PlanAssumption DEF Accounted, StepTrail, Grows, Done,
         RequiresApproval
  <2> QED
    BY <1>q, <2>3, <2>4, <2>5, <2>6 DEF SessionAccounted
<1>10. CASE RecordFailure(e)
  <2>1. /\ audit' = audit \cup {<<"step", "failed", c>>} /\ UNCHANGED <<invoked, handoffs>>
        /\ sstatus' = [sstatus EXCEPT ![c] = "failed"]
        /\ Becomes(e, [session[e] EXCEPT
                     !.pc = "pass", !.view = [@ EXCEPT ![c] = "failed"],
                     !.cur = NoStep, !.todo = {}])
    BY <1>2, <1>10 DEF RecordFailure, RecordAudit
  <2>2. /\ session'[e] = [session[e] EXCEPT
                     !.pc = "pass", !.view = [@ EXCEPT ![c] = "failed"],
                     !.cur = NoStep, !.todo = {}]
        /\ \A f \in Executors \ {e} : session'[f] = session[f]
    BY <1>0, <2>1 DEF Becomes
  <2>3. /\ session'[e].pc = "pass" /\ session'[e].todo = {}
        /\ session'[e].job = session[e].job
        /\ session'[e].view = [session[e].view EXCEPT ![c] = "failed"]
        /\ session[e].view \in [Steps -> StepStatuses]
    BY <1>0, <2>2 DEF SessionShape, Sessions
  <2>4. \A s \in Steps : StepAccount(s, session[e].view[s]) /\ StepAccount(s, sstatus[s])
    BY <1>0 DEF SessionAccounted, ViewAccounted, Accounted, TrailExplainsState
  <2>5. ASSUME NEW s \in Steps
        PROVE  StepAccount(s, session[e].view[s])' /\ StepAccount(s, sstatus[s])'
    <3>1. CASE s = c
      <4>1. session'[e].view[s] = "failed" /\ sstatus'[s] = "failed"
        BY <1>0, <2>1, <2>3, <3>1
      <4> QED
        BY <2>1, <3>1, <4>1 DEF StepAccount
    <3>2. CASE s # c
      <4>1. session'[e].view[s] = session[e].view[s] /\ sstatus'[s] = sstatus[s]
        BY <1>0, <2>1, <2>3, <3>2
      <4> QED
        BY <2>4, <4>1 DEF StepAccount, Grows, Started, Requested, Done, Denied
    <3> QED
      BY <3>1, <3>2
  <2>6. SessionAccounted(session[e])'
    BY <1>0, <1>1, <2>3, <2>5 DEF SessionAccounted, ViewAccounted, InputsAccounted,
       RunAccounted, PlaceAccounted, AtStep, Grows
  <2>7. StepTrail'
    <3>1. /\ \A s \in Steps : <<"step", "failed", c>> \notin
                 {<<"step", "started", s>>, <<"step", "completed", s>>,
                  <<"approval", "approved", s>>}
          /\ \A m \in Missions : <<"step", "failed", c>> # <<"mission", "completed", m>>
      OBVIOUS
    <3> QED
      BY <2>1, <3>1, TrailsPersist
  <2> QED
    BY <1>q, <2>2, <2>5, <2>6, <2>7
<1> QED
  BY <1>7, <1>8, <1>9, <1>10

(* A worker's action keeps everything accounted for. *)
LEMMA ExecutorAccountedStep ==
    ASSUME Shape, Shape', Accounted, Grows, NEW e \in Executors, ExecutorStep(e)
    PROVE  Accounted'
  BY ExecutorQuietStep, RefusalStep, MissionStep, RunStep
     DEF ExecutorStep, ExecutorNext, Advance

(* A handler's action keeps everything accounted for. *)
LEMMA RequestAccountedStep ==
    ASSUME Shape, Shape', Accounted, Grows, NEW r \in Requests, RequestStep(r)
    PROVE  Accounted'
<1>0. /\ HandlerShape(request[r]) /\ request \in [Requests -> Handlers]
      /\ mstatus \in [Missions -> MissionStatuses]
      /\ sstatus \in [Steps -> StepStatuses] /\ approval \in [Steps -> ApprovalStatuses]
  BY DEF Shape, TypeOK, StoreTypeOK, RequestTypeOK
<1>u. UNCHANGED <<session, invoked, handoffs>>
  BY DEF RequestStep, RequestNext, Submit, Handle, execution, store, RunRead, RunCommit,
     DecideRead, DecideLoad, DecideCommit, Enqueue, EnqueueFails
<1>s. \A e \in Executors : SessionAccounted(session[e])'
  <2> SUFFICES ASSUME NEW e \in Executors PROVE SessionAccounted(session[e])'
    OBVIOUS
  <2>1. session'[e] = session[e] /\ \A f \in Executors : session'[f] = session[f]
    BY <1>u
  <2>2. SessionAccounted(session[e]) /\ SessionShape(session[e])
    BY DEF Accounted, Shape
  <2>3. ViewAccounted(session[e])'
    BY <2>1, <2>2 DEF SessionAccounted, ViewAccounted, StepAccount, Grows, Started,
       Requested, Done, Denied
  <2>4. InputsAccounted(session[e])'
    BY <2>1, <2>2, PlanAssumption DEF SessionAccounted, InputsAccounted, Grows, Done
  <2>5. RunAccounted(session[e])' /\ PlaceAccounted(session[e])'
    BY <1>u, <2>1, <2>2 DEF SessionAccounted, RunAccounted, PlaceAccounted, Grows, Requested,
       Denied, Granted, Started, SessionShape, AtStep, StepsOf
  <2> QED
    BY <2>3, <2>4, <2>5 DEF SessionAccounted
<1>p. ASSUME NEW q, Proceeds(r, q)
      PROVE  request'[r] = q /\ \A p \in Requests \ {r} : request'[p] = request[p]
  BY <1>0, <1>p DEF Proceeds
<1>1. CASE RunRead(r) \/ DecideRead(r) \/ DecideLoad(r) \/ Enqueue(r) \/ EnqueueFails(r)
  <2>1. UNCHANGED <<store, invoked>>
    BY <1>u, <1>1 DEF RunRead, DecideRead, DecideLoad, Enqueue, EnqueueFails
  <2>2. \A p \in Requests \ {r} : request'[p] = request[p]
    BY <1>p, <1>1 DEF RunRead, DecideRead, DecideLoad, Enqueue, EnqueueFails, Finish
  <2>3. request'[r].pc \in {"decide_load", "decide_commit"} =>
           approval[request'[r].step] # "none"
    <3>1. CASE RunRead(r)
      <4>1. PICK m \in Missions :
              request'[r] = [NoRequest EXCEPT !.pc = "run_commit", !.mission = m,
                                              !.seenMission = mstatus[m]]
        BY <1>p, <3>1 DEF RunRead
      <4> QED
        BY <4>1 DEF NoRequest
    <3>2. CASE DecideRead(r)
      <4>1. PICK s \in Steps, dec \in {"approved", "rejected"} :
              /\ approval[s] = "pending"
              /\ request'[r] = [NoRequest EXCEPT !.pc = "decide_load",
                     !.decision = dec, !.step = s, !.mission = MissionOf[s]]
        BY <1>p, <3>2 DEF DecideRead
      <4>2. request'[r].step = s
        BY <4>1 DEF NoRequest
      <4> QED
        BY <4>1, <4>2
    <3>3. CASE DecideLoad(r)
      <4>1. request'[r] = [request[r] EXCEPT !.pc = "decide_commit",
                             !.seenStep = sstatus[request[r].step],
                             !.seenMission = mstatus[request[r].mission]]
        BY <1>p, <3>3 DEF DecideLoad
      <4>2. request'[r].step = request[r].step
        BY <1>0, <4>1 DEF HandlerShape, Handlers
      <4> QED
        BY <3>3, <4>2 DEF DecideLoad, Accounted, DecisionsAccounted
    <3>4. CASE Enqueue(r) \/ EnqueueFails(r)
      BY <1>p, <3>4 DEF Enqueue, EnqueueFails, Finish, NoRequest
    <3> QED
      BY <1>1, <3>1, <3>2, <3>3, <3>4
  <2>4. DecisionsAccounted'
    BY <2>1, <2>2, <2>3 DEF Accounted, DecisionsAccounted, store
  <2> QED
    BY <1>s, <2>1, <2>4, QuietStep
<1>2. CASE RunCommit(r)
  <2>1. PICK m \in Missions : m = request[r].mission
    BY <1>0, <1>2 DEF RunCommit, HandlerShape
  <2>2. /\ audit' = audit \cup {<<"mission", "queued", m>>}
        /\ mstatus' = [mstatus EXCEPT ![m] = "queued"] \/ UNCHANGED mstatus
        /\ UNCHANGED <<sstatus, approval>>
        /\ request'[r] = [NoRequest EXCEPT !.pc = "enqueue", !.mission = m]
        /\ \A p \in Requests \ {r} : request'[p] = request[p]
    BY <1>0, <1>2, <1>p, <2>1 DEF RunCommit, RecordAudit, Flushed
  <2>3. MissionAccount(m, "queued")'
    BY <2>2 DEF MissionAccount
  <2>4. TrailExplainsState'
    BY <2>2, <2>3, MissionExplained, StepsExplained DEF TrailExplainsState, MissionStatuses
  <2>5. ApprovalsAccounted'
    BY <2>2, ApprovalsPersist
  <2>6. DecisionsAccounted'
    BY <2>2 DEF Accounted, DecisionsAccounted, NoRequest
  <2>7. StepTrail' /\ MissionTrail'
    <3>1. /\ \A s \in Steps : <<"mission", "queued", m>> \notin
                 {<<"step", "started", s>>, <<"step", "completed", s>>,
                  <<"approval", "approved", s>>}
          /\ \A n \in Missions : <<"mission", "queued", m>> # <<"mission", "completed", n>>
      OBVIOUS
    <3> QED
      BY <1>u, <2>2, <3>1, TrailsPersist
  <2> QED
    BY <1>s, <2>4, <2>5, <2>6, <2>7 DEF Accounted
<1>3. CASE DecideCommit(r)
  <2>1. /\ request[r].step \in Steps /\ request[r].mission = MissionOf[request[r].step]
        /\ request[r].decision \in {"approved", "rejected"}
        /\ request[r].mission \in Missions
    BY <1>0, <1>3 DEF DecideCommit, HandlerShape
  <2>2. PICK c \in Steps, m \in Missions, dec \in {"approved", "rejected"} :
          c = request[r].step /\ m = request[r].mission /\ dec = request[r].decision
    BY <2>1
  <2>3. MissionOf[c] = m /\ approval[c] # "none"
    BY <1>3, <2>1, <2>2 DEF DecideCommit, Accounted, DecisionsAccounted
  <2>4. /\ approval' = [approval EXCEPT ![c] = dec]
        /\ audit' = audit \cup {<<"approval", dec, c>>}
        /\ sstatus' = [sstatus EXCEPT ![c] = DecidedStep(dec)] \/ UNCHANGED sstatus
        /\ mstatus' = [mstatus EXCEPT ![m] = DecidedMission(dec)] \/ UNCHANGED mstatus
    BY <1>0, <1>3, <2>2 DEF DecideCommit, RecordAudit, Flushed
  <2>5. /\ request'[r].pc \in {"enqueue", "free"}
        /\ \A p \in Requests \ {r} : request'[p] = request[p]
    <3>1. /\ request'[r] = [NoRequest EXCEPT !.pc = "enqueue", !.mission = m]
             \/ request'[r] = NoRequest
          /\ \A p \in Requests \ {r} : request'[p] = request[p]
      BY <1>3, <1>p, <2>2 DEF DecideCommit, Finish
    <3>2. /\ [NoRequest EXCEPT !.pc = "enqueue", !.mission = m].pc = "enqueue"
          /\ NoRequest.pc = "free"
      BY DEF NoRequest
    <3> QED
      BY <3>1, <3>2
  <2>6. RequiresApproval(c) /\ Requested(c)
    BY <2>3 DEF Accounted, ApprovalsAccounted
  <2>7. ApprovalsAccounted'
    <3> SUFFICES ASSUME NEW s \in Steps
                 PROVE  /\ approval'[s] # "none" => RequiresApproval(s) /\ Requested(s)'
                        /\ approval'[s] = "approved" => Granted(s)'
                        /\ approval'[s] = "rejected" => Denied(s)'
      BY DEF ApprovalsAccounted, RequiresApproval
    <3>1. CASE s = c
      BY <1>0, <2>4, <2>6, <3>1 DEF Requested, Granted, Denied
    <3>2. CASE s # c
      <4>1. approval'[s] = approval[s]
        BY <1>0, <2>4, <3>2
      <4> QED
        BY <4>1 DEF Accounted, ApprovalsAccounted, Grows, Requested, Granted, Denied
    <3> QED
      BY <3>1, <3>2
  <2>8. DecisionsAccounted'
    BY <1>0, <2>4, <2>5 DEF Accounted, DecisionsAccounted, Shape, HandlerShape
  <2>9. \A n \in Missions : MissionAccount(n, mstatus[n])'
    <3>1. MissionAccount(m, DecidedMission(dec))' /\ DecidedMission(dec) \in MissionStatuses
      BY <2>3, <2>4 DEF MissionAccount, DecidedMission, StepsOf, Granted, Denied,
         MissionStatuses
    <3> QED
      BY <2>4, <3>1, MissionExplained
  <2>10. \A s \in Steps : StepAccount(s, sstatus[s])'
    <3>1. CASE UNCHANGED sstatus
      BY <3>1, StepsExplained
    <3>2. CASE sstatus' = [sstatus EXCEPT ![c] = DecidedStep(dec)]
      <4> SUFFICES ASSUME NEW s \in Steps PROVE StepAccount(s, sstatus[s])'
        OBVIOUS
      <4>1. CASE s = c
        <5>1. sstatus'[s] = DecidedStep(dec)
          BY <1>0, <3>2, <4>1
        <5> QED
          BY <2>4, <4>1, <5>1 DEF StepAccount, DecidedStep, Denied
      <4>2. CASE s # c
        <5>1. sstatus'[s] = sstatus[s] /\ StepAccount(s, sstatus[s])
          BY <1>0, <3>2, <4>2 DEF Accounted, TrailExplainsState
        <5> QED
          BY <5>1 DEF StepAccount, Grows, Started, Requested, Done, Denied
      <4> QED
        BY <4>1, <4>2
    <3> QED
      BY <2>4, <3>1, <3>2
  <2>11. StepTrail'
    <3>1. ASSUME NEW s \in Steps
          PROVE  /\ (Started(s)' <=> Started(s)) /\ (Done(s)' <=> Done(s))
                 /\ Granted(s)' => Granted(s) \/ s = c
      BY <2>4 DEF Started, Done, Granted
    <3> QED
      BY <1>u, <2>6, <3>1, PlanAssumption DEF Accounted, StepTrail, Grows, Granted,
         RequiresApproval
  <2>12. MissionTrail'
    BY <2>4 DEF Accounted, MissionTrail, StepsOf, Done
  <2> QED
    BY <1>s, <2>7, <2>8, <2>9, <2>10, <2>11, <2>12 DEF Accounted, TrailExplainsState
<1> QED
  BY <1>1, <1>2, <1>3 DEF RequestStep, RequestNext, Submit, Handle

(* A crash keeps what has been committed accounted for. *)
LEMMA CrashAccountedStep ==
    ASSUME Shape, Shape', Accounted, Grows,
           (\E e \in Executors : CrashStep(e)) \/ ProcessCrash
    PROVE  Accounted'
<1>1. ASSUME NEW e \in Executors, CrashStep(e) PROVE Accounted'
  <2>1. Close(e) /\ UNCHANGED <<store, invoked, request>>
    BY <1>1 DEF CrashStep, Abandon
  <2>2. \A f \in Executors : SessionAccounted(session[f])'
    BY <2>1, CloseAccounted
  <2>3. DecisionsAccounted'
    BY <2>1 DEF Accounted, DecisionsAccounted, store
  <2> QED
    BY <2>1, <2>2, <2>3, QuietStep
<1>2. CASE ProcessCrash
  <2>1. /\ session' = [e \in Executors |-> Closed] /\ UNCHANGED <<store, invoked>>
        /\ request' = [r \in Requests |-> NoRequest]
    BY <1>2 DEF ProcessCrash
  <2>2. \A f \in Executors : SessionAccounted(session[f])'
    BY <2>1 DEF Closed, SessionAccounted, ViewAccounted, StepAccount, InputsAccounted,
       RunAccounted, PlaceAccounted, AtStep
  <2>3. DecisionsAccounted'
    BY <2>1 DEF DecisionsAccounted, NoRequest
  <2> QED
    BY <2>1, <2>2, <2>3, QuietStep
<1> QED
  BY <1>1, <1>2

(* The initial state is accounted for. *)
LEMMA InitAccounted == Init => Accounted
<1> SUFFICES ASSUME Init PROVE Accounted
  OBVIOUS
<1>1. \A e \in Executors : SessionAccounted(session[e])
  BY DEF Init, ExecutorInit, Closed, SessionAccounted, ViewAccounted, StepAccount,
     InputsAccounted, RunAccounted, PlaceAccounted, AtStep
<1>2. ApprovalsAccounted /\ DecisionsAccounted
  BY DEF Init, StoreInit, RequestInit, NoRequest, ApprovalsAccounted, DecisionsAccounted
<1>3. TrailExplainsState
  BY DEF Init, StoreInit, TrailExplainsState, MissionAccount, StepAccount
<1>4. StepTrail /\ MissionTrail
  BY DEF Init, StoreInit, ExecutorInit, StepTrail, MissionTrail, Started, Done, Granted
<1> QED
  BY <1>1, <1>2, <1>3, <1>4 DEF Accounted

(* The invariant is inductive. *)
LEMMA InvariantStep == IInv /\ [Next]_vars => IInv'
<1> SUFFICES ASSUME Shape, Accounted, [Next]_vars PROVE Shape' /\ Accounted'
  BY DEF IInv
<1>0. Shape' /\ Grows
  BY ShapeStep, Growth
<1>1. CASE UNCHANGED vars
  <2>1. UNCHANGED <<session, request, store, invoked>>
    BY <1>1 DEF vars, execution
  <2>2. DecisionsAccounted'
    BY <2>1 DEF Accounted, DecisionsAccounted, store
  <2>3. ASSUME NEW e \in Executors PROVE SessionAccounted(session[e])'
    <3>1. SessionAccounted(session[e])
      BY DEF Accounted
    <3> QED
      BY <2>1, <3>1 DEF SessionAccounted, ViewAccounted, StepAccount, InputsAccounted,
         RunAccounted, PlaceAccounted, store, Started, Requested, Done, Denied, Granted,
         RequiresApproval
  <2> QED
    BY <1>0, <2>1, <2>2, <2>3, QuietStep
<1>2. ASSUME NEW e \in Executors, ExecutorStep(e) PROVE Accounted'
  BY <1>0, <1>2, ExecutorAccountedStep
<1>3. ASSUME NEW r \in Requests, RequestStep(r) PROVE Accounted'
  BY <1>0, <1>3, RequestAccountedStep
<1>4. ASSUME (\E e \in Executors : CrashStep(e)) \/ ProcessCrash PROVE Accounted'
  BY <1>0, <1>4, CrashAccountedStep
<1> QED
  BY <1>0, <1>1, <1>2, <1>3, <1>4 DEF Next

(***************************************************************************)
(* Everything stays accounted for, for every plan and every environment.   *)
(***************************************************************************)
THEOREM Invariant == Spec => []IInv
<1>1. Init => IInv
  BY InitShape, InitAccounted DEF IInv
<1> QED
  BY <1>1, InvariantStep, PTL DEF Spec

(***************************************************************************)
(* No provider call for a gated step without an administrator's approval.  *)
(***************************************************************************)
THEOREM GatePrecedesRuntime == Spec => []GateBeforeRuntime
<1>1. IInv => GateBeforeRuntime
  BY DEF IInv, Accounted, StepTrail, GateBeforeRuntime
<1> QED
  BY <1>1, Invariant, PTL

(***************************************************************************)
(* No provider call before the dependencies completed and were handed over.*)
(***************************************************************************)
THEOREM DependenciesPrecede == Spec => []DependenciesFirst
<1>1. IInv => DependenciesFirst
  BY DEF IInv, Accounted, StepTrail, DependenciesFirst
<1> QED
  BY <1>1, Invariant, PTL

(***************************************************************************)
(* A mission is called completed only when all its steps ran and completed.*)
(***************************************************************************)
THEOREM CompletionEarned == Spec => []CompletionIsEarned
<1>1. IInv => CompletionIsEarned
  BY DEF IInv, Accounted, MissionTrail, StepTrail, CompletionIsEarned, StepsOf
<1> QED
  BY <1>1, Invariant, PTL

(***************************************************************************)
(* Every status in the tables is one the audit trail accounts for.         *)
(***************************************************************************)
THEOREM TrailExplains == Spec => []TrailExplainsState
<1>1. IInv => TrailExplainsState
  BY DEF IInv, Accounted
<1> QED
  BY <1>1, Invariant, PTL
----------------------------------------------------------------------------
(* Every execution ends *)

(* The undone steps are finitely many; with one fewer there are fewer. *)
LEMMA FewerUndone ==
    ASSUME IsFiniteSet(Steps), NEW x \in Sessions, NEW y \in Sessions,
           Undone(y) \subseteq Undone(x)
    PROVE  /\ Cardinality(Undone(x)) \in Nat /\ Cardinality(Undone(y)) \in Nat
           /\ Cardinality(Undone(y)) <= Cardinality(Undone(x))
           /\ Undone(y) # Undone(x) => Cardinality(Undone(y)) < Cardinality(Undone(x))
<1>1. Undone(x) \subseteq Steps
  BY DEF Undone, StepsOf
<1>2. IsFiniteSet(Undone(x)) /\ IsFiniteSet(Undone(y))
  BY <1>1, FS_Subset
<1> QED
  BY <1>2, FS_CardinalityType, FS_Subset

(* No place is further from the next round than a step weighs. *)
LEMMA StretchBound ==
    ASSUME NEW x
    PROVE  /\ Stretch(x) \in 0..9
           /\ x.pc = "idle" => Stretch(x) = 0
           /\ x.pc \in {"load_mission", "call"} => Stretch(x) = 9
           /\ x.pc \in {"load_steps", "record"} => Stretch(x) = 8
           /\ x.pc = "start" => Stretch(x) = 7
           /\ x.pc = "pass" => Stretch(x) = IF x.progressed THEN 6 ELSE 4
           /\ x.pc = "loop" => Stretch(x) = 5
           /\ x.pc \in {"ask", "hold", "deny", "begin"} => Stretch(x) = 3
  BY DEF Stretch

(* An execution comes closer to its end by a step done or a place nearer. *)
LEMMA Closer ==
    ASSUME IsFiniteSet(Steps), NEW x \in Sessions, NEW y \in Sessions,
           Undone(y) \subseteq Undone(x),
           Undone(y) # Undone(x) \/ Stretch(y) < Stretch(x)
    PROVE  Ahead(y) \in 0..(Ahead(x) - 1)
<1>1. Stretch(x) \in 0..9 /\ Stretch(y) \in 0..9
  BY StretchBound
<1> QED
  BY <1>1, FewerUndone DEF Ahead

(* An execution that is over has nothing before it. *)
LEMMA Over ==
    ASSUME IsFiniteSet(Steps), NEW x \in Sessions, x.pc # "idle"
    PROVE  PassFocused(Closed) /\ Ahead(Closed) \in 0..(Ahead(x) - 1)
<1>1. Closed \in Sessions /\ PassFocused(Closed) /\ Closed.pc = "idle"
  BY ClosedShape DEF SessionShape, PassFocused, Closed, AtStep
<1>2. Undone(Closed) \subseteq Undone(x)
  BY PlanAssumption, SentinelAssumption DEF Undone, StepsOf, Closed
<1>3. Stretch(Closed) = 0 /\ Stretch(x) > 0
  BY <1>1, StretchBound DEF Sessions, Places
<1> QED
  BY <1>1, <1>2, <1>3, Closer

(* Every action of an execution brings it closer to its end. *)
LEMMA ExecutionAdvance ==
    ASSUME IsFiniteSet(Steps), Shape, NEW e \in Executors, Advance(e),
           PassFocused(session[e])
    PROVE  /\ PassFocused(session'[e])
           /\ session[e].pc # "idle" /\ Ahead(session'[e]) \in 0..(Ahead(session[e]) - 1)
           /\ \A f \in Executors : f # e => session'[f] = session[f]
<1> DEFINE x == session[e]
<1>0. SessionShape(x) /\ x \in Sessions /\ session \in [Executors -> Sessions]
  BY DEF Shape, SessionShape, TypeOK, ExecutorTypeOK
<1>b. ASSUME NEW y, Becomes(e, y)
      PROVE  session'[e] = y /\ \A f \in Executors : f # e => session'[f] = session[f]
  BY <1>0, <1>b DEF Becomes
<1>q. ASSUME NEW y, Becomes(e, y), PassFocused(y), x.pc # "idle", Ahead(y) \in 0..(Ahead(x) - 1)
      PROVE  /\ PassFocused(session'[e])
             /\ session[e].pc # "idle" /\ Ahead(session'[e]) \in 0..(Ahead(session[e]) - 1)
             /\ \A f \in Executors : f # e => session'[f] = session[f]
  BY <1>b, <1>q
<1>c. ASSUME Close(e), x.pc # "idle"
      PROVE  /\ PassFocused(session'[e])
             /\ session[e].pc # "idle" /\ Ahead(session'[e]) \in 0..(Ahead(session[e]) - 1)
             /\ \A f \in Executors : f # e => session'[f] = session[f]
  BY <1>0, <1>c, <1>q, Over DEF Close
<1>p. ASSUME NEW y, y \in Sessions, PassFocused(y), Becomes(e, y), x.pc # "idle",
             Undone(y) \subseteq Undone(x), Undone(y) # Undone(x) \/ Stretch(y) < Stretch(x)
      PROVE  /\ PassFocused(session'[e])
             /\ session[e].pc # "idle" /\ Ahead(session'[e]) \in 0..(Ahead(session[e]) - 1)
             /\ \A f \in Executors : f # e => session'[f] = session[f]
  BY <1>0, <1>p, <1>q, Closer
<1>1. CASE LoadMission(e)
  <2> DEFINE y == [x EXCEPT !.pc = "load_steps", !.loaded = mstatus[x.job]]
  <2>1. x.pc = "load_mission" /\ Becomes(e, y)
    BY <1>1 DEF LoadMission
  <2>2. mstatus[x.job] \in MissionStatuses
    BY <1>0, <2>1 DEF Shape, SessionShape, TypeOK, StoreTypeOK
  <2>3. y \in Sessions /\ y.pc = "load_steps" /\ Undone(y) = Undone(x) /\ PassFocused(y)
    BY <1>0, <2>1, <2>2 DEF Sessions, Places, Undone, PassFocused, AtStep
  <2> HIDE DEF y
  <2>4. Stretch(y) < Stretch(x)
    BY <2>1, <2>3, StretchBound
  <2> QED
    BY <1>p, <2>1, <2>3, <2>4
<1>2. CASE LoadSteps(e)
  <2> DEFINE y == [x EXCEPT !.pc = "start", !.view = LoadedView(x.job)]
  <2>1. x.pc = "load_steps" /\ (Close(e) \/ Becomes(e, y))
    BY <1>2 DEF LoadSteps
  <2>2. LoadedView(x.job) \in [Steps -> StepStatuses]
    BY DEF LoadedView, Shape, TypeOK, StoreTypeOK, StepStatuses
  <2>3. /\ y \in Sessions /\ y.pc = "start" /\ y.job = x.job
        /\ y.todo = x.todo
    BY <1>0, <2>2 DEF Sessions, Places
  <2> HIDE DEF y
  <2>4. x.todo = {} /\ Undone(y) \subseteq Undone(x)
    BY <2>1, <2>3 DEF Undone, PassFocused, AtStep
  <2>5. PassFocused(y) /\ Stretch(y) < Stretch(x)
    BY <2>1, <2>3, <2>4, StretchBound DEF PassFocused, AtStep
  <2> QED
    BY <1>c, <1>p, <2>1, <2>3, <2>4, <2>5
<1>3. CASE Start(e)
  <2> DEFINE y == [x EXCEPT !.pc = "loop", !.loaded = "running"]
  <2>1. x.pc = "start" /\ Becomes(e, y)
    BY <1>3 DEF Start
  <2>2. /\ y \in Sessions /\ y.pc = "loop"
        /\ y.job = x.job /\ y.view = x.view /\ y.todo = x.todo
    BY <1>0 DEF Sessions, Places, MissionStatuses
  <2> HIDE DEF y
  <2>3. Undone(y) = Undone(x) /\ PassFocused(y)
    BY <2>1, <2>2 DEF Undone, PassFocused, AtStep
  <2>4. Stretch(y) < Stretch(x)
    BY <2>1, <2>2, StretchBound
  <2> QED
    BY <1>p, <2>1, <2>2, <2>3, <2>4
<1>4. CASE BeginPass(e)
  <2> DEFINE y == [x EXCEPT !.pc = "pass", !.todo = Ready(e), !.progressed = FALSE]
  <2>1. x.pc = "loop" /\ Becomes(e, y)
    BY <1>4 DEF BeginPass
  <2>2. Ready(e) \subseteq Undone(x) /\ Ready(e) \subseteq Steps
    BY DEF Ready, Undone, StepsOf
  <2>3. /\ y \in Sessions /\ y.pc = "pass" /\ Undone(y) = Undone(x)
        /\ PassFocused(y) /\ ~y.progressed
    BY <1>0, <2>1, <2>2 DEF Sessions, Places, Undone, PassFocused, AtStep
  <2> HIDE DEF y
  <2>4. Stretch(y) < Stretch(x)
    BY <2>1, <2>3, StretchBound
  <2> QED
    BY <1>p, <2>1, <2>3, <2>4
<1>5. CASE Gate(e)
  <2>1. PICK s \in x.todo :
          Becomes(e, [x EXCEPT !.pc = Ruling(s), !.cur = s, !.todo = @ \ {s},
                               !.progressed = @ \/ Ruling(s) = "begin"])
    BY <1>5 DEF Gate
  <2> DEFINE y == [x EXCEPT !.pc = Ruling(s), !.cur = s, !.todo = @ \ {s},
                            !.progressed = @ \/ Ruling(s) = "begin"]
  <2>2. x.pc = "pass" /\ s \in Steps /\ s \in Undone(x) /\ x.todo \subseteq Undone(x)
    BY <1>0, <1>5 DEF Gate, SessionShape, StepsOf, PassFocused
  <2>3. Ruling(s) \in {"ask", "begin", "deny", "hold"}
    BY <2>2 DEF Ruling, Shape, TypeOK, StoreTypeOK, ApprovalStatuses
  <2>4. /\ y \in Sessions /\ y.pc \in {"ask", "begin", "deny", "hold"}
        /\ Undone(y) = Undone(x) /\ y.cur = s /\ y.todo = x.todo \ {s}
    BY <1>0, <2>2, <2>3 DEF Sessions, Places, Undone
  <2>5. Becomes(e, y)
    BY <2>1
  <2> HIDE DEF y
  <2>6. PassFocused(y)
    BY <2>2, <2>4 DEF PassFocused, AtStep
  <2>7. Stretch(y) < Stretch(x)
    BY <2>2, <2>4, StretchBound
  <2> QED
    BY <1>p, <2>2, <2>4, <2>5, <2>6, <2>7
<1>s. ASSUME NEW st \in StepStatuses \ {"pending"}, NEW pc \in {"pass", "call"},
             SetStep(e, st, pc), x.pc \in {"ask", "hold", "deny", "begin", "record"},
             x.pc = "record" => pc = "pass"
      PROVE  /\ PassFocused(session'[e])
             /\ session[e].pc # "idle" /\ Ahead(session'[e]) \in 0..(Ahead(session[e]) - 1)
             /\ \A f \in Executors : f # e => session'[f] = session[f]
  <2> DEFINE y == [x EXCEPT !.pc = pc, !.view = [@ EXCEPT ![x.cur] = st],
                            !.cur = IF pc = "pass" THEN NoStep ELSE @]
  <2>1. Becomes(e, y)
    BY <1>s DEF SetStep
  <2>2. x.cur \in StepsOf(x.job) /\ x.cur \in Steps
    BY <1>0, <1>s DEF SessionShape, AtStep, StepsOf
  <2>3. /\ y \in Sessions /\ y.pc = pc /\ y.job = x.job /\ y.todo = x.todo
        /\ y.view = [x.view EXCEPT ![x.cur] = st]
        /\ pc = "call" => y.cur = x.cur
    BY <1>0, <1>s, <2>2 DEF Sessions, Places
  <2> HIDE DEF y
  <2>4. Undone(y) = Undone(x) \ {x.cur}
    BY <1>0, <1>s, <2>2, <2>3 DEF Undone, StepsOf, Sessions
  <2>5. x.cur \notin x.todo /\ x.todo \subseteq Undone(x)
    BY <1>s DEF PassFocused, AtStep
  <2>6. PassFocused(y)
    BY <1>s, <2>3, <2>4, <2>5 DEF PassFocused, AtStep
  <2>7. CASE x.pc = "record"
    <3>1. Stretch(y) < Stretch(x)
      BY <1>s, <2>3, <2>7, StretchBound
    <3> QED
      BY <1>p, <2>1, <2>3, <2>4, <2>6, <2>7, <3>1
  <2>8. CASE x.pc # "record"
    <3>1. x.cur \in Undone(x)
      BY <1>s, <2>8 DEF PassFocused
    <3> QED
      BY <1>p, <1>s, <2>1, <2>3, <2>4, <2>6, <3>1
  <2> QED
    BY <2>7, <2>8
<1>6. CASE RequestApproval(e) \/ HoldStep(e) \/ DenyStep(e) \/ RecordSuccess(e)
  <2>1. /\ x.pc \in {"ask", "hold", "deny", "record"}
        /\ \E st \in {"waiting_approval", "rejected", "completed"} : SetStep(e, st, "pass")
    BY <1>6 DEF RequestApproval, HoldStep, DenyStep, RecordSuccess
  <2> QED
    BY <1>s, <2>1 DEF StepStatuses
<1>7. CASE BeginStep(e)
  <2>1. x.pc = "begin" /\ SetStep(e, "running", "call")
    BY <1>7 DEF BeginStep
  <2> QED
    BY <1>s, <2>1 DEF StepStatuses
<1>8. CASE CallProvider(e)
  <2> DEFINE y == [x EXCEPT !.pc = "record"]
  <2>1. x.pc = "call" /\ Becomes(e, y)
    BY <1>8 DEF CallProvider
  <2>2. y \in Sessions /\ y.pc = "record" /\ Undone(y) = Undone(x) /\ PassFocused(y)
    BY <1>0, <2>1 DEF Sessions, Places, Undone, PassFocused, AtStep
  <2> HIDE DEF y
  <2>3. Stretch(y) < Stretch(x)
    BY <2>1, <2>2, StretchBound
  <2> QED
    BY <1>p, <2>1, <2>2, <2>3
<1>9. CASE RecordFailure(e)
  <2> DEFINE y == [x EXCEPT !.pc = "pass", !.view = [@ EXCEPT ![x.cur] = "failed"],
                            !.cur = NoStep, !.todo = {}]
  <2>1. x.pc = "record" /\ Becomes(e, y)
    BY <1>9 DEF RecordFailure
  <2>2. /\ y \in Sessions /\ y.pc = "pass" /\ y.job = x.job /\ y.todo = {}
        /\ y.view = [x.view EXCEPT ![x.cur] = "failed"]
    BY <1>0 DEF Sessions, Places, StepStatuses
  <2> HIDE DEF y
  <2>3. Undone(y) \subseteq Undone(x)
    BY <1>0, <2>2 DEF Undone, StepsOf, Sessions
  <2>4. PassFocused(y) /\ Stretch(y) < Stretch(x)
    BY <2>1, <2>2, StretchBound DEF PassFocused, AtStep
  <2> QED
    BY <1>p, <2>1, <2>2, <2>3, <2>4
<1>10. CASE NextPass(e)
  <2> DEFINE y == [x EXCEPT !.pc = "loop"]
  <2>1. x.pc = "pass" /\ x.todo = {} /\ x.progressed /\ Becomes(e, y)
    BY <1>10 DEF NextPass
  <2>2. y \in Sessions /\ y.pc = "loop" /\ Undone(y) = Undone(x) /\ PassFocused(y)
    BY <1>0, <2>1 DEF Sessions, Places, Undone, PassFocused, AtStep
  <2> HIDE DEF y
  <2>3. Stretch(y) < Stretch(x)
    BY <2>1, <2>2, StretchBound
  <2> QED
    BY <1>p, <2>1, <2>2, <2>3
<1>11. CASE Conclude(e) \/ ApprovalConflict(e) \/ Park(e) \/ Deadlock(e)
  <2>1. x.pc # "idle" /\ Close(e)
    BY <1>11 DEF Conclude, ApprovalConflict, Park, Deadlock, Return
  <2> QED
    BY <1>c, <2>1
<1> QED
  BY <1>1, <1>2, <1>3, <1>4, <1>5, <1>6, <1>7, <1>8, <1>9, <1>10, <1>11 DEF Advance

(* Every pass is focused initially, and all executions stay so; the steps  *)
(* that change an execution that has a job bring it closer to its end.     *)
LEMMA AdvanceStep ==
    ASSUME IsFiniteSet(Steps), Shape, \A e \in Executors : PassFocused(session[e]),
           [Next]_vars, NEW e \in Executors
    PROVE  /\ PassFocused(session'[e])
           /\ \/ session[e].pc = "idle"
              \/ session'[e] = session[e]
              \/ Ahead(session'[e]) \in 0..(Ahead(session[e]) - 1)
<1>0. session \in [Executors -> Sessions]
  BY DEF Shape, TypeOK, ExecutorTypeOK
<1>1. CASE session' = session
  BY <1>1
<1>2. ASSUME NEW f \in Executors, Advance(f)
      PROVE  /\ PassFocused(session'[e])
             /\ \/ session[e].pc = "idle"
                \/ session'[e] = session[e]
                \/ Ahead(session'[e]) \in 0..(Ahead(session[e]) - 1)
  BY <1>2, ExecutionAdvance
<1>3. ASSUME NEW f \in Executors, Blpop(f)
      PROVE  /\ PassFocused(session'[e])
             /\ \/ session[e].pc = "idle"
                \/ session'[e] = session[e]
  <2>1. PICK m \in Missions : Becomes(f, [Closed EXCEPT !.pc = "load_mission", !.job = m])
    BY <1>3 DEF Blpop
  <2> DEFINE y == [Closed EXCEPT !.pc = "load_mission", !.job = m]
  <2>2. PassFocused(y)
    BY DEF PassFocused, Closed, Undone, StepsOf, AtStep
  <2>3. session[f].pc = "idle"
    BY <1>3 DEF Blpop
  <2> HIDE DEF y
  <2>4. session'[f] = y /\ \A g \in Executors : g # f => session'[g] = session[g]
    BY <1>0, <2>1 DEF Becomes, y
  <2> QED
    BY <2>2, <2>3, <2>4
<1>4. ASSUME NEW f \in Executors, CrashStep(f)
      PROVE  /\ PassFocused(session'[e])
             /\ \/ session[e].pc = "idle"
                \/ session'[e] = session[e]
                \/ Ahead(session'[e]) \in 0..(Ahead(session[e]) - 1)
  <2>1. session[f].pc # "idle" /\ Becomes(f, Closed)
    BY <1>4 DEF CrashStep, Abandon, Close
  <2>2. session'[f] = Closed /\ \A g \in Executors : g # f => session'[g] = session[g]
    BY <1>0, <2>1 DEF Becomes
  <2> QED
    BY <1>0, <2>1, <2>2, Over
<1>5. CASE ProcessCrash
  <2>1. session'[e] = Closed
    BY <1>5 DEF ProcessCrash
  <2>2. PassFocused(Closed)
    BY DEF PassFocused, Closed, AtStep
  <2> QED
    BY <1>0, <2>1, <2>2, Over
<1>6. ASSUME NEW r \in Requests, RequestStep(r) PROVE session' = session
  BY <1>6 DEF RequestStep, execution
<1> QED
  BY <1>1, <1>2, <1>3, <1>4, <1>5, <1>6 DEF Next, ExecutorStep, ExecutorNext, vars, execution

(***************************************************************************)
(* The loop of execute ends: whatever other workers, decisions and faults  *)
(* do, each action of an execution leaves fewer before it.  All that is    *)
(* asked of the constants is that the table of steps is finite.            *)
(***************************************************************************)
THEOREM ExecutionsShrink == ASSUME IsFiniteSet(Steps) PROVE Spec => ExecutionsAdvance
<1> DEFINE Focused == \A e \in Executors : PassFocused(session[e])
<1>1. Init => Shape /\ Focused
  <2>1. PassFocused(Closed)
    BY DEF PassFocused, Closed, AtStep
  <2> QED
    BY <2>1, InitShape DEF Init, ExecutorInit
<1>2. Shape /\ Focused /\ [Next]_vars => Shape' /\ Focused'
  <2>1. ASSUME Shape, Focused, [Next]_vars, NEW e \in Executors PROVE PassFocused(session[e])'
    <3>1. PassFocused(session'[e])
      BY <2>1, AdvanceStep
    <3> QED
      BY <3>1 DEF PassFocused, Undone, StepsOf
  <2> QED
    BY <2>1, ShapeStep
<1>3. Shape /\ Focused /\ [Next]_vars =>
        [\A e \in Executors :
            \/ session[e].pc = "idle"
            \/ session'[e] = session[e]
            \/ Ahead(session'[e]) \in 0..(Ahead(session[e]) - 1)]_vars
  BY AdvanceStep
<1> QED
  BY <1>1, <1>2, <1>3, PTL DEF Spec, ExecutionsAdvance

===============================================================================
