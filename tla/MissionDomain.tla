---------------------------- MODULE MissionDomain ----------------------------
(***************************************************************************)
(* The data an accepted mission plan carries: its workflow steps, their    *)
(* dependencies, their order and the attributes the governance policy      *)
(* reads.  None of it changes after create_mission has committed, so it is *)
(* given by constants.                                                     *)
(***************************************************************************)
EXTENDS Naturals, FiniteSets

CONSTANTS
    Missions,       \* rows of the missions table
    Steps,          \* rows of the workflow_steps table
    MissionOf,      \* WorkflowStep.mission_id
    DependsOn,      \* WorkflowStep.depends_on, keys resolved to steps
    Position,       \* WorkflowStep.position, the order of Mission.steps
    Risk,           \* WorkflowStep.risk
    Action,         \* WorkflowStep.action
    LowerCase,      \* what str.lower() maps each action name to
    NoMission,      \* the job of an executor that holds none
    NoStep          \* the current step of an executor between two steps

(* MissionStatus, models.py *)
MissionStatuses ==
    {"draft", "queued", "running", "waiting_approval",
     "completed", "failed", "rejected"}

(* StepStatus, models.py *)
StepStatuses ==
    {"pending", "running", "waiting_approval",
     "completed", "failed", "rejected"}

(* ApprovalStatus, models.py; "none" is the absence of a row for the step. *)
ApprovalStatuses == {"none", "pending", "approved", "rejected"}

(* The values StepCreate.risk admits, schemas.py *)
RiskLevels == {"low", "medium", "high"}

(***************************************************************************)
(* What create_mission guarantees of a committed plan: step keys resolve   *)
(* inside the mission, and positions follow a topological order            *)
(* (validate_and_order).  A plan has at least one step (schemas.py).       *)
(***************************************************************************)
ASSUME PlanAssumption ==
    /\ MissionOf \in [Steps -> Missions]
    /\ DependsOn \in [Steps -> SUBSET Steps]
    /\ Position \in [Steps -> Nat]
    /\ Risk \in [Steps -> RiskLevels]
    /\ \A s \in Steps : \A d \in DependsOn[s] :
          MissionOf[d] = MissionOf[s] /\ Position[d] < Position[s]
    /\ \A s, t \in Steps :
          MissionOf[s] = MissionOf[t] /\ Position[s] = Position[t] => s = t
    /\ \A m \in Missions : \E s \in Steps : MissionOf[s] = m

ASSUME SentinelAssumption == NoMission \notin Missions /\ NoStep \notin Steps

(* Mission.steps *)
StepsOf(m) == {s \in Steps : MissionOf[s] = m}

(* MissionExecutor.execute and decide_approval treat these as final. *)
FinalStatuses == {"completed", "failed", "rejected"}

(* GovernancePolicy.controlled_actions *)
ControlledActions == {"production", "release", "deploy", "delete", "publish"}

(* GovernancePolicy.evaluate(step).requires_approval *)
RequiresApproval(s) ==
    \/ Risk[s] \in {"medium", "high"}
    \/ LowerCase[Action[s]] \in ControlledActions
===============================================================================
