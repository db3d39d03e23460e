------------------------ MODULE OrchestratorInvariant ------------------------
(***************************************************************************)
(* The inductive invariant behind the safety properties of Orchestrator.   *)
(* Statuses in the tables are no help to an induction: stale sessions      *)
(* overwrite them.  What cannot be taken back is the audit trail, the      *)
(* hand-offs and the provider calls, so every status, every view and every *)
(* place in a handler or an execution is accounted for by those.           *)
(***************************************************************************)
EXTENDS Orchestrator

(* An executor with a job works on the steps of that job's mission. *)
SessionShape(x) ==
    /\ x \in Sessions
    /\ x.pc # "idle" => x.job \in Missions
    /\ x.pc \in AtStep => x.cur \in StepsOf(x.job)
    /\ x.todo \subseteq StepsOf(x.job)

(* A handler has the mission and the approval it was called for. *)
HandlerShape(q) ==
    /\ q \in Handlers
    /\ q.pc # "free" => q.mission \in Missions
    /\ q.pc \in {"decide_load", "decide_commit"} =>
          /\ q.step \in Steps
          /\ q.mission = MissionOf[q.step]
          /\ q.decision \in {"approved", "rejected"}

Shape ==
    /\ TypeOK
    /\ \A e \in Executors : SessionShape(session[e])
    /\ \A r \in Requests : HandlerShape(request[r])

(* An approval exists only for a gated step, once asked for, as decided. *)
ApprovalsAccounted ==
    \A s \in Steps :
        /\ approval[s] # "none" => RequiresApproval(s) /\ Requested(s)
        /\ approval[s] = "approved" => Granted(s)
        /\ approval[s] = "rejected" => Denied(s)

(* A handler decides an approval that exists. *)
DecisionsAccounted ==
    \A r \in Requests :
        request[r].pc \in {"decide_load", "decide_commit"} =>
            approval[request[r].step] # "none"

(* What a session believes of a step was so, or is what it did itself. *)
ViewAccounted(x) == \A s \in Steps : StepAccount(s, x.view[s])

(* The dependencies of what an execution runs, or will run, completed. *)
InputsAccounted(x) ==
    \A s \in Steps :
        (s \in x.todo \/ (x.pc \in AtStep /\ s = x.cur))
            => \A dep \in DependsOn[s] : Done(dep)

(* An execution past `start` has been audited as started. *)
RunAccounted(x) ==
    x.pc \in {"loop", "pass"} \cup AtStep =>
        <<"mission", "started", x.job>> \in audit

(* An execution is at a place of _approval_allows or _run_step for a reason. *)
PlaceAccounted(x) ==
    /\ x.pc = "ask" => RequiresApproval(x.cur)
    /\ x.pc = "hold" => Requested(x.cur)
    /\ x.pc = "deny" => Denied(x.cur)
    /\ x.pc = "begin" /\ RequiresApproval(x.cur) => Granted(x.cur)
    /\ x.pc \in {"call", "record"} => Started(x.cur)
    /\ x.pc = "record" => invoked[x.cur] > 0

SessionAccounted(x) ==
    ViewAccounted(x) /\ InputsAccounted(x) /\ RunAccounted(x) /\ PlaceAccounted(x)

(* The trail of a step grows in order: grant and inputs, start, call, end. *)
StepTrail ==
    \A s \in Steps :
        /\ Started(s) =>
              /\ RequiresApproval(s) => Granted(s)
              /\ \A dep \in DependsOn[s] : Done(dep) /\ <<dep, s>> \in handoffs
        /\ invoked[s] > 0 => Started(s)
        /\ Done(s) => invoked[s] > 0
        /\ Granted(s) => RequiresApproval(s)

MissionTrail ==
    \A m \in Missions : <<"mission", "completed", m>> \in audit =>
        \A s \in StepsOf(m) : Done(s)

(* The inductive invariant: all of the above, at every place of every actor. *)
Accounted ==
    /\ ApprovalsAccounted
    /\ DecisionsAccounted
    /\ TrailExplainsState
    /\ \A e \in Executors : SessionAccounted(session[e])
    /\ StepTrail
    /\ MissionTrail

IInv == Shape /\ Accounted
----------------------------------------------------------------------------
(* Why an execution ends, whatever the others do to the tables meanwhile.  *)

(* The steps that the execution has yet to decide about *)
Undone(x) == {s \in StepsOf(x.job) : x.view[s] = "pending"}

(* All steps are undone until they are loaded; a pass then goes through    *)
(* undone steps, each of them once.                                        *)
PassFocused(x) ==
    /\ x.pc \in {"load_mission", "load_steps"} => Undone(x) = StepsOf(x.job)
    /\ x.todo \subseteq Undone(x)
    /\ x.pc \notin {"pass"} \cup AtStep => x.todo = {}
    /\ x.pc \in AtStep => x.cur \notin x.todo
    /\ x.pc \in {"ask", "hold", "deny", "begin"} => x.cur \in Undone(x)

(* How far it is from this place to the next round with fewer undone steps,*)
(* or to the end; a pass that ran nothing has no other round before it.    *)
Stretch(x) ==
    CASE x.pc = "idle" -> 0
      [] x.pc \in {"load_mission", "call"} -> 9
      [] x.pc \in {"load_steps", "record"} -> 8
      [] x.pc = "start" -> 7
      [] x.pc = "pass" -> IF x.progressed THEN 6 ELSE 4
      [] x.pc = "loop" -> 5
      [] OTHER -> 3

(* A bound on the actions the execution still has before it *)
Ahead(x) == 10 * Cardinality(Undone(x)) + Stretch(x)

(***************************************************************************)
(* No execution goes round for ever: every action of an execution, its     *)
(* being abandoned too, brings it closer to its end, and the writes of     *)
(* others cannot move it away, because it decides on its own view.         *)
(***************************************************************************)
ExecutionsAdvance ==
    [][\A e \in Executors :
          \/ session[e].pc = "idle"
          \/ session'[e] = session[e]
          \/ Ahead(session'[e]) \in 0..(Ahead(session[e]) - 1)]_vars

===============================================================================
