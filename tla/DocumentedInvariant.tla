------------------------- MODULE DocumentedInvariant -------------------------
(***************************************************************************)
(* What more can be said with the one worker of docs/ARCHITECTURE.md and   *)
(* one decision at a time: the tables agree with each other, a session     *)
(* knows what it works on, and nothing is left behind but by a fault.      *)
(***************************************************************************)
EXTENDS OrchestratorInvariant

OneWorker == \A e, f \in Executors : e = f
OneAdmin == \A r, q \in Admins : r = q

(* The steps of the execution's mission have been loaded. *)
Viewing(x) == x.pc \notin {"idle", "load_mission", "load_steps"}

(* The step's row and its approval tell the same story. *)
RowsAgree ==
    \A s \in Steps :
        /\ approval[s] = "pending" <=> sstatus[s] = "waiting_approval"
        /\ approval[s] = "rejected" <=> sstatus[s] = "rejected"
        /\ approval[s] = "none" /\ RequiresApproval(s) => sstatus[s] = "pending"

(* A decision in progress is about an approval that is still undecided. *)
DecisionSound(r) ==
    LET q == request[r] IN
    /\ q.pc \in {"decide_load", "decide_commit"} =>
          r \in Admins /\ approval[q.step] = "pending"
    /\ q.pc = "decide_commit" => q.seenStep = "waiting_approval"

(* Only a decision can come between a session and the rows it loaded. *)
ViewFresh(x) ==
    Viewing(x) => \A s \in StepsOf(x.job) :
        x.view[s] # sstatus[s] => x.view[s] = "waiting_approval"

(* The pass works on steps that were pending and that nobody has called. *)
PlaceFresh(x) ==
    /\ x.pc \notin {"hold", "deny"}
    /\ \A s \in x.todo : Viewing(x) /\ x.view[s] = "pending"
    /\ x.pc \in AtStep => x.cur \notin x.todo
    /\ x.pc \in {"ask", "begin"} => x.view[x.cur] = "pending"
    /\ x.pc = "ask" => approval[x.cur] = "none"
    /\ x.pc = "begin" /\ RequiresApproval(x.cur) => approval[x.cur] # "none"
    /\ x.pc \in {"call", "record"} => x.view[x.cur] = "running"
    /\ x.pc = "call" => invoked[x.cur] = 0

(* A step that has not begun, or not begun again, has not been called. *)
CallsFresh ==
    \A s \in Steps :
        /\ invoked[s] <= 1
        /\ sstatus[s] \in {"pending", "waiting_approval", "rejected"} => invoked[s] = 0

Agreed ==
    /\ RowsAgree
    /\ CallsFresh
    /\ CompletedMeansAllSteps
    /\ \A r \in Requests : DecisionSound(r)
    /\ \A e \in Executors : ViewFresh(session[e]) /\ PlaceFresh(session[e])

----------------------------------------------------------------------------
(* A job for the mission is in the queue, or a handler is about to put one. *)
InLine(m) ==
    \/ Queued(m)
    \/ \E r \in Requests : request[r].pc = "enqueue" /\ request[r].mission = m

(* The worker has the mission and will write its status before it lets go. *)
Working(m) ==
    \E e \in Executors :
        /\ session[e].job = m /\ session[e].pc # "idle"
        /\ ~(session[e].pc = "load_steps" /\ session[e].loaded \in FinalStatuses)

Undecided(s) == approval[s] \in {"pending", "rejected"}

(* Somebody, or a decision to come, will move the mission on. *)
Safe(m) ==
    /\ mstatus[m] \in {"queued", "running"} => InLine(m) \/ Working(m)
    /\ mstatus[m] = "waiting_approval" =>
          InLine(m) \/ Working(m) \/ \E s \in StepsOf(m) : Undecided(s)
    /\ \A e \in Executors : session[e].job = m /\ Viewing(session[e]) =>
          \A s \in StepsOf(m) : session[e].view[s] = "waiting_approval" =>
              InLine(m) \/ Undecided(s)

Stranded == {m \in Missions : ~Safe(m)}

----------------------------------------------------------------------------
(* A running step is the one its worker is at; a pass that has run nothing *)
(* has a step to go to or one that waits.                                  *)
PassSound(x) ==
    /\ x.pc \in {"begin", "call", "record"} => x.progressed
    /\ x.pc = "pass" /\ ~x.progressed =>
          x.todo # {} \/ \E s \in StepsOf(x.job) : x.view[s] = "waiting_approval"

RunningIsCurrent ==
    \A s \in Steps : sstatus[s] = "running" =>
        \E e \in Executors : session[e].pc \in {"call", "record"} /\ session[e].cur = s

Scheduled ==
    /\ NoSchedulingDeadlock
    /\ RunningIsCurrent
    /\ \A e \in Executors : PassSound(session[e])
===============================================================================
