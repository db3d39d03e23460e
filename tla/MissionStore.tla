---------------------------- MODULE MissionStore -----------------------------
(***************************************************************************)
(* The PostgreSQL tables that the API processes and the workers share, as  *)
(* committed.  A transaction's writes take effect in the one action that   *)
(* models its commit; its earlier reads are actions of their own, because  *)
(* under READ COMMITTED other sessions may commit in between.              *)
(***************************************************************************)
EXTENDS MissionDomain

CONSTANTS
    FaultKinds,     \* which infrastructure faults may happen
    MaxFaults       \* bound: how many of them may happen in one behaviour

ASSUME FaultAssumption ==
    /\ FaultKinds \subseteq {"crash", "enqueue"}
    /\ MaxFaults \in Nat

VARIABLES
    mstatus,        \* Mission.status
    sstatus,        \* WorkflowStep.status
    approval,       \* Approval.status of the step's row, "none" if no row
    handoffs,       \* rows of handoffs as pairs <<from_step, to_step>>
    audit,          \* rows of audit_events as triples <<type, verb, id>>
    faults          \* infrastructure faults so far

store == <<mstatus, sstatus, approval, handoffs, audit>>

(* The verbs record_audit is given for each kind of resource. *)
AuditEvents ==
    ({"mission"} \X {"queued", "started", "rejected", "failed", "completed",
                     "deadlocked"} \X Missions)
    \cup ({"step"} \X {"started", "completed", "failed"} \X Steps)
    \cup ({"approval"} \X {"requested", "approved", "rejected"} \X Steps)

StoreTypeOK ==
    /\ mstatus \in [Missions -> MissionStatuses]
    /\ sstatus \in [Steps -> StepStatuses]
    /\ approval \in [Steps -> ApprovalStatuses]
    /\ handoffs \subseteq Steps \X Steps
    /\ audit \subseteq AuditEvents
    /\ faults \in Nat

(* Every mission has been created and validated, none has been submitted. *)
StoreInit ==
    /\ mstatus = [m \in Missions |-> "draft"]
    /\ sstatus = [s \in Steps |-> "pending"]
    /\ approval = [s \in Steps |-> "none"]
    /\ handoffs = {}
    /\ audit = {}
    /\ faults = 0

(***************************************************************************)
(* What committing `obj.status = new` leaves in the row: SQLAlchemy emits  *)
(* an UPDATE only when new differs from the value the session loaded, and  *)
(* that UPDATE does not look at the value the row has by then.             *)
(***************************************************************************)
Flushed(row, seen, new) == IF seen = new THEN row ELSE new

(* record_audit, in the transaction of the caller *)
RecordAudit(kind, verb, id) == audit' = audit \cup {<<kind, verb, id>>}

(* A fault of this kind happens now. *)
Fault(kind) ==
    /\ kind \in FaultKinds
    /\ faults < MaxFaults
    /\ faults' = faults + 1

(* What the audit trail says happened to a step. *)
Requested(s) == <<"approval", "requested", s>> \in audit
Denied(s) == <<"approval", "rejected", s>> \in audit
Granted(s) == <<"approval", "approved", s>> \in audit
Started(s) == <<"step", "started", s>> \in audit
Done(s) == <<"step", "completed", s>> \in audit
===============================================================================
