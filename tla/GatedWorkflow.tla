---------------------------- MODULE GatedWorkflow ----------------------------
(***************************************************************************)
(* What the orchestrator promises about the work it lets happen, whoever   *)
(* executes it and however often: an administrator's grant comes before a  *)
(* gated step starts, its dependencies complete before any step starts,    *)
(* the provider is called only for started steps, only called steps        *)
(* complete, and only missions whose steps have all completed are done.    *)
(***************************************************************************)
CONSTANTS
    Steps, Missions,
    MissionOf,      \* the mission of each step
    DependsOn,      \* the dependencies of each step
    Gated           \* the steps governance holds back

VARIABLES
    granted,        \* steps an administrator has approved
    started,        \* steps that have been started
    called,         \* steps whose provider has been called
    completed,      \* steps whose output has been recorded
    finished        \* missions declared completed

workflow == <<granted, started, called, completed, finished>>

WorkflowInit ==
    /\ granted = {} /\ started = {} /\ called = {}
    /\ completed = {} /\ finished = {}

(* An administrator approves a step that governance holds back. *)
Grant(s) ==
    /\ s \in Gated
    /\ granted' = granted \cup {s}
    /\ UNCHANGED <<started, called, completed, finished>>

Begin(s) ==
    /\ s \in Gated => s \in granted
    /\ DependsOn[s] \subseteq completed
    /\ started' = started \cup {s}
    /\ UNCHANGED <<granted, called, completed, finished>>

Call(s) ==
    /\ s \in started
    /\ called' = called \cup {s}
    /\ UNCHANGED <<granted, started, completed, finished>>

Complete(s) ==
    /\ s \in called
    /\ completed' = completed \cup {s}
    /\ UNCHANGED <<granted, started, called, finished>>

Finalise(m) ==
    /\ \A s \in Steps : MissionOf[s] = m => s \in completed
    /\ finished' = finished \cup {m}
    /\ UNCHANGED <<granted, started, called, completed>>

WorkflowNext ==
    \/ \E s \in Steps : Grant(s) \/ Begin(s) \/ Call(s) \/ Complete(s)
    \/ \E m \in Missions : Finalise(m)

WorkflowSpec == WorkflowInit /\ [][WorkflowNext]_workflow
===============================================================================
