------------------------------ MODULE Planning -------------------------------
(***************************************************************************)
(* validate_and_order, planning.py: the check of a submitted list of steps *)
(* and Kahn's algorithm over it.  One action per iteration of its loops.   *)
(* create_mission stores the order it returns as WorkflowStep.position;    *)
(* PlanAssumption of MissionDomain rests on what is checked here.          *)
(***************************************************************************)
EXTENDS Naturals, Sequences, FiniteSets

CONSTANTS
    Keys,       \* the names a step, or a dependency, can have
    Plans       \* the lists of steps that may be submitted

(* StepCreate, schemas.py, as far as the order of steps depends on it *)
StepCreates == [key : Keys, depends_on : Seq(Keys)]

ASSUME PlansAssumption ==
    /\ IsFiniteSet(Keys)
    /\ Plans \subseteq Seq(StepCreates)

VARIABLES
    plan,       \* the argument `steps`
    verdict,    \* "open" until the function returns or raises InvalidPlan
    scanned,    \* how many steps the first loop has gone through
    indegree,   \* dependencies not yet ordered, for each key
    dependents, \* the steps that depend on each key
    ready,      \* the deque of keys that can be ordered
    ordered,    \* the result
    work        \* the dependents of the last ordered key, still to be visited

vars == <<plan, verdict, scanned, indegree, dependents, ready, ordered, work>>

Elements(q) == {q[i] : i \in DOMAIN q}

(* No element occurs twice. *)
Distinct(q) == \A i, j \in DOMAIN q : q[i] = q[j] => i = j

(* `keys` and `known` *)
KeyList == [i \in DOMAIN plan |-> plan[i].key]
Known == Elements(KeyList)

(* The dependencies of the step that has this key *)
Deps(k) == UNION {Elements(plan[i].depends_on) :
                     i \in {n \in DOMAIN plan : plan[n].key = k}}

Init ==
    /\ plan \in Plans
    /\ verdict = "open"
    /\ scanned = 0
    /\ indegree = [k \in Keys |-> 0]
    /\ dependents = [k \in Keys |-> <<>>]
    /\ ready = <<>> /\ ordered = <<>> /\ work = <<>>

(* The checks of the first loop: no self-dependency, none unknown or twice. *)
WellFormed(step) ==
    /\ step.key \notin Elements(step.depends_on)
    /\ Elements(step.depends_on) \subseteq Known
    /\ Distinct(step.depends_on)

(* One of the checks raises InvalidPlan. *)
Refuse ==
    /\ verdict = "open" /\ scanned < Len(plan)
    /\ ~Distinct(KeyList) \/ ~WellFormed(plan[scanned + 1])
    /\ verdict' = "invalid"
    /\ UNCHANGED <<plan, scanned, indegree, dependents, ready, ordered, work>>

(* Mutant of Scan: the dependencies of the step are not counted. *)
ScanUncounted ==
    LET step == plan[scanned + 1] IN
    /\ verdict = "open" /\ scanned < Len(plan)
    /\ Distinct(KeyList) /\ WellFormed(step)
    /\ scanned' = scanned + 1
    /\ dependents' = [k \in Keys |->
           IF k \in Elements(step.depends_on)
             THEN Append(dependents[k], step.key) ELSE dependents[k]]
    /\ ready' = IF step.depends_on = <<>> THEN Append(ready, step.key) ELSE ready
    /\ UNCHANGED <<plan, verdict, indegree, ordered, work>>

(***************************************************************************)
(* The next iteration of the first loop.  The comprehension that fills     *)
(* `ready` after the loop asks in the same order, for each key, what this  *)
(* iteration has just made final.                                          *)
(***************************************************************************)
Scan ==
    LET step == plan[scanned + 1] IN
    /\ verdict = "open" /\ scanned < Len(plan)
    /\ Distinct(KeyList) /\ WellFormed(step)
    /\ scanned' = scanned + 1
    /\ indegree' = [indegree EXCEPT ![step.key] = Len(step.depends_on)]
    /\ dependents' = [k \in Keys |->
           IF k \in Elements(step.depends_on)
             THEN Append(dependents[k], step.key) ELSE dependents[k]]
    /\ ready' = IF step.depends_on = <<>> THEN Append(ready, step.key) ELSE ready
    /\ UNCHANGED <<plan, verdict, ordered, work>>

(* The first loop is over, and no dependents wait for their visit. *)
Sorting == verdict = "open" /\ scanned = Len(plan) /\ work = <<>>

(* `while ready`: the first ready key is ordered. *)
Pop ==
    /\ Sorting /\ ready # <<>>
    /\ ordered' = Append(ordered, Head(ready))
    /\ ready' = Tail(ready)
    /\ work' = dependents[Head(ready)]
    /\ UNCHANGED <<plan, verdict, scanned, indegree, dependents>>

(* Mutant of Release: ready as soon as one dependency has been ordered. *)
ReleaseAtOnce ==
    LET k == Head(work) IN
    /\ work # <<>>
    /\ work' = Tail(work)
    /\ indegree' = [indegree EXCEPT ![k] = @ - 1]
    /\ ready' = IF indegree[k] = Cardinality(Deps(k)) THEN Append(ready, k) ELSE ready
    /\ UNCHANGED <<plan, verdict, scanned, dependents, ordered>>

(* The visit of the next dependent of the key just ordered *)
Release ==
    LET k == Head(work) IN
    /\ work # <<>>
    /\ work' = Tail(work)
    /\ indegree' = [indegree EXCEPT ![k] = @ - 1]
    /\ ready' = IF indegree[k] = 1 THEN Append(ready, k) ELSE ready
    /\ UNCHANGED <<plan, verdict, scanned, dependents, ordered>>

(* Mutant of Conclude: keys left over are not noticed. *)
ConcludeAnyway ==
    /\ Sorting /\ ready = <<>>
    /\ verdict' = "accepted"
    /\ UNCHANGED <<plan, scanned, indegree, dependents, ready, ordered, work>>

(* Mutant of Conclude: the loop goes on until every key has been ordered. *)
ConcludeWhenAll ==
    /\ Sorting /\ Len(ordered) = Len(plan)
    /\ verdict' = "accepted"
    /\ UNCHANGED <<plan, scanned, indegree, dependents, ready, ordered, work>>

(* Nothing is ready: all keys have been ordered, or a cycle is left. *)
Conclude ==
    /\ Sorting /\ ready = <<>>
    /\ verdict' = IF Len(ordered) = Len(plan) THEN "accepted" ELSE "cycle"
    /\ UNCHANGED <<plan, scanned, indegree, dependents, ready, ordered, work>>

Next == Refuse \/ Scan \/ Pop \/ Release \/ Conclude

Spec == Init /\ [][Next]_vars

(* The function runs to its end. *)
FairSpec == Spec /\ WF_vars(Next)

----------------------------------------------------------------------------

TypeOK ==
    /\ plan \in Plans
    /\ verdict \in {"open", "accepted", "invalid", "cycle"}
    /\ scanned \in 0..Len(plan)
    /\ indegree \in [Keys -> Nat]
    /\ dependents \in [Keys -> Seq(Keys)]
    /\ ready \in Seq(Keys) /\ ordered \in Seq(Keys) /\ work \in Seq(Keys)

(***************************************************************************)
(* The positions create_mission gives to the steps of an accepted plan are *)
(* those PlanAssumption takes for granted: every step has exactly one, and *)
(* its dependencies are steps of the plan with smaller ones.               *)
(***************************************************************************)
AcceptedOrder ==
    verdict = "accepted" =>
        /\ Elements(ordered) = Known
        /\ Distinct(ordered)
        /\ \A i \in DOMAIN ordered : \A d \in Deps(ordered[i]) :
              \E j \in DOMAIN ordered : j < i /\ ordered[j] = d

(* The plan has a cycle: steps that cannot but wait for one another. *)
Cyclic ==
    \E C \in SUBSET Known : C # {} /\ \A k \in C : Deps(k) \cap C # {}

(***************************************************************************)
(* A plan that passes the checks of its steps is refused for a dependency  *)
(* cycle exactly if it has one.                                            *)
(***************************************************************************)
CyclesRefused ==
    /\ verdict = "cycle" => Cyclic
    /\ verdict = "accepted" => ~Cyclic

(* The validation of every list of steps ends. *)
Terminates == <>(verdict # "open")
----------------------------------------------------------------------------
(***************************************************************************)
(* The inductive invariant behind AcceptedOrder and CyclesRefused: at any  *)
(* time the in-degree of a key is the number of its dependencies whose     *)
(* visit is still to come.                                                 *)
(***************************************************************************)

Scanned == {plan[i].key : i \in 1..scanned}

(* The steps scanned so far are well-formed and have keys of their own. *)
ScannedSound ==
    /\ scanned > 0 => Distinct(KeyList)
    /\ \A i \in 1..scanned : WellFormed(plan[i])
    /\ scanned < Len(plan) => ordered = <<>> /\ work = <<>>

(* `dependents` inverts the dependencies of the scanned steps. *)
DependentsSound ==
    \A d \in Keys :
        /\ Distinct(dependents[d])
        /\ Elements(dependents[d]) = {k \in Scanned : d \in Deps(k)}

(* The key whose dependents are being visited *)
Latest == ordered[Len(ordered)]

(* `work` is what is left of the dependents of the latest key. *)
WorkSound ==
    /\ Distinct(work)
    /\ work # <<>> => /\ ordered # <<>>
                      /\ Elements(work) \subseteq Elements(dependents[Latest])

(* The dependencies of k that its in-degree no longer counts *)
Visited(k) ==
    {d \in Deps(k) \cap Elements(ordered) :
        k \in Elements(work) => d # Latest}

IndegreeSound ==
    \A k \in Scanned : indegree[k] = Cardinality(Deps(k) \ Visited(k))

(* What is ready or ordered is what has nothing left to wait for. *)
ReadySound ==
    /\ Distinct(ready) /\ Distinct(ordered)
    /\ Elements(ready) \cap Elements(ordered) = {}
    /\ Elements(ready) \cup Elements(ordered) = {k \in Scanned : indegree[k] = 0}

OrderSound ==
    \A i \in DOMAIN ordered : \A d \in Deps(ordered[i]) :
        \E j \in DOMAIN ordered : j < i /\ ordered[j] = d

(* A set of keys each of which depends on one of the set *)
Knot(C) == \A k \in C : Deps(k) \cap C # {}

(* No key of such a set is ever ordered. *)
KnotsUnordered ==
    \A C \in SUBSET Known : Knot(C) => C \cap Elements(ordered) = {}

VerdictSound ==
    verdict \in {"accepted", "cycle"} =>
        /\ scanned = Len(plan) /\ ready = <<>> /\ work = <<>>
        /\ verdict = "accepted" <=> Len(ordered) = Len(plan)

PlanInv ==
    /\ TypeOK /\ ScannedSound /\ DependentsSound /\ WorkSound /\ IndegreeSound
    /\ ReadySound /\ OrderSound /\ KnotsUnordered /\ VerdictSound
----------------------------------------------------------------------------
(* Iterations that may be left: scans, visits, pops with the visits of all *)
(* the dependents a key can have, and the conclusion.                      *)
Remaining ==
    LET n == Cardinality(Keys) IN
    (IF verdict = "open" THEN 1 ELSE 0) + (Len(plan) - scanned)
        + (n - Len(ordered)) * (n + 1) + Len(work)

(***************************************************************************)
(* `while ready` cannot run for ever: every iteration leaves fewer to come,*)
(* because no key is ordered twice, whatever the dependencies are.         *)
(***************************************************************************)
ValidationAdvances == [][Remaining' \in 0..(Remaining - 1)]_vars
===============================================================================
