---------------------------- MODULE PlanningProofs ----------------------------
(***************************************************************************)
(* Proofs that validate_and_order accepts exactly the acyclic plans, and   *)
(* in an order that respects their dependencies, for every set of keys and *)
(* every list of steps.                                                    *)
(***************************************************************************)
EXTENDS Planning, FiniteSetTheorems, TLAPS

----------------------------------------------------------------------------
(* Lists and their elements *)

(* A list without repetitions has as many elements as its length. *)
LEMMA DistinctCardinality ==
    ASSUME NEW S, NEW q \in Seq(S), Distinct(q)
    PROVE  IsFiniteSet(Elements(q)) /\ Cardinality(Elements(q)) = Len(q)
<1>1. /\ Len(q) \in Nat /\ DOMAIN q = 1..Len(q)
      /\ q \in [1..Len(q) -> Elements(q)]
  BY DEF Elements
<1>2. q \in Bijection(1..Len(q), Elements(q))
  BY <1>1 DEF Bijection, Injection, IsInjective, Surjection, Elements, Distinct
<1>3. ExistsBijection(1..Len(q), Elements(q))
  BY <1>2 DEF ExistsBijection
<1>4. IsFiniteSet(1..Len(q)) /\ Cardinality(1..Len(q)) = Len(q)
  BY <1>1, FS_Interval
<1> QED
  BY <1>3, <1>4, FS_Bijection

(* Appending a new element *)
LEMMA AppendElements ==
    ASSUME NEW S, NEW q \in Seq(S), NEW e \in S
    PROVE  /\ Append(q, e) \in Seq(S)
           /\ Elements(Append(q, e)) = Elements(q) \cup {e}
           /\ Distinct(q) /\ e \notin Elements(q) => Distinct(Append(q, e))
<1>1. /\ Len(q) \in Nat /\ DOMAIN q = 1..Len(q)
      /\ DOMAIN Append(q, e) = 1..(Len(q) + 1)
      /\ \A i \in 1..Len(q) : Append(q, e)[i] = q[i]
      /\ Append(q, e)[Len(q) + 1] = e
  OBVIOUS
<1>2. Elements(Append(q, e)) = Elements(q) \cup {e}
  BY <1>1 DEF Elements
<1>3. Distinct(q) /\ e \notin Elements(q) => Distinct(Append(q, e))
  BY <1>1 DEF Elements, Distinct
<1> QED
  BY <1>2, <1>3

(* Taking the first element *)
LEMMA TailElements ==
    ASSUME NEW S, NEW q \in Seq(S), q # <<>>
    PROVE  /\ Head(q) \in S /\ Tail(q) \in Seq(S)
           /\ Elements(q) = {Head(q)} \cup Elements(Tail(q))
           /\ Distinct(q) => /\ Distinct(Tail(q))
                             /\ Head(q) \notin Elements(Tail(q))
<1>1. /\ Len(q) \in Nat \ {0} /\ DOMAIN q = 1..Len(q)
      /\ DOMAIN Tail(q) = 1..(Len(q) - 1)
      /\ \A i \in 1..(Len(q) - 1) : Tail(q)[i] = q[i + 1]
      /\ Head(q) = q[1] /\ Head(q) \in S /\ Tail(q) \in Seq(S)
  OBVIOUS
<1>2. Elements(q) \subseteq {Head(q)} \cup Elements(Tail(q))
  <2>1. SUFFICES ASSUME NEW i \in 1..Len(q), i # 1
                 PROVE  q[i] \in Elements(Tail(q))
    BY <1>1 DEF Elements
  <2>2. i - 1 \in 1..(Len(q) - 1) /\ (i - 1) + 1 = i
    BY <1>1, <2>1
  <2> QED
    BY <1>1, <2>2 DEF Elements
<1>3. {Head(q)} \cup Elements(Tail(q)) \subseteq Elements(q)
  BY <1>1 DEF Elements
<1>4. Distinct(q) => Distinct(Tail(q)) /\ Head(q) \notin Elements(Tail(q))
  BY <1>1 DEF Elements, Distinct
<1> QED
  BY <1>1, <1>2, <1>3, <1>4

LEMMA ElementsType ==
    ASSUME NEW S, NEW q \in Seq(S)
    PROVE  /\ Elements(q) \in SUBSET S
           /\ (Elements(q) = {}) <=> (q = <<>>)
<1>1. DOMAIN q = 1..Len(q) /\ Len(q) \in Nat /\ \A i \in 1..Len(q) : q[i] \in S
  OBVIOUS
<1>2. q # <<>> => 1 \in 1..Len(q)
  BY <1>1
<1>3. q = <<>> => DOMAIN q = {}
  BY <1>1
<1>4. (Elements(q) = {}) <=> (q = <<>>)
  BY <1>1, <1>2, <1>3 DEF Elements
<1> QED
  BY <1>1, <1>4 DEF Elements

----------------------------------------------------------------------------
(* The plan *)

LEMMA PlanTypes ==
    ASSUME plan \in Plans
    PROVE  /\ Len(plan) \in Nat /\ DOMAIN plan = 1..Len(plan)
           /\ \A i \in 1..Len(plan) : /\ plan[i].key \in Keys
                                      /\ plan[i].depends_on \in Seq(Keys)
           /\ Known = {plan[i].key : i \in 1..Len(plan)}
           /\ Known \in SUBSET Keys
           /\ KeyList \in Seq(Keys) /\ Len(KeyList) = Len(plan)
           /\ \A k : Deps(k) \in SUBSET Keys /\ IsFiniteSet(Deps(k))
<1>1. plan \in Seq(StepCreates)
  BY PlansAssumption
<1>2. /\ Len(plan) \in Nat /\ DOMAIN plan = 1..Len(plan)
      /\ \A i \in 1..Len(plan) : plan[i] \in StepCreates
  BY <1>1
<1>3. \A i \in 1..Len(plan) : /\ plan[i].key \in Keys
                              /\ plan[i].depends_on \in Seq(Keys)
  BY <1>2 DEF StepCreates
<1>4. /\ DOMAIN KeyList = 1..Len(plan)
      /\ \A i \in 1..Len(plan) : KeyList[i] = plan[i].key
  BY <1>2 DEF KeyList
<1>5. KeyList \in [1..Len(plan) -> Keys]
  BY <1>2, <1>3 DEF KeyList
<1>6. KeyList \in Seq(Keys) /\ Len(KeyList) = Len(plan)
  BY <1>2, <1>5
<1>7. Known = {plan[i].key : i \in 1..Len(plan)}
  BY <1>4 DEF Known, Elements
<1>8. ASSUME NEW k PROVE Deps(k) \in SUBSET Keys
  <2>1. \A i \in 1..Len(plan) : Elements(plan[i].depends_on) \in SUBSET Keys
    BY <1>3, ElementsType
  <2> QED
    BY <1>2, <2>1 DEF Deps
<1>9. \A k : IsFiniteSet(Deps(k))
  BY <1>8, PlansAssumption, FS_Subset
<1> QED
  BY <1>2, <1>3, <1>6, <1>7, <1>8, <1>9

(* Where no key occurs twice, the dependencies of a key are its step's. *)
LEMMA DepsOfStep ==
    ASSUME plan \in Plans, Distinct(KeyList), NEW i \in 1..Len(plan)
    PROVE  Deps(plan[i].key) = Elements(plan[i].depends_on)
<1>1. DOMAIN plan = 1..Len(plan)
  BY PlanTypes
<1>2. {n \in DOMAIN plan : plan[n].key = plan[i].key} = {i}
  BY <1>1 DEF Distinct, KeyList
<1> QED
  BY <1>2 DEF Deps

----------------------------------------------------------------------------
(* The first loop *)

(* The scanned keys are known; once the loop is over, they are all of them. *)
LEMMA ScannedKnown ==
    ASSUME TypeOK
    PROVE  /\ Scanned \in SUBSET Known
           /\ scanned = Len(plan) => Scanned = Known
<1>1. plan \in Plans /\ scanned \in 0..Len(plan)
  BY DEF TypeOK
<1>2. Len(plan) \in Nat /\ Known = {plan[i].key : i \in 1..Len(plan)}
  BY <1>1, PlanTypes
<1>3. 1..scanned \subseteq 1..Len(plan)
  BY <1>1, <1>2
<1> QED
  BY <1>2, <1>3 DEF Scanned

(* The dependencies of a scanned key are known. *)
LEMMA DepsKnown ==
    ASSUME TypeOK, ScannedSound, NEW k \in Scanned
    PROVE  Deps(k) \in SUBSET Known
<1>1. PICK i \in 1..scanned : k = plan[i].key
  BY DEF Scanned
<1>2. i \in 1..Len(plan) /\ scanned > 0
  BY <1>1, PlanTypes DEF TypeOK
<1>3. Deps(k) = Elements(plan[i].depends_on)
  BY <1>1, <1>2, DepsOfStep DEF TypeOK, ScannedSound
<1> QED
  BY <1>1, <1>3 DEF ScannedSound, WellFormed

LEMMA InitInv == Init => PlanInv
<1> SUFFICES ASSUME Init PROVE PlanInv
  OBVIOUS
<1>1. Len(plan) \in Nat
  BY PlanTypes DEF Init
<1>2. TypeOK
  BY <1>1 DEF Init, TypeOK
<1>3. Scanned = {} /\ Elements(<<>>) = {} /\ Distinct(<<>>)
  BY DEF Init, Scanned, Elements, Distinct
<1>4. ScannedSound
  BY DEF Init, ScannedSound
<1>5. DependentsSound
  BY <1>3 DEF Init, DependentsSound
<1>6. WorkSound /\ IndegreeSound
  BY <1>3 DEF Init, WorkSound, IndegreeSound
<1>7. ReadySound /\ OrderSound /\ KnotsUnordered
  BY <1>3 DEF Init, ReadySound, OrderSound, KnotsUnordered
<1>8. VerdictSound
  BY DEF Init, VerdictSound
<1> QED
  BY <1>2, <1>4, <1>5, <1>6, <1>7, <1>8 DEF PlanInv

(* The operators of the invariant depend on no more than their variables. *)
LEMMA SamePlan ==
    ASSUME plan' = plan
    PROVE  /\ KeyList' = KeyList /\ Known' = Known
           /\ \A k : Deps(k)' = Deps(k)
           /\ \A step : WellFormed(step)' = WellFormed(step)
           /\ \A C : Knot(C)' = Knot(C)
<1>1. KeyList' = KeyList /\ Known' = Known
  BY DEF KeyList, Known, Elements
<1>2. \A k : Deps(k)' = Deps(k)
  BY DEF Deps, Elements
<1> QED
  BY <1>1, <1>2 DEF WellFormed, Knot, Elements, Distinct

(* Scanning a step counts its dependencies and lists it with each of them. *)
LEMMA ScanInv == PlanInv /\ Scan => PlanInv'
<1> SUFFICES ASSUME PlanInv, Scan PROVE PlanInv'
  OBVIOUS
<1> DEFINE step == plan[scanned + 1]
           k0 == step.key
<1>1. TypeOK
  BY DEF PlanInv
<1>2. /\ scanned \in Nat /\ scanned + 1 \in 1..Len(plan)
      /\ Len(plan) \in Nat
  BY <1>1, PlanTypes DEF TypeOK, Scan
<1>3. /\ k0 \in Keys /\ step.depends_on \in Seq(Keys)
      /\ Distinct(KeyList) /\ WellFormed(step)
  BY <1>1, <1>2, PlanTypes DEF TypeOK, Scan
<1>4. ordered = <<>> /\ work = <<>> /\ verdict = "open"
  BY <1>2 DEF PlanInv, ScannedSound, Scan
<1>5. /\ Elements(<<>>) = {} /\ Distinct(<<>>)
      /\ Elements(<<>>)' = {} /\ Distinct(<<>>)'
  BY DEF Elements, Distinct
<1>6. Deps(k0) = Elements(step.depends_on)
  BY <1>1, <1>2, <1>3, DepsOfStep DEF TypeOK
<1>7. k0 \notin Scanned
  <2>1. ASSUME NEW i \in 1..scanned PROVE plan[i].key # k0
    <3>1. DOMAIN plan = 1..Len(plan)
      BY <1>1, PlanTypes DEF TypeOK
    <3>2. /\ i \in DOMAIN plan /\ scanned + 1 \in DOMAIN plan
          /\ i # scanned + 1
      BY <1>2, <3>1
    <3> QED
      BY <1>3, <3>2 DEF Distinct, KeyList
  <2> QED
    BY <2>1 DEF Scanned
<1>8. Scanned' = Scanned \cup {k0}
  BY <1>2 DEF Scan, Scanned
<1>9. /\ plan' = plan /\ ordered' = <<>> /\ work' = <<>> /\ verdict' = "open"
      /\ scanned' = scanned + 1
      /\ indegree' = [indegree EXCEPT ![k0] = Len(step.depends_on)]
      /\ dependents' = [d \in Keys |->
             IF d \in Elements(step.depends_on)
               THEN Append(dependents[d], k0) ELSE dependents[d]]
      /\ ready' = IF step.depends_on = <<>> THEN Append(ready, k0) ELSE ready
  BY <1>4 DEF Scan
<1>10. /\ Scanned \in SUBSET Keys
       /\ \A d \in Keys : Elements(dependents[d]) \in SUBSET Scanned
  BY <1>1, ScannedKnown, PlanTypes DEF PlanInv, DependentsSound, TypeOK
<1>11. Elements(ready) \in SUBSET Scanned
  BY DEF PlanInv, ReadySound
<1>12. TypeOK'
  <2>1. Len(step.depends_on) \in Nat
    BY <1>3
  <2>2. indegree' \in [Keys -> Nat]
    BY <1>1, <1>9, <2>1 DEF TypeOK
  <2>3. dependents' \in [Keys -> Seq(Keys)]
    BY <1>1, <1>3, <1>9, AppendElements DEF TypeOK
  <2>4. ready' \in Seq(Keys)
    BY <1>1, <1>3, <1>9, AppendElements DEF TypeOK
  <2> QED
    BY <1>1, <1>2, <1>4, <1>9, <2>2, <2>3, <2>4 DEF TypeOK
<1>13. ScannedSound'
  <2>1. Distinct(KeyList)'
    BY <1>3, <1>9, SamePlan DEF Distinct
  <2>2. ASSUME NEW i \in 1..scanned' PROVE WellFormed(plan[i])'
    <3>1. i \in 1..scanned \/ i = scanned + 1
      BY <1>2, <1>9
    <3>2. WellFormed(plan[i])
      BY <1>3, <3>1 DEF PlanInv, ScannedSound
    <3> QED
      BY <1>9, <3>2, SamePlan
  <2> QED
    BY <1>9, <2>1, <2>2 DEF ScannedSound
<1>14. DependentsSound'
  <2> SUFFICES ASSUME NEW d \in Keys
               PROVE  /\ Distinct(dependents[d])'
                      /\ Elements(dependents[d])' = {k \in Scanned : d \in Deps(k)}'
    BY DEF DependentsSound
  <2>1. /\ Distinct(dependents[d]) /\ dependents[d] \in Seq(Keys)
        /\ Elements(dependents[d]) = {k \in Scanned : d \in Deps(k)}
    BY <1>1 DEF PlanInv, DependentsSound, TypeOK
  <2>2. {k \in Scanned : d \in Deps(k)}' =
          IF d \in Deps(k0) THEN {k \in Scanned : d \in Deps(k)} \cup {k0}
                            ELSE {k \in Scanned : d \in Deps(k)}
    BY <1>8, <1>9, SamePlan
  <2>3. CASE d \in Deps(k0)
    <3>1. dependents'[d] = Append(dependents[d], k0)
      BY <1>6, <1>9, <2>3
    <3>2. k0 \notin Elements(dependents[d])
      BY <1>7, <1>10
    <3>3. /\ Distinct(dependents'[d])
          /\ Elements(dependents'[d]) = Elements(dependents[d]) \cup {k0}
      BY <1>3, <2>1, <3>1, <3>2, AppendElements
    <3> QED
      BY <2>1, <2>2, <2>3, <3>3 DEF Distinct, Elements
  <2>4. CASE d \notin Deps(k0)
    <3>1. dependents'[d] = dependents[d]
      BY <1>6, <1>9, <2>4
    <3> QED
      BY <2>1, <2>2, <2>4, <3>1 DEF Distinct, Elements
  <2> QED
    BY <2>3, <2>4
<1>15. WorkSound'
  BY <1>5, <1>9 DEF WorkSound
<1>16. IndegreeSound'
  <2>1. \A k : Visited(k) = {} /\ Visited(k)' = {}
    BY <1>4, <1>5, <1>9 DEF Visited
  <2> SUFFICES ASSUME NEW k \in Scanned \cup {k0}
               PROVE  indegree'[k] = Cardinality(Deps(k))
    BY <1>8, <1>9, <2>1, SamePlan DEF IndegreeSound
  <2>2. CASE k = k0
    <3>1. Cardinality(Elements(step.depends_on)) = Len(step.depends_on)
      BY <1>3, DistinctCardinality DEF WellFormed
    <3> QED
      BY <1>1, <1>3, <1>6, <1>9, <2>2, <3>1 DEF TypeOK
  <2>3. CASE k # k0
    <3>1. k \in Scanned /\ indegree'[k] = indegree[k]
      BY <1>1, <1>9, <1>10, <2>3 DEF TypeOK
    <3> QED
      BY <2>1, <3>1 DEF PlanInv, IndegreeSound
  <2> QED
    BY <2>2, <2>3
<1>17. ReadySound'
  <2>1. {k \in Scanned : indegree[k] = 0}' =
          IF step.depends_on = <<>> THEN {k \in Scanned : indegree[k] = 0} \cup {k0}
                                    ELSE {k \in Scanned : indegree[k] = 0}
    <3>1. \A k \in Scanned : indegree'[k] = indegree[k]
      BY <1>1, <1>7, <1>9, <1>10 DEF TypeOK
    <3>2. (indegree'[k0] = 0) <=> (step.depends_on = <<>>)
      BY <1>1, <1>3, <1>9 DEF TypeOK
    <3> QED
      BY <1>8, <3>1, <3>2
  <2>2. Elements(ready) = {k \in Scanned : indegree[k] = 0} /\ Distinct(ready)
    BY <1>4, <1>5 DEF PlanInv, ReadySound
  <2>3. /\ Distinct(ready')
        /\ Elements(ready') = {k \in Scanned : indegree[k] = 0}'
    <3>1. CASE step.depends_on = <<>>
      BY <1>1, <1>3, <1>7, <1>9, <1>11, <2>1, <2>2, <3>1, AppendElements
      DEF TypeOK
    <3>2. CASE step.depends_on # <<>>
      BY <1>9, <2>1, <2>2, <3>2
    <3> QED
      BY <3>1, <3>2
  <2> QED
    BY <1>5, <1>9, <2>3 DEF ReadySound, Elements, Distinct
<1>18. OrderSound' /\ KnotsUnordered'
  BY <1>5, <1>9 DEF OrderSound, KnotsUnordered
<1>19. VerdictSound'
  BY <1>9 DEF VerdictSound
<1> QED
  BY <1>12, <1>13, <1>14, <1>15, <1>16, <1>17, <1>18, <1>19 DEF PlanInv

----------------------------------------------------------------------------
(* The second loop *)

(* A key without in-degree has all its dependencies ordered. *)
LEMMA NothingLeft ==
    ASSUME TypeOK, IndegreeSound, NEW k \in Scanned
    PROVE  /\ (indegree[k] = 0) <=> (Deps(k) \subseteq Visited(k))
           /\ indegree[k] = 0 => Deps(k) \subseteq Elements(ordered)
<1>1. IsFiniteSet(Deps(k) \ Visited(k))
  BY PlanTypes, FS_Subset, Deps(k) \ Visited(k) \in SUBSET Deps(k) DEF TypeOK
<1>2. indegree[k] = Cardinality(Deps(k) \ Visited(k))
  BY DEF IndegreeSound
<1>3. (indegree[k] = 0) <=> (Deps(k) \ Visited(k) = {})
  BY <1>1, <1>2, FS_EmptySet
<1> QED
  BY <1>3 DEF Visited

(* Ordering a ready key starts the visit of its dependents. *)
LEMMA PopInv == PlanInv /\ Pop => PlanInv'
<1> SUFFICES ASSUME PlanInv, Pop PROVE PlanInv'
  OBVIOUS
<1> DEFINE h == Head(ready)
<1>1. /\ TypeOK /\ ScannedSound /\ DependentsSound /\ IndegreeSound
      /\ ReadySound /\ OrderSound /\ KnotsUnordered
  BY DEF PlanInv
<1>2. /\ plan' = plan /\ verdict' = verdict /\ scanned' = scanned
      /\ indegree' = indegree /\ dependents' = dependents
      /\ ordered' = Append(ordered, h) /\ ready' = Tail(ready)
      /\ work' = dependents[h] /\ work = <<>> /\ ready # <<>>
      /\ verdict = "open" /\ scanned = Len(plan)
  BY DEF Pop, Sorting
<1>3. /\ plan \in Plans /\ Len(plan) \in Nat
      /\ ready \in Seq(Keys) /\ ordered \in Seq(Keys)
      /\ Len(ordered) \in Nat /\ DOMAIN ordered = 1..Len(ordered)
  BY <1>1, PlanTypes DEF TypeOK
<1>4. /\ h \in Keys /\ ready' \in Seq(Keys)
      /\ Elements(ready) = {h} \cup Elements(ready')
      /\ Distinct(ready') /\ h \notin Elements(ready')
  BY <1>1, <1>2, <1>3, TailElements DEF ReadySound
<1>5. h \notin Elements(ordered) /\ h \in Scanned /\ indegree[h] = 0
  BY <1>1, <1>4 DEF ReadySound
<1>6. /\ ordered' \in Seq(Keys) /\ Distinct(ordered')
      /\ Elements(ordered') = Elements(ordered) \cup {h}
  BY <1>1, <1>2, <1>3, <1>4, <1>5, AppendElements DEF ReadySound
<1>7. /\ Len(ordered') = Len(ordered) + 1 /\ ordered'[Len(ordered) + 1] = h
      /\ DOMAIN ordered' = 1..(Len(ordered) + 1)
      /\ \A i \in 1..Len(ordered) : ordered'[i] = ordered[i]
  BY <1>2, <1>3, <1>4
<1>8. Latest' = h
  BY <1>7 DEF Latest
<1>9. Scanned' = Scanned
  BY <1>2 DEF Scanned
<1>10. \A q : Elements(q)' = Elements(q') /\ (Distinct(q)' <=> Distinct(q'))
  BY DEF Elements, Distinct
<1>11. dependents[h] \in Seq(Keys)
  BY <1>1, <1>4 DEF TypeOK
<1>12. /\ Distinct(dependents[h])
       /\ Elements(dependents[h]) = {k \in Scanned : h \in Deps(k)}
  BY <1>1, <1>4 DEF DependentsSound
<1>13. Deps(h) \subseteq Elements(ordered)
  BY <1>1, <1>5, NothingLeft
<1>14. TypeOK'
  BY <1>1, <1>2, <1>4, <1>6, <1>11 DEF TypeOK
<1>15. ScannedSound'
  <2>1. /\ scanned > 0 => Distinct(KeyList)'
        /\ \A i \in 1..scanned : WellFormed(plan[i])'
    BY <1>1, <1>2, SamePlan DEF ScannedSound, Distinct
  <2> QED
    BY <1>2, <1>3, <2>1 DEF ScannedSound
<1>16. DependentsSound'
  BY <1>1, <1>2, <1>9, SamePlan DEF DependentsSound, Elements, Distinct
<1>17. WorkSound'
  <2>1. Distinct(work)'
    BY <1>2, <1>12 DEF Distinct
  <2>2. ordered' # <<>>
    BY <1>3, <1>7
  <2>3. Elements(work)' = Elements(dependents[Latest])'
    BY <1>2, <1>8 DEF Elements
  <2> QED
    BY <2>1, <2>2, <2>3 DEF WorkSound
<1>18. IndegreeSound'
  <2> SUFFICES ASSUME NEW k \in Scanned
               PROVE  Visited(k)' = Visited(k)
    BY <1>1, <1>2, <1>9, SamePlan DEF IndegreeSound
  <2>1. Visited(k) = Deps(k) \cap Elements(ordered)
    BY <1>2 DEF Visited, Elements
  <2>2. (k \in Elements(work)') <=> (h \in Deps(k))
    BY <1>2, <1>12 DEF Elements
  <2>3. Visited(k)' = {d \in Deps(k) \cap (Elements(ordered) \cup {h}) :
                          h \in Deps(k) => d # h}
    <3>1. /\ Elements(ordered)' = Elements(ordered) \cup {h}
          /\ Deps(k)' = Deps(k) /\ Latest' = h
      BY <1>2, <1>6, <1>8, SamePlan DEF Elements
    <3> QED
      BY <2>2, <3>1 DEF Visited
  <2> QED
    BY <1>5, <2>1, <2>3
<1>19. ReadySound'
  <2>1. {k \in Scanned : indegree[k] = 0}' = {k \in Scanned : indegree[k] = 0}
    BY <1>2, <1>9
  <2>2. /\ Elements(ready') \cap Elements(ordered') = {}
        /\ Elements(ready') \cup Elements(ordered') = {k \in Scanned : indegree[k] = 0}
    BY <1>1, <1>4, <1>5, <1>6 DEF ReadySound
  <2> QED
    BY <1>4, <1>6, <2>1, <2>2 DEF ReadySound, Elements, Distinct
<1>20. OrderSound'
  <2> SUFFICES ASSUME NEW i \in 1..(Len(ordered) + 1), NEW d \in Deps(ordered'[i])
               PROVE  \E j \in 1..(Len(ordered) + 1) : j < i /\ ordered'[j] = d
    <3>1. \A i : Deps(ordered[i])' = Deps(ordered'[i])
      BY <1>2 DEF Deps, Elements
    <3> QED
      BY <1>7, <3>1 DEF OrderSound
  <2>1. CASE i \in 1..Len(ordered)
    <3>1. PICK j \in 1..Len(ordered) : j < i /\ ordered[j] = d
      BY <1>1, <1>3, <1>7, <2>1 DEF OrderSound
    <3> QED
      BY <1>3, <1>7, <3>1
  <2>2. CASE i = Len(ordered) + 1
    <3>1. PICK j \in 1..Len(ordered) : ordered[j] = d
      BY <1>3, <1>7, <1>13, <2>2 DEF Elements
    <3> QED
      BY <1>3, <1>7, <2>2, <3>1
  <2> QED
    BY <1>3, <2>1, <2>2
<1>21. KnotsUnordered'
  <2> SUFFICES ASSUME NEW C \in SUBSET Known, Knot(C)
               PROVE  h \notin C
    <3>1. \A C \in SUBSET Known : Knot(C) => C \cap Elements(ordered') = {}
      BY <1>1, <1>6 DEF KnotsUnordered
    <3> QED
      BY <1>2, <3>1, SamePlan DEF KnotsUnordered, Elements
  <2> QED
    BY <1>1, <1>13 DEF KnotsUnordered, Knot
<1>22. VerdictSound'
  BY <1>2 DEF VerdictSound
<1> QED
  BY <1>14, <1>15, <1>16, <1>17, <1>18, <1>19, <1>20, <1>21, <1>22 DEF PlanInv

(* Visiting a dependent takes the latest key out of its in-degree. *)
LEMMA ReleaseInv == PlanInv /\ Release => PlanInv'
<1> SUFFICES ASSUME PlanInv, Release PROVE PlanInv'
  OBVIOUS
<1> PICK k : k = Head(work)
  OBVIOUS
<1>1. /\ TypeOK /\ ScannedSound /\ DependentsSound /\ WorkSound
      /\ IndegreeSound /\ ReadySound /\ OrderSound /\ KnotsUnordered
      /\ VerdictSound
  BY DEF PlanInv
<1>2. /\ plan' = plan /\ verdict' = verdict /\ scanned' = scanned
      /\ dependents' = dependents /\ ordered' = ordered
      /\ work # <<>> /\ work' = Tail(work)
      /\ indegree' = [indegree EXCEPT ![k] = indegree[k] - 1]
      /\ ready' = IF indegree[k] = 1 THEN Append(ready, k) ELSE ready
      /\ k = Head(work)
  BY DEF Release
<1>3. /\ plan \in Plans /\ Len(plan) \in Nat /\ scanned \in 0..Len(plan)
      /\ work \in Seq(Keys) /\ ready \in Seq(Keys) /\ ordered \in Seq(Keys)
      /\ indegree \in [Keys -> Nat]
  BY <1>1, PlanTypes DEF TypeOK
<1>4. /\ k \in Keys /\ work' \in Seq(Keys)
      /\ Elements(work) = {k} \cup Elements(work')
      /\ Distinct(work') /\ k \notin Elements(work')
  BY <1>1, <1>2, <1>3, TailElements DEF WorkSound
<1>5. /\ ordered # <<>> /\ Elements(work) \subseteq Elements(dependents[Latest])
  BY <1>1, <1>2 DEF WorkSound
<1>6. Latest \in Elements(ordered) /\ Latest \in Keys
  <2>1. Len(ordered) \in DOMAIN ordered
    BY <1>3, <1>5
  <2>2. Latest \in Elements(ordered)
    BY <2>1 DEF Latest, Elements
  <2> QED
    BY <1>3, <2>2, ElementsType
<1>7. k \in Scanned /\ Latest \in Deps(k)
  BY <1>1, <1>4, <1>5, <1>6 DEF DependentsSound
<1>8. Scanned' = Scanned /\ Latest' = Latest
  BY <1>2 DEF Scanned, Latest
<1>9. Elements(ordered)' = Elements(ordered)
  BY <1>2 DEF Elements
<1>10. \A q : (q \in Elements(work)') <=> (q \in Elements(work) /\ q # k)
  BY <1>4 DEF Elements
<1>11. \A q : q # k => Visited(q)' = Visited(q)
  BY <1>2, <1>8, <1>9, <1>10, SamePlan DEF Visited
<1>12. /\ Latest \notin Visited(k)
       /\ Visited(k)' = Visited(k) \cup {Latest}
  BY <1>2, <1>4, <1>6, <1>7, <1>8, <1>9, <1>10, SamePlan DEF Visited
<1>13. /\ indegree[k] \in Nat \ {0}
       /\ indegree[k] - 1 = Cardinality(Deps(k) \ Visited(k)')
  <2> DEFINE D == Deps(k) \ Visited(k)
  <2>1. IsFiniteSet(D)
    BY <1>3, PlanTypes, FS_Subset, D \in SUBSET Deps(k)
  <2>2. Latest \in D /\ Deps(k) \ Visited(k)' = D \ {Latest}
    BY <1>7, <1>12
  <2>3. indegree[k] = Cardinality(D) /\ indegree[k] \in Nat
    BY <1>1, <1>3, <1>4, <1>7 DEF IndegreeSound
  <2>4. IsFiniteSet(D \ {Latest}) /\ Cardinality(D \ {Latest}) = Cardinality(D) - 1
    <3> HIDE DEF D
    <3> QED
      BY <2>1, <2>2, FS_RemoveElement
  <2>5. D # {}
    BY <2>2
  <2>6. Cardinality(D) # 0
    <3> HIDE DEF D
    <3> QED
      BY <2>1, <2>5, FS_EmptySet
  <2> QED
    BY <2>2, <2>3, <2>4, <2>6
<1>14. /\ indegree'[k] = indegree[k] - 1
       /\ \A q \in Keys : q # k => indegree'[q] = indegree[q]
  BY <1>2, <1>3, <1>4
<1>15. k \notin Elements(ready) \cup Elements(ordered)
  BY <1>1, <1>13 DEF ReadySound
<1>16. /\ ready' \in Seq(Keys) /\ Distinct(ready')
       /\ Elements(ready') = IF indegree[k] = 1 THEN Elements(ready) \cup {k}
                                                ELSE Elements(ready)
  <2>1. Distinct(ready) /\ k \notin Elements(ready)
    BY <1>1, <1>15 DEF ReadySound
  <2>2. CASE indegree[k] = 1
    <3>1. ready' = Append(ready, k)
      BY <1>2, <2>2
    <3> QED
      BY <1>3, <1>4, <2>1, <2>2, <3>1, AppendElements
  <2>3. CASE indegree[k] # 1
    BY <1>2, <1>3, <2>1, <2>3
  <2> QED
    BY <2>2, <2>3
<1>17. TypeOK'
  <2>1. indegree' \in [Keys -> Nat]
    BY <1>2, <1>3, <1>13
  <2> QED
    BY <1>1, <1>2, <1>4, <1>16, <2>1 DEF TypeOK
<1>18. ScannedSound'
  <2>1. scanned = Len(plan)
    BY <1>1, <1>2, <1>3 DEF ScannedSound
  <2>2. /\ scanned > 0 => Distinct(KeyList)'
        /\ \A i \in 1..scanned : WellFormed(plan[i])'
    BY <1>1, <1>2, SamePlan DEF ScannedSound, Distinct
  <2> QED
    BY <1>2, <1>3, <2>1, <2>2 DEF ScannedSound
<1>19. DependentsSound'
  BY <1>1, <1>2, <1>8, SamePlan DEF DependentsSound, Elements, Distinct
<1>20. WorkSound'
  <2>1. Distinct(work)' /\ ordered' # <<>>
    BY <1>2, <1>4, <1>5 DEF Distinct
  <2>2. Elements(dependents[Latest])' = Elements(dependents[Latest])
    BY <1>2, <1>8 DEF Elements
  <2>3. Elements(work)' \subseteq Elements(dependents[Latest])'
    BY <1>4, <1>5, <2>2 DEF Elements
  <2> QED
    BY <2>1, <2>3 DEF WorkSound
<1>21. IndegreeSound'
  <2> SUFFICES ASSUME NEW q \in Scanned
               PROVE  indegree'[q] = Cardinality(Deps(q) \ Visited(q)')
    BY <1>2, <1>8, SamePlan DEF IndegreeSound
  <2>1. CASE q = k
    BY <1>13, <1>14, <2>1
  <2>2. CASE q # k
    <3>1. q \in Keys
      BY <1>1, <1>3, ScannedKnown, PlanTypes
    <3> QED
      BY <1>1, <1>11, <1>14, <2>2, <3>1 DEF IndegreeSound
  <2> QED
    BY <2>1, <2>2
<1>22. ReadySound'
  <2>1. Scanned \in SUBSET Keys
    BY <1>1, <1>3, ScannedKnown, PlanTypes
  <2>2. {q \in Scanned : indegree[q] = 0}' =
          IF indegree[k] = 1 THEN {q \in Scanned : indegree[q] = 0} \cup {k}
                             ELSE {q \in Scanned : indegree[q] = 0}
    BY <1>7, <1>8, <1>13, <1>14, <2>1
  <2>3. /\ Elements(ready') \cap Elements(ordered) = {}
        /\ Elements(ready') \cup Elements(ordered) = {q \in Scanned : indegree[q] = 0}'
    BY <1>1, <1>15, <1>16, <2>2 DEF ReadySound
  <2>4. Distinct(ordered)
    BY <1>1 DEF ReadySound
  <2> QED
    <3>1. /\ Distinct(ready)' /\ Distinct(ordered)'
          /\ Elements(ready)' = Elements(ready')
          /\ Elements(ordered)' = Elements(ordered)
      BY <1>2, <1>16, <2>4 DEF Elements, Distinct
    <3> QED
      BY <2>3, <3>1 DEF ReadySound
<1>23. OrderSound' /\ KnotsUnordered'
  BY <1>1, <1>2, SamePlan DEF OrderSound, KnotsUnordered, Elements
<1>24. VerdictSound'
  BY <1>1, <1>2 DEF VerdictSound
<1> QED
  BY <1>17, <1>18, <1>19, <1>20, <1>21, <1>22, <1>23, <1>24 DEF PlanInv

----------------------------------------------------------------------------
(* The verdict *)

(* A verdict, and a stutter, leave the work of the loops as it is. *)
LEMMA VerdictInv ==
    ASSUME PlanInv, Refuse \/ Conclude \/ UNCHANGED vars
    PROVE  PlanInv'
<1>1. UNCHANGED <<plan, scanned, indegree, dependents, ready, ordered, work>>
  BY DEF Refuse, Conclude, vars
<1>2. Scanned' = Scanned /\ Latest' = Latest /\ (\A k : Visited(k)' = Visited(k))
  BY <1>1, SamePlan DEF Scanned, Latest, Visited, Elements
<1>3. verdict' \in {"open", "accepted", "invalid", "cycle"} /\ VerdictSound'
  BY <1>1 DEF PlanInv, TypeOK, VerdictSound, Refuse, Conclude, Sorting, vars
<1>4. TypeOK'
  BY <1>1, <1>3 DEF PlanInv, TypeOK
<1>5. ScannedSound'
  BY <1>1, SamePlan DEF PlanInv, ScannedSound, Distinct
<1>6. DependentsSound' /\ WorkSound'
  BY <1>1, <1>2, SamePlan DEF PlanInv, DependentsSound, WorkSound, Elements, Distinct
<1>7. IndegreeSound'
  BY <1>1, <1>2, SamePlan DEF PlanInv, IndegreeSound
<1>8. ReadySound'
  BY <1>1, <1>2 DEF PlanInv, ReadySound, Elements, Distinct
<1>9. OrderSound' /\ KnotsUnordered'
  BY <1>1, SamePlan DEF PlanInv, OrderSound, KnotsUnordered, Elements
<1> QED
  BY <1>3, <1>4, <1>5, <1>6, <1>7, <1>8, <1>9 DEF PlanInv

(***************************************************************************)
(* At any time the in-degree of a scanned key counts the dependencies that *)
(* are still to be visited, and what is ready or ordered waits for none.   *)
(***************************************************************************)
THEOREM PlanInvariant == Spec => []PlanInv
<1>1. Init => PlanInv
  BY InitInv
<1>2. PlanInv /\ [Next]_vars => PlanInv'
  BY ScanInv, PopInv, ReleaseInv, VerdictInv DEF Next
<1> QED
  BY <1>1, <1>2, PTL DEF Spec

(***************************************************************************)
(* Every variable of validate_and_order keeps its type, whatever the list  *)
(* of steps a client submits.                                              *)
(***************************************************************************)
THEOREM TypeCorrect == Spec => []TypeOK
<1>1. PlanInv => TypeOK
  BY DEF PlanInv
<1> QED
  BY <1>1, PlanInvariant, PTL

(* Where the verdict is due, all keys are ordered or those left are a knot. *)
LEMMA KeysLeft ==
    ASSUME PlanInv, verdict \in {"accepted", "cycle"}
    PROVE  /\ Elements(ordered) \in SUBSET Known
           /\ (Len(ordered) = Len(plan)) <=> (Elements(ordered) = Known)
           /\ Knot(Known \ Elements(ordered))
<1>1. /\ TypeOK /\ ScannedSound /\ IndegreeSound /\ ReadySound
      /\ scanned = Len(plan) /\ ready = <<>> /\ work = <<>>
  BY DEF PlanInv, VerdictSound
<1>2. /\ plan \in Plans /\ Len(plan) \in Nat
      /\ KeyList \in Seq(Keys) /\ Len(KeyList) = Len(plan)
      /\ ordered \in Seq(Keys) /\ DOMAIN plan = 1..Len(plan)
  BY <1>1, PlanTypes DEF TypeOK
<1>3. Scanned = Known
  BY <1>1, ScannedKnown
<1>4. Elements(ordered) = {k \in Known : indegree[k] = 0} /\ Distinct(ordered)
  BY <1>1, <1>3 DEF ReadySound, Elements
<1>5. Distinct(KeyList)
  <2>1. CASE scanned > 0
    BY <1>1, <2>1 DEF ScannedSound
  <2>2. CASE scanned = 0
    BY <1>1, <1>2, <2>2 DEF Distinct, KeyList
  <2> QED
    BY <1>1, <1>2, <2>1, <2>2
<1>6. /\ IsFiniteSet(Known) /\ Cardinality(Known) = Len(plan)
      /\ Cardinality(Elements(ordered)) = Len(ordered)
  BY <1>2, <1>4, <1>5, DistinctCardinality DEF Known
<1>7. (Len(ordered) = Len(plan)) <=> (Elements(ordered) = Known)
  BY <1>4, <1>6, FS_Subset
<1>8. ASSUME NEW k \in Known \ Elements(ordered)
      PROVE  Deps(k) \cap (Known \ Elements(ordered)) # {}
  <2>1. ~(Deps(k) \subseteq Visited(k))
    BY <1>1, <1>3, <1>4, <1>8, NothingLeft
  <2>2. Visited(k) = Deps(k) \cap Elements(ordered)
    BY <1>1 DEF Visited, Elements
  <2>3. Deps(k) \in SUBSET Known
    BY <1>1, <1>3, <1>8, DepsKnown
  <2> QED
    BY <2>1, <2>2, <2>3
<1> QED
  BY <1>4, <1>7, <1>8 DEF Knot

(***************************************************************************)
(* The order of an accepted plan has every step once, after all the steps  *)
(* it depends on.                                                          *)
(***************************************************************************)
THEOREM AcceptedPlansAreOrdered == Spec => []AcceptedOrder
<1>1. PlanInv => AcceptedOrder
  BY KeysLeft DEF AcceptedOrder, PlanInv, VerdictSound, ReadySound, OrderSound
<1> QED
  BY <1>1, PlanInvariant, PTL

(* Of the plans with sound steps, exactly the cyclic ones are refused. *)
THEOREM CyclesAreRefused == Spec => []CyclesRefused
<1>1. ASSUME PlanInv, verdict = "cycle" PROVE Cyclic
  <2>1. Elements(ordered) # Known
    BY <1>1, KeysLeft DEF PlanInv, VerdictSound
  <2>2. /\ Known \ Elements(ordered) # {}
        /\ Knot(Known \ Elements(ordered))
    BY <1>1, <2>1, KeysLeft
  <2> QED
    BY <2>2 DEF Cyclic, Knot
<1>2. ASSUME PlanInv, verdict = "accepted" PROVE ~Cyclic
  <2>1. Elements(ordered) = Known
    BY <1>2, KeysLeft DEF PlanInv, VerdictSound
  <2>2. \A C \in SUBSET Known : Knot(C) => C = {}
    BY <1>2, <2>1 DEF PlanInv, KnotsUnordered
  <2> QED
    BY <2>2 DEF Cyclic, Knot
<1>3. PlanInv => CyclesRefused
  BY <1>1, <1>2 DEF CyclesRefused
<1> QED
  BY <1>3, PlanInvariant, PTL

----------------------------------------------------------------------------
(* The loops end *)

(* A list without repetitions is no longer than there are keys. *)
LEMMA NoLongerThanKeys ==
    ASSUME NEW q \in Seq(Keys), Distinct(q)
    PROVE  Cardinality(Keys) \in Nat /\ Len(q) \in 0..Cardinality(Keys)
<1>1. IsFiniteSet(Keys) /\ Cardinality(Keys) \in Nat
  BY PlansAssumption, FS_CardinalityType
<1>2. Elements(q) \subseteq Keys /\ Len(q) \in Nat
  BY DEF Elements
<1> QED
  BY <1>1, <1>2, DistinctCardinality, FS_Subset

(* One key fewer to order, and its dependents at most to visit instead *)
LEMMA OneKeyFewer ==
    ASSUME NEW n \in Nat, NEW o \in 0..n, o + 1 \in 0..n, NEW w \in 0..n
    PROVE  /\ (n - o) * (n + 1) \in Nat /\ (n - (o + 1)) * (n + 1) \in Nat
           /\ (n - (o + 1)) * (n + 1) + w < (n - o) * (n + 1)
<1>1. n - o \in Nat /\ n - (o + 1) \in Nat /\ n + 1 \in Nat
  OBVIOUS
<1>2. \A i, j \in Nat : i * j \in Nat
  OBVIOUS
<1>3. \A i, j \in Nat : (i + 1) * j = i * j + j
  OBVIOUS
<1>4. (n - o) * (n + 1) = (n - (o + 1)) * (n + 1) + (n + 1)
  <2>1. (n - (o + 1)) + 1 = n - o
    OBVIOUS
  <2> QED
    BY <1>1, <1>3, <2>1
<1>5. (n - o) * (n + 1) \in Nat /\ (n - (o + 1)) * (n + 1) \in Nat
  BY <1>1, <1>2
<1> DEFINE a == (n - (o + 1)) * (n + 1)
           b == (n - o) * (n + 1)
<1>6. b = a + (n + 1) /\ a \in Nat /\ b \in Nat
  BY <1>4, <1>5
<1> HIDE DEF a, b
<1>7. a + w < b
  BY <1>6
<1> QED
  BY <1>5, <1>7 DEF a, b

(* Every iteration leaves fewer. *)
LEMMA RemainingLess ==
    ASSUME PlanInv, PlanInv', Next
    PROVE  Remaining' \in 0..(Remaining - 1)
<1> DEFINE n == Cardinality(Keys)
           P == (n - Len(ordered)) * (n + 1)
<1>0. /\ Remaining = (IF verdict = "open" THEN 1 ELSE 0) + (Len(plan) - scanned)
                        + P + Len(work)
      /\ Remaining' = (IF verdict' = "open" THEN 1 ELSE 0) + (Len(plan') - scanned')
                        + P' + Len(work')
  BY DEF Remaining
<1>1. /\ n \in Nat /\ P \in Nat /\ Len(plan) \in Nat /\ Len(work) \in Nat
      /\ scanned \in 0..Len(plan)
      /\ Len(ordered) \in 0..n /\ Len(ordered') \in 0..n
  <2>1. ordered \in Seq(Keys) /\ Distinct(ordered)
    BY DEF PlanInv, TypeOK, ReadySound
  <2>2. ordered' \in Seq(Keys) /\ Distinct(ordered')
    BY DEF PlanInv, TypeOK, ReadySound, Distinct
  <2>3. n \in Nat /\ Len(ordered) \in 0..n /\ Len(ordered') \in 0..n
    BY <2>1, <2>2, NoLongerThanKeys
  <2>4. Len(plan) \in Nat /\ scanned \in 0..Len(plan) /\ Len(work) \in Nat
    BY PlanTypes DEF PlanInv, TypeOK
  <2>5. n - Len(ordered) \in Nat /\ n + 1 \in Nat
    BY <2>3
  <2>6. \A i, j \in Nat : i * j \in Nat
    OBVIOUS
  <2> QED
    BY <2>3, <2>4, <2>5, <2>6
<1>o. UNCHANGED ordered => P' = P
  OBVIOUS
<1>r. PICK p \in Nat : p = P
  BY <1>1
<1>s. PICK next : next = P'
  OBVIOUS
<1>p. p \in Nat /\ p = P /\ next = P' /\ (UNCHANGED ordered => next = p)
  BY <1>o, <1>r, <1>s
<1>q. /\ Remaining = (IF verdict = "open" THEN 1 ELSE 0) + (Len(plan) - scanned) + p + Len(work)
      /\ Remaining' = (IF verdict' = "open" THEN 1 ELSE 0) + (Len(plan') - scanned')
                        + next + Len(work')
  BY <1>0, <1>p
<1> HIDE DEF n, P
<1>2. CASE Refuse
  <2>1. verdict = "open" /\ verdict' # "open" /\ UNCHANGED <<plan, scanned, ordered, work>>
    BY <1>2 DEF Refuse
  <2> QED
    BY <1>1, <1>p, <1>q, <2>1
<1>3. CASE Conclude
  <2>1. verdict = "open" /\ verdict' # "open" /\ UNCHANGED <<plan, scanned, ordered, work>>
    BY <1>3 DEF Conclude, Sorting
  <2> QED
    BY <1>1, <1>p, <1>q, <2>1
<1>4. CASE Scan
  <2>1. scanned < Len(plan) /\ scanned' = scanned + 1 /\ UNCHANGED <<plan, verdict, ordered, work>>
    BY <1>4 DEF Scan
  <2> QED
    BY <1>1, <1>p, <1>q, <2>1
<1>5. CASE Release
  <2>1. Len(work') = Len(work) - 1 /\ UNCHANGED <<plan, verdict, scanned, ordered>>
    BY <1>5 DEF Release, PlanInv, TypeOK
  <2>2. Len(work) > 0
    BY <1>5 DEF Release, PlanInv, TypeOK
  <2> QED
    BY <1>1, <1>p, <1>q, <2>1, <2>2
<1>6. CASE Pop
  <2>1. /\ ready \in Seq(Keys) /\ ready # <<>> /\ ordered \in Seq(Keys)
        /\ work = <<>> /\ work' = dependents[Head(ready)]
        /\ ordered' = Append(ordered, Head(ready))
        /\ UNCHANGED <<plan, verdict, scanned>>
    BY <1>6 DEF Pop, Sorting, PlanInv, TypeOK
  <2>2. /\ Head(ready) \in Keys /\ work' \in Seq(Keys) /\ Distinct(work')
    BY <2>1 DEF PlanInv, TypeOK, DependentsSound
  <2>3. /\ Len(work) = 0 /\ Len(ordered') = Len(ordered) + 1
        /\ Len(work') \in 0..n
    BY <2>1, <2>2, NoLongerThanKeys DEF n
  <2>4. next \in Nat /\ next + Len(work') < p
    <3>1. next = (n - (Len(ordered) + 1)) * (n + 1) /\ p = (n - Len(ordered)) * (n + 1)
      BY <1>p, <2>3 DEF P
    <3>2. /\ n \in Nat /\ Len(ordered) \in 0..n /\ Len(ordered) + 1 \in 0..n
      BY <1>1, <2>3
    <3> QED
      BY <2>3, <3>1, <3>2, OneKeyFewer
  <2>5. PICK c \in Nat : c = (IF verdict = "open" THEN 1 ELSE 0) + (Len(plan) - scanned)
    BY <1>1
  <2>6. Remaining = c + p /\ Remaining' = c + next + Len(work')
    BY <1>1, <1>q, <2>1, <2>3, <2>5
  <2>7. PICK w \in Nat : w = Len(work')
    BY <1>1, <2>3
  <2>8. c + next + w \in 0..(c + p - 1)
    BY <1>p, <2>4, <2>7
  <2> QED
    BY <2>6, <2>7, <2>8
<1> QED
  BY <1>2, <1>3, <1>4, <1>5, <1>6 DEF Next

(***************************************************************************)
(* validate_and_order ends: of the n + k * (k + 1) + 1 iterations that n   *)
(* steps and k keys admit, each of them uses up at least one.              *)
(***************************************************************************)
THEOREM ValidationEnds == Spec => ValidationAdvances
<1>1. PlanInv /\ PlanInv' /\ [Next]_vars => [Remaining' \in 0..(Remaining - 1)]_vars
  BY RemainingLess
<1> QED
  BY <1>1, PlanInvariant, PTL DEF Spec, ValidationAdvances

----------------------------------------------------------------------------
(* The positions of an accepted plan *)

(* WorkflowStep.position, as create_mission enumerates the order *)
PositionIn(k) == CHOOSE i \in DOMAIN ordered : ordered[i] = k

(***************************************************************************)
(* What create_mission stores of an accepted plan is what PlanAssumption   *)
(* of MissionDomain says of a mission's steps: each has a position of its  *)
(* own, and its dependencies are steps of the plan at smaller ones.        *)
(***************************************************************************)
THEOREM PositionsRespectPlan ==
    Spec => [](verdict = "accepted" =>
                  /\ \A k \in Known : PositionIn(k) \in Nat
                  /\ \A k, l \in Known : PositionIn(k) = PositionIn(l) => k = l
                  /\ \A k \in Known : \A d \in Deps(k) :
                        d \in Known /\ PositionIn(d) < PositionIn(k))
<1>1. ASSUME PlanInv, AcceptedOrder, verdict = "accepted"
      PROVE  /\ \A k \in Known : PositionIn(k) \in Nat
             /\ \A k, l \in Known : PositionIn(k) = PositionIn(l) => k = l
             /\ \A k \in Known : \A d \in Deps(k) :
                   d \in Known /\ PositionIn(d) < PositionIn(k)
  <2>1. /\ Elements(ordered) = Known /\ Distinct(ordered)
        /\ DOMAIN ordered \subseteq Nat
    BY <1>1 DEF AcceptedOrder, PlanInv, TypeOK
  <2>2. \A k \in Known : PositionIn(k) \in DOMAIN ordered /\ ordered[PositionIn(k)] = k
    BY <2>1 DEF PositionIn, Elements
  <2>3. ASSUME NEW k \in Known, NEW d \in Deps(k)
        PROVE  d \in Known /\ PositionIn(d) < PositionIn(k)
    <3>1. PICK j \in DOMAIN ordered : j < PositionIn(k) /\ ordered[j] = d
      BY <1>1, <2>2, <2>3 DEF AcceptedOrder
    <3>2. d \in Known
      BY <2>1, <3>1 DEF Elements
    <3>3. PositionIn(d) = j
      BY <2>1, <2>2, <3>1, <3>2 DEF Distinct
    <3> QED
      BY <3>1, <3>2, <3>3
  <2> QED
    BY <2>1, <2>2, <2>3
<1> QED
  BY <1>1, PlanInvariant, AcceptedPlansAreOrdered, PTL
===============================================================================
