-------------------------- MODULE DocumentMemoryProofs -------------------------
(***************************************************************************)
(* Proofs about DocumentMemory, for any documents, contents and handlers   *)
(* and any number of failures, and about what a search of it returns, for  *)
(* any texts.                                                              *)
(***************************************************************************)
EXTENDS MemorySearch, FoldProofs

Handling == [pc : {"idle", "flushed", "built", "sent", "indexed"},
             id : Documents \cup {NoDocument}, body : Values]

(* What is known of the document a handler is ingesting *)
Pending(h) ==
    LET x == ingest[h].id IN
    ingest[h].pc # "idle" =>
        /\ x \in drawn /\ x \in Documents
        /\ ingest[h].body \in Contents
        /\ content[x] = None /\ x \notin audit
        /\ puts[x] \in {None, ingest[h].body}
        /\ points[x] \in {None, ingest[h].body}
        /\ ingest[h].pc \in {"flushed", "built"} => puts[x] = None /\ points[x] = None
        /\ ingest[h].pc = "indexed" /\ backend = "qdrant" => points[x] = ingest[h].body
        /\ ingest[h].pc \in {"built", "sent"} => backend = "qdrant"

AllPending == \A h \in Handlers : Pending(h)

(* No two handlers ingest the same document. *)
OwnDocument ==
    \A h, k \in Handlers :
        /\ ingest[h].pc # "idle" /\ ingest[k].pc # "idle"
        /\ ingest[h].id = ingest[k].id
        => h = k

(* What the two stores hold of a document *)
Kept(x) ==
    /\ x \notin drawn => content[x] = None /\ puts[x] = None /\ points[x] = None
    /\ points[x] # None => puts[x] = None
    /\ content[x] # None <=> x \in audit
    /\ content[x] # None /\ backend = "qdrant" => points[x] = content[x]

AllKept == \A x \in Documents : Kept(x)

(* Documents that failed after their point had been sent *)
Lost == {x \in Documents : /\ content[x] = None
                           /\ puts[x] # None \/ points[x] # None
                           /\ \A h \in Handlers : ingest[h].pc # "idle" => ingest[h].id # x}

(* So many may be lost: one by a failure, all that are at work by a death. *)
Allowance == failures + deaths * Cardinality(Handlers)

LostAccounted == IsFiniteSet(Lost) /\ Cardinality(Lost) <= Allowance

IInv == TypeOK /\ AllPending /\ OwnDocument /\ AllKept /\ LostAccounted

----------------------------------------------------------------------------
(* What follows from the invariant *)

LEMMA Found == IInv => PersistedIsSearched
BY DEF IInv, AllKept, Kept, PersistedIsSearched, Searched, TypeOK

LEMMA AllowanceTyped == TypeOK => Cardinality(Handlers) \in Nat /\ Allowance \in Nat
<1>. SUFFICES ASSUME TypeOK PROVE Cardinality(Handlers) \in Nat /\ Allowance \in Nat
  OBVIOUS
<1>1. Cardinality(Handlers) \in Nat /\ failures \in Nat /\ deaths \in Nat
  BY MemoryAssumption, FS_CardinalityType DEF TypeOK
<1>. HIDE DEF TypeOK
<1>. QED  BY <1>1 DEF Allowance

LEMMA Counted == IInv => OrphansAccounted
<1>. SUFFICES ASSUME IInv PROVE OrphansAccounted
  OBVIOUS
<1>. DEFINE AtWork == {h \in Handlers : ingest[h].pc \in {"sent", "indexed"}}
            Ids == {ingest[h].id : h \in AtWork}
<1>1. Orphans \subseteq Lost \cup Ids
  <2>. SUFFICES ASSUME NEW x \in Orphans, x \notin Ids PROVE x \in Lost
    OBVIOUS
  <2>1. /\ x \in Documents /\ Searched[x] # None /\ content[x] = None
        /\ backend = "qdrant" /\ points[x] # None
    BY DEF Orphans, Searched, IInv, TypeOK
  <2>2. ASSUME NEW h \in Handlers, ingest[h].pc # "idle", ingest[h].id = x PROVE FALSE
    <3>1. ingest[h].pc \in {"flushed", "built"}
      BY <2>2 DEF IInv, TypeOK
    <3>. QED  BY <2>1, <2>2, <3>1 DEF IInv, AllPending, Pending
  <2>. QED  BY <2>1, <2>2 DEF Lost
<1>2. IsFiniteSet(AtWork) /\ Cardinality(AtWork) \in Nat
  BY MemoryAssumption, FS_Subset, FS_CardinalityType
<1>3. IsFiniteSet(Ids) /\ Cardinality(Ids) <= Cardinality(AtWork)
  <2>1. [h \in AtWork |-> ingest[h].id] \in Surjection(AtWork, Ids)
    BY DEF Surjection
  <2>. HIDE DEF AtWork, Ids
  <2>. QED  BY <1>2, <2>1, FS_Surjection
<1>4. /\ IsFiniteSet(Lost) /\ Cardinality(Lost) <= Allowance
      /\ Allowance \in Nat
  BY AllowanceTyped DEF IInv, LostAccounted
<1>. HIDE DEF AtWork, Ids
<1>5. IsFiniteSet(Lost \cup Ids) /\ Cardinality(Lost \cup Ids) <= Cardinality(Lost) + Cardinality(Ids)
  <2>1. Cardinality(Lost \cup Ids) = Cardinality(Lost) + Cardinality(Ids) - Cardinality(Lost \cap Ids)
    BY <1>3, <1>4, FS_Union
  <2>2. /\ Cardinality(Lost \cap Ids) \in Nat
        /\ Cardinality(Lost) \in Nat /\ Cardinality(Ids) \in Nat
    BY <1>3, <1>4, FS_Intersection, FS_CardinalityType
  <2>. QED  BY <1>3, <1>4, <2>1, <2>2, FS_Union
<1>6. Cardinality(Orphans) <= Cardinality(Lost \cup Ids)
  BY <1>1, <1>5, FS_Subset
<1>7. /\ Cardinality(Orphans) \in Nat /\ Cardinality(Lost \cup Ids) \in Nat
      /\ Cardinality(Lost) \in Nat /\ Cardinality(Ids) \in Nat
  BY <1>1, <1>3, <1>4, <1>5, FS_Subset, FS_CardinalityType
<1>8. Cardinality(Orphans) <= Cardinality(AtWork) + Allowance
  BY <1>2, <1>3, <1>4, <1>5, <1>6, <1>7
<1>9. /\ failures \in Nat /\ deaths * Cardinality(Handlers) \in Int
      /\ Allowance = failures + deaths * Cardinality(Handlers)
  <2>1. failures \in Nat /\ deaths \in Nat /\ Cardinality(Handlers) \in Nat
    BY AllowanceTyped DEF IInv, TypeOK
  <2>. QED  BY <2>1 DEF Allowance
<1>10. Cardinality(Orphans) <= Cardinality(AtWork) + failures + deaths * Cardinality(Handlers)
  <2>. PICK lost \in Int : lost = deaths * Cardinality(Handlers)
    BY <1>9
  <2>. QED  BY <1>2, <1>7, <1>8, <1>9
<1>. QED  BY <1>10 DEF OrphansAccounted, AtWork

LEMMA InitInv == Init => IInv
<1>. SUFFICES ASSUME Init PROVE IInv
  OBVIOUS
<1>1. TypeOK
  <2>1. Idle \in Handling
    BY DEF Idle, Handling, Values
  <2>2. 0 \in 0..MaxFaults
    BY MemoryAssumption
  <2>. QED  BY <2>1, <2>2 DEF Init, TypeOK, Handling, Values
<1>2. AllPending /\ OwnDocument
  BY DEF Init, AllPending, Pending, OwnDocument, Idle
<1>3. AllKept
  BY DEF Init, AllKept, Kept
<1>4. Lost = {}
  BY DEF Init, Lost
<1>5. LostAccounted
  BY <1>1, <1>4, FS_EmptySet, AllowanceTyped DEF LostAccounted
<1>. QED  BY <1>1, <1>2, <1>3, <1>5 DEF IInv

----------------------------------------------------------------------------
(* What a step changes of the parts of the invariant *)

LEMMA GoesTo ==
    ASSUME TypeOK, NEW h \in Handlers,
           NEW pc \in {"flushed", "built", "sent", "indexed"}, Goes(h, pc)
    PROVE  /\ ingest' \in [Handlers -> Handling]
           /\ ingest'[h].pc = pc /\ ingest'[h].id = ingest[h].id
           /\ ingest'[h].body = ingest[h].body
           /\ \A k \in Handlers : k # h => ingest'[k] = ingest[k]
BY DEF TypeOK, Goes, Handling

LEMMA EndsAt ==
    ASSUME TypeOK, NEW h \in Handlers, Ends(h)
    PROVE  /\ ingest' \in [Handlers -> Handling]
           /\ ingest'[h].pc = "idle"
           /\ \A k \in Handlers : k # h => ingest'[k] = ingest[k]
<1>1. Idle \in Handling /\ Idle.pc = "idle"
  BY DEF Idle, Handling, Values
<1>. QED  BY <1>1 DEF TypeOK, Ends, Handling

(* A failure allows one loss more, a death one for every handler. *)
LEMMA AllowanceSteps ==
    ASSUME TypeOK
    PROVE  /\ UNCHANGED <<failures, deaths>> => Allowance' = Allowance
           /\ failures' = failures + 1 /\ deaths' = deaths => Allowance' = Allowance + 1
           /\ failures' = failures /\ deaths' = deaths + 1 =>
                 Allowance' = Allowance + Cardinality(Handlers)
<1>1. failures \in Nat /\ deaths \in Nat /\ Cardinality(Handlers) \in Nat
  BY AllowanceTyped DEF TypeOK
<1>. PICK n \in Nat, m \in Int : n = Cardinality(Handlers) /\ m = deaths * n
  BY <1>1
<1>2. (deaths + 1) * n = m + n
  BY <1>1
<1>. QED  BY <1>1, <1>2 DEF Allowance

(* No more is lost than the failures and deaths account for. *)
LEMMA LostSteps ==
    ASSUME IInv, NEW D, IsFiniteSet(D), Lost' \subseteq Lost \cup D,
           NEW n \in Nat, Cardinality(D) <= n, Allowance' = Allowance + n
    PROVE  LostAccounted'
<1>1. /\ IsFiniteSet(Lost) /\ Cardinality(Lost) <= Allowance
      /\ Allowance \in Nat /\ Cardinality(Lost) \in Nat /\ Cardinality(D) \in Nat
  BY FS_CardinalityType, AllowanceTyped DEF IInv, LostAccounted
<1>2. /\ IsFiniteSet(Lost \cup D) /\ Cardinality(Lost \cup D) \in Nat
      /\ Cardinality(Lost \cup D) <= Cardinality(Lost) + Cardinality(D)
  <2>1. IsFiniteSet(Lost \cap D) /\ Cardinality(Lost \cap D) \in Nat
    BY <1>1, FS_Intersection, FS_CardinalityType
  <2>2. /\ IsFiniteSet(Lost \cup D)
        /\ Cardinality(Lost \cup D) = Cardinality(Lost) + Cardinality(D) - Cardinality(Lost \cap D)
    BY <1>1, FS_Union
  <2>. QED  BY <1>1, <2>1, <2>2, FS_CardinalityType
<1>3. IsFiniteSet(Lost') /\ Cardinality(Lost') <= Cardinality(Lost \cup D)
  BY <1>2, FS_Subset
<1>4. Cardinality(Lost') \in Nat
  BY <1>3, FS_CardinalityType
<1>. QED  BY <1>1, <1>2, <1>3, <1>4 DEF LostAccounted

(* Nothing more is lost. *)
LEMMA NothingLost ==
    ASSUME IInv, Lost' \subseteq Lost, UNCHANGED <<failures, deaths>>
    PROVE  LostAccounted'
<1>1. IsFiniteSet({}) /\ Cardinality({}) = 0 /\ Lost' \subseteq Lost \cup {}
  BY FS_EmptySet
<1>2. Allowance' = Allowance + 0
  <2>1. Allowance' = Allowance /\ Allowance \in Nat
    BY AllowanceSteps, AllowanceTyped DEF IInv
  <2>. QED  BY <2>1
<1>. QED  BY <1>1, <1>2, LostSteps

LEMMA FlushInv ==
    ASSUME IInv, NEW h \in Handlers, Flush(h)
    PROVE  IInv'
<1>1. /\ ingest[h].pc = "idle"
      /\ UNCHANGED <<backend, strict, collection, content, points, puts, audit, failures, deaths>>
  BY DEF Flush, store, faults
<1>2. PICK x \in Documents \ drawn, c \in Contents :
        /\ drawn' = drawn \cup {x}
        /\ ingest' = [ingest EXCEPT ![h] = [pc |-> "flushed", id |-> x, body |-> c]]
  BY DEF Flush
<1>. DEFINE new == [pc |-> "flushed", id |-> x, body |-> c]
<1>3. /\ new \in Handling
      /\ new.pc = "flushed" /\ new.id = x /\ new.body = c
  BY DEF Handling, Values
<1>4. /\ ingest' \in [Handlers -> Handling] /\ ingest'[h] = new
      /\ \A k \in Handlers : k # h => ingest'[k] = ingest[k]
  BY <1>2, <1>3 DEF IInv, TypeOK, Handling
<1>. HIDE DEF new
<1>5. content[x] = None /\ puts[x] = None /\ points[x] = None /\ x \notin audit
  BY DEF IInv, AllKept, Kept
<1>6. TypeOK'
  BY <1>1, <1>2, <1>4 DEF IInv, TypeOK, Handling
<1>7. AllPending'
  <2>. SUFFICES ASSUME NEW k \in Handlers PROVE Pending(k)'
    BY DEF AllPending
  <2>1. CASE k = h
    BY <1>1, <1>2, <1>3, <1>4, <1>5, <2>1 DEF Pending
  <2>2. CASE k # h
    BY <1>1, <1>2, <1>4, <2>2 DEF IInv, AllPending, Pending
  <2>. QED  BY <2>1, <2>2
<1>8. OwnDocument'
  <2>1. \A k \in Handlers : ingest[k].pc # "idle" => ingest[k].id # x
    BY DEF IInv, AllPending, Pending
  <2>. QED  BY <1>3, <1>4, <2>1 DEF IInv, OwnDocument
<1>9. AllKept'
  BY <1>1, <1>2 DEF IInv, AllKept, Kept
<1>10. LostAccounted'
  <2>1. Lost' \subseteq Lost
    BY <1>1, <1>4 DEF Lost
  <2>. QED  BY <1>1, <2>1, NothingLost
<1>. QED  BY <1>6, <1>7, <1>8, <1>9, <1>10 DEF IInv

(* A handler goes on, and neither store changes. *)
LEMMA GoesInv ==
    ASSUME IInv, NEW h \in Handlers, NEW pc \in {"built", "indexed"}, Goes(h, pc),
           UNCHANGED <<backend, strict, content, points, puts, audit, drawn, failures, deaths>>,
           collection => collection', collection' \in BOOLEAN,
           ingest[h].pc # "idle",
           pc = "built" => ingest[h].pc = "flushed" /\ backend = "qdrant",
           pc = "indexed" /\ backend = "qdrant" => points[ingest[h].id] # None
    PROVE  IInv'
<1>1. /\ ingest' \in [Handlers -> Handling]
      /\ ingest'[h].pc = pc /\ ingest'[h].id = ingest[h].id
      /\ ingest'[h].body = ingest[h].body
      /\ \A k \in Handlers : k # h => ingest'[k] = ingest[k]
  BY GoesTo DEF IInv
<1>2. TypeOK'
  BY <1>1 DEF IInv, TypeOK, Handling
<1>3. AllPending'
  <2>. SUFFICES ASSUME NEW k \in Handlers PROVE Pending(k)'
    BY DEF AllPending
  <2>0. Pending(k)
    BY DEF IInv, AllPending
  <2>1. CASE k = h
    BY <1>1, <2>0, <2>1 DEF Pending
  <2>2. CASE k # h
    BY <1>1, <2>0, <2>2 DEF Pending
  <2>. QED  BY <2>1, <2>2
<1>4. OwnDocument'
  BY <1>1 DEF IInv, OwnDocument
<1>5. AllKept'
  BY DEF IInv, AllKept, Kept
<1>6. LostAccounted'
  <2>1. Lost' \subseteq Lost
    BY <1>1 DEF Lost
  <2>. QED  BY <2>1, NothingLost
<1>. QED  BY <1>2, <1>3, <1>4, <1>5, <1>6 DEF IInv

LEMMA IndexLocallyInv ==
    ASSUME IInv, NEW h \in Handlers, IndexLocally(h)
    PROVE  IInv'
<1>1. /\ ingest[h].pc = "flushed" /\ backend = "local" /\ Goes(h, "indexed")
      /\ UNCHANGED <<backend, strict, collection, content, points, puts, audit, drawn, failures, deaths>>
  BY DEF IndexLocally, store, faults
<1>. QED  BY <1>1, GoesInv DEF IInv, TypeOK

LEMMA PutAnsweredInv ==
    ASSUME IInv, NEW h \in Handlers, PutAnswered(h)
    PROVE  IInv'
<1>1. /\ ingest[h].pc = "sent" /\ points[ingest[h].id] # None /\ Goes(h, "indexed")
      /\ UNCHANGED <<backend, strict, collection, content, points, puts, audit, drawn, failures, deaths>>
  BY DEF PutAnswered, store, faults
<1>. QED  BY <1>1, GoesInv DEF IInv, TypeOK

(***************************************************************************)
(* A handler ends without a commit.  Its document is lost only if a put    *)
(* was sent, and then it has cost a failure.                               *)
(***************************************************************************)
LEMMA EndsInv ==
    ASSUME IInv, NEW h \in Handlers, Ends(h), ingest[h].pc # "idle",
           UNCHANGED <<backend, strict, content, points, audit, drawn>>,
           collection => collection', collection' \in BOOLEAN,
           puts' = puts \/ puts' = [puts EXCEPT ![ingest[h].id] = None],
           deaths' = deaths,
           \/ failures' = failures /\ ingest[h].pc \in {"flushed", "built"}
           \/ failures + deaths < MaxFaults /\ failures' = failures + 1
    PROVE  IInv'
<1>1. /\ ingest' \in [Handlers -> Handling]
      /\ ingest'[h].pc = "idle"
      /\ \A k \in Handlers : k # h => ingest'[k] = ingest[k]
  BY EndsAt DEF IInv
<1>2. PICK x : x = ingest[h].id
  OBVIOUS
<1>3. /\ x \in Documents /\ x \in drawn /\ content[x] = None
      /\ ingest[h].pc \in {"flushed", "built"} => puts[x] = None /\ points[x] = None
      /\ \A k \in Handlers : k # h /\ ingest[k].pc # "idle" => ingest[k].id # x
  BY <1>2 DEF IInv, AllPending, Pending, OwnDocument
<1>4. /\ puts' \in [Documents -> Values]
      /\ \A y \in Documents : y # x => puts'[y] = puts[y]
      /\ \A y \in Documents : puts'[y] \in {puts[y], None}
  BY <1>2, <1>3 DEF IInv, TypeOK, Values
<1>5. TypeOK'
  <2>1. failures' \in 0..MaxFaults
    BY MemoryAssumption DEF IInv, TypeOK
  <2>. QED  BY <1>1, <1>4, <2>1 DEF IInv, TypeOK, Handling
<1>6. AllPending'
  <2>. SUFFICES ASSUME NEW k \in Handlers PROVE Pending(k)'
    BY DEF AllPending
  <2>1. CASE k = h
    BY <1>1, <2>1 DEF Pending
  <2>2. CASE k # h
    <3>1. ingest'[k] = ingest[k] /\ Pending(k)
      BY <1>1, <2>2 DEF IInv, AllPending
    <3>2. ingest[k].pc # "idle" => puts'[ingest[k].id] = puts[ingest[k].id]
      BY <1>3, <1>4, <2>2, <3>1 DEF Pending
    <3>. QED  BY <3>1, <3>2 DEF Pending
  <2>. QED  BY <2>1, <2>2
<1>7. OwnDocument'
  BY <1>1 DEF IInv, OwnDocument
<1>8. AllKept'
  BY <1>4 DEF IInv, AllKept, Kept
<1>9. LostAccounted'
  <2>1. Lost' \subseteq Lost \cup {x}
    <3>. SUFFICES ASSUME NEW y \in Lost', y # x PROVE y \in Lost
      OBVIOUS
    <3>1. /\ y \in Documents /\ content[y] = None
          /\ puts[y] # None \/ points[y] # None
          /\ \A k \in Handlers : ingest'[k].pc # "idle" => ingest'[k].id # y
      BY <1>4 DEF Lost
    <3>2. \A k \in Handlers : ingest[k].pc # "idle" => ingest[k].id # y
      BY <1>1, <1>2, <3>1
    <3>. QED  BY <3>1, <3>2 DEF Lost
  <2>2. ingest[h].pc \in {"flushed", "built"} => x \notin Lost'
    BY <1>3, <1>4 DEF Lost
  <2>3. CASE failures' = failures
    <3>1. Lost' \subseteq Lost
      BY <2>1, <2>2, <2>3 DEF IInv, TypeOK
    <3>. QED  BY <2>3, <3>1, NothingLost
  <2>4. CASE failures' = failures + 1
    <3>1. IsFiniteSet({x}) /\ Cardinality({x}) = 1
      BY FS_Singleton
    <3>2. Allowance' = Allowance + 1
      BY <2>4, AllowanceSteps DEF IInv
    <3>. QED  BY <2>1, <3>1, <3>2, LostSteps
  <2>. QED  BY <2>3, <2>4
<1>. QED  BY <1>5, <1>6, <1>7, <1>8, <1>9 DEF IInv

LEMMA IndexFailsInv ==
    ASSUME IInv, NEW h \in Handlers, IndexFails(h)
    PROVE  IInv'
<1>1. /\ ingest[h].pc # "idle" /\ Ends(h)
      /\ UNCHANGED <<backend, strict, content, points, audit, drawn>>
      /\ failures + deaths < MaxFaults /\ failures' = failures + 1 /\ deaths' = deaths
      /\ puts' = puts \/ puts' = [puts EXCEPT ![ingest[h].id] = None]
      /\ collection' = collection \/ collection' = TRUE
  BY DEF IndexFails, Failure
<1>2. CASE collection' = collection
  BY <1>1, <1>2, EndsInv DEF IInv, TypeOK
<1>3. CASE collection' = TRUE
  BY <1>1, <1>3, EndsInv
<1>. QED  BY <1>1, <1>2, <1>3

LEMMA AbortInv ==
    ASSUME IInv, NEW h \in Handlers, Abort(h)
    PROVE  IInv'
BY EndsInv DEF Abort, Failure, store, IInv, TypeOK

(* What the handlers of a process were at work on may all be lost. *)
LEMMA ProcessDiesInv ==
    ASSUME IInv, NEW process \in SUBSET Handlers, ProcessDies(process)
    PROVE  IInv'
<1>1. /\ UNCHANGED <<backend, strict, collection, content, points, puts, audit, drawn, failures>>
      /\ failures + deaths < MaxFaults /\ deaths' = deaths + 1
      /\ ingest' = [h \in Handlers |-> IF h \in process THEN Idle ELSE ingest[h]]
  BY DEF ProcessDies, Death, store
<1>2. Idle \in Handling /\ Idle.pc = "idle"
  BY DEF Idle, Handling, Values
<1>3. /\ ingest' \in [Handlers -> Handling]
      /\ \A h \in Handlers : \/ h \in process /\ ingest'[h].pc = "idle"
                             \/ h \notin process /\ ingest'[h] = ingest[h]
  BY <1>1, <1>2 DEF IInv, TypeOK, Handling
<1>4. TypeOK'
  <2>1. deaths' \in 0..MaxFaults
    BY <1>1, MemoryAssumption DEF IInv, TypeOK
  <2>. QED  BY <1>1, <1>3, <2>1 DEF IInv, TypeOK, Handling
<1>5. AllPending'
  <2>. SUFFICES ASSUME NEW h \in Handlers PROVE Pending(h)'
    BY DEF AllPending
  <2>1. CASE ingest'[h].pc = "idle"
    BY <2>1 DEF Pending
  <2>2. CASE ingest'[h] = ingest[h]
    BY <1>1, <2>2 DEF IInv, AllPending, Pending
  <2>. QED  BY <1>3, <2>1, <2>2
<1>6. OwnDocument'
  BY <1>3 DEF IInv, OwnDocument
<1>7. AllKept'
  BY <1>1 DEF IInv, AllKept, Kept
<1>8. LostAccounted'
  <2>. DEFINE D == {ingest[h].id : h \in process}
  <2>1. Lost' \subseteq Lost \cup D
    BY <1>1, <1>3 DEF Lost
  <2>2. /\ IsFiniteSet(process) /\ Cardinality(process) <= Cardinality(Handlers)
        /\ Cardinality(process) \in Nat /\ Cardinality(Handlers) \in Nat
    BY MemoryAssumption, FS_Subset, FS_CardinalityType
  <2>3. IsFiniteSet(D) /\ Cardinality(D) <= Cardinality(process)
    <3>1. [h \in process |-> ingest[h].id] \in Surjection(process, D)
      BY DEF Surjection
    <3>. HIDE DEF D
    <3>. QED  BY <2>2, <3>1, FS_Surjection
  <2>. HIDE DEF D
  <2>4. Cardinality(D) \in Nat
    BY <2>3, FS_CardinalityType
  <2>5. Cardinality(D) <= Cardinality(Handlers)
    BY <2>2, <2>3, <2>4
  <2>6. Allowance' = Allowance + Cardinality(Handlers)
    BY <1>1, AllowanceSteps DEF IInv
  <2>. QED  BY <2>1, <2>2, <2>3, <2>5, <2>6, LostSteps
<1>. QED  BY <1>4, <1>5, <1>6, <1>7, <1>8 DEF IInv

LEMMA BuildStoreInv ==
    ASSUME IInv, NEW h \in Handlers, BuildStore(h)
    PROVE  IInv'
<1>1. /\ ingest[h].pc = "flushed" /\ backend = "qdrant" /\ collection' = TRUE
      /\ UNCHANGED <<backend, strict, content, points, puts, audit, drawn, failures, deaths>>
  BY DEF BuildStore, faults
<1>2. CASE StoreRefused
  <2>1. Ends(h)
    BY <1>2 DEF BuildStore
  <2>. QED  BY <1>1, <2>1, EndsInv
<1>3. CASE ~StoreRefused
  <2>1. Goes(h, "built")
    BY <1>3 DEF BuildStore
  <2>. QED  BY <1>1, <2>1, GoesInv
<1>. QED  BY <1>2, <1>3

LEMMA SearchInv ==
    ASSUME IInv, Search
    PROVE  IInv'
<1>1. /\ UNCHANGED <<backend, strict, content, points, puts, audit, ingest, drawn, failures, deaths>>
      /\ collection' = TRUE
  BY DEF Search, faults
<1>2. TypeOK' /\ AllPending' /\ OwnDocument' /\ AllKept'
  BY <1>1 DEF IInv, TypeOK, AllPending, Pending, OwnDocument, AllKept, Kept
<1>3. Lost' = Lost
  BY <1>1 DEF Lost
<1>4. LostAccounted'
  BY <1>1, <1>3, NothingLost
<1>. QED  BY <1>2, <1>4 DEF IInv

LEMMA SendPutInv ==
    ASSUME IInv, NEW h \in Handlers, SendPut(h)
    PROVE  IInv'
<1>1. /\ ingest[h].pc = "built"
      /\ UNCHANGED <<backend, strict, collection, content, points, audit, drawn, failures, deaths>>
      /\ puts' = [puts EXCEPT ![ingest[h].id] = ingest[h].body]
      /\ Goes(h, "sent")
  BY DEF SendPut, store, faults
<1>2. /\ ingest' \in [Handlers -> Handling]
      /\ ingest'[h].pc = "sent" /\ ingest'[h].id = ingest[h].id
      /\ ingest'[h].body = ingest[h].body
      /\ \A k \in Handlers : k # h => ingest'[k] = ingest[k]
  BY <1>1, GoesTo DEF IInv
<1>3. PICK x : x = ingest[h].id
  OBVIOUS
<1>4. /\ x \in Documents /\ x \in drawn /\ content[x] = None /\ points[x] = None
      /\ ingest[h].body \in Contents /\ backend = "qdrant"
      /\ \A k \in Handlers : k # h /\ ingest[k].pc # "idle" => ingest[k].id # x
  BY <1>1, <1>3 DEF IInv, AllPending, Pending, OwnDocument
<1>5. /\ puts' \in [Documents -> Values] /\ puts'[x] = ingest[h].body
      /\ \A y \in Documents : y # x => puts'[y] = puts[y]
  BY <1>1, <1>3, <1>4 DEF IInv, TypeOK, Values
<1>6. TypeOK'
  BY <1>1, <1>2, <1>5 DEF IInv, TypeOK, Handling
<1>7. AllPending'
  <2>. SUFFICES ASSUME NEW k \in Handlers PROVE Pending(k)'
    BY DEF AllPending
  <2>0. Pending(k)
    BY DEF IInv, AllPending
  <2>1. CASE k = h
    BY <1>1, <1>2, <1>3, <1>4, <1>5, <2>0, <2>1 DEF Pending
  <2>2. CASE k # h
    <3>1. ingest'[k] = ingest[k]
      BY <1>2, <2>2
    <3>2. ingest[k].pc # "idle" => puts'[ingest[k].id] = puts[ingest[k].id]
      BY <1>4, <1>5, <2>0, <2>2 DEF Pending
    <3>. QED  BY <1>1, <2>0, <3>1, <3>2 DEF Pending
  <2>. QED  BY <2>1, <2>2
<1>8. OwnDocument'
  BY <1>1, <1>2 DEF IInv, OwnDocument
<1>9. AllKept'
  <2>. SUFFICES ASSUME NEW y \in Documents PROVE Kept(y)'
    BY DEF AllKept
  <2>0. Kept(y)
    BY DEF IInv, AllKept
  <2>1. CASE y = x
    BY <1>1, <1>4, <2>0, <2>1 DEF Kept
  <2>2. CASE y # x
    BY <1>1, <1>5, <2>0, <2>2 DEF Kept
  <2>. QED  BY <2>1, <2>2
<1>10. LostAccounted'
  <2>1. x \notin Lost'
    BY <1>2, <1>3 DEF Lost
  <2>2. Lost' \subseteq Lost
    BY <1>1, <1>2, <1>5, <2>1 DEF Lost
  <2>. QED  BY <1>1, <2>2, NothingLost
<1>. QED  BY <1>6, <1>7, <1>8, <1>9, <1>10 DEF IInv

LEMMA ApplyInv ==
    ASSUME IInv, NEW x \in Documents, Apply(x)
    PROVE  IInv'
<1>1. /\ puts[x] # None
      /\ points' = [points EXCEPT ![x] = puts[x]]
      /\ puts' = [puts EXCEPT ![x] = None]
      /\ UNCHANGED <<backend, strict, collection, content, audit, ingest, drawn, failures, deaths>>
  BY DEF Apply, store, faults
<1>2. /\ points' \in [Documents -> Values] /\ puts' \in [Documents -> Values]
      /\ points'[x] = puts[x] /\ puts'[x] = None
      /\ \A y \in Documents : y # x => points'[y] = points[y] /\ puts'[y] = puts[y]
  BY <1>1 DEF IInv, TypeOK, Values
<1>3. points[x] = None /\ (content[x] # None => backend # "qdrant")
  BY <1>1 DEF IInv, AllKept, Kept
<1>4. TypeOK'
  BY <1>1, <1>2 DEF IInv, TypeOK
<1>5. AllPending'
  <2>. SUFFICES ASSUME NEW k \in Handlers PROVE Pending(k)'
    BY DEF AllPending
  <2>0. Pending(k)
    BY DEF IInv, AllPending
  <2>1. CASE ingest[k].id = x
    BY <1>1, <1>2, <1>3, <2>0, <2>1, MemoryAssumption DEF Pending
  <2>2. CASE ingest[k].id # x
    BY <1>1, <1>2, <2>0, <2>2 DEF Pending
  <2>. QED  BY <2>1, <2>2
<1>6. OwnDocument'
  BY <1>1 DEF IInv, OwnDocument
<1>7. AllKept'
  <2>. SUFFICES ASSUME NEW y \in Documents PROVE Kept(y)'
    BY DEF AllKept
  <2>0. Kept(y)
    BY DEF IInv, AllKept
  <2>1. CASE y = x
    BY <1>1, <1>2, <1>3, <2>0, <2>1 DEF Kept
  <2>2. CASE y # x
    BY <1>1, <1>2, <2>0, <2>2 DEF Kept
  <2>. QED  BY <2>1, <2>2
<1>8. LostAccounted'
  <2>1. Lost' \subseteq Lost
    BY <1>1, <1>2 DEF Lost
  <2>. QED  BY <1>1, <2>1, NothingLost
<1>. QED  BY <1>4, <1>5, <1>6, <1>7, <1>8 DEF IInv

LEMMA CommitInv ==
    ASSUME IInv, NEW h \in Handlers, Commit(h)
    PROVE  IInv'
<1>1. PICK x : x = ingest[h].id
  OBVIOUS
<1>2. /\ ingest[h].pc = "indexed" /\ Ends(h)
      /\ content' = [content EXCEPT ![x] = ingest[h].body]
      /\ audit' = audit \cup {x}
      /\ UNCHANGED <<backend, strict, collection, points, puts, drawn, failures, deaths>>
  BY <1>1 DEF Commit, store, faults
<1>3. /\ ingest' \in [Handlers -> Handling]
      /\ ingest'[h].pc = "idle"
      /\ \A k \in Handlers : k # h => ingest'[k] = ingest[k]
  BY <1>2, EndsAt DEF IInv
<1>4. /\ x \in Documents /\ x \in drawn
      /\ ingest[h].body \in Contents /\ ingest[h].body # None
      /\ backend = "qdrant" => points[x] = ingest[h].body
      /\ \A k \in Handlers : k # h /\ ingest[k].pc # "idle" => ingest[k].id # x
  BY <1>1, <1>2, MemoryAssumption DEF IInv, AllPending, Pending, OwnDocument
<1>5. /\ content' \in [Documents -> Values] /\ content'[x] = ingest[h].body
      /\ \A y \in Documents : y # x => content'[y] = content[y]
  BY <1>2, <1>4 DEF IInv, TypeOK, Values
<1>6. TypeOK'
  BY <1>2, <1>3, <1>4, <1>5 DEF IInv, TypeOK, Handling
<1>7. AllPending'
  <2>. SUFFICES ASSUME NEW k \in Handlers PROVE Pending(k)'
    BY DEF AllPending
  <2>1. CASE k = h
    BY <1>3, <2>1 DEF Pending
  <2>2. CASE k # h
    <3>1. ingest'[k] = ingest[k] /\ Pending(k)
      BY <1>3, <2>2 DEF IInv, AllPending
    <3>2. ingest[k].pc # "idle" => /\ content'[ingest[k].id] = content[ingest[k].id]
                                   /\ ingest[k].id # x
      BY <1>4, <1>5, <2>2, <3>1 DEF Pending
    <3>. QED  BY <1>2, <3>1, <3>2 DEF Pending
  <2>. QED  BY <2>1, <2>2
<1>8. OwnDocument'
  BY <1>3 DEF IInv, OwnDocument
<1>9. AllKept'
  <2>. SUFFICES ASSUME NEW y \in Documents PROVE Kept(y)'
    BY DEF AllKept
  <2>0. Kept(y)
    BY DEF IInv, AllKept
  <2>1. CASE y = x
    BY <1>2, <1>4, <1>5, <2>0, <2>1 DEF Kept
  <2>2. CASE y # x
    BY <1>2, <1>5, <2>0, <2>2 DEF Kept
  <2>. QED  BY <2>1, <2>2
<1>10. LostAccounted'
  <2>1. Lost' \subseteq Lost
    <3>. SUFFICES ASSUME NEW y \in Lost' PROVE y \in Lost
      OBVIOUS
    <3>1. /\ y \in Documents /\ content'[y] = None
          /\ puts[y] # None \/ points[y] # None
          /\ \A k \in Handlers : ingest'[k].pc # "idle" => ingest'[k].id # y
      BY <1>2 DEF Lost
    <3>2. y # x /\ content[y] = None
      BY <1>4, <1>5, <3>1
    <3>3. \A k \in Handlers : ingest[k].pc # "idle" => ingest[k].id # y
      BY <1>1, <1>3, <3>1, <3>2
    <3>. QED  BY <3>1, <3>2, <3>3 DEF Lost
  <2>. QED  BY <1>2, <2>1, NothingLost
<1>. QED  BY <1>6, <1>7, <1>8, <1>9, <1>10 DEF IInv

LEMMA StepInv == IInv /\ [Next]_vars => IInv'
<1>. SUFFICES ASSUME IInv, [Next]_vars PROVE IInv'
  OBVIOUS
<1>1. ASSUME NEW h \in Handlers, Flush(h) \/ Proceed(h) \/ IndexFails(h) \/ Abort(h)
      PROVE  IInv'
  BY <1>1, FlushInv, IndexLocallyInv, BuildStoreInv, SendPutInv, PutAnsweredInv, CommitInv,
     IndexFailsInv, AbortInv DEF Proceed
<1>2. ASSUME NEW x \in Documents, Apply(x) PROVE IInv'
  BY <1>2, ApplyInv
<1>3. CASE Search
  BY <1>3, SearchInv
<1>4. ASSUME NEW process \in SUBSET Handlers, ProcessDies(process) PROVE IInv'
  BY <1>4, ProcessDiesInv
<1>5. CASE UNCHANGED vars
  <2>1. TypeOK' /\ AllPending' /\ OwnDocument' /\ AllKept'
    BY <1>5 DEF vars, faults, IInv, TypeOK, AllPending, Pending, OwnDocument, AllKept, Kept
  <2>2. Lost' = Lost /\ UNCHANGED <<failures, deaths>>
    BY <1>5 DEF vars, faults, Lost
  <2>3. LostAccounted'
    BY <2>2, NothingLost
  <2>. QED  BY <2>1, <2>3 DEF IInv
<1>. QED  BY <1>1, <1>2, <1>3, <1>4, <1>5 DEF Next

(* The invariant every theorem below rests on *)
THEOREM Inductive == Spec => []IInv
BY InitInv, StepInv, PTL DEF Spec

(***************************************************************************)
(* Type correctness, for any documents and handlers                        *)
(***************************************************************************)
THEOREM TypeCorrect == Spec => []TypeOK
<1>1. IInv => TypeOK
  BY DEF IInv
<1>. QED  BY <1>1, Inductive, PTL

(***************************************************************************)
(* Every committed document is searched, with the content of its row,      *)
(* however late Qdrant applies a put and whatever fails.                   *)
(***************************************************************************)
THEOREM PersistedFound == Spec => []PersistedIsSearched
BY Inductive, Found, PTL

(***************************************************************************)
(* There are never more orphans than handlers at work, one for each        *)
(* failure, and one for each handler of a process that has died.           *)
(***************************************************************************)
THEOREM OrphansCounted == Spec => []OrphansAccounted
BY Inductive, Counted, PTL

----------------------------------------------------------------------------
(* What a search returns *)

(* A score of one at most *)
Share(s) == s.num \in Int /\ s.den \in Nat \ {0} /\ s.num <= s.den

LEMMA AtLeastOne ==
    ASSUME NEW n \in Nat
    PROVE  /\ Max({1, n}) \in Nat \ {0} /\ Max({1, n}) >= n
           /\ n >= 1 => Max({1, n}) = n
<1>1. PICK m \in {1, n} : \A k \in {1, n} : m >= k
  <2>1. CASE n >= 1
    BY <2>1
  <2>2. CASE n < 1
    BY <2>2
  <2>. QED  BY <2>1, <2>2
<1>2. Max({1, n}) \in {1, n} /\ \A k \in {1, n} : Max({1, n}) >= k
  BY <1>1 DEF Max
<1>. QED  BY <1>2

(* A score that one is not above is one as well. *)
LEMMA NotBelowOne ==
    ASSUME NEW a, NEW b, Share(a), Share(b), a.num = a.den, ~Above(a, b)
    PROVE  b.num = b.den
<1>1. PICK n \in Nat \ {0}, p \in Int, q \in Nat \ {0} :
        a.num = n /\ a.den = n /\ b.num = p /\ b.den = q
  BY DEF Share
<1>2. n * q <= p * n /\ p <= q
  BY <1>1 DEF Above, Share
<1>3. ASSUME p < q PROVE FALSE
  <2>1. p + 1 <= q /\ n * (p + 1) <= n * q
    BY <1>3
  <2>. QED  BY <1>2, <2>1
<1>. QED  BY <1>1, <1>2, <1>3

LEMMA JaccardShare ==
    ASSUME NEW a, NEW b, IsFiniteSet(a), IsFiniteSet(b), a # {}
    PROVE  /\ Share(Jaccard(a, b))
           /\ Jaccard(a, a).num = Jaccard(a, a).den /\ Jaccard(a, a).num > 0
           /\ Jaccard(a, b).num = Jaccard(a, b).den => a = b
<1>. DEFINE all == Cardinality(a \cup b)
            both == Cardinality(a \cap b)
<1>1. /\ IsFiniteSet(a \cup b) /\ IsFiniteSet(a \cap b)
      /\ all \in Nat /\ both \in Nat /\ Cardinality(a) \in Nat
  BY FS_Union, FS_Intersection, FS_CardinalityType
<1>2. both <= all /\ (both = all => a \cap b = a \cup b)
  BY <1>1, FS_Subset
<1>3. Cardinality(a) >= 1 /\ Cardinality(a) <= all
  BY <1>1, FS_EmptySet, FS_Subset
<1>4. Max({1, all}) = all /\ Max({1, Cardinality(a)}) = Cardinality(a)
  BY <1>1, <1>3, AtLeastOne
<1>5. Jaccard(a, b) = [num |-> both, den |-> all]
  BY <1>4 DEF Jaccard
<1>6. Jaccard(a, a) = [num |-> Cardinality(a), den |-> Cardinality(a)]
  <2>1. a \cap a = a /\ a \cup a = a
    OBVIOUS
  <2>. QED  BY <1>4, <2>1 DEF Jaccard
<1>. HIDE DEF all, both
<1>. QED  BY <1>1, <1>2, <1>3, <1>5, <1>6 DEF Share

LEMMA EmbedIsVector ==
    ASSUME NEW a \in SUBSET Token, IsFiniteSet(a)
    PROVE  Embed(a) \in [Dimensions -> Int]
<1>1. ASSUME NEW i \in Dimensions
      PROVE  SumFunction([t \in {t \in a : Index[t] = i} |-> Sign[t]]) \in Int
  <2>. DEFINE S == {t \in a : Index[t] = i}
  <2>1. IsFiniteSet(S)
    BY FS_Subset
  <2>2. [t \in S |-> Sign[t]] \in [S -> Int]
    BY RetrievalAssumption
  <2>. HIDE DEF S
  <2>. QED  BY <2>1, <2>2, SumIsInt DEF S
<1>. QED  BY <1>1 DEF Embed

(* The product of a vector with itself is 0 for the zero vector only. *)
LEMMA DotOfOne ==
    ASSUME NEW v \in [Dimensions -> Int]
    PROVE  Dot(v, v) \in Nat /\ \A i \in Dimensions : v[i] # 0 => Dot(v, v) >= 1
<1>. DEFINE f == [i \in Dimensions |-> v[i] * v[i]]
<1>1. f \in [Dimensions -> Nat] /\ \A i \in Dimensions : v[i] # 0 => f[i] >= 1
  BY SquareIsNat
<1>2. Dot(v, v) = SumFunction(f)
  BY DEF Dot
<1>. HIDE DEF f
<1>3. SumFunction(f) \in Nat /\ \A i \in Dimensions : f[i] <= SumFunction(f)
  BY <1>1, SumBounds, RetrievalAssumption
<1>4. ASSUME NEW i \in Dimensions, v[i] # 0 PROVE SumFunction(f) >= 1
  <2>1. f[i] \in Nat /\ f[i] >= 1 /\ f[i] <= SumFunction(f)
    BY <1>1, <1>3, <1>4
  <2>. QED  BY <1>3, <2>1
<1>. QED  BY <1>2, <1>3, <1>4

LEMMA DotBounds ==
    ASSUME NEW v \in [Dimensions -> Int], NEW w \in [Dimensions -> Int]
    PROVE  Dot(v, w) \in Int /\ Dot(v, w) * Dot(v, w) <= Dot(v, v) * Dot(w, w)
<1>. DEFINE f == [i \in Dimensions |-> v[i] * w[i]]
<1>1. f \in [Dimensions -> Int]
  OBVIOUS
<1>2. SumFunction(f) \in Int
  <2>. HIDE DEF f
  <2>. QED  BY <1>1, SumIsInt, RetrievalAssumption
<1>. QED  BY <1>2, CauchySchwarz, RetrievalAssumption DEF Dot

LEMMA CosineShare ==
    ASSUME NEW a \in SUBSET Token, NEW b \in SUBSET Token, IsFiniteSet(a), IsFiniteSet(b),
           \E i \in Dimensions : Embed(a)[i] # 0
    PROVE  /\ Share(Cosine(a, b)) /\ Share(Cosine(a, a))
           /\ Cosine(a, a).num = Cosine(a, a).den
<1>. DEFINE dot == Dot(Embed(a), Embed(b))
            va == Dot(Embed(a), Embed(a))
            vb == Dot(Embed(b), Embed(b))
<1>1. /\ va \in Nat /\ vb \in Nat /\ va >= 1 /\ dot \in Int
      /\ dot * dot <= va * vb
  BY EmbedIsVector, DotOfOne, DotBounds
<1>2. /\ Max({1, va}) = va
      /\ Max({1, vb}) \in Nat \ {0} /\ Max({1, vb}) >= vb
  BY <1>1, AtLeastOne
<1>3. /\ Cosine(a, b) = [num |-> IF dot < 0 THEN -(dot * dot) ELSE dot * dot,
                         den |-> va * Max({1, vb})]
      /\ Cosine(a, a) = [num |-> IF va < 0 THEN -(va * va) ELSE va * va,
                         den |-> va * va]
  BY <1>2 DEF Cosine
<1>. HIDE DEF dot, va, vb
<1>4. PICK m \in Nat \ {0} : m = Max({1, vb}) /\ m >= vb
  BY <1>2
<1>5. va * m \in Nat \ {0} /\ va * vb <= va * m
  BY <1>1, <1>4
<1>6. dot * dot \in Nat /\ va * vb \in Nat /\ va * va \in Nat \ {0}
  BY <1>1, SquareIsNat
<1>. QED  BY <1>1, <1>3, <1>4, <1>5, <1>6 DEF Share

(***************************************************************************)
(* If x is above all documents but those of Same, the best documents, as   *)
(* far as x or to the end of a full list, are of Same.                     *)
(***************************************************************************)
LEMMA BestFirst ==
    ASSUME NEW score, IsFiniteSet(DOMAIN score), NEW x \in DOMAIN score,
           NEW Same, x \in Same,
           \A y \in DOMAIN score : Above(score[x], score[y]) \/ y \in Same,
           NEW limit \in Nat, NEW list \in Ranked(score, limit)
    PROVE  \/ \E i \in DOMAIN list : list[i] = x /\ \A j \in 1..i : list[j] \in Same
           \/ Len(list) = limit /\ \A i \in DOMAIN list : list[i] \in Same
<1>. DEFINE found == DOMAIN score
            size == Min({limit, Cardinality(found)})
<1>1. Cardinality(found) \in Nat
  BY FS_CardinalityType
<1>2. size \in {limit, Cardinality(found)} /\ size <= limit /\ size <= Cardinality(found)
  <2>1. PICK m \in {limit, Cardinality(found)} : \A k \in {limit, Cardinality(found)} : m <= k
    <3>1. CASE limit <= Cardinality(found)
      BY <1>1, <3>1
    <3>2. CASE Cardinality(found) <= limit
      BY <1>1, <3>2
    <3>. QED  BY <1>1, <3>1, <3>2
  <2>. QED  BY <2>1 DEF Min
<1>3. /\ list \in [1..size -> found]
      /\ \A i \in 1..size :
            /\ \A j \in 1..(i - 1) : list[j] # list[i]
            /\ \A y \in found : Above(score[y], score[list[i]]) =>
                  \E j \in 1..(i - 1) : list[j] = y
  BY DEF Ranked
<1>4. size \in Nat
  BY <1>1, <1>2
<1>. HIDE DEF size
<1>5. CASE \E i \in 1..size : list[i] = x
  <2>1. PICK i \in 1..size : list[i] = x
    BY <1>5
  <2>2. ASSUME NEW j \in 1..i, list[j] \notin Same PROVE FALSE
    <3>1. j \in 1..(i - 1) /\ j \in 1..size
      BY <1>4, <2>1, <2>2
    <3>2. Above(score[x], score[list[j]])
      BY <1>3, <2>2, <3>1
    <3>3. PICK k \in 1..(j - 1) : list[k] = x
      BY <1>3, <3>1, <3>2
    <3>4. k \in 1..(i - 1)
      BY <1>4, <3>1, <3>3
    <3>. QED  BY <1>3, <2>1, <3>3, <3>4
  <2>. QED  BY <1>3, <2>1, <2>2
<1>6. CASE \A i \in 1..size : list[i] # x
  <2>1. ASSUME NEW i \in 1..size, list[i] \notin Same PROVE FALSE
    <3>1. Above(score[x], score[list[i]])
      BY <1>3, <2>1
    <3>2. PICK j \in 1..(i - 1) : list[j] = x
      BY <1>3, <2>1, <3>1
    <3>3. j \in 1..size
      BY <1>4, <2>1, <3>2
    <3>. QED  BY <1>6, <3>2, <3>3
  <2>2. size = limit
    <3>. SUFFICES ASSUME size = Cardinality(found) PROVE FALSE
      BY <1>2
    <3>1. list \in Injection(1..size, found)
      <4>1. ASSUME NEW i \in 1..size, NEW j \in 1..size, i < j PROVE list[i] # list[j]
        <5>1. i \in 1..(j - 1)
          BY <1>4, <4>1
        <5>. QED  BY <1>3, <5>1
      <4>2. ASSUME NEW i \in 1..size, NEW j \in 1..size, i # j PROVE list[i] # list[j]
        <5>1. i < j \/ j < i
          BY <1>4, <4>2
        <5>. QED  BY <4>1, <5>1
      <4>. QED  BY <1>3, <4>2 DEF Injection, IsInjective
    <3>2. Cardinality(1..size) = size
      BY <1>4, FS_Interval
    <3>3. list \in Surjection(1..size, found)
      BY <3>1, <3>2, FS_Injection
    <3>. QED  BY <1>6, <3>3 DEF Surjection
  <2>3. Len(list) = size
    BY <1>3, <1>4
  <2>. QED  BY <1>3, <2>1, <2>2, <2>3
<1>. QED  BY <1>5, <1>6

(* No score is above one, and one is a text like the document's own. *)
LEMMA Retrieved == IInv => OwnTextRanksFirst
<1>. SUFFICES ASSUME IInv, NEW x \in Documents, content[x] # None,
                     Findable(TokensOf[content[x]]),
                     NEW limit \in 1..Cardinality(Documents),
                     NEW list \in Hits(TokensOf[content[x]], limit)
              PROVE  LET own == TokensOf[content[x]] IN
                     \/ \E i \in DOMAIN list : /\ list[i] = x
                                               /\ \A j \in 1..i :
                                                     Alike(own, TokensOf[Searched[list[j]]])
                     \/ /\ Len(list) = limit
                        /\ \A i \in DOMAIN list : Alike(own, TokensOf[Searched[list[i]]])
  BY DEF OwnTextRanksFirst
<1>. DEFINE own == TokensOf[content[x]]
            text(y) == TokensOf[Searched[y]]
            Hit == {y \in Documents : Searched[y] # None}
            Same == {y \in Hit : Alike(own, text(y))}
<1>1. limit \in Nat
  BY FS_CardinalityType, SearchAssumption
<1>2. /\ IsFiniteSet(Hit)
      /\ \A y \in Hit : text(y) \subseteq Token /\ IsFiniteSet(text(y))
  <2>1. \A y \in Hit : Searched[y] \in Contents
    BY DEF IInv, TypeOK, Searched, Values
  <2>. QED  BY <2>1, FS_Subset, SearchAssumption
<1>3. x \in Hit /\ text(x) = own
  BY Found DEF PersistedIsSearched
<1>4. SUFFICES \/ \E i \in DOMAIN list : list[i] = x /\ \A j \in 1..i : list[j] \in Same
               \/ Len(list) = limit /\ \A i \in DOMAIN list : list[i] \in Same
  <2>. HIDE DEF Hit
  <2>. QED  BY DEF Same
<1>5. CASE backend = "local"
  <2>. DEFINE Local == [y \in Hit |-> Jaccard(own, text(y))]
              near == {y \in Hit : Local[y].num > 0}
              score == [y \in near |-> Local[y]]
  <2>1. list \in Ranked(score, limit)
    BY <1>5 DEF Hits, Restrict
  <2>2. own # {} /\ IsFiniteSet(own)
    BY <1>2, <1>3, <1>5 DEF Findable
  <2>3. \A y \in Hit : /\ Share(Local[y])
                       /\ Local[y].num = Local[y].den => y \in Same
    <3>. SUFFICES ASSUME NEW y \in Hit
                  PROVE  /\ Share(Jaccard(own, text(y)))
                         /\ Jaccard(own, text(y)).num = Jaccard(own, text(y)).den
                              => Alike(own, text(y))
      OBVIOUS
    <3>1. IsFiniteSet(text(y))
      BY <1>2
    <3>. HIDE DEF own, Hit, text
    <3>. QED  BY <1>5, <2>2, <3>1, JaccardShare DEF Alike
  <2>4. x \in near /\ Local[x].num = Local[x].den
    <3>1. Local[x] = Jaccard(own, own)
      BY <1>3
    <3>. QED  BY <1>3, <2>2, <3>1, JaccardShare
  <2>. HIDE DEF own, text, Hit, Same, Local
  <2>5. IsFiniteSet(DOMAIN score) /\ x \in DOMAIN score
    BY <1>2, <2>4, FS_Subset
  <2>6. \A y \in DOMAIN score : Above(score[x], score[y]) \/ y \in Same
    BY <2>3, <2>4, NotBelowOne
  <2>7. x \in Same
    BY <2>3, <2>4
  <2>. HIDE DEF score
  <2>. QED  BY <1>1, <2>1, <2>5, <2>6, <2>7, BestFirst
<1>6. CASE backend # "local"
  <2>. DEFINE score == [y \in Hit |-> Cosine(own, text(y))]
  <2>1. list \in Ranked(score, limit)
    <3>1. ~StoreRefused
      BY <1>6 DEF Hits, StoreRefused
    <3>. QED  BY <1>6, <3>1 DEF Hits
  <2>2. /\ own \subseteq Token /\ IsFiniteSet(own)
        /\ \E i \in Dimensions : Embed(own)[i] # 0
    BY <1>2, <1>3, <1>6 DEF Findable
  <2>3. \A y \in Hit : /\ Share(score[y])
                       /\ score[y].num = score[y].den => y \in Same
    <3>. SUFFICES ASSUME NEW y \in Hit
                  PROVE  /\ Share(Cosine(own, text(y)))
                         /\ Cosine(own, text(y)).num = Cosine(own, text(y)).den
                              => Alike(own, text(y))
      OBVIOUS
    <3>1. text(y) \subseteq Token /\ IsFiniteSet(text(y))
      BY <1>2
    <3>. HIDE DEF own, Hit, text
    <3>. QED  BY <1>6, <2>2, <3>1, CosineShare DEF Alike
  <2>4. score[x].num = score[x].den
    <3>1. score[x] = Cosine(own, own)
      BY <1>3
    <3>. HIDE DEF own, score
    <3>. QED  BY <2>2, <3>1, CosineShare
  <2>. HIDE DEF own, text, Hit, Same
  <2>5. IsFiniteSet(DOMAIN score) /\ x \in DOMAIN score
    BY <1>2, <1>3
  <2>6. \A y \in DOMAIN score : Above(score[x], score[y]) \/ y \in Same
    BY <1>3, <2>3, <2>4, NotBelowOne
  <2>7. x \in Same
    BY <1>3, <2>3, <2>4
  <2>. HIDE DEF score
  <2>. QED  BY <1>1, <2>1, <2>5, <2>6, <2>7, BestFirst
<1>. QED  BY <1>5, <1>6

(***************************************************************************)
(* Who searches for a document's own text finds it, or a full list of      *)
(* texts like it, whatever the documents, the orphans, the texts, the      *)
(* digests of their tokens and the length of the list.                     *)
(***************************************************************************)
THEOREM OwnTextFound == Spec => []OwnTextRanksFirst
BY Inductive, Retrieved, PTL
===============================================================================
