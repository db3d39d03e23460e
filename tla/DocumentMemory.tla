--------------------------- MODULE DocumentMemory ----------------------------
(***************************************************************************)
(* ingest_document and search_documents over the documents table and the   *)
(* memory backend.  With Qdrant one document is written to two stores and  *)
(* no transaction spans them: the point is put while the row is flushed    *)
(* but not committed.  Qdrant answers late, or never within the client's   *)
(* 30 seconds, and may apply a put whose client has given up.              *)
(*                                                                         *)
(* build_memory is called for every operation and puts the collection each *)
(* time; whether Qdrant takes that for a success when the collection       *)
(* exists is Qdrant's, so both answers are modelled.                       *)
(*                                                                         *)
(* A content stands for what a search hit shows of it: the excerpt is cut  *)
(* from the same first characters of the row and of the point's payload.   *)
(***************************************************************************)
EXTENDS Naturals, FiniteSets

CONSTANTS
    Documents,      \* ids new_id can draw
    Contents,       \* what clients ingest
    Handlers,       \* ingest handlers that may be in progress at a time
    NoDocument,     \* the document of a handler that has none
    MaxFaults       \* bound: failures of Qdrant or the database, and deaths

None == "none"      \* the content of an id without a row, a point or a put

ASSUME MemoryAssumption ==
    /\ NoDocument \notin Documents
    /\ None \notin Contents
    /\ IsFiniteSet(Handlers)
    /\ MaxFaults \in Nat

VARIABLES
    backend,        \* RX_MEMORY_BACKEND, the same for the life of a deployment
    strict,         \* Qdrant refuses to put a collection that exists
    collection,     \* the collection exists
    content,        \* the committed rows of documents: id to content
    points,         \* the points of the Qdrant collection: id to content
    puts,           \* puts sent to Qdrant and not applied: id to content
    audit,          \* ids with a document.ingested event
    ingest,         \* the handlers
    drawn,          \* ids drawn so far
    failures,       \* of Qdrant or the database, in one handler
    deaths          \* of an API process, with all handlers it runs

faults == <<failures, deaths>>

vars == <<backend, strict, collection, content, points, puts, audit, ingest, drawn, faults>>

(* What ingest_document itself does not touch *)
store == <<backend, strict, collection>>

Values == Contents \cup {None}

Idle == [pc |-> "idle", id |-> NoDocument, body |-> None]

TypeOK ==
    /\ backend \in {"local", "qdrant"}
    /\ strict \in BOOLEAN /\ collection \in BOOLEAN
    /\ content \in [Documents -> Values]
    /\ points \in [Documents -> Values]
    /\ puts \in [Documents -> Values]
    /\ audit \subseteq Documents
    /\ ingest \in [Handlers -> [pc : {"idle", "flushed", "built", "sent", "indexed"},
                                id : Documents \cup {NoDocument}, body : Values]]
    /\ drawn \subseteq Documents
    /\ failures \in 0..MaxFaults /\ deaths \in 0..MaxFaults

Init ==
    /\ backend \in {"local", "qdrant"}
    /\ strict \in BOOLEAN /\ collection = FALSE
    /\ content = [x \in Documents |-> None]
    /\ points = [x \in Documents |-> None]
    /\ puts = [x \in Documents |-> None]
    /\ audit = {} /\ drawn = {} /\ failures = 0 /\ deaths = 0
    /\ ingest = [h \in Handlers |-> Idle]

Goes(h, pc) == ingest' = [ingest EXCEPT ![h].pc = pc]
Ends(h) == ingest' = [ingest EXCEPT ![h] = Idle]

(* Failures and deaths, as many as MaxFaults allows *)
Failure ==
    /\ failures + deaths < MaxFaults
    /\ failures' = failures + 1 /\ UNCHANGED deaths

Death ==
    /\ failures + deaths < MaxFaults
    /\ deaths' = deaths + 1 /\ UNCHANGED failures

(* ingest_document: the row is added and flushed under a new id. *)
Flush(h) ==
    /\ ingest[h].pc = "idle"
    /\ \E x \in Documents \ drawn, c \in Contents :
          /\ drawn' = drawn \cup {x}
          /\ ingest' = [ingest EXCEPT ![h] =
                           [pc |-> "flushed", id |-> x, body |-> c]]
    /\ UNCHANGED <<store, content, points, puts, audit, faults>>

(* LocalMemoryStore.index has nothing to do. *)
IndexLocally(h) ==
    /\ ingest[h].pc = "flushed" /\ backend = "local"
    /\ Goes(h, "indexed")
    /\ UNCHANGED <<store, content, points, puts, audit, drawn, faults>>

(* The put of the collection is refused because it exists. *)
StoreRefused == backend = "qdrant" /\ strict /\ collection

(* Mutant of BuildStore: the put is repeated until Qdrant takes it. *)
BuildStoreRetried(h) ==
    /\ ingest[h].pc = "flushed" /\ backend = "qdrant" /\ ~StoreRefused
    /\ collection' = TRUE
    /\ Goes(h, "built")
    /\ UNCHANGED <<backend, strict, content, points, puts, audit, drawn, faults>>

(* QdrantMemoryStore.__init__: the collection is put, or the put refused   *)
(* and the row rolled back.                                                *)
BuildStore(h) ==
    /\ ingest[h].pc = "flushed" /\ backend = "qdrant"
    /\ collection' = TRUE
    /\ IF StoreRefused THEN Ends(h) ELSE Goes(h, "built")
    /\ UNCHANGED <<backend, strict, content, points, puts, audit, drawn, faults>>

(* search_documents builds the store as well, before it reads; a refusal   *)
(* ends it (503) and changes nothing.                                      *)
Search ==
    /\ backend = "qdrant" /\ ~StoreRefused
    /\ collection' = TRUE
    /\ UNCHANGED <<backend, strict, content, points, puts, audit, ingest, drawn, faults>>

(* QdrantMemoryStore.index: the point is sent. *)
SendPut(h) ==
    /\ ingest[h].pc = "built"
    /\ puts' = [puts EXCEPT ![ingest[h].id] = ingest[h].body]
    /\ Goes(h, "sent")
    /\ UNCHANGED <<store, content, points, audit, drawn, faults>>

(* Qdrant applies a put, whether or not its client still waits. *)
Apply(x) ==
    /\ puts[x] # None
    /\ points' = [points EXCEPT ![x] = puts[x]]
    /\ puts' = [puts EXCEPT ![x] = None]
    /\ UNCHANGED <<store, content, audit, ingest, drawn, faults>>

(* Mutant of PutAnswered: the put is not waited for (wait=false). *)
PutNotAwaited(h) ==
    /\ ingest[h].pc = "sent"
    /\ Goes(h, "indexed")
    /\ UNCHANGED <<store, content, points, puts, audit, drawn, faults>>

(* With wait=true the answer comes after the put has been applied. *)
PutAnswered(h) ==
    /\ ingest[h].pc = "sent"
    /\ points[ingest[h].id] # None
    /\ Goes(h, "indexed")
    /\ UNCHANGED <<store, content, points, puts, audit, drawn, faults>>

(***************************************************************************)
(* The collection or the point is refused, or the client times out: the    *)
(* row is rolled back.  A put that timed out stays with Qdrant, applied,   *)
(* still to be applied, or lost; that of the collection too.               *)
(***************************************************************************)
IndexFails(h) ==
    /\ ingest[h].pc \in {"flushed", "built", "sent"} /\ backend = "qdrant"
    /\ Failure
    /\ Ends(h)
    /\ puts' \in {puts, [puts EXCEPT ![ingest[h].id] = None]}
    /\ collection' \in {collection, TRUE}
    /\ UNCHANGED <<backend, strict, content, points, audit, drawn>>

(* Mutant of Commit: the audit is committed, the row was rolled back. *)
CommitAuditOnly(h) ==
    /\ ingest[h].pc = "indexed"
    /\ audit' = audit \cup {ingest[h].id}
    /\ Ends(h)
    /\ UNCHANGED <<store, content, points, puts, drawn, faults>>

(* ingest_document: the row and its audit are committed. *)
Commit(h) ==
    /\ ingest[h].pc = "indexed"
    /\ content' = [content EXCEPT ![ingest[h].id] = ingest[h].body]
    /\ audit' = audit \cup {ingest[h].id}
    /\ Ends(h)
    /\ UNCHANGED <<store, points, puts, drawn, faults>>

(* Mutant of Abort: a place no handler has. *)
AbortAsFailed(h) ==
    /\ ingest[h].pc # "idle"
    /\ Failure
    /\ Goes(h, "failed")
    /\ UNCHANGED <<store, content, points, puts, audit, drawn>>

(* The flush or the commit fails: the row is gone, the point stays. *)
Abort(h) ==
    /\ ingest[h].pc # "idle"
    /\ Failure
    /\ Ends(h)
    /\ UNCHANGED <<store, content, points, puts, audit, drawn>>

(* An API process dies, and all ingestions it is at work on end with it. *)
ProcessDies(process) ==
    /\ process # {} /\ \A h \in process : ingest[h].pc # "idle"
    /\ Death
    /\ ingest' = [h \in Handlers |-> IF h \in process THEN Idle ELSE ingest[h]]
    /\ UNCHANGED <<store, content, points, puts, audit, drawn>>

(* What ingest_document does of its own accord *)
Proceed(h) ==
    \/ IndexLocally(h) \/ BuildStore(h) \/ SendPut(h)
    \/ PutAnswered(h) \/ Commit(h)

Next ==
    \/ \E h \in Handlers : Flush(h) \/ Proceed(h) \/ IndexFails(h) \/ Abort(h)
    \/ \E process \in SUBSET Handlers : ProcessDies(process)
    \/ \E x \in Documents : Apply(x)
    \/ Search

Spec == Init /\ [][Next]_vars

(* Handlers run on; Qdrant applies what it has accepted. *)
FairSpec ==
    /\ Spec
    /\ \A h \in Handlers : WF_vars(Proceed(h))
    /\ \A x \in Documents : WF_vars(Apply(x))

----------------------------------------------------------------------------

(* What MemoryStore.search looks through *)
Searched == IF backend = "local" THEN content ELSE points

(***************************************************************************)
(* What is persisted can be found: every committed document is in what a   *)
(* search looks through, with the content of its row, and its ingestion is *)
(* in the trail.  Whether a strict Qdrant lets a search look is another    *)
(* question: see CreatedIdempotently.                                      *)
(***************************************************************************)
PersistedIsSearched ==
    \A x \in Documents :
        /\ content[x] # None => Searched[x] = content[x]
        /\ content[x] # None <=> x \in audit

(* Ids a search can return although no document has been persisted *)
Orphans == {x \in Documents : Searched[x] # None /\ content[x] = None}

(***************************************************************************)
(* An orphan, which a search returns without a document behind it, is one  *)
(* whose ingestion is still going on or was ended by a failure, or by the  *)
(* death of the API process, which may leave one for every handler it ran. *)
(***************************************************************************)
OrphansAccounted ==
    LET AtWork == {h \in Handlers : ingest[h].pc \in {"sent", "indexed"}} IN
    Cardinality(Orphans) <= Cardinality(AtWork) + failures + deaths * Cardinality(Handlers)

(***************************************************************************)
(* An ingestion is given up only where something fails: that the           *)
(* collection exists already is no reason to refuse a document.  This is   *)
(* "the collection is created idempotently on first memory operation" of   *)
(* docs/DEPLOYMENT.md, and is not so if Qdrant is strict.                  *)
(***************************************************************************)
CreatedIdempotently ==
    [][\A h \in Handlers :
          ingest[h].pc = "flushed" /\ ingest'[h].pc = "idle" => faults' # faults]_vars

(* Every ingestion comes to its end. *)
IngestionEnds ==
    \A h \in Handlers : ingest[h].pc # "idle" ~> ingest[h].pc = "idle"
===============================================================================
