---------------------------- MODULE StartupProofs ----------------------------
(***************************************************************************)
(* Proofs about Startup, for any set of API processes, any settings and    *)
(* any number of commands and deaths, and about what the adapters make of  *)
(* an endpoint's answers, for any texts.                                   *)
(***************************************************************************)
EXTENDS Deployment, FoldProofs

Everyone == Apis \cup {Cli}
Begun(n) == {Revision[i] : i \in 1..n}
Gone(n) == {Teardown[i] : i \in 1..n}

Record == [pc : {"down", "upgrade", "downgrade", "create", "bootstrap", "up"},
           done : 0..Len(Teardown), missing : SUBSET Tables]

(* What the place r of process p says of a database with these objects *)
Sound(p, r, have, known) ==
    /\ r.pc = "upgrade" => r.done <= 8 /\ Begun(r.done) \subseteq have
    /\ r.pc = "downgrade" => p = Cli /\ known /\ have \cap Gone(r.done) = {}
    /\ r.pc = "create" => Tables \ r.missing \subseteq have
    /\ r.pc \in {"bootstrap", "up"} /\ settings.auto_create_schema => Tables \subseteq have
    /\ r.pc \in {"create", "bootstrap", "up"} => p # Cli /\ (container => known)

ProcSound == \A p \in Everyone : Sound(p, proc[p], objects, stamped)

(* An alembic command has the database to itself. *)
Alone == Maintained => Stopped /\ worker = "created"

(* A worker that has once been up found the schema. *)
WorkerSound ==
    worker # "created" =>
        container /\ stamped /\ (settings.auto_create_schema => Tables \subseteq objects)

IInv ==
    TypeOK /\ objects \subseteq All /\ SchemaSound /\ ProcSound /\ Alone /\ WorkerSound

----------------------------------------------------------------------------
(* The revision *)

LEMMA Lengths ==
    /\ DOMAIN Revision = 1..8 /\ Len(Revision) = 8
    /\ DOMAIN Teardown = 1..12 /\ Len(Teardown) = 12
BY DEF Revision, Teardown

LEMMA TablesAre ==
    Tables = {"users", "agents", "missions", "documents", "workflow_steps",
              "approvals", "handoffs", "audit_events"}
<1>1. DOMAIN Revision = {1, 2, 3, 4, 5, 6, 7, 8}
  BY Lengths
<1>. QED  BY <1>1 DEF Tables, Revision

LEMMA TypesAre ==
    AllTypes = {"role", "missionstatus", "stepstatus", "approvalstatus"}
BY TablesAre DEF AllTypes, Types

LEMMA MetadataAre == Metadata = Tables
BY TablesAre DEF Metadata

(* No type has the name of a table. *)
LEMMA TypesApart == Tables \cap AllTypes = {}
BY TablesAre, TypesAre

LEMMA RevisionCovers ==
    /\ \A i \in 1..8 : Revision[i] \in Tables
    /\ \A t \in Tables : \E i \in 1..8 : Revision[i] = t
    /\ \A i, j \in 1..8 : Revision[i] = Revision[j] => i = j
<1>1. \A i \in 1..8 : Revision[i] \in Tables
  BY Lengths DEF Tables
<1>2. \A t \in Tables : \E i \in 1..8 : Revision[i] = t
  BY Lengths DEF Tables
<1>3. \A i, j \in 1..8 : Revision[i] = Revision[j] => i = j
  BY DEF Revision
<1>. QED  BY <1>1, <1>2, <1>3

(* upgrade() creates a table after those it refers to. *)
LEMMA ReferencesBefore ==
    \A n \in 1..8 : References[Revision[n]] \subseteq Begun(n - 1)
<1>1. \A t \in Tables : References[t] =
        CASE t \in {"users", "agents"} -> {}
          [] t \in {"missions", "documents", "audit_events"} -> {"users"}
          [] t = "workflow_steps" -> {"missions", "agents"}
          [] t = "approvals" -> {"missions", "workflow_steps", "users"}
          [] t = "handoffs" -> {"missions", "workflow_steps"}
  BY DEF References
<1>2. TAKE n \in 1..8
<1>3. /\ Revision[1] = "users" /\ Revision[2] = "agents" /\ Revision[3] = "missions"
      /\ Revision[4] = "documents" /\ Revision[5] = "workflow_steps"
      /\ Revision[6] = "approvals" /\ Revision[7] = "handoffs" /\ Revision[8] = "audit_events"
  BY DEF Revision
<1>. QED  BY <1>1, <1>2, <1>3, TablesAre DEF Begun

(* What downgrade() drops is referred to by nothing it drops later. *)
LEMMA ReferencesDropped ==
    \A n \in 1..12, t \in Tables : Teardown[n] \in References[t] => t \in Gone(n - 1)
<1>1. \A t \in Tables : References[t] =
        CASE t \in {"users", "agents"} -> {}
          [] t \in {"missions", "documents", "audit_events"} -> {"users"}
          [] t = "workflow_steps" -> {"missions", "agents"}
          [] t = "approvals" -> {"missions", "workflow_steps", "users"}
          [] t = "handoffs" -> {"missions", "workflow_steps"}
  BY DEF References
<1>2. /\ Teardown[1] = "audit_events" /\ Teardown[2] = "handoffs"
      /\ Teardown[3] = "approvals" /\ Teardown[4] = "workflow_steps"
      /\ Teardown[5] = "documents" /\ Teardown[6] = "missions"
      /\ Teardown[7] = "agents" /\ Teardown[8] = "users"
      /\ Teardown[9] = "approvalstatus" /\ Teardown[10] = "stepstatus"
      /\ Teardown[11] = "missionstatus" /\ Teardown[12] = "role"
  BY DEF Teardown
<1>. QED  BY <1>1, <1>2, TablesAre DEF Gone

LEMMA TeardownCovers == Tables \cup AllTypes = Gone(12)
<1>1. /\ Teardown[1] = "audit_events" /\ Teardown[2] = "handoffs"
      /\ Teardown[3] = "approvals" /\ Teardown[4] = "workflow_steps"
      /\ Teardown[5] = "documents" /\ Teardown[6] = "missions"
      /\ Teardown[7] = "agents" /\ Teardown[8] = "users"
      /\ Teardown[9] = "approvalstatus" /\ Teardown[10] = "stepstatus"
      /\ Teardown[11] = "missionstatus" /\ Teardown[12] = "role"
  BY DEF Teardown
<1>2. 1..12 = {1, 2, 3, 4, 5, 6, 7, 8, 9, 10, 11, 12}
  OBVIOUS
<1>3. Gone(12) = {Teardown[1], Teardown[2], Teardown[3], Teardown[4], Teardown[5],
                  Teardown[6], Teardown[7], Teardown[8], Teardown[9], Teardown[10],
                  Teardown[11], Teardown[12]}
  BY <1>2 DEF Gone
<1>. QED  BY <1>1, <1>3, TablesAre, TypesAre

LEMMA ReferencesAreTables ==
    \A t \in Tables : References[t] \subseteq Tables \ {t}
BY TablesAre DEF References

LEMMA AllAre ==
    /\ Transactional => All = Tables \cup AllTypes
    /\ ~Transactional => All = Tables
    /\ \A t \in Tables : CreatedWith(t) \subseteq All /\ t \in CreatedWith(t)
BY DEF All, AllTypes, CreatedWith

LEMMA UpgradedAll == Upgraded(8) = objects \cup All
<1>1. \A i \in 1..8 : CreatedWith(Revision[i]) \subseteq All
  BY RevisionCovers, AllAre
<1>2. \A x \in All : \E i \in 1..8 : x \in CreatedWith(Revision[i])
  BY RevisionCovers DEF All
<1>. QED  BY <1>1, <1>2 DEF Upgraded

----------------------------------------------------------------------------
(* Init and the steps *)

LEMMA InitInv == Init => IInv
<1>. SUFFICES ASSUME Init PROVE IInv
  OBVIOUS
<1>1. TypeOK
  <2>1. Down \in [pc : {"down", "upgrade", "downgrade", "create", "bootstrap", "up"},
                  done : 0..Len(Teardown), missing : SUBSET Tables]
    BY Lengths DEF Down, At
  <2>2. 0 \in 0..MaxCommands /\ 0 \in 0..MaxCrashes
    BY StartupAssumption
  <2>. QED  BY <2>1, <2>2 DEF Init, TypeOK
<1>2. SchemaSound /\ objects \subseteq All
  BY DEF Init, SchemaSound
<1>3. ProcSound
  BY DEF Init, ProcSound, Sound, Down, At, Everyone
<1>4. Alone /\ WorkerSound
  BY StartupAssumption DEF Init, Alone, WorkerSound, Maintained, Down, At
<1>. QED  BY <1>1, <1>2, <1>3, <1>4 DEF IInv

(* What a step that leaves the settings alone keeps of the names *)
LEMMA SameSettings ==
    ASSUME settings' = settings
    PROVE  /\ Transactional' = Transactional
           /\ All' = All
           /\ \A t \in Tables : CreatedWith(t)' = CreatedWith(t)
<1>1. Transactional' = Transactional
  BY DEF Transactional
<1>2. \A t : CreatedWith(t)' = CreatedWith(t)
  BY <1>1 DEF CreatedWith
<1>3. All' = All
  BY <1>1, <1>2 DEF All
<1>. QED  BY <1>1, <1>2, <1>3

LEMMA Updated ==
    ASSUME TypeOK, NEW p \in Everyone, NEW to, Goes(p, to)
    PROVE  /\ proc'[p] = to
           /\ \A q \in Everyone : q # p => proc'[q] = proc[q]
           /\ DOMAIN proc' = Everyone
BY DEF TypeOK, Goes, Everyone

LEMMA PlacesTyped ==
    /\ Down \in Record
    /\ \A pc \in {"upgrade", "downgrade", "create", "bootstrap", "up"} :
          At(pc) \in Record /\ At(pc).pc = pc /\ At(pc).done = 0 /\ At(pc).missing = {}
    /\ Down.pc = "down"
    /\ Begun(0) = {} /\ Gone(0) = {}
BY Lengths DEF Down, At, Record, Begun, Gone

LEMMA LifespanTyped ==
    /\ Lifespan \in Record
    /\ Lifespan.pc \in {"create", "bootstrap"}
    /\ Lifespan.pc = "create" => Tables \ Lifespan.missing \subseteq objects
    /\ Lifespan.pc = "bootstrap" => ~settings.auto_create_schema
BY PlacesTyped, MetadataAre DEF Lifespan, Record, At

(***************************************************************************)
(* A step of one process that takes nothing from the database: what is     *)
(* left to show of it is where the process goes and the schema.            *)
(***************************************************************************)
LEMMA Growth ==
    ASSUME IInv, NEW p \in Everyone, NEW to \in Record,
           Goes(p, to), UNCHANGED <<settings, container, worker, commands, crashes>>,
           objects \subseteq objects', objects' \subseteq All,
           stamped' \in BOOLEAN, stamped => stamped',
           SchemaSound', Sound(p, to, objects', stamped'),
           proc[p].pc # "down" \/ (~Maintained /\ p # Cli)
    PROVE  IInv'
<1>1. /\ proc'[p] = to
      /\ \A q \in Everyone : q # p => proc'[q] = proc[q]
  BY Updated DEF IInv
<1>2. /\ All' = All
      /\ All \subseteq Tables \cup AllTypes
  BY SameSettings, AllAre
<1>3. TypeOK'
  BY <1>2 DEF IInv, TypeOK, Goes, Record, Everyone
<1>4. \A q \in Everyone : q # p => proc[q].pc # "downgrade"
  BY StartupAssumption DEF IInv, ProcSound, Sound, Alone, Stopped, Maintained, Everyone
<1>5. ProcSound'
  <2>. SUFFICES ASSUME NEW q \in Everyone PROVE Sound(q, proc[q], objects, stamped)'
    BY DEF ProcSound
  <2>1. CASE q = p
    BY <2>1, <1>1 DEF Sound
  <2>2. CASE q # p
    <3>1. proc'[q] = proc[q] /\ Sound(q, proc[q], objects, stamped)
      BY <2>2, <1>1 DEF IInv, ProcSound
    <3>. QED  BY <2>2, <3>1, <1>4 DEF Sound
  <2>. QED  BY <2>1, <2>2
<1>6. Alone'
  BY <1>1, StartupAssumption DEF IInv, Alone, Stopped, Maintained, Everyone
<1>7. WorkerSound'
  BY DEF IInv, WorkerSound
<1>. QED  BY <1>2, <1>3, <1>5, <1>6, <1>7 DEF IInv

(* The schema is as sound as before if nothing of it changes. *)
LEMMA SameSchema ==
    ASSUME IInv, UNCHANGED <<settings, objects, stamped>>
    PROVE  SchemaSound' /\ objects' \subseteq All /\ stamped' \in BOOLEAN
BY SameSettings DEF IInv, SchemaSound, TypeOK

LEMMA StartInv ==
    ASSUME IInv, NEW p \in Apis, Start(p)
    PROVE  IInv'
<1>1. /\ UNCHANGED <<settings, container, objects, stamped, worker, commands, crashes>>
      /\ ~Maintained /\ proc[p].pc = "down"
  BY DEF Start
<1>2. p \in Everyone /\ p # Cli
  BY StartupAssumption DEF Everyone
<1>3. PICK to : /\ Goes(p, to)
                /\ \/ to = Lifespan /\ (container => stamped)
                   \/ to = At("upgrade")
  BY DEF Start
<1>4. to \in Record /\ Sound(p, to, objects, stamped)
  BY <1>2, <1>3, LifespanTyped, PlacesTyped DEF Sound
<1>. QED  BY <1>1, <1>2, <1>3, <1>4, SameSchema, Growth

LEMMA CommandInv ==
    ASSUME IInv, Command
    PROVE  IInv'
<1>1. /\ UNCHANGED <<settings, container, objects, stamped, crashes>>
      /\ Stopped /\ ~Maintained
      /\ worker' = "created"
      /\ commands' \in 0..MaxCommands
  BY StartupAssumption DEF Command, IInv, TypeOK
<1>2. PICK to : /\ Goes(Cli, to)
                /\ to = At("upgrade") \/ (to = At("downgrade") /\ stamped)
  <2>1. CASE Goes(Cli, At("upgrade"))
    BY <2>1
  <2>2. CASE stamped /\ Goes(Cli, At("downgrade"))
    BY <2>2
  <2>. QED  BY <2>1, <2>2 DEF Command
<1>3. to \in Record /\ Sound(Cli, to, objects, stamped) /\ Cli \in Everyone
  BY <1>2, PlacesTyped DEF Sound, Everyone
<1>4. /\ proc'[Cli] = to
      /\ \A q \in Everyone : q # Cli => proc'[q] = proc[q]
  BY <1>2, <1>3, Updated DEF IInv
<1>5. SchemaSound' /\ (objects \subseteq All)'
  <2>1. All' = All
    BY <1>1, SameSettings
  <2>. QED  BY <1>1, <2>1, SameSchema
<1>6. TypeOK'
  BY <1>1, <1>2, <1>3 DEF IInv, TypeOK, Goes, Record, Everyone
<1>7. ProcSound'
  BY <1>1, <1>3, <1>4 DEF IInv, ProcSound, Sound
<1>8. Alone' /\ WorkerSound'
  BY <1>1, <1>4, StartupAssumption DEF Alone, WorkerSound, Stopped, Everyone
<1>. QED  BY <1>5, <1>6, <1>7, <1>8 DEF IInv

(* Where a process goes when the revision has been recorded *)
LEMMA AfterMigrationSound ==
    ASSUME NEW p \in Everyone, NEW have, Tables \subseteq have, objects \subseteq have
    PROVE  AfterMigration(p) \in Record /\ Sound(p, AfterMigration(p), have, TRUE)
<1>1. CASE p = Cli
  BY <1>1, PlacesTyped DEF AfterMigration, Sound
<1>2. CASE p # Cli
  BY <1>2, LifespanTyped DEF AfterMigration, Sound
<1>. QED  BY <1>1, <1>2

LEMMA UpgradeAtOnceInv ==
    ASSUME IInv, NEW p \in Everyone, UpgradeAtOnce(p)
    PROVE  IInv'
<1>1. /\ UNCHANGED <<settings, container, worker, commands, crashes>>
      /\ proc[p].pc = "upgrade" /\ Transactional
  BY DEF UpgradeAtOnce
<1>2. CASE \A n \in DOMAIN Revision : CanCreate(Revision[n], Upgraded(n - 1))
  <2>1. /\ objects' = objects \cup All /\ stamped' = TRUE
        /\ Goes(p, AfterMigration(p))
    BY <1>2, UpgradedAll, Lengths DEF UpgradeAtOnce
  <2>2. objects' = All /\ Tables \subseteq objects' /\ objects \subseteq objects'
    BY <2>1, <1>1, AllAre DEF IInv
  <2>3. AfterMigration(p) \in Record /\ Sound(p, AfterMigration(p), objects', TRUE)
    BY <2>2, AfterMigrationSound
  <2>4. SchemaSound'
    BY <1>1, <2>1, <2>2, SameSettings, ReferencesAreTables DEF SchemaSound
  <2>. QED  BY <1>1, <2>1, <2>2, <2>3, <2>4, Growth
<1>3. CASE ~\A n \in DOMAIN Revision : CanCreate(Revision[n], Upgraded(n - 1))
  <2>1. Goes(p, Down) /\ UNCHANGED <<objects, stamped>>
    BY <1>3 DEF UpgradeAtOnce
  <2>2. Down \in Record /\ Sound(p, Down, objects, stamped)
    BY PlacesTyped DEF Sound
  <2>. QED  BY <1>1, <2>1, <2>2, SameSchema, Growth
<1>. QED  BY <1>2, <1>3

LEMMA UpgradeTableInv ==
    ASSUME IInv, NEW p \in Everyone, UpgradeTable(p)
    PROVE  IInv'
<1>1. PICK n : n = proc[p].done + 1
  OBVIOUS
<1>2. /\ UNCHANGED <<settings, container, stamped, worker, commands, crashes>>
      /\ proc[p].pc = "upgrade" /\ ~Transactional /\ n \in 1..8
  BY <1>1, Lengths DEF UpgradeTable
<1>3. CASE CanCreate(Revision[n], objects)
  <2>1. /\ objects' = objects \cup CreatedWith(Revision[n])
        /\ Goes(p, [proc[p] EXCEPT !.done = n])
    BY <1>1, <1>2, <1>3, Lengths DEF UpgradeTable
  <2>2. /\ proc[p] \in Record
        /\ Begun(n - 1) \subseteq objects
    BY <1>1, <1>2 DEF IInv, TypeOK, ProcSound, Sound, Record, Everyone
  <2>3. CreatedWith(Revision[n]) = {Revision[n]} /\ Revision[n] \in Tables
    BY <1>2, RevisionCovers DEF CreatedWith
  <2>4. Begun(n) = Begun(n - 1) \cup {Revision[n]}
    BY <1>2 DEF Begun
  <2>5. [proc[p] EXCEPT !.done = n] \in Record
    BY <1>2, <2>2, Lengths DEF Record
  <2>6. Sound(p, [proc[p] EXCEPT !.done = n], objects', stamped')
    BY <1>2, <2>1, <2>2, <2>3, <2>4 DEF Sound, Record
  <2>7. SchemaSound'
    <3>1. References[Revision[n]] \subseteq objects
      BY <1>2, <2>2, ReferencesBefore
    <3>2. ~Transactional'
      BY <1>2 DEF Transactional
    <3>. QED  BY <2>1, <2>3, <3>1, <3>2 DEF IInv, SchemaSound
  <2>8. objects' \subseteq All
    BY <1>2, <2>1, <2>3, AllAre DEF IInv
  <2>9. stamped' \in BOOLEAN
    BY <1>2 DEF IInv, TypeOK
  <2>. QED  BY <1>2, <2>1, <2>5, <2>6, <2>7, <2>8, <2>9, Growth
<1>4. CASE ~CanCreate(Revision[n], objects)
  <2>1. Goes(p, Down) /\ UNCHANGED objects
    BY <1>1, <1>4 DEF UpgradeTable
  <2>2. Down \in Record /\ Sound(p, Down, objects, stamped)
    BY PlacesTyped DEF Sound
  <2>. QED  BY <1>2, <2>1, <2>2, SameSchema, Growth
<1>. QED  BY <1>3, <1>4

(* Every table has been created when the last has. *)
LEMMA BegunAll == Begun(8) = Tables
BY RevisionCovers DEF Begun

LEMMA StampInv ==
    ASSUME IInv, NEW p \in Everyone, Stamp(p)
    PROVE  IInv'
<1>1. /\ UNCHANGED <<settings, container, objects, worker, commands, crashes>>
      /\ proc[p].pc = "upgrade" /\ ~Transactional /\ proc[p].done = 8
      /\ stamped' = TRUE /\ Goes(p, AfterMigration(p))
  BY Lengths DEF Stamp
<1>2. Tables \subseteq objects
  BY <1>1, BegunAll DEF IInv, ProcSound, Sound
<1>3. AfterMigration(p) \in Record /\ Sound(p, AfterMigration(p), objects, TRUE)
  BY <1>2, AfterMigrationSound
<1>4. SchemaSound'
  <2>1. ~Transactional'
    BY <1>1 DEF Transactional
  <2>. QED  BY <1>1, <2>1 DEF IInv, SchemaSound
<1>5. objects' \subseteq All
  BY <1>1 DEF IInv
<1>. QED  BY <1>1, <1>3, <1>4, <1>5, Growth

LEMMA BootstrapInv ==
    ASSUME IInv, NEW p \in Apis, Bootstrap(p)
    PROVE  IInv'
<1>1. /\ UNCHANGED <<settings, container, objects, stamped, worker, commands, crashes>>
      /\ proc[p].pc = "bootstrap"
      /\ p \in Everyone
  BY DEF Bootstrap, Everyone
<1>2. PICK to : Goes(p, to) /\ to \in {At("up"), Down}
  BY DEF Bootstrap
<1>3. Sound(p, proc[p], objects, stamped)
  BY <1>1 DEF IInv, ProcSound
<1>4. to \in Record /\ Sound(p, to, objects, stamped)
  BY <1>1, <1>2, <1>3, PlacesTyped DEF Sound
<1>. QED  BY <1>1, <1>2, <1>4, SameSchema, Growth

LEMMA CreateAllInv ==
    ASSUME IInv, NEW p \in Apis, CreateAll(p)
    PROVE  IInv'
<1>1. PICK todo : todo = proc[p].missing
  OBVIOUS
<1>2. /\ UNCHANGED <<settings, container, stamped, worker, commands, crashes>>
      /\ proc[p].pc = "create"
      /\ p \in Everyone
  BY DEF CreateAll, Everyone
<1>3. Sound(p, proc[p], objects, stamped) /\ proc[p] \in Record
  BY <1>2 DEF IInv, ProcSound, TypeOK, Record, Everyone
<1>4. Tables \ todo \subseteq objects /\ todo \subseteq Tables
  BY <1>1, <1>2, <1>3 DEF Sound, Record
<1>5. stamped' \in BOOLEAN
  BY <1>2 DEF IInv, TypeOK
<1>6. ASSUME Goes(p, Down), UNCHANGED objects
      PROVE  IInv'
  <2>1. Down \in Record /\ Sound(p, Down, objects, stamped)
    BY PlacesTyped DEF Sound
  <2>. QED  BY <1>2, <1>6, <2>1, SameSchema, Growth
<1>7. CASE todo = {} /\ Goes(p, At("bootstrap")) /\ UNCHANGED objects
  <2>1. At("bootstrap") \in Record /\ Sound(p, At("bootstrap"), objects, stamped)
    BY <1>2, <1>3, <1>4, <1>7, PlacesTyped DEF Sound
  <2>. QED  BY <1>2, <1>7, <2>1, SameSchema, Growth
<1>8. CASE /\ todo # {} /\ Transactional /\ todo \cap objects = {}
           /\ objects' = objects \cup UNION {CreatedWith(t) : t \in todo}
           /\ Goes(p, At("bootstrap"))
  <2>1. objects = {} /\ todo = Tables
    BY <1>4, <1>8, AllAre DEF IInv, SchemaSound
  <2>2. objects' = All /\ Tables \subseteq objects'
    BY <1>8, <2>1, AllAre DEF All
  <2>3. At("bootstrap") \in Record /\ Sound(p, At("bootstrap"), objects', stamped')
    BY <1>2, <1>3, <2>2, PlacesTyped DEF Sound
  <2>4. SchemaSound'
    BY <1>2, <2>2, SameSettings, ReferencesAreTables DEF SchemaSound
  <2>. QED  BY <1>2, <1>5, <1>8, <2>1, <2>2, <2>3, <2>4, Growth
<1>9. ASSUME NEW t \in todo, ~Transactional, References[t] \cap todo = {}, t \notin objects,
             objects' = objects \cup {t}, Goes(p, [proc[p] EXCEPT !.missing = todo \ {t}])
      PROVE  IInv'
  <2>1. [proc[p] EXCEPT !.missing = todo \ {t}] \in Record
    BY <1>3, <1>4 DEF Record
  <2>2. Sound(p, [proc[p] EXCEPT !.missing = todo \ {t}], objects', stamped')
    BY <1>2, <1>3, <1>4, <1>9 DEF Sound, Record
  <2>3. References[t] \subseteq objects
    BY <1>4, <1>9, ReferencesAreTables
  <2>4. ~Transactional'
    BY <1>2, <1>9 DEF Transactional
  <2>5. SchemaSound'
    BY <1>9, <2>3, <2>4 DEF IInv, SchemaSound
  <2>6. objects' \subseteq All
    BY <1>4, <1>9, AllAre DEF IInv
  <2>. QED  BY <1>2, <1>5, <1>9, <2>1, <2>2, <2>5, <2>6, Growth
<1>. QED  BY <1>1, <1>6, <1>7, <1>8, <1>9 DEF CreateAll

(* A step that takes something from the database is the administrator's, *)
(* who has it to itself.                                                   *)
LEMMA AloneSteps ==
    ASSUME IInv, NEW to \in Record, Goes(Cli, to), proc[Cli].pc = "downgrade",
           UNCHANGED <<settings, container, worker, commands, crashes>>,
           objects' \subseteq objects, stamped' \in BOOLEAN,
           SchemaSound', Sound(Cli, to, objects', stamped')
    PROVE  IInv'
<1>1. /\ Cli \in Everyone
      /\ proc'[Cli] = to
      /\ \A q \in Everyone : q # Cli => proc'[q] = proc[q] /\ proc[q].pc = "down"
      /\ worker = "created" /\ Stopped
  BY Updated DEF IInv, Alone, Maintained, Stopped, Everyone
<1>2. All' = All /\ All \subseteq Tables \cup AllTypes
  BY SameSettings, AllAre
<1>3. TypeOK'
  BY <1>2 DEF IInv, TypeOK, Goes, Record, Everyone
<1>4. ProcSound'
  BY <1>1 DEF ProcSound, Sound
<1>5. Alone' /\ WorkerSound'
  BY <1>1, StartupAssumption DEF Alone, WorkerSound, Stopped, Everyone
<1>. QED  BY <1>2, <1>3, <1>4, <1>5 DEF IInv

LEMMA DowngradeAtOnceInv ==
    ASSUME IInv, DowngradeAtOnce
    PROVE  IInv'
<1>1. /\ UNCHANGED <<settings, container, worker, commands, crashes>>
      /\ proc[Cli].pc = "downgrade" /\ Transactional /\ Goes(Cli, Down)
  BY DEF DowngradeAtOnce
<1>2. \/ objects' = Dropped(12) /\ stamped' = FALSE
      \/ UNCHANGED <<objects, stamped>>
  BY Lengths DEF DowngradeAtOnce
<1>3. objects' \subseteq objects /\ SchemaSound' /\ stamped' \in BOOLEAN
  <2>1. CASE UNCHANGED <<objects, stamped>>
    BY <1>1, <2>1, SameSchema
  <2>2. CASE objects' = Dropped(12) /\ stamped' = FALSE
    <3>1. objects' = {}
      BY <2>2, TeardownCovers DEF Dropped, Gone, IInv, TypeOK
    <3>. QED  BY <2>2, <3>1 DEF SchemaSound
  <2>. QED  BY <1>2, <2>1, <2>2
<1>4. Down \in Record /\ Sound(Cli, Down, objects', stamped')
  BY PlacesTyped DEF Sound
<1>. QED  BY <1>1, <1>3, <1>4, AloneSteps

LEMMA DowngradeTableInv ==
    ASSUME IInv, DowngradeTable
    PROVE  IInv'
<1>1. PICK n : n = proc[Cli].done + 1
  OBVIOUS
<1>2. /\ UNCHANGED <<settings, container, worker, commands, crashes>>
      /\ proc[Cli].pc = "downgrade" /\ ~Transactional /\ ~Transactional'
  BY DEF DowngradeTable, Transactional
<1>3. /\ proc[Cli] \in Record /\ stamped \in BOOLEAN
      /\ Sound(Cli, proc[Cli], objects, stamped)
  BY DEF IInv, TypeOK, ProcSound, Record, Everyone
<1>4. n \in 1..13
  BY <1>1, <1>3, Lengths DEF Record
<1>5. Down \in Record /\ \A have, known : Sound(Cli, Down, have, known)
  BY PlacesTyped DEF Sound
<1>6. CASE n \notin 1..12
  <2>1. stamped' = FALSE /\ Goes(Cli, Down) /\ UNCHANGED objects
    BY <1>1, <1>6, Lengths DEF DowngradeTable
  <2>2. SchemaSound'
    BY <1>2, <2>1 DEF IInv, SchemaSound
  <2>. QED  BY <1>2, <1>5, <2>1, <2>2, AloneSteps
<1>7. CASE n \in 1..12 /\ CanDrop(Teardown[n], objects)
  <2>1. /\ UNCHANGED stamped
        /\ objects' = objects \ {Teardown[n]}
        /\ Goes(Cli, [proc[Cli] EXCEPT !.done = n])
    BY <1>1, <1>7, Lengths DEF DowngradeTable
  <2>2. [proc[Cli] EXCEPT !.done = n] \in Record
    BY <1>3, <1>7, Lengths DEF Record
  <2>3. objects \cap Gone(n - 1) = {}
    BY <1>1, <1>2, <1>3, <1>4 DEF Sound, Record
  <2>4. Gone(n) = Gone(n - 1) \cup {Teardown[n]}
    BY <1>7 DEF Gone
  <2>5. Sound(Cli, [proc[Cli] EXCEPT !.done = n], objects', stamped')
    BY <1>2, <1>3, <2>1, <2>3, <2>4 DEF Sound, Record
  <2>6. SchemaSound'
    <3>1. \A t \in Tables \cap objects : Teardown[n] \notin References[t]
      BY <1>7, <2>3, ReferencesDropped
    <3>. QED  BY <1>2, <2>1, <3>1 DEF IInv, SchemaSound
  <2>. QED  BY <1>2, <1>3, <2>1, <2>2, <2>5, <2>6, AloneSteps
<1>8. CASE n \in 1..12 /\ ~CanDrop(Teardown[n], objects)
  <2>1. UNCHANGED <<stamped, objects>> /\ Goes(Cli, Down)
    BY <1>1, <1>8, Lengths DEF DowngradeTable
  <2>. QED  BY <1>2, <1>3, <1>5, <2>1, SameSchema, AloneSteps
<1>. QED  BY <1>6, <1>7, <1>8

LEMMA StartWorkerInv ==
    ASSUME IInv, StartWorker
    PROVE  IInv'
<1>1. /\ UNCHANGED <<settings, container, objects, stamped, proc, commands, crashes>>
      /\ container /\ ~Maintained /\ worker' = "up"
      /\ worker = "created" => \E p \in Apis : proc[p].pc = "up"
  BY DEF StartWorker, Ready
<1>2. SchemaSound' /\ (objects \subseteq All)'
  <2>1. All' = All
    BY <1>1, SameSettings
  <2>. QED  BY <1>1, <2>1, SameSchema
<1>3. TypeOK'
  BY <1>1 DEF IInv, TypeOK
<1>4. ProcSound' /\ Alone'
  BY <1>1 DEF IInv, ProcSound, Sound, Alone, Maintained
<1>5. WorkerSound'
  BY <1>1 DEF IInv, WorkerSound, ProcSound, Sound, Everyone
<1>. QED  BY <1>2, <1>3, <1>4, <1>5 DEF IInv

LEMMA CrashInv ==
    ASSUME IInv, Crash
    PROVE  IInv'
<1>1. /\ UNCHANGED <<settings, container, objects, stamped, commands>>
      /\ crashes' \in 0..MaxCrashes
  BY StartupAssumption DEF Crash, IInv, TypeOK
<1>2. SchemaSound' /\ (objects \subseteq All)'
  <2>1. All' = All
    BY <1>1, SameSettings
  <2>. QED  BY <1>1, <2>1, SameSchema
<1>3. CASE worker = "up" /\ worker' = "down" /\ UNCHANGED proc
  <2>1. TypeOK'
    BY <1>1, <1>3 DEF IInv, TypeOK
  <2>2. ProcSound' /\ Alone' /\ WorkerSound'
    BY <1>1, <1>3 DEF IInv, ProcSound, Sound, Alone, Stopped, Maintained, WorkerSound
  <2>. QED  BY <1>2, <2>1, <2>2 DEF IInv
<1>4. ASSUME NEW p \in Everyone, proc[p].pc # "down", Goes(p, Down), UNCHANGED worker
      PROVE  IInv'
  <2>1. /\ proc'[p] = Down /\ Down \in Record /\ Down.pc = "down"
        /\ \A q \in Everyone : q # p => proc'[q] = proc[q]
    BY <1>4, Updated, PlacesTyped DEF IInv
  <2>2. TypeOK'
    BY <1>1, <1>4, <2>1 DEF IInv, TypeOK, Goes, Record, Everyone
  <2>3. ProcSound'
    <3>. SUFFICES ASSUME NEW q \in Everyone PROVE Sound(q, proc[q], objects, stamped)'
      BY DEF ProcSound
    <3>1. CASE q = p
      BY <2>1, <3>1 DEF Sound
    <3>2. CASE q # p
      <4>1. proc'[q] = proc[q] /\ Sound(q, proc[q], objects, stamped)
        BY <2>1, <3>2 DEF IInv, ProcSound
      <4>. QED  BY <1>1, <4>1 DEF Sound
    <3>. QED  BY <3>1, <3>2
  <2>4. Alone'
    BY <1>4, <2>1, StartupAssumption DEF IInv, Alone, Stopped, Maintained, Everyone
  <2>5. WorkerSound'
    BY <1>1, <1>4 DEF IInv, WorkerSound
  <2>. QED  BY <1>2, <2>2, <2>3, <2>4, <2>5 DEF IInv
<1>. QED  BY <1>3, <1>4 DEF Crash, Everyone

LEMMA StutterInv ==
    ASSUME IInv, UNCHANGED vars
    PROVE  IInv'
<1>1. SchemaSound' /\ (objects \subseteq All)'
  <2>1. All' = All
    BY SameSettings DEF vars
  <2>. QED  BY <2>1, SameSchema DEF vars
<1>2. TypeOK' /\ Alone' /\ WorkerSound'
  BY DEF vars, IInv, TypeOK, Alone, Maintained, Stopped, WorkerSound
<1>3. ProcSound'
  BY DEF vars, IInv, ProcSound, Sound
<1>. QED  BY <1>1, <1>2, <1>3 DEF IInv

LEMMA StepInv == IInv /\ [Next]_vars => IInv'
<1>. SUFFICES ASSUME IInv, [Next]_vars PROVE IInv'
  OBVIOUS
<1>1. ASSUME NEW p \in Apis, Proceed(p) PROVE IInv'
  <2>1. p \in Everyone
    BY DEF Everyone
  <2>. QED  BY <1>1, <2>1, StartInv, UpgradeAtOnceInv, UpgradeTableInv, StampInv,
               CreateAllInv, BootstrapInv DEF Proceed, Migrate
<1>2. ASSUME Migrate(Cli) PROVE IInv'
  <2>1. Cli \in Everyone
    BY DEF Everyone
  <2>. QED  BY <1>2, <2>1, UpgradeAtOnceInv, UpgradeTableInv, StampInv DEF Migrate
<1>3. CASE Command \/ Downgrade
  BY <1>3, CommandInv, DowngradeAtOnceInv, DowngradeTableInv DEF Downgrade
<1>4. CASE StartWorker \/ Crash
  BY <1>4, StartWorkerInv, CrashInv
<1>5. CASE UNCHANGED vars
  BY <1>5, StutterInv
<1>. QED  BY <1>1, <1>2, <1>3, <1>4, <1>5 DEF Next

(* The invariant every theorem below rests on *)
THEOREM Inductive == Spec => []IInv
BY InitInv, StepInv, PTL DEF Spec

(***************************************************************************)
(* Type correctness, for every deployment                                  *)
(***************************************************************************)
THEOREM TypeCorrect == Spec => []TypeOK
<1>1. IInv => TypeOK
  BY DEF IInv
<1>. QED  BY <1>1, Inductive, PTL

(***************************************************************************)
(* No reference dangles, whoever migrates, creates or dies when, and a     *)
(* PostgreSQL database has all of the schema or nothing.                   *)
(***************************************************************************)
THEOREM SchemaIsSound == Spec => []SchemaSound
<1>1. IInv => SchemaSound
  BY DEF IInv
<1>. QED  BY <1>1, Inductive, PTL

(***************************************************************************)
(* Whoever serves finds the tables of its handlers, but for the exceptions *)
(* ServingFindsSchema names.                                               *)
(***************************************************************************)
THEOREM ServersFindSchema == Spec => []ServingFindsSchema
<1>1. IInv => ServingFindsSchema
  <2>. SUFFICES ASSUME IInv, worker = "up" \/ \E p \in Apis : Ready(p),
                       ~(~settings.auto_create_schema /\ ~container),
                       ~(~settings.auto_create_schema /\ ~Transactional /\ stamped)
                PROVE  Complete
    BY DEF ServingFindsSchema
  <2>1. settings.auto_create_schema => Tables \subseteq objects
    BY DEF IInv, ProcSound, Sound, WorkerSound, Ready, Everyone
  <2>2. container => stamped
    BY DEF IInv, ProcSound, Sound, WorkerSound, Ready, Everyone
  <2>3. Transactional /\ stamped => Tables \subseteq objects
    BY AllAre DEF IInv, SchemaSound
  <2>4. settings.auto_create_schema \in BOOLEAN /\ container \in BOOLEAN
    BY StartupAssumption DEF IInv, TypeOK, Settings
  <2>. QED  BY <2>1, <2>2, <2>3, <2>4, MetadataAre DEF Complete
<1>. QED  BY <1>1, Inductive, PTL

----------------------------------------------------------------------------
(* Tables that alembic does not know of *)

(***************************************************************************)
(* A database with such tables never gets its revision recorded: whoever   *)
(* migrates it has not created all of them itself and will meet one of     *)
(* the others.                                                             *)
(***************************************************************************)
Doomed ==
    /\ ~stamped /\ objects # {}
    /\ \A p \in Everyone :
          proc[p].pc = "upgrade" => ~(objects \cap Tables \subseteq Begun(proc[p].done))

LEMMA HasTable == IInv /\ objects # {} => objects \cap Tables # {}
BY AllAre, TablesAre DEF IInv, SchemaSound

LEMMA OrphanedDoomed == IInv /\ Orphaned => Doomed
BY HasTable, PlacesTyped DEF Orphaned, Doomed, Everyone

(* A step after which nobody is migrating who was not, and nothing is gone *)
LEMMA DoomedKept ==
    ASSUME IInv, Doomed, ~stamped', objects \subseteq objects',
           NEW p \in Everyone, NEW to, Goes(p, to),
           to.pc = "upgrade" => to.done = 0 \/ ~(objects' \cap Tables \subseteq Begun(to.done))
    PROVE  Doomed'
<1>1. /\ proc'[p] = to
      /\ \A q \in Everyone : q # p => proc'[q] = proc[q]
  BY Updated DEF IInv
<1>2. objects' \cap Tables # {} /\ objects' # {}
  BY HasTable DEF Doomed
<1>. SUFFICES ASSUME NEW q \in Everyone, proc'[q].pc = "upgrade"
              PROVE  ~(objects' \cap Tables \subseteq Begun(proc'[q].done))
  BY <1>2 DEF Doomed
<1>3. CASE q = p
  BY <1>1, <1>2, <1>3, PlacesTyped
<1>4. CASE q # p
  BY <1>1, <1>4 DEF Doomed
<1>. QED  BY <1>3, <1>4

LEMMA DoomedMigrate ==
    ASSUME IInv, Doomed, NEW p \in Everyone, Migrate(p)
    PROVE  Doomed'
<1>1. CASE UpgradeAtOnce(p)
  <2>1. ~CanCreate(Revision[1], Upgraded(0))
    <3>1. Upgraded(0) = objects
      BY DEF Upgraded
    <3>2. objects = All
      BY <1>1 DEF UpgradeAtOnce, IInv, SchemaSound, Doomed
    <3>3. Revision[1] \in objects /\ Revision[1] \in CreatedWith(Revision[1])
      BY <3>2, RevisionCovers, AllAre
    <3>. QED  BY <3>1, <3>3 DEF CanCreate
  <2>2. UNCHANGED <<objects, stamped>> /\ Goes(p, Down)
    BY <1>1, <2>1, Lengths DEF UpgradeAtOnce
  <2>. QED  BY <2>2, PlacesTyped, DoomedKept DEF Doomed
<1>2. CASE UpgradeTable(p)
  <2>1. PICK n : n = proc[p].done + 1
    OBVIOUS
  <2>2. /\ UNCHANGED stamped
        /\ proc[p].pc = "upgrade" /\ ~Transactional /\ n \in 1..8
        /\ proc[p] \in Record
    BY <1>2, <2>1, Lengths DEF UpgradeTable, IInv, TypeOK, Record, Everyone
  <2>3. CASE CanCreate(Revision[n], objects)
    <3>1. /\ objects' = objects \cup CreatedWith(Revision[n])
          /\ Goes(p, [proc[p] EXCEPT !.done = n])
      BY <1>2, <2>1, <2>3, Lengths DEF UpgradeTable
    <3>2. Revision[n] \notin objects /\ Revision[n] \in CreatedWith(Revision[n])
      BY <2>2, <2>3, RevisionCovers, AllAre DEF CanCreate
    <3>3. Begun(n) = Begun(n - 1) \cup {Revision[n]}
      BY <2>2 DEF Begun
    <3>4. ~(objects \cap Tables \subseteq Begun(n - 1))
      BY <2>1, <2>2 DEF Doomed, Record
    <3>5. ~(objects' \cap Tables \subseteq Begun(n))
      BY <3>1, <3>2, <3>3, <3>4
    <3>. QED  BY <2>2, <3>1, <3>5, DoomedKept DEF Doomed, Record
  <2>4. CASE ~CanCreate(Revision[n], objects)
    <3>1. UNCHANGED objects /\ Goes(p, Down)
      BY <1>2, <2>1, <2>4 DEF UpgradeTable
    <3>. QED  BY <2>2, <3>1, PlacesTyped, DoomedKept DEF Doomed
  <2>. QED  BY <2>3, <2>4
<1>3. ASSUME Stamp(p) PROVE FALSE
  BY <1>3, BegunAll, Lengths DEF Stamp, Doomed
<1>. QED  BY <1>1, <1>2, <1>3 DEF Migrate

LEMMA DoomedOthers ==
    ASSUME IInv, Doomed,
           \/ \E p \in Apis : Start(p) \/ CreateAll(p) \/ Bootstrap(p)
           \/ Command \/ Crash
    PROVE  Doomed'
<1>1. UNCHANGED stamped /\ objects \subseteq objects'
  BY DEF Start, CreateAll, Bootstrap, Command, Crash
<1>. DEFINE Moves == \E p \in Everyone, to \in Record :
                      Goes(p, to) /\ (to.pc = "upgrade" => to.done = 0)
<1>2. UNCHANGED proc \/ Moves
  <2>1. ASSUME NEW p \in Apis, Start(p) PROVE Moves
    BY <2>1, LifespanTyped, PlacesTyped DEF Start, Everyone
  <2>2. ASSUME NEW p \in Apis, Bootstrap(p) PROVE Moves
    BY <2>2, PlacesTyped DEF Bootstrap, Everyone
  <2>3. ASSUME NEW p \in Apis, CreateAll(p) PROVE Moves
    <3>1. /\ p \in Everyone /\ proc[p] \in Record /\ proc[p].pc = "create"
      BY <2>3 DEF CreateAll, IInv, TypeOK, Record, Everyone
    <3>2. \A t : /\ [proc[p] EXCEPT !.missing = proc[p].missing \ {t}] \in Record
                 /\ [proc[p] EXCEPT !.missing = proc[p].missing \ {t}].pc = "create"
      BY <3>1 DEF Record
    <3>. QED  BY <2>3, <3>1, <3>2, PlacesTyped DEF CreateAll
  <2>4. ASSUME Command PROVE Moves
    BY <2>4, PlacesTyped DEF Command, Everyone
  <2>5. ASSUME Crash PROVE UNCHANGED proc \/ Moves
    BY <2>5, PlacesTyped DEF Crash, Everyone
  <2>. QED  BY <2>1, <2>2, <2>3, <2>4, <2>5
<1>3. CASE UNCHANGED proc
  BY <1>1, <1>3 DEF Doomed
<1>4. ASSUME NEW p \in Everyone, NEW to \in Record, Goes(p, to), to.pc = "upgrade" => to.done = 0
      PROVE  Doomed'
  BY <1>1, <1>4, DoomedKept DEF Doomed
<1>. QED  BY <1>2, <1>3, <1>4

LEMMA DoomedStays == IInv /\ Doomed /\ [Next]_vars => Doomed'
<1>. SUFFICES ASSUME IInv, Doomed, [Next]_vars PROVE Doomed'
  OBVIOUS
<1>1. ASSUME NEW p \in Apis, Proceed(p) PROVE Doomed'
  <2>1. p \in Everyone
    BY DEF Everyone
  <2>. QED  BY <1>1, <2>1, DoomedMigrate, DoomedOthers DEF Proceed
<1>2. ASSUME Migrate(Cli) PROVE Doomed'
  BY <1>2, DoomedMigrate DEF Everyone
<1>3. CASE Command \/ Crash
  BY <1>3, DoomedOthers
<1>4. ASSUME Downgrade PROVE FALSE
  BY <1>4 DEF Downgrade, DowngradeAtOnce, DowngradeTable, IInv, ProcSound, Sound, Doomed, Everyone
<1>5. CASE StartWorker \/ UNCHANGED vars
  BY <1>5 DEF StartWorker, vars, Doomed
<1>. QED  BY <1>1, <1>2, <1>3, <1>4, <1>5 DEF Next

(***************************************************************************)
(* Tables made by create_all, or by a SQLite migration that was cut short, *)
(* stay unknown to alembic for ever.                                       *)
(***************************************************************************)
THEOREM OrphansRemain == Spec => OrphansStayUnstamped
<1>1. Doomed => ~stamped
  BY DEF Doomed
<1>. QED  BY <1>1, Inductive, OrphanedDoomed, DoomedStays, PTL DEF Spec, OrphansStayUnstamped

----------------------------------------------------------------------------
(* What the adapters make of an answer *)

(* Whoever has started has settings the validator accepts. *)
Validated == (worker = "up" \/ \E p \in Apis : proc[p].pc # "down") => Valid(settings)

TextsOf(items) == [i \in DOMAIN items |-> ItemTexts(items[i])]

(* An item for each of some texts *)
Pieces(texts) == [i \in DOMAIN texts |-> TextItem(Present(texts[i]))]

(* The first i of some texts *)
Prefix(texts, i) == [j \in 1..i |-> texts[j]]

LEMMA TheOfPresent == \A x : The(Present(x)) = x /\ Present(x) # Absent
BY DEF The, Present, Absent

LEMMA ItemsRead ==
    /\ \A x : ItemTexts(TextItem(Present(x))) = <<x>>
    /\ ItemTexts(TextItem(Absent)) = <<<<>>>>
    /\ ItemTexts(Refusal) = <<>>
BY TheOfPresent DEF TextItem, ItemTexts, Refusal

LEMMA PrefixSteps ==
    ASSUME NEW S, NEW texts \in Seq(S)
    PROVE  /\ Prefix(texts, 0) = <<>>
           /\ Prefix(texts, Len(texts)) = texts
           /\ \A i \in 0..Len(texts) : Prefix(texts, i) \in Seq(S)
           /\ \A i \in 1..Len(texts) :
                 Prefix(texts, i) = Prefix(texts, i - 1) \o <<texts[i]>>
<1>1. Prefix(texts, 0) = <<>> /\ Prefix(texts, Len(texts)) = texts
  BY DEF Prefix
<1>2. ASSUME NEW i \in 0..Len(texts)
      PROVE  Prefix(texts, i) \in Seq(S) /\ Len(Prefix(texts, i)) = i
  BY DEF Prefix
<1>3. ASSUME NEW i \in 1..Len(texts)
      PROVE  Prefix(texts, i) = Prefix(texts, i - 1) \o <<texts[i]>>
  <2>1. /\ Prefix(texts, i - 1) \in Seq(S) /\ Len(Prefix(texts, i - 1)) = i - 1
        /\ texts[i] \in S
    BY <1>2
  <2>2. /\ Len(Prefix(texts, i - 1) \o <<texts[i]>>) = i
        /\ Prefix(texts, i - 1) \o <<texts[i]>> \in Seq(S)
    BY <2>1
  <2>3. ASSUME NEW j \in 1..i PROVE (Prefix(texts, i - 1) \o <<texts[i]>>)[j] = texts[j]
    <3>1. CASE j = i
      BY <2>1, <3>1
    <3>2. CASE j # i
      <4>1. j \in 1..(i - 1) /\ Prefix(texts, i - 1)[j] = texts[j]
        BY <3>2 DEF Prefix
      <4>. QED  BY <2>1, <4>1
    <3>. QED  BY <3>1, <3>2
  <2>. QED  BY <2>2, <2>3 DEF Prefix
<1>. QED  BY <1>1, <1>2, <1>3

(* Lists that add nothing or the next text make up the texts. *)
LEMMA PiecesMakeTexts ==
    ASSUME NEW S, NEW texts \in Seq(S),
           NEW ss, NEW n \in Nat \ {0}, Len(ss) = n,
           NEW at \in [0..n -> 0..Len(texts)], at[0] = 0, at[n] = Len(texts),
           \A i \in 1..n : \/ at[i] = at[i - 1] /\ ss[i] = <<>>
                           \/ at[i] = at[i - 1] + 1 /\ ss[i] = <<texts[at[i]]>>
    PROVE  FlattenSeq(ss) = texts
<1>. DEFINE g == [i \in 1..n |-> Prefix(texts, at[i])]
<1>1. \A i \in 0..n : at[i] \in 0..Len(texts) /\ Prefix(texts, at[i]) \in Seq(S)
  <2>1. \A i \in 0..n : at[i] \in 0..Len(texts)
    OBVIOUS
  <2>. QED  BY <2>1, PrefixSteps
<1>2. ASSUME NEW i \in 1..n
      PROVE  Prefix(texts, at[i]) = Prefix(texts, at[i - 1]) \o ss[i]
  <2>1. i - 1 \in 0..n /\ i \in 0..n
    OBVIOUS
  <2>2. CASE at[i] = at[i - 1] /\ ss[i] = <<>>
    <3>. PICK p \in Seq(S) : p = Prefix(texts, at[i])
      BY <1>1, <2>1
    <3>. QED  BY <2>2
  <2>3. CASE at[i] = at[i - 1] + 1 /\ ss[i] = <<texts[at[i]]>>
    <3>1. at[i] \in 1..Len(texts) /\ at[i] - 1 = at[i - 1]
      BY <1>1, <2>1, <2>3
    <3>2. Prefix(texts, at[i]) = Prefix(texts, at[i] - 1) \o <<texts[at[i]]>>
      BY <3>1, PrefixSteps
    <3>. QED  BY <2>3, <3>1, <3>2, Zenon
  <2>. QED  BY <2>2, <2>3
<1>3. ss[1] = Prefix(texts, at[1])
  <2>1. CASE at[1] = 0 /\ ss[1] = <<>>
    BY <2>1, PrefixSteps
  <2>2. CASE at[1] = 1 /\ ss[1] = <<texts[1]>>
    BY <2>2 DEF Prefix
  <2>. QED  BY <2>1, <2>2
<1>4. Concatenations(ss, n, g)
  <2>1. ASSUME NEW i \in 1..n
        PROVE  Prefix(texts, at[i]) = IF i = 1 THEN ss[1] ELSE g[i - 1] \o ss[i]
    <3>1. CASE i = 1
      BY <1>3, <3>1
    <3>2. CASE i # 1
      <4>1. g[i - 1] = Prefix(texts, at[i - 1])
        BY <3>2
      <4>. HIDE DEF g
      <4>. QED  BY <1>2, <3>2, <4>1
    <3>. QED  BY <3>1, <3>2
  <2>. QED  BY <2>1 DEF Concatenations
<1>5. g[n] = texts
  BY PrefixSteps
<1>. HIDE DEF g
<1>. QED  BY <1>4, <1>5, FlattenSteps

LEMMA PiecesRead ==
    ASSUME NEW S, NEW texts \in Seq(S), texts # <<>>
    PROVE  FlattenSeq(TextsOf(Pieces(texts))) = texts
<1>. DEFINE n == Len(texts)
            ss == TextsOf(Pieces(texts))
            at == [i \in 0..n |-> i]
<1>1. n \in Nat \ {0} /\ DOMAIN texts = 1..n
  OBVIOUS
<1>2. ss = [i \in 1..n |-> <<texts[i]>>]
  BY <1>1, ItemsRead DEF TextsOf, Pieces
<1>3. Len(ss) = n
  BY <1>1, <1>2
<1>4. at \in [0..n -> 0..Len(texts)] /\ at[0] = 0 /\ at[n] = Len(texts)
  BY <1>1
<1>5. \A i \in 1..n : at[i] = at[i - 1] + 1 /\ ss[i] = <<texts[at[i]]>>
  BY <1>2
<1>. HIDE DEF at, ss, n
<1>6. FlattenSeq(ss) = texts
  BY <1>1, <1>3, <1>4, <1>5, PiecesMakeTexts
<1>. QED  BY <1>6 DEF ss

(* output holds the texts, as it is read item by item. *)
Holds(output, texts) ==
    \E items : /\ FlattenSeq(output) = items
               /\ FlattenSeq(TextsOf(items)) = texts

LEMMA HoldsRead ==
    ASSUME NEW body, body.output_text = Absent,
           NEW texts, texts # <<>>, Holds(body.output, texts)
    PROVE  OpenAIText(body) = Success(Joined(texts))
BY DEF Holds, OpenAIText, CollectedTexts, TextsOf

LEMMA OneAndOne == \A x, y : <<x>> \o <<y>> = <<x, y>>
<1>. TAKE x, y
<1>. PICK I : x \in I /\ y \in I
  <2>1. x \in {x, y} /\ y \in {x, y}
    OBVIOUS
  <2>. QED  BY <2>1
<1>. PICK p, q : p = <<x>> /\ q = <<y>>
  OBVIOUS
<1>1. /\ p \in Seq(I) /\ Len(p) = 1 /\ p[1] = x
      /\ q \in Seq(I) /\ Len(q) = 1 /\ q[1] = y
  OBVIOUS
<1>2. p \o q \in Seq(I) /\ Len(p \o q) = 2 /\ (p \o q)[1] = x /\ (p \o q)[2] = y
  BY <1>1
<1>. DEFINE both == p \o q
<1>. HIDE DEF both
<1>3. both \in Seq(I) /\ Len(both) = 2 /\ both[1] = x /\ both[2] = y
  BY <1>2 DEF both
<1>4. both = [i \in 1..2 |-> IF i = 1 THEN x ELSE y]
  BY <1>3
<1>5. <<x, y>> = [i \in 1..2 |-> IF i = 1 THEN x ELSE y]
  OBVIOUS
<1>. QED  BY <1>4, <1>5, Zenon DEF both

(* Two items of one output *)
LEMMA TwoItems ==
    ASSUME NEW x, NEW y, NEW a, NEW b,
           ItemTexts(x) = a, ItemTexts(y) = b
    PROVE  Holds(<<<<x, y>>>>, a \o b)
<1>. PICK items : items = <<x, y>>
  OBVIOUS
<1>1. DOMAIN items = 1..2 /\ items[1] = x /\ items[2] = y
  OBVIOUS
<1>2. FlattenSeq(<<items>>) = items
  BY FlattenOne
<1>3. TextsOf(items) = [i \in 1..2 |-> ItemTexts(items[i])]
  BY <1>1 DEF TextsOf
<1>4. Len(TextsOf(items)) = 2 /\ TextsOf(items)[1] = a /\ TextsOf(items)[2] = b
  <2>1. Len(TextsOf(items)) = 2
    BY <1>3
  <2>2. TextsOf(items)[1] = ItemTexts(items[1]) /\ TextsOf(items)[2] = ItemTexts(items[2])
    BY <1>3
  <2>. QED  BY <1>1, <2>1, <2>2, Zenon
<1>5. FlattenSeq(TextsOf(items)) = a \o b
  BY <1>4, FlattenTwo, Zenon
<1>. QED  BY <1>2, <1>5 DEF Holds

(* One item with a text, with an item without one after it, and without *)
LEMMA WholeHeld ==
    ASSUME NEW text
    PROVE  /\ Holds(<<<<TextItem(Present(text))>>>>, <<text>>)
           /\ Holds(<<<<TextItem(Present(text)), TextItem(Absent)>>>>, <<text, <<>>>>)
           /\ Holds(<<<<TextItem(Absent)>>>>, <<<<>>>>)
           /\ Holds(<<<<Refusal>>, <<TextItem(Absent)>>>>, <<<<>>>>)
<1>. DEFINE item == TextItem(Present(text))
            none == TextItem(Absent)
<1>1. /\ ItemTexts(item) = <<text>>
      /\ ItemTexts(none) = <<<<>>>> /\ ItemTexts(Refusal) = <<>>
  BY ItemsRead
<1>. HIDE DEF item, none
<1>2. ASSUME NEW x PROVE Holds(<<<<x>>>>, ItemTexts(x))
  <2>1. FlattenSeq(<<<<x>>>>) = <<x>>
    BY FlattenOne
  <2>2. Len(TextsOf(<<x>>)) = 1 /\ TextsOf(<<x>>)[1] = ItemTexts(x)
    BY DEF TextsOf
  <2>3. FlattenSeq(TextsOf(<<x>>)) = ItemTexts(x)
    BY <2>2, FlattenOne
  <2>. QED  BY <2>1, <2>3 DEF Holds
<1>3. Holds(<<<<item, none>>>>, <<text>> \o <<<<>>>>)
  BY <1>1, TwoItems
<1>4. <<text>> \o <<<<>>>> = <<text, <<>>>>
  BY OneAndOne
<1>5. Holds(<<<<Refusal>>, <<none>>>>, <<<<>>>>)
  <2>1. FlattenSeq(<<<<Refusal>>, <<none>>>>) = <<Refusal>> \o <<none>>
    <3>. PICK ss : ss = <<<<Refusal>>, <<none>>>>
      OBVIOUS
    <3>1. Len(ss) = 2
      OBVIOUS
    <3>2. ss[1] = <<Refusal>> /\ ss[2] = <<none>>
      OBVIOUS
    <3>3. FlattenSeq(ss) = ss[1] \o ss[2]
      BY <3>1, FlattenTwo
    <3>. QED  BY <3>2, <3>3, Zenon
  <2>2. <<Refusal>> \o <<none>> = <<Refusal, none>>
    BY OneAndOne
  <2>3. Holds(<<<<Refusal, none>>>>, <<>> \o <<<<>>>>)
    BY <1>1, TwoItems
  <2>4. FlattenSeq(<<<<Refusal, none>>>>) = <<Refusal, none>>
    BY FlattenOne
  <2>5. <<>> \o <<<<>>>> = <<<<>>>>
    OBVIOUS
  <2>. QED  BY <2>1, <2>2, <2>3, <2>4, <2>5 DEF Holds
<1>6. Holds(<<<<item>>>>, <<text>>) /\ Holds(<<<<none>>>>, <<<<>>>>)
  BY <1>1, <1>2, Zenon
<1>7. Holds(<<<<item, none>>>>, <<text, <<>>>>)
  BY <1>3, <1>4, Zenon
<1>. QED  BY <1>5, <1>6, <1>7 DEF item, none

(* One output with the pieces, alone, after an empty one or after a refusal *)
LEMMA PiecesHeld ==
    ASSUME NEW S, NEW texts \in Seq(S), texts # <<>>
    PROVE  /\ Holds(<<Pieces(texts)>>, texts)
           /\ Holds(<<<<>>, Pieces(texts)>>, texts)
           /\ Holds(<<<<Refusal>> \o Pieces(texts)>>, texts)
<1>. DEFINE n == Len(texts)
            pieces == Pieces(texts)
<1>1. n \in Nat \ {0} /\ DOMAIN texts = 1..n /\ DOMAIN pieces = 1..n
  BY DEF Pieces
<1>2. PICK I : pieces \in Seq(I) /\ Refusal \in I
  <2>. DEFINE I == {pieces[i] : i \in 1..n} \cup {Refusal}
  <2>1. pieces \in Seq(I)
    BY <1>1 DEF Pieces
  <2>. QED  BY <2>1
<1>3. FlattenSeq(TextsOf(pieces)) = texts
  BY PiecesRead
<1>4. \A i \in 1..n : ItemTexts(pieces[i]) = <<texts[i]>>
  BY <1>1, ItemsRead DEF Pieces
<1>. HIDE DEF n, pieces
<1>6. FlattenSeq(<<pieces>>) = pieces
  BY FlattenOne
<1>7. FlattenSeq(<<<<>>, pieces>>) = pieces
  <2>1. FlattenSeq(<<<<>>, pieces>>) = <<>> \o pieces
    <3>. PICK ss : ss = <<<<>>, pieces>>
      OBVIOUS
    <3>1. Len(ss) = 2
      OBVIOUS
    <3>2. ss[1] = <<>> /\ ss[2] = pieces
      OBVIOUS
    <3>3. FlattenSeq(ss) = ss[1] \o ss[2]
      BY <3>1, FlattenTwo
    <3>. QED  BY <3>2, <3>3, Zenon
  <2>2. <<>> \o pieces = pieces
    BY <1>2
  <2>. QED  BY <2>1, <2>2
<1>8. Holds(<<<<Refusal>> \o pieces>>, texts)
  <2>. PICK items : items = <<Refusal>> \o pieces
    OBVIOUS
  <2>. DEFINE ss == TextsOf(items)
              at == [i \in 0..(n + 1) |-> IF i = 0 THEN 0 ELSE i - 1]
  <2>1. /\ Len(pieces) = n
        /\ items \in Seq(I) /\ Len(items) = n + 1
        /\ items[1] = Refusal
        /\ \A i \in 2..(n + 1) : items[i] = pieces[i - 1]
    BY <1>1, <1>2
  <2>2. DOMAIN items = 1..(n + 1)
    BY <1>1, <2>1
  <2>3. ss[1] = <<>> /\ \A i \in 2..(n + 1) : ss[i] = <<texts[i - 1]>>
    <3>1. ss[1] = ItemTexts(Refusal)
      BY <1>1, <2>1, <2>2 DEF TextsOf
    <3>2. ASSUME NEW i \in 2..(n + 1) PROVE ss[i] = ItemTexts(pieces[i - 1])
      BY <1>1, <2>1, <2>2 DEF TextsOf
    <3>. HIDE DEF ss
    <3>. QED  BY <1>1, <1>4, <3>1, <3>2, ItemsRead
  <2>4. Len(ss) = n + 1
    BY <1>1, <2>2 DEF TextsOf
  <2>5. at \in [0..(n + 1) -> 0..Len(texts)] /\ at[0] = 0 /\ at[n + 1] = Len(texts)
    BY <1>1 DEF n
  <2>6. \A i \in 1..(n + 1) : \/ at[i] = at[i - 1] /\ ss[i] = <<>>
                              \/ at[i] = at[i - 1] + 1 /\ ss[i] = <<texts[at[i]]>>
    <3>1. at[0] = 0 /\ at[1] = 0 /\ \A i \in 2..(n + 1) : at[i] = i - 1 /\ at[i - 1] = i - 2
      BY <1>1
    <3>. HIDE DEF at, ss
    <3>. QED  BY <1>1, <2>3, <3>1
  <2>. HIDE DEF at, ss
  <2>7. PICK m \in Nat \ {0} : m = n + 1
    BY <1>1
  <2>8. FlattenSeq(ss) = texts
    BY <2>4, <2>5, <2>6, <2>7, PiecesMakeTexts
  <2>9. FlattenSeq(<<items>>) = items
    BY FlattenOne
  <2>. QED  BY <2>8, <2>9 DEF Holds, ss
<1>9. Holds(<<pieces>>, texts) /\ Holds(<<<<>>, pieces>>, texts)
  BY <1>3, <1>6, <1>7 DEF Holds
<1>. QED  BY <1>8, <1>9 DEF pieces

LEMMA Halves ==
    \A i \in Int : /\ (2 * i) \div 2 = i /\ (2 * i) % 2 = 0
                  /\ (2 * i - 1) \div 2 = i - 1 /\ (2 * i - 1) % 2 = 1
OBVIOUS

LEMMA EvenOrOdd == \A j \in Int : \E i \in Int : j = 2 * i - 1 \/ j = 2 * i
<1>. TAKE j \in Int
<1>1. CASE j % 2 = 0
  BY <1>1
<1>2. CASE j % 2 = 1
  <2>1. j = 2 * (j \div 2 + 1) - 1 /\ j \div 2 + 1 \in Int
    BY <1>2
  <2>. QED  BY <2>1
<1>. QED  BY <1>1, <1>2

LEMMA TwoMore ==
    ASSUME NEW I, NEW s \in Seq(I), NEW x \in I, NEW y \in I
    PROVE  LET both == s \o <<x, y>> IN
           /\ both \in Seq(I) /\ Len(both) = Len(s) + 2
           /\ \A j \in 1..Len(s) : both[j] = s[j]
           /\ both[Len(s) + 1] = x /\ both[Len(s) + 2] = y
OBVIOUS

(* An output for each piece, and a refusal before it *)
LEMMA OutputsHeld ==
    ASSUME NEW S, NEW texts \in Seq(S), texts # <<>>
    PROVE  Holds([i \in DOMAIN texts |-> <<Refusal, Pieces(texts)[i]>>], texts)
<1>. DEFINE n == Len(texts)
            pieces == Pieces(texts)
            output == [i \in DOMAIN texts |-> <<Refusal, pieces[i]>>]
            Item(j) == IF j % 2 = 1 THEN Refusal ELSE pieces[j \div 2]
            First(i) == [j \in 1..(2 * i) |-> Item(j)]
<1>1. n \in Nat \ {0} /\ DOMAIN texts = 1..n /\ DOMAIN pieces = 1..n
  BY DEF Pieces
<1>2. \A i \in 1..n : ItemTexts(pieces[i]) = <<texts[i]>>
  BY <1>1, ItemsRead DEF Pieces
<1>3. /\ \A i \in 1..n : Item(2 * i - 1) = Refusal /\ Item(2 * i) = pieces[i]
      /\ \A j \in 1..(2 * n) : \E i \in 1..n : j = 2 * i - 1 \/ j = 2 * i
  <2>1. \A i \in 1..n : (2 * i - 1) % 2 = 1 /\ (2 * i) % 2 # 1 /\ (2 * i) \div 2 = i
    BY <1>1
  <2>2. ASSUME NEW j \in 1..(2 * n) PROVE \E i \in 1..n : j = 2 * i - 1 \/ j = 2 * i
    <3>1. j \in Int
      OBVIOUS
    <3>2. PICK i \in Int : j = 2 * i - 1 \/ j = 2 * i
      BY <3>1, EvenOrOdd
    <3>. QED  BY <1>1, <3>2
  <2>. HIDE DEF n, pieces
  <2>. QED  BY <2>1, <2>2
<1>4. output = [i \in 1..n |-> <<Refusal, pieces[i]>>] /\ Len(output) = n
  BY <1>1
<1>. DEFINE I == {pieces[i] : i \in 1..n} \cup {Refusal}
<1>5. \A i \in 0..n : First(i) \in Seq(I) /\ Len(First(i)) = 2 * i
  <2>1. \A j \in 1..(2 * n) : Item(j) \in I
    <3>. HIDE DEF n, pieces, Item
    <3>. QED  BY <1>3
  <2>. HIDE DEF n, pieces, Item, I
  <2>2. TAKE i \in 0..n
  <2>3. 2 * i \in Nat /\ \A j \in 1..(2 * i) : Item(j) \in I
    BY <1>1, <2>1
  <2>. QED  BY <2>3
<1>. HIDE DEF n, pieces, output, Item
<1>6. First(1) = <<Refusal, pieces[1]>>
  <2>1. Item(1) = Refusal /\ Item(2) = pieces[1]
    BY <1>1, <1>3
  <2>2. First(1) = [j \in 1..2 |-> Item(j)]
    OBVIOUS
  <2>. QED  BY <2>1, <2>2
<1>7. ASSUME NEW i \in 2..n PROVE First(i) = First(i - 1) \o <<Refusal, pieces[i]>>
  <2>. DEFINE one == <<Refusal, pieces[i]>>
              both == First(i - 1) \o one
  <2>0. i \in 1..n /\ i - 1 \in 0..n /\ i \in 0..n
    BY <1>1
  <2>1. one \in Seq(I) /\ Len(one) = 2 /\ one[1] = Refusal /\ one[2] = pieces[i]
    BY <1>1
  <2>2. First(i - 1) \in Seq(I) /\ Len(First(i - 1)) = 2 * i - 2
    BY <1>1, <1>5, <2>0
  <2>3. \A j \in 1..(2 * i - 2) : First(i - 1)[j] = Item(j)
    BY <1>1
  <2>4. Item(2 * i - 1) = Refusal /\ Item(2 * i) = pieces[i]
    BY <1>3, <2>0
  <2>. HIDE DEF one, First, I
  <2>5. /\ both \in Seq(I) /\ Len(both) = 2 * i
        /\ \A j \in 1..(2 * i - 2) : both[j] = First(i - 1)[j]
        /\ both[2 * i - 1] = Refusal /\ both[2 * i] = pieces[i]
    <3>1. Refusal \in I /\ pieces[i] \in I
      BY <2>0 DEF I
    <3>. PICK p \in Seq(I), k \in Nat : p = First(i - 1) /\ k = 2 * i /\ Len(p) = k - 2
      BY <1>1, <2>2
    <3>2. /\ both \in Seq(I) /\ Len(both) = k
          /\ \A j \in 1..(k - 2) : both[j] = p[j]
          /\ both[k - 1] = Refusal /\ both[k] = pieces[i]
      BY <3>1, TwoMore DEF one
    <3>. QED  BY <3>2
  <2>6. ASSUME NEW j \in 1..(2 * i) PROVE both[j] = Item(j)
    <3>1. CASE j \in 1..(2 * i - 2)
      BY <2>3, <2>5, <3>1
    <3>2. CASE j = 2 * i - 1 \/ j = 2 * i
      BY <2>4, <2>5, <3>2
    <3>. HIDE DEF both
    <3>. QED  BY <1>1, <3>1, <3>2
  <2>. HIDE DEF both
  <2>7. both = [j \in 1..(2 * i) |-> Item(j)]
    BY <2>5, <2>6
  <2>. QED  BY <2>7 DEF First, both, one
<1>. DEFINE items == First(n)
            g == [i \in 1..n |-> First(i)]
            ss == TextsOf(items)
            at == [j \in 0..(2 * n) |-> j \div 2]
<1>8. FlattenSeq(output) = items
  <2>1. \A i \in 1..n : First(i) = IF i = 1 THEN output[1] ELSE First(i - 1) \o output[i]
    <3>1. \A i \in 1..n : output[i] = <<Refusal, pieces[i]>>
      BY <1>4
    <3>. HIDE DEF First
    <3>2. TAKE i \in 1..n
    <3>3. CASE i = 1
      BY <1>1, <1>6, <3>1, <3>3
    <3>4. CASE i # 1
      <4>1. i \in 2..n /\ output[i] = <<Refusal, pieces[i]>>
        BY <1>1, <3>1, <3>4
      <4>2. First(i) = First(i - 1) \o <<Refusal, pieces[i]>>
        BY <1>7, <4>1
      <4>. QED  BY <3>4, <4>1, <4>2, Zenon
    <3>. QED  BY <3>3, <3>4
  <2>. HIDE DEF First
  <2>2. ASSUME NEW i \in 1..n
        PROVE  First(i) = IF i = 1 THEN output[1] ELSE g[i - 1] \o output[i]
    <3>1. CASE i = 1
      BY <2>1, <3>1
    <3>2. CASE i # 1
      <4>1. g[i - 1] = First(i - 1)
        BY <1>1, <3>2
      <4>2. First(i) = First(i - 1) \o output[i]
        BY <2>1, <3>2, Zenon
      <4>. HIDE DEF g
      <4>. QED  BY <3>2, <4>1, <4>2, Zenon
    <3>. QED  BY <3>1, <3>2
  <2>3. Concatenations(output, n, g)
    BY <2>2 DEF Concatenations
  <2>4. g[n] = First(n)
    BY <1>1
  <2>. HIDE DEF g
  <2>. QED  BY <1>1, <1>4, <2>3, <2>4, FlattenSteps
<1>9. DOMAIN items = 1..(2 * n)
  OBVIOUS
<1>10. \A i \in 1..n : items[2 * i - 1] = Refusal /\ items[2 * i] = pieces[i]
  BY <1>1, <1>3
<1>. HIDE DEF items, First
<1>11. \A i \in 1..n : ss[2 * i - 1] = <<>> /\ ss[2 * i] = <<texts[i]>>
  <2>1. \A j \in 1..(2 * n) : ss[j] = ItemTexts(items[j])
    BY <1>9 DEF TextsOf
  <2>2. TAKE i \in 1..n
  <2>3. /\ ss[2 * i - 1] = ItemTexts(items[2 * i - 1])
        /\ ss[2 * i] = ItemTexts(items[2 * i])
    BY <1>1, <2>1
  <2>. HIDE DEF ss
  <2>. QED  BY <1>2, <1>10, <2>3, ItemsRead, Zenon
<1>12. Len(ss) = 2 * n
  BY <1>1, <1>9 DEF TextsOf
<1>. HIDE DEF ss
<1>13. at \in [0..(2 * n) -> 0..n] /\ at[0] = 0 /\ at[2 * n] = n
  BY <1>1
<1>14. ASSUME NEW j \in 1..(2 * n)
       PROVE  \/ at[j] = at[j - 1] /\ ss[j] = <<>>
              \/ at[j] = at[j - 1] + 1 /\ ss[j] = <<texts[at[j]]>>
  <2>1. PICK i \in 1..n : j = 2 * i - 1 \/ j = 2 * i
    BY <1>3
  <2>2. CASE j = 2 * i - 1
    <3>1. at[j] = i - 1 /\ at[j - 1] = i - 1
      <4>1. j - 1 = 2 * (i - 1) /\ i - 1 \in Int
        BY <1>1, <2>2
      <4>2. at[j] = (2 * i - 1) \div 2 /\ at[j - 1] = (2 * (i - 1)) \div 2
        BY <1>1, <2>2, <4>1
      <4>. HIDE DEF at
      <4>. QED  BY <4>1, <4>2, Halves
    <3>2. ss[j] = <<>>
      BY <1>11, <2>2
    <3>. QED  BY <3>1, <3>2
  <2>3. CASE j = 2 * i
    <3>1. at[j] = i /\ at[j - 1] = i - 1
      <4>1. at[j] = (2 * i) \div 2 /\ at[j - 1] = (2 * i - 1) \div 2
        BY <1>1, <2>3
      <4>. HIDE DEF at
      <4>. QED  BY <4>1, Halves
    <3>2. ss[j] = <<texts[i]>>
      BY <1>11, <2>3
    <3>. HIDE DEF at
    <3>3. at[j] = at[j - 1] + 1
      BY <1>1, <3>1
    <3>. QED  BY <3>1, <3>2, <3>3, Zenon
  <2>. QED  BY <2>1, <2>2, <2>3
<1>. HIDE DEF at
<1>15. FlattenSeq(ss) = texts
  <2>. PICK m \in Nat \ {0} : m = 2 * n
    BY <1>1
  <2>1. at \in [0..m -> 0..Len(texts)] /\ at[m] = Len(texts)
    BY <1>13 DEF n
  <2>. QED  BY <1>12, <1>13, <1>14, <2>1, PiecesMakeTexts
<1>16. Holds(output, texts)
  BY <1>8, <1>15 DEF Holds, ss
<1>. QED  BY <1>16 DEF output, pieces

(* Joining one text gives the text. *)
LEMMA JoinedOne == \A text : Joined(<<text>>) = text
<1>. TAKE text
<1>. PICK ss : ss = [i \in DOMAIN <<text>> |->
                        IF i = 1 THEN <<text>>[i] ELSE <<LineBreak>> \o <<text>>[i]]
  OBVIOUS
<1>1. Joined(<<text>>) = FlattenSeq(ss)
  BY DEF Joined
<1>2. Len(ss) = 1 /\ ss[1] = text
  OBVIOUS
<1>. QED  BY <1>1, <1>2, FlattenOne

(* An empty text after another adds a line break. *)
LEMMA JoinedPadded ==
    ASSUME NEW S, NEW text \in Seq(S)
    PROVE  Joined(<<text, <<>>>>) = Append(text, LineBreak)
<1>. PICK texts : texts = <<text, <<>>>>
  OBVIOUS
<1>0. DOMAIN texts = 1..2 /\ texts[1] = text /\ texts[2] = <<>>
  OBVIOUS
<1>. PICK ss : ss = [i \in DOMAIN texts |->
                        IF i = 1 THEN texts[i] ELSE <<LineBreak>> \o texts[i]]
  OBVIOUS
<1>1. Joined(texts) = FlattenSeq(ss)
  BY DEF Joined
<1>2. Len(ss) = 2 /\ ss[1] = text /\ ss[2] = <<LineBreak>> \o <<>>
  <2>1. ss = [i \in 1..2 |-> IF i = 1 THEN texts[i] ELSE <<LineBreak>> \o texts[i]]
    BY <1>0
  <2>2. Len(ss) = 2
    BY <2>1
  <2>3. ss[1] = texts[1] /\ ss[2] = <<LineBreak>> \o texts[2]
    BY <2>1
  <2>. QED  BY <1>0, <2>2, <2>3, Zenon
<1>3. FlattenSeq(ss) = text \o (<<LineBreak>> \o <<>>)
  BY <1>2, FlattenTwo, Zenon
<1>4. <<LineBreak>> \o <<>> = <<LineBreak>>
  OBVIOUS
<1>5. text \o <<LineBreak>> = Append(text, LineBreak)
  <2>1. text \in Seq(S \cup {LineBreak}) /\ LineBreak \in S \cup {LineBreak}
    OBVIOUS
  <2>. QED  BY <2>1
<1>. QED  BY <1>1, <1>3, <1>4, <1>5, Zenon

(* The words of a text, each a text of its own *)
Words(text) == [i \in DOMAIN text |-> <<text[i]>>]

(***************************************************************************)
(* Joining the words of a text puts one line break between any two.        *)
(***************************************************************************)
LEMMA JoinedWords ==
    ASSUME NEW S, NEW text \in Seq(S), text # <<>>
    PROVE  IsLines(Joined(Words(text)), text)
<1>. DEFINE n == Len(text)
            Word(j) == IF j % 2 = 1 THEN text[(j + 1) \div 2] ELSE LineBreak
            Lines(i) == [j \in 1..(2 * i - 1) |-> Word(j)]
            ss == [i \in DOMAIN Words(text) |->
                      IF i = 1 THEN Words(text)[i] ELSE <<LineBreak>> \o Words(text)[i]]
<1>1. n \in Nat \ {0} /\ DOMAIN text = 1..n
  OBVIOUS
<1>2. Joined(Words(text)) = FlattenSeq(ss)
  BY DEF Joined
<1>3. Len(ss) = n /\ ss[1] = <<text[1]>> /\ \A i \in 2..n : ss[i] = <<LineBreak, text[i]>>
  <2>1. ss = [i \in 1..n |-> IF i = 1 THEN <<text[i]>> ELSE <<LineBreak>> \o <<text[i]>>]
    BY <1>1 DEF Words
  <2>. HIDE DEF ss
  <2>2. Len(ss) = n /\ ss[1] = <<text[1]>>
    BY <1>1, <2>1
  <2>3. ASSUME NEW i \in 2..n PROVE ss[i] = <<LineBreak, text[i]>>
    <3>1. ss[i] = <<LineBreak>> \o <<text[i]>>
      BY <1>1, <2>1
    <3>2. <<LineBreak>> \o <<text[i]>> = <<LineBreak, text[i]>>
      BY OneAndOne
    <3>. QED  BY <3>1, <3>2, Zenon
  <2>. QED  BY <2>2, <2>3
<1>4. \A i, j \in Int : /\ j = 2 * i - 1 => Word(j) = text[i]
                        /\ j = 2 * i => Word(j) = LineBreak
  <2>. TAKE i, j \in Int
  <2>1. (2 * i - 1) % 2 = 1 /\ (2 * i) % 2 = 0 /\ (2 * i) \div 2 = i
    BY Halves
  <2>2. (2 * i - 1) + 1 = 2 * i
    OBVIOUS
  <2>. QED  BY <2>1, <2>2
<1>. DEFINE I == {text[i] : i \in 1..n} \cup {LineBreak}
<1>. HIDE DEF ss, Word
<1>5. ASSUME NEW j \in 1..(2 * n - 1) PROVE Word(j) \in I
  <2>0. j \in Int
    BY <1>1
  <2>1. PICK i \in Int : j = 2 * i - 1 \/ j = 2 * i
    BY <2>0, EvenOrOdd
  <2>2. i \in 1..n
    BY <1>1, <2>1
  <2>3. Word(j) = text[i] \/ Word(j) = LineBreak
    BY <1>4, <2>0, <2>1
  <2>. QED  BY <2>2, <2>3
<1>. HIDE DEF I
<1>6. \A i \in 1..n : Lines(i) \in Seq(I) /\ Len(Lines(i)) = 2 * i - 1
  <2>. HIDE DEF n
  <2>1. TAKE i \in 1..n
  <2>2. 2 * i - 1 \in Nat /\ \A j \in 1..(2 * i - 1) : Word(j) \in I
    BY <1>1, <1>5
  <2>. QED  BY <2>2
<1>7. Lines(1) = <<text[1]>>
  <2>1. Word(1) = text[1]
    BY <1>4
  <2>2. Lines(1) = [j \in 1..1 |-> Word(j)]
    OBVIOUS
  <2>. QED  BY <2>1, <2>2
<1>8. ASSUME NEW i \in 2..n PROVE Lines(i) = Lines(i - 1) \o <<LineBreak, text[i]>>
  <2>. DEFINE both == Lines(i - 1) \o <<LineBreak, text[i]>>
  <2>0. i \in 1..n /\ i - 1 \in 1..n
    BY <1>1
  <2>1. Lines(i - 1) \in Seq(I) /\ Len(Lines(i - 1)) = 2 * i - 3
    BY <1>1, <1>6, <2>0
  <2>2. \A j \in 1..(2 * i - 3) : Lines(i - 1)[j] = Word(j)
    BY <1>1
  <2>3. Word(2 * i - 2) = LineBreak /\ Word(2 * i - 1) = text[i]
    <3>. PICK j \in Int, k \in Int, m \in Int : j = 2 * i - 2 /\ k = 2 * i - 1 /\ m = i - 1
      BY <1>1
    <3>1. j = 2 * m /\ k = 2 * i - 1 /\ i \in Int
      BY <1>1
    <3>2. Word(j) = LineBreak /\ Word(k) = text[i]
      BY <1>4, <3>1
    <3>. QED  BY <3>2
  <2>4. LineBreak \in I /\ text[i] \in I
    BY <2>0 DEF I
  <2>. HIDE DEF Lines, n
  <2>5. /\ both \in Seq(I) /\ Len(both) = 2 * i - 1
        /\ \A j \in 1..(2 * i - 3) : both[j] = Lines(i - 1)[j]
        /\ both[2 * i - 2] = LineBreak /\ both[2 * i - 1] = text[i]
    <3>. PICK p \in Seq(I), k \in Nat : p = Lines(i - 1) /\ k = 2 * i - 1 /\ Len(p) = k - 2
      BY <1>1, <2>0, <2>1
    <3>1. /\ both \in Seq(I) /\ Len(both) = k
          /\ \A j \in 1..(k - 2) : both[j] = p[j]
          /\ both[k - 1] = LineBreak /\ both[k] = text[i]
      BY <2>4, TwoMore
    <3>2. k = 2 * i - 1 /\ k - 1 = 2 * i - 2 /\ k - 2 = 2 * i - 3
      BY <1>1, <2>0
    <3>. HIDE DEF both
    <3>. QED  BY <3>1, <3>2, Zenon
  <2>6. ASSUME NEW j \in 1..(2 * i - 1) PROVE both[j] = Word(j)
    <3>1. CASE j \in 1..(2 * i - 3)
      BY <2>2, <2>5, <3>1
    <3>2. CASE j = 2 * i - 2 \/ j = 2 * i - 1
      BY <2>3, <2>5, <3>2
    <3>. HIDE DEF both
    <3>. QED  BY <1>1, <2>0, <3>1, <3>2
  <2>. HIDE DEF both
  <2>7. both = [j \in 1..(2 * i - 1) |-> Word(j)]
    BY <2>5, <2>6
  <2>. QED  BY <2>7 DEF Lines, both
<1>. DEFINE g == [i \in 1..n |-> Lines(i)]
<1>9. FlattenSeq(ss) = Lines(n)
  <2>. HIDE DEF Lines
  <2>1. ASSUME NEW i \in 1..n
        PROVE  Lines(i) = IF i = 1 THEN ss[1] ELSE g[i - 1] \o ss[i]
    <3>1. CASE i = 1
      BY <1>3, <1>7, <3>1
    <3>2. CASE i # 1
      <4>1. i \in 2..n /\ g[i - 1] = Lines(i - 1)
        BY <1>1, <3>2
      <4>2. Lines(i) = Lines(i - 1) \o ss[i]
        <5>1. ss[i] = <<LineBreak, text[i]>>
          BY <1>3, <4>1
        <5>2. Lines(i) = Lines(i - 1) \o <<LineBreak, text[i]>>
          BY <1>8, <4>1
        <5>. QED  BY <5>1, <5>2, Zenon
      <4>. HIDE DEF g
      <4>. QED  BY <3>2, <4>1, <4>2, Zenon
    <3>. QED  BY <3>1, <3>2
  <2>2. Concatenations(ss, n, g)
    BY <2>1 DEF Concatenations
  <2>3. g[n] = Lines(n)
    BY <1>1
  <2>. HIDE DEF g, n
  <2>. QED  BY <1>1, <1>3, <2>2, <2>3, FlattenSteps
<1>10. IsLines(Lines(n), text)
  <2>1. Len(Lines(n)) = 2 * n - 1
    BY <1>1, <1>6
  <2>2. ASSUME NEW i \in 1..n PROVE Lines(n)[2 * i - 1] = text[i]
    <3>. PICK j \in 1..(2 * n - 1) : j = 2 * i - 1
      BY <1>1
    <3>1. Lines(n)[j] = Word(j)
      BY <1>1
    <3>2. Word(j) = text[i]
      BY <1>1, <1>4
    <3>. HIDE DEF Lines
    <3>. QED  BY <3>1, <3>2
  <2>3. ASSUME NEW i \in 1..(n - 1) PROVE Lines(n)[2 * i] = LineBreak
    <3>. PICK j \in 1..(2 * n - 1) : j = 2 * i
      BY <1>1
    <3>1. Lines(n)[j] = Word(j)
      BY <1>1
    <3>2. i \in Int /\ j \in Int
      BY <1>1
    <3>3. Word(j) = LineBreak
      BY <1>4, <3>2
    <3>. HIDE DEF Lines
    <3>. QED  BY <3>1, <3>3
  <2>. QED  BY <2>1, <2>2, <2>3 DEF IsLines, n
<1>. QED  BY <1>2, <1>9, <1>10, Zenon

LEMMA BodyRead ==
    /\ \A body : Readable(Answer(body)) /\ The(Answer(body).json) = body
    /\ \A optional, output : LET body == [output_text |-> optional, output |-> output]
                             IN body.output_text = optional /\ body.output = output
BY TheOfPresent DEF Readable, Answer

(* The OpenAI adapter makes of an answer what it stands for. *)
OpenAIMakes(a, text) == Readable(a) /\ OpenAIText(The(a.json)) = Success(text)

LEMMA OpenAIJoins ==
    ASSUME NEW output, NEW texts, texts # <<>>, Holds(output, texts)
    PROVE  OpenAIMakes(OpenAIAnswer(Absent, output), Joined(texts))
<1>. PICK body : body = [output_text |-> Absent, output |-> output]
  OBVIOUS
<1>1. body.output_text = Absent /\ body.output = output
  OBVIOUS
<1>2. OpenAIText(body) = Success(Joined(texts))
  BY <1>1, HoldsRead
<1>3. OpenAIAnswer(Absent, output) = Answer(body)
  BY DEF OpenAIAnswer
<1>. QED  BY <1>2, <1>3, BodyRead, Zenon DEF OpenAIMakes

LEMMA OpenAIWhole ==
    ASSUME NEW text, NEW a \in WholeAnswers("openai", text)
    PROVE  OpenAIMakes(a, text)
<1>1. \/ \E output : a = OpenAIAnswer(Present(text), output)
      \/ a = OpenAIAnswer(Absent, <<<<TextItem(Present(text))>>>>)
  BY DEF WholeAnswers
<1>2. ASSUME NEW output PROVE OpenAIMakes(OpenAIAnswer(Present(text), output), text)
  BY TheOfPresent, BodyRead DEF OpenAIMakes, OpenAIAnswer, OpenAIText
<1>3. OpenAIMakes(OpenAIAnswer(Absent, <<<<TextItem(Present(text))>>>>), text)
  <2>. PICK texts : texts = <<text>>
    OBVIOUS
  <2>1. texts # <<>> /\ Joined(texts) = text
    BY JoinedOne
  <2>2. Holds(<<<<TextItem(Present(text))>>>>, texts)
    BY WholeHeld, Zenon
  <2>3. OpenAIMakes(OpenAIAnswer(Absent, <<<<TextItem(Present(text))>>>>), Joined(texts))
    BY <2>1, <2>2, OpenAIJoins
  <2>. QED  BY <2>1, <2>3, Zenon
<1>. QED  BY <1>1, <1>2, <1>3

LEMMA OpenAIHollow ==
    ASSUME NEW a \in HollowAnswers("openai")
    PROVE  OpenAIMakes(a, <<>>)
<1>1. PICK output : a = OpenAIAnswer(Absent, output) /\ Holds(output, <<<<>>>>)
  BY WholeHeld DEF HollowAnswers
<1>. PICK texts : texts = <<<<>>>>
  OBVIOUS
<1>2. texts # <<>> /\ Joined(texts) = <<>>
  BY JoinedOne
<1>3. OpenAIMakes(OpenAIAnswer(Absent, output), Joined(texts))
  BY <1>1, <1>2, OpenAIJoins
<1>. QED  BY <1>1, <1>2, <1>3, Zenon

LEMMA OpenAIPadded ==
    ASSUME NEW S, NEW text \in Seq(S), NEW a \in PaddedAnswers("openai", text)
    PROVE  OpenAIMakes(a, Append(text, LineBreak))
<1>. PICK output : output = <<<<TextItem(Present(text)), TextItem(Absent)>>>>
  OBVIOUS
<1>1. a = OpenAIAnswer(Absent, output)
  BY DEF PaddedAnswers
<1>. PICK texts : texts = <<text, <<>>>>
  OBVIOUS
<1>2. texts # <<>>
  OBVIOUS
<1>3. Joined(texts) = Append(text, LineBreak)
  BY JoinedPadded
<1>4. Holds(output, texts)
  BY WholeHeld, Zenon
<1>5. OpenAIMakes(OpenAIAnswer(Absent, output), Joined(texts))
  BY <1>2, <1>4, OpenAIJoins
<1>. QED  BY <1>1, <1>3, <1>5, Zenon

LEMMA OpenAIParted ==
    ASSUME NEW S, NEW text \in Seq(S), NEW a \in PartedAnswers("openai", text)
    PROVE  OpenAIMakes(a, Joined(Words(text))) /\ IsLines(Joined(Words(text)), text)
<1>. DEFINE texts == Words(text)
<1>1. text # <<>>
  BY DEF PartedAnswers
<1>2. texts \in Seq({texts[i] : i \in DOMAIN texts}) /\ texts # <<>> /\ DOMAIN texts = DOMAIN text
  BY <1>1 DEF Words
<1>3. Pieces(texts) = [i \in DOMAIN text |-> TextItem(Present(<<text[i]>>))]
  BY <1>2 DEF Pieces, Words
<1>4. PICK output \in {<<Pieces(texts)>>, <<<<Refusal>> \o Pieces(texts)>>,
                       <<<<>>, Pieces(texts)>>,
                       [i \in DOMAIN text |-> <<Refusal, Pieces(texts)[i]>>]} :
         a = OpenAIAnswer(Absent, output)
  BY <1>1, <1>3, Zenon DEF PartedAnswers
<1>5. Holds(output, texts)
  <2>. HIDE DEF texts
  <2>. QED  BY <1>2, <1>4, PiecesHeld, OutputsHeld
<1>. HIDE DEF texts
<1>6. OpenAIMakes(a, Joined(texts))
  BY <1>2, <1>4, <1>5, OpenAIJoins
<1>. QED  BY <1>1, <1>6, JoinedWords DEF texts

LEMMA NothingRead == FlattenSeq(<<>>) = <<>> /\ FlattenSeq(TextsOf(<<>>)) = <<>>
<1>1. FlattenSeq(<<>>) = <<>>
  BY DEF FlattenSeq
<1>2. TextsOf(<<>>) = <<>>
  BY DEF TextsOf
<1>. QED  BY <1>1, <1>2

(* An answer without a text is a failure, whichever the form. *)
LEMMA RefusalsFail ==
    ASSUME NEW adapter \in {"openai", "ollama"}, NEW s \in Settings,
           NEW a \in Refusals(adapter)
    PROVE  Generate(adapter, s, a) = Failure
<1>1. ASSUME ~Readable(a) PROVE Generate(adapter, s, a) = Failure
  BY <1>1 DEF Generate
<1>2. CASE a \in {NoAnswer, HttpError, NotJson}
  BY <1>1, <1>2 DEF Readable, NoAnswer, HttpError, NotJson
<1>3. CASE adapter = "openai" /\ a \notin {NoAnswer, HttpError, NotJson}
  <2>1. PICK output \in {<<>>, <<<<>>>>, <<<<Refusal>>, <<Refusal>>>>} :
          a = Answer([output_text |-> Absent, output |-> output])
    BY <1>3 DEF Refusals, OpenAIAnswer
  <2>. DEFINE items == FlattenSeq(output)
  <2>2. FlattenSeq(TextsOf(items)) = <<>>
    <3>1. CASE output = <<>>
      <4>. QED  BY <3>1, NothingRead
    <3>2. CASE output = <<<<>>>>
      <4>1. items = <<>>
        BY <3>2, FlattenOne
      <4>. QED  BY <4>1, NothingRead, Zenon
    <3>3. CASE output = <<<<Refusal>>, <<Refusal>>>>
      <4>1. items = <<Refusal>> \o <<Refusal>>
        <5>1. Len(output) = 2 /\ output[1] = <<Refusal>> /\ output[2] = <<Refusal>>
          BY <3>3
        <5>2. items = output[1] \o output[2]
          BY <5>1, FlattenTwo
        <5>. QED  BY <5>1, <5>2, Zenon
      <4>2. <<Refusal>> \o <<Refusal>> = <<Refusal, Refusal>>
        BY OneAndOne
      <4>3. Holds(<<<<Refusal, Refusal>>>>, <<>> \o <<>>)
        BY ItemsRead, TwoItems
      <4>4. FlattenSeq(<<<<Refusal, Refusal>>>>) = <<Refusal, Refusal>>
        BY FlattenOne
      <4>5. <<>> \o <<>> = <<>>
        OBVIOUS
      <4>. HIDE DEF items
      <4>. QED  BY <4>1, <4>2, <4>3, <4>4, <4>5 DEF Holds
    <3>. QED  BY <3>1, <3>2, <3>3
  <2>3. The(a.json) = [output_text |-> Absent, output |-> output]
    BY <2>1, TheOfPresent DEF Answer
  <2>4. OpenAIText(The(a.json)) = Failure
    <3>1. The(a.json).output_text = Absent /\ The(a.json).output = output
      BY <2>3
    <3>. QED  BY <2>2, <3>1 DEF OpenAIText, CollectedTexts, TextsOf
  <2>. QED  BY <1>3, <2>4 DEF Generate
<1>4. CASE adapter = "ollama" /\ a \notin {NoAnswer, HttpError, NotJson}
  <2>1. a = Answer([response |-> Absent])
    BY <1>4 DEF Refusals
  <2>2. The(a.json) = [response |-> Absent]
    BY <2>1, TheOfPresent DEF Answer
  <2>3. OllamaText(The(a.json)) = Failure
    BY <2>2 DEF OllamaText
  <2>. QED  BY <1>4, <2>3 DEF Generate
<1>. QED  BY <1>2, <1>3, <1>4

LEMMA OllamaRead ==
    ASSUME NEW text, NEW a \in WholeAnswers("ollama", text)
    PROVE  Readable(a) /\ OllamaText(The(a.json)) = Success(text)
<1>1. a = Answer([response |-> Present(text)])
  BY DEF WholeAnswers
<1>2. Readable(a) /\ The(a.json) = [response |-> Present(text)]
  BY <1>1, TheOfPresent DEF Answer, Readable
<1>3. OllamaText([response |-> Present(text)]) = Success(text)
  BY TheOfPresent DEF OllamaText
<1>. QED  BY <1>2, <1>3

(* What the validator makes sure of is enough for the adapters. *)
LEMMA ValidGetTexts ==
    ASSUME settings \in Settings, Valid(settings), NEW agent \in AgentProviders,
           NEW adapter, adapter = AdapterOf(agent, settings), adapter # "mock",
           ~(/\ agent = "openai" /\ settings.provider # "openai"
             /\ settings.openai_api_key # "given")
    PROVE  /\ \A a \in HollowAnswers(adapter) : Run(agent, settings, a) = Success(<<>>)
           /\ \A text \in Texts :
                /\ \A a \in WholeAnswers(adapter, text) :
                      Run(agent, settings, a) = Success(text)
                /\ \A a \in PartedAnswers(adapter, text) :
                      /\ Run(agent, settings, a).ok
                      /\ IsLines(Run(agent, settings, a).text, text)
                /\ \A a \in PaddedAnswers(adapter, text) :
                      Run(agent, settings, a) = Success(Append(text, LineBreak))
<1>1. \/ adapter = "openai" /\ settings.openai_api_key = "given"
      \/ adapter = "ollama"
  BY DEF AdapterOf, Valid, AgentProviders, Adapters, Settings
<1>2. \A a : Run(agent, settings, a) = Generate(adapter, settings, a)
  BY DEF Run
<1>3. ASSUME adapter = "openai", settings.openai_api_key = "given",
             NEW a, NEW text, OpenAIMakes(a, text)
      PROVE  Run(agent, settings, a) = Success(text)
  BY <1>2, <1>3 DEF Generate, OpenAIMakes
<1>4. ASSUME NEW text \in Texts PROVE text \in Seq({text[i] : i \in DOMAIN text})
  BY TextsAssumption
<1>5. CASE adapter = "openai" /\ settings.openai_api_key = "given"
  <2>1. ASSUME NEW a \in HollowAnswers(adapter) PROVE Run(agent, settings, a) = Success(<<>>)
    BY <1>3, <1>5, OpenAIHollow
  <2>. SUFFICES ASSUME NEW text \in Texts
                PROVE  /\ \A a \in WholeAnswers(adapter, text) :
                             Run(agent, settings, a) = Success(text)
                       /\ \A a \in PartedAnswers(adapter, text) :
                             /\ Run(agent, settings, a).ok
                             /\ IsLines(Run(agent, settings, a).text, text)
                       /\ \A a \in PaddedAnswers(adapter, text) :
                             Run(agent, settings, a) = Success(Append(text, LineBreak))
    BY <2>1
  <2>2. ASSUME NEW a \in WholeAnswers(adapter, text) PROVE Run(agent, settings, a) = Success(text)
    BY <1>3, <1>5, OpenAIWhole
  <2>3. ASSUME NEW a \in PaddedAnswers(adapter, text)
        PROVE  Run(agent, settings, a) = Success(Append(text, LineBreak))
    BY <1>3, <1>4, <1>5, OpenAIPadded
  <2>4. ASSUME NEW a \in PartedAnswers(adapter, text)
        PROVE  Run(agent, settings, a).ok /\ IsLines(Run(agent, settings, a).text, text)
    <3>1. OpenAIMakes(a, Joined(Words(text))) /\ IsLines(Joined(Words(text)), text)
      BY <1>4, <1>5, OpenAIParted
    <3>2. Run(agent, settings, a) = Success(Joined(Words(text)))
      BY <1>3, <1>5, <3>1
    <3>. QED  BY <3>1, <3>2 DEF Success
  <2>. QED  BY <2>2, <2>3, <2>4
<1>6. CASE adapter = "ollama"
  <2>1. ASSUME NEW text \in Texts, NEW a \in WholeAnswers(adapter, text)
        PROVE  Run(agent, settings, a) = Success(text)
    <3>1. Readable(a) /\ OllamaText(The(a.json)) = Success(text)
      BY <1>6, OllamaRead
    <3>. QED  BY <1>2, <1>6, <3>1 DEF Generate
  <2>2. /\ HollowAnswers(adapter) = {}
        /\ \A text : PartedAnswers(adapter, text) = {} /\ PaddedAnswers(adapter, text) = {}
    BY <1>6 DEF HollowAnswers, PartedAnswers, PaddedAnswers
  <2>. QED  BY <2>1, <2>2
<1>. QED  BY <1>1, <1>5, <1>6

(* Who runs has been started with these settings, which do not change. *)
LEMMA ValidatedSteps == TypeOK /\ Validated /\ [Next]_vars => Validated'
<1>. SUFFICES ASSUME TypeOK, Validated, [Next]_vars PROVE Validated'
  OBVIOUS
<1>1. settings' = settings
  BY DEF Next, vars, Proceed, Start, Migrate, UpgradeAtOnce, UpgradeTable, Stamp, CreateAll,
         Bootstrap, Command, Downgrade, DowngradeAtOnce, DowngradeTable, StartWorker, Crash
<1>. SUFFICES ASSUME ~Valid(settings) PROVE ~(worker' = "up" \/ \E p \in Apis : proc'[p].pc # "down")
  BY <1>1 DEF Validated
<1>2. worker # "up" /\ \A p \in Apis : proc[p].pc = "down"
  BY DEF Validated
<1>3. UNCHANGED vars \/ Migrate(Cli) \/ Downgrade \/ Crash
  BY <1>2 DEF Next, Proceed, Start, Migrate, UpgradeAtOnce, UpgradeTable, Stamp, CreateAll,
         Bootstrap, Command, Migratable, StartWorker
<1>4. worker' = worker /\ \A p \in Apis : p # Cli /\ proc'[p] \in {proc[p], Down}
  <2>1. CASE UNCHANGED vars
    BY <2>1, StartupAssumption DEF vars
  <2>2. CASE Migrate(Cli) \/ Downgrade
    <3>1. worker' = worker /\ \E to : Goes(Cli, to)
      BY <2>2 DEF Migrate, UpgradeAtOnce, UpgradeTable, Stamp, Downgrade, DowngradeAtOnce,
                  DowngradeTable
    <3>. QED  BY <3>1, StartupAssumption DEF Goes, TypeOK
  <2>3. CASE Crash
    BY <1>2, <2>3, StartupAssumption DEF Crash, Goes, TypeOK
  <2>. QED  BY <1>3, <2>1, <2>2, <2>3
<1>. QED  BY <1>2, <1>4, PlacesTyped

(***************************************************************************)
(* In every deployment that has come up a step gets the text its endpoint  *)
(* has generated, whatever the text: as it is, or with a line break        *)
(* between the items it was spread over.  It fails if the answer has       *)
(* nothing for a text, and completes with an empty one if an item has      *)
(* none; the agent without a key that StepsGetTheirTexts names is excepted.*)
(***************************************************************************)
THEOREM TextsArrive == Spec => []StepsGetTheirTexts
<1>1. Init => Validated
  BY DEF Init, Validated, Down, At
<1>2. TypeOK /\ Validated => StepsGetTheirTexts
  <2>. SUFFICES ASSUME TypeOK, Validated, worker = "up" \/ \E p \in Apis : Ready(p),
                       NEW agent \in AgentProviders,
                       NEW adapter, adapter = AdapterOf(agent, settings), adapter # "mock"
                PROVE  /\ \A a \in Refusals(adapter) : Run(agent, settings, a) = Failure
                       /\ ~(/\ agent = "openai" /\ settings.provider # "openai"
                            /\ settings.openai_api_key # "given") =>
                            /\ \A a \in HollowAnswers(adapter) :
                                  Run(agent, settings, a) = Success(<<>>)
                            /\ \A text \in Texts :
                                 /\ \A a \in WholeAnswers(adapter, text) :
                                       Run(agent, settings, a) = Success(text)
                                 /\ \A a \in PartedAnswers(adapter, text) :
                                       /\ Run(agent, settings, a).ok
                                       /\ IsLines(Run(agent, settings, a).text, text)
                                 /\ \A a \in PaddedAnswers(adapter, text) :
                                       Run(agent, settings, a) = Success(Append(text, LineBreak))
    BY DEF StepsGetTheirTexts
  <2>1. settings \in Settings /\ Valid(settings)
    BY StartupAssumption DEF TypeOK, Validated, Ready
  <2>2. adapter \in {"openai", "ollama"}
    BY <2>1 DEF AdapterOf, AgentProviders, Adapters, Settings
  <2>3. ASSUME NEW a \in Refusals(adapter) PROVE Run(agent, settings, a) = Failure
    BY <2>1, <2>2, RefusalsFail DEF Run
  <2>. QED  BY <2>1, <2>3, ValidGetTexts
<1>. QED  BY <1>1, <1>2, ValidatedSteps, TypeCorrect, PTL DEF Spec
===============================================================================
