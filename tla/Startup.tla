------------------------------- MODULE Startup -------------------------------
(***************************************************************************)
(* How a deployment comes up: `alembic upgrade head`, the lifespan of the  *)
(* API with create_all and bootstrap_admin, the worker that waits for the  *)
(* API, and an administrator's alembic commands.  Any of them may die at   *)
(* any point.                                                              *)
(*                                                                         *)
(* PostgreSQL applies the DDL of one run as a transaction: all of it, or   *)
(* none if it meets an object that another process has committed           *)
(* meanwhile.  With SQLite each statement is final, and neither alembic    *)
(* nor SQLite checks the references of what is created or dropped.         *)
(***************************************************************************)
EXTENDS Naturals, Sequences, FiniteSets, Settings

CONSTANTS
    Apis,           \* API processes
    Cli,            \* the administrator's alembic command
    Profiles,       \* the settings deployments may have
    MaxCommands,    \* bound: alembic commands the administrator gives
    MaxCrashes      \* bound: deaths of a process

ASSUME StartupAssumption ==
    /\ Profiles \subseteq Settings
    /\ Cli \notin Apis
    /\ MaxCommands \in Nat /\ MaxCrashes \in Nat

VARIABLES
    settings,       \* the same for all processes of a deployment
    container,      \* the image of compose.yaml, or a bare rx-api
    objects,        \* the tables and enumerated types that exist
    stamped,        \* alembic_version has a row
    proc,           \* what each process is doing
    worker,         \* "created" (never up yet), "down" or "up"
    commands, crashes

vars == <<settings, container, objects, stamped, proc, worker, commands, crashes>>

(* Mutant of Revision: steps before their missions. *)
RevisionUnordered == <<"users", "agents", "workflow_steps", "missions", "documents",
                       "approvals", "handoffs", "audit_events">>

(* The revision 0001_initial: its tables in the order upgrade() creates    *)
(* them, the tables each refers to and the types it brings along           *)
Revision == <<"users", "agents", "missions", "documents", "workflow_steps",
              "approvals", "handoffs", "audit_events">>

Tables == {Revision[i] : i \in DOMAIN Revision}

References ==
    [t \in Tables |->
        CASE t \in {"users", "agents"} -> {}
          [] t \in {"missions", "documents", "audit_events"} -> {"users"}
          [] t = "workflow_steps" -> {"missions", "agents"}
          [] t = "approvals" -> {"missions", "workflow_steps", "users"}
          [] t = "handoffs" -> {"missions", "workflow_steps"}]

Types(t) ==
    CASE t = "users" -> {"role"}
      [] t = "missions" -> {"missionstatus"}
      [] t = "workflow_steps" -> {"stepstatus"}
      [] t = "approvals" -> {"approvalstatus"}
      [] OTHER -> {}

AllTypes == UNION {Types(t) : t \in Tables}

(* Mutant of Teardown: the types are left behind. *)
TeardownTablesOnly == <<"audit_events", "handoffs", "approvals", "workflow_steps",
                        "documents", "missions", "agents", "users">>

(* What downgrade() drops, in its order *)
Teardown == <<"audit_events", "handoffs", "approvals", "workflow_steps", "documents",
              "missions", "agents", "users",
              "approvalstatus", "stepstatus", "missionstatus", "role">>

(* The tables of models.py, which create_all creates and the handlers use *)
Metadata == {"users", "agents", "missions", "workflow_steps", "approvals",
             "handoffs", "audit_events", "documents"}

Transactional == settings.database = "postgresql"

CreatedWith(t) == {t} \cup (IF Transactional THEN Types(t) ELSE {})
All == UNION {CreatedWith(t) : t \in Tables}

(* CREATE TABLE and DROP succeed on a database with these objects. *)
CanCreate(t, have) ==
    /\ CreatedWith(t) \cap have = {}
    /\ Transactional => References[t] \subseteq have
CanDrop(x, have) ==
    x \in Tables =>
        /\ x \in have
        /\ Transactional => \A u \in Tables \cap have : x \in References[u] => u = x

Upgraded(n) == objects \cup UNION {CreatedWith(Revision[i]) : i \in 1..n}
Dropped(n) == objects \ {Teardown[i] : i \in 1..n}

At(pc) == [pc |-> pc, done |-> 0, missing |-> {}]
Down == At("down")

TypeOK ==
    /\ settings \in Profiles
    /\ container \in BOOLEAN
    /\ objects \subseteq Tables \cup AllTypes
    /\ stamped \in BOOLEAN
    /\ proc \in [Apis \cup {Cli} ->
                    [pc : {"down", "upgrade", "downgrade", "create", "bootstrap", "up"},
                     done : 0..Len(Teardown), missing : SUBSET Tables]]
    /\ worker \in {"created", "down", "up"}
    /\ commands \in 0..MaxCommands
    /\ crashes \in 0..MaxCrashes

Init ==
    /\ settings \in Profiles
    /\ container \in BOOLEAN
    /\ objects = {} /\ stamped = FALSE
    /\ proc = [p \in Apis \cup {Cli} |-> Down]
    /\ worker = "created"
    /\ commands = 0 /\ crashes = 0

Goes(p, to) == proc' = [proc EXCEPT ![p] = to]

(* Maintenance is done while the deployment is stopped. *)
Maintained == proc[Cli].pc # "down"
Stopped == worker # "up" /\ \A p \in Apis : proc[p].pc = "down"

(* create_app.lifespan with auto_create_schema: create_all looks for the tables. *)
Lifespan ==
    IF settings.auto_create_schema
      THEN [At("create") EXCEPT !.missing = Metadata \ objects]
      ELSE At("bootstrap")

(* Where a process goes when its migration is done *)
AfterMigration(p) == IF p = Cli THEN Down ELSE Lifespan

(* api-entrypoint.sh: alembic looks for the revision and has it applied if *)
(* it is not; a bare server goes without.                                  *)
Start(p) ==
    /\ proc[p].pc = "down" /\ ~Maintained
    /\ \/ /\ container /\ Migratable(settings)
          /\ Goes(p, IF stamped THEN Lifespan ELSE At("upgrade"))
       \/ /\ ~container /\ Valid(settings)
          /\ Goes(p, Lifespan)
    /\ UNCHANGED <<settings, container, objects, stamped, worker, commands, crashes>>

(* An alembic command; compose brings the stopped deployment up anew after it. *)
Command ==
    /\ Stopped /\ ~Maintained
    /\ Migratable(settings)
    /\ commands < MaxCommands
    /\ commands' = commands + 1
    /\ \/ ~stamped /\ Goes(Cli, At("upgrade"))
       \/ stamped /\ Goes(Cli, At("downgrade"))
    /\ worker' = "created"
    /\ UNCHANGED <<settings, container, objects, stamped, crashes>>

(* upgrade() as one transaction, which another one may have forestalled *)
UpgradeAtOnce(p) ==
    /\ proc[p].pc = "upgrade" /\ Transactional
    /\ IF \A n \in DOMAIN Revision : CanCreate(Revision[n], Upgraded(n - 1))
         THEN /\ objects' = Upgraded(Len(Revision))
              /\ stamped' = TRUE
              /\ Goes(p, AfterMigration(p))
         ELSE /\ Goes(p, Down)
              /\ UNCHANGED <<objects, stamped>>
    /\ UNCHANGED <<settings, container, worker, commands, crashes>>

(* Mutant of UpgradeTable: tables that exist are passed over. *)
UpgradeTableUnlessThere(p) ==
    LET n == proc[p].done + 1 IN
    /\ proc[p].pc = "upgrade" /\ ~Transactional /\ n \in DOMAIN Revision
    /\ objects' = objects \cup CreatedWith(Revision[n])
    /\ Goes(p, [proc[p] EXCEPT !.done = n])
    /\ UNCHANGED <<settings, container, stamped, worker, commands, crashes>>

(* upgrade() statement by statement *)
UpgradeTable(p) ==
    LET n == proc[p].done + 1 IN
    /\ proc[p].pc = "upgrade" /\ ~Transactional /\ n \in DOMAIN Revision
    /\ IF CanCreate(Revision[n], objects)
         THEN /\ objects' = objects \cup CreatedWith(Revision[n])
              /\ Goes(p, [proc[p] EXCEPT !.done = n])
         ELSE /\ Goes(p, Down)
              /\ UNCHANGED objects
    /\ UNCHANGED <<settings, container, stamped, worker, commands, crashes>>

(* The row of alembic_version is inserted after the last statement. *)
Stamp(p) ==
    /\ proc[p].pc = "upgrade" /\ ~Transactional
    /\ proc[p].done = Len(Revision)
    /\ stamped' = TRUE
    /\ Goes(p, AfterMigration(p))
    /\ UNCHANGED <<settings, container, objects, worker, commands, crashes>>

(* downgrade() as one transaction *)
DowngradeAtOnce ==
    /\ proc[Cli].pc = "downgrade" /\ Transactional
    /\ IF \A n \in DOMAIN Teardown : CanDrop(Teardown[n], Dropped(n - 1))
         THEN objects' = Dropped(Len(Teardown)) /\ stamped' = FALSE
         ELSE UNCHANGED <<objects, stamped>>
    /\ Goes(Cli, Down)
    /\ UNCHANGED <<settings, container, worker, commands, crashes>>

(* downgrade() statement by statement, and the row of alembic_version *)
DowngradeTable ==
    LET n == proc[Cli].done + 1 IN
    /\ proc[Cli].pc = "downgrade" /\ ~Transactional
    /\ IF n \notin DOMAIN Teardown
         THEN /\ stamped' = FALSE
              /\ Goes(Cli, Down)
              /\ UNCHANGED objects
         ELSE /\ UNCHANGED stamped
              /\ IF CanDrop(Teardown[n], objects)
                   THEN /\ objects' = objects \ {Teardown[n]}
                        /\ Goes(Cli, [proc[Cli] EXCEPT !.done = n])
                   ELSE Goes(Cli, Down) /\ UNCHANGED objects
    /\ UNCHANGED <<settings, container, worker, commands, crashes>>

(* create_all creates the tables it found missing, or meets one that       *)
(* another process has created since.                                      *)
CreateAll(p) ==
    LET todo == proc[p].missing IN
    /\ proc[p].pc = "create"
    /\ \/ /\ todo = {}
          /\ Goes(p, At("bootstrap"))
          /\ UNCHANGED objects
       \/ /\ todo # {} /\ Transactional
          /\ IF todo \cap objects = {}
               THEN /\ objects' = objects \cup UNION {CreatedWith(t) : t \in todo}
                    /\ Goes(p, At("bootstrap"))
               ELSE Goes(p, Down) /\ UNCHANGED objects
       \/ \E t \in todo :
             /\ ~Transactional /\ References[t] \cap todo = {}
             /\ IF t \notin objects
                  THEN /\ objects' = objects \cup {t}
                       /\ Goes(p, [proc[p] EXCEPT !.missing = todo \ {t}])
                  ELSE Goes(p, Down) /\ UNCHANGED objects
    /\ UNCHANGED <<settings, container, stamped, worker, commands, crashes>>

(* Mutant of Bootstrap: a place no process has. *)
BootstrapAsFailed(p) ==
    /\ proc[p].pc = "bootstrap"
    /\ Goes(p, At("failed"))
    /\ UNCHANGED <<settings, container, objects, stamped, worker, commands, crashes>>

(* bootstrap_admin reads the users table if it has credentials to use. *)
Bootstrap(p) ==
    /\ proc[p].pc = "bootstrap"
    /\ Goes(p, IF settings.bootstrap_admin_password = "unset" \/ "users" \in objects
                 THEN At("up") ELSE Down)
    /\ UNCHANGED <<settings, container, objects, stamped, worker, commands, crashes>>

(* /health/ready answers: the process is up and reaches its database. *)
Ready(p) == proc[p].pc = "up"

(* Mutant of StartWorker: it does not wait for the API. *)
StartWorkerAtOnce ==
    /\ container /\ ~Maintained /\ Valid(settings)
    /\ worker # "up" /\ worker' = "up"
    /\ UNCHANGED <<settings, container, objects, stamped, proc, commands, crashes>>

(* compose.yaml: the first start waits for a healthy API, a restart does not. *)
StartWorker ==
    /\ container /\ ~Maintained /\ Valid(settings)
    /\ \/ worker = "created" /\ \E p \in Apis : Ready(p)
       \/ worker = "down"
    /\ worker' = "up"
    /\ UNCHANGED <<settings, container, objects, stamped, proc, commands, crashes>>

(* A process dies; PostgreSQL rolls its transaction back. *)
Crash ==
    /\ crashes < MaxCrashes
    /\ crashes' = crashes + 1
    /\ \/ \E p \in Apis \cup {Cli} :
             proc[p].pc # "down" /\ Goes(p, Down) /\ UNCHANGED worker
       \/ worker = "up" /\ worker' = "down" /\ UNCHANGED proc
    /\ UNCHANGED <<settings, container, objects, stamped, commands>>

Migrate(p) == UpgradeAtOnce(p) \/ UpgradeTable(p) \/ Stamp(p)
Downgrade == DowngradeAtOnce \/ DowngradeTable
Proceed(p) == Start(p) \/ Migrate(p) \/ CreateAll(p) \/ Bootstrap(p)

Next ==
    \/ \E p \in Apis : Proceed(p)
    \/ Command \/ Migrate(Cli) \/ Downgrade
    \/ StartWorker
    \/ Crash

Spec == Init /\ [][Next]_vars

(* Compose restarts what stops (restart: unless-stopped); a command runs on. *)
FairSpec ==
    /\ Spec
    /\ \A p \in Apis : WF_vars(Proceed(p))
    /\ WF_vars(Migrate(Cli) \/ Downgrade)
    /\ WF_vars(StartWorker)

----------------------------------------------------------------------------

Complete == Metadata \subseteq objects

(***************************************************************************)
(* At every moment of every migration, finished or cut short, no table     *)
(* refers to one that does not exist.  A PostgreSQL database has the whole *)
(* schema or nothing of it, not even an enumerated type, and if alembic    *)
(* knows the revision it has it.                                           *)
(***************************************************************************)
SchemaSound ==
    /\ \A t \in Tables \cap objects : References[t] \subseteq objects
    /\ Transactional => /\ objects \in {{}, All}
                        /\ stamped => objects = All

(***************************************************************************)
(* Whoever serves, API or worker, finds every table its handlers use.      *)
(* The exceptions have no automatic creation: a bare server for which      *)
(* nobody has created the schema, and a SQLite database that alembic takes *)
(* for complete, because a downgrade of it was cut short.                  *)
(***************************************************************************)
ServingFindsSchema ==
    (worker = "up" \/ \E p \in Apis : Ready(p)) =>
        \/ Complete
        \/ ~settings.auto_create_schema /\ ~container
        \/ ~settings.auto_create_schema /\ ~Transactional /\ stamped

(* Tables that alembic does not know of and no migration is about to stamp *)
Orphaned ==
    /\ ~stamped /\ objects # {}
    /\ \A p \in Apis \cup {Cli} : proc[p].pc = "upgrade" => proc[p].done = 0

(***************************************************************************)
(* A schema made by create_all, or by a SQLite migration that was cut      *)
(* short, stays outside of alembic: no later `alembic upgrade head` ends   *)
(* with the revision recorded, although README.md recommends one after a   *)
(* quick run.                                                              *)
(***************************************************************************)
OrphansStayUnstamped == [](Orphaned => []~stamped)

(***************************************************************************)
(* The stack of compose.yaml comes up: whatever races and dies on the way, *)
(* in the end every API and the worker are up.                             *)
(***************************************************************************)
ContainersComeUp ==
    container /\ Transactional /\ Migratable(settings) =>
        <>[](worker = "up" /\ \A p \in Apis : Ready(p))
===============================================================================
