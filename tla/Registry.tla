------------------------------ MODULE Registry -------------------------------
(***************************************************************************)
(* Users, agents and missions as they come into being: bootstrap_admin at  *)
(* the start of each API process, login, create_user, create_agent and     *)
(* create_mission.  No endpoint updates or removes such a row.             *)
(*                                                                         *)
(* Each handler looks for a row of that name and inserts its own in a      *)
(* later statement; the unique constraints on users.username and           *)
(* agents.name decide between two handlers that both found none.           *)
(***************************************************************************)
EXTENDS Naturals, FiniteSets

CONSTANTS
    Usernames, AgentNames, MissionIds,
    BootstrapName,  \* RX_BOOTSTRAP_ADMIN_USERNAME, the same for all processes
    Processes,      \* API processes
    Slots,          \* create handlers that may be in progress at a time
    MaxStops,       \* bound: how often a process is stopped
    Nothing         \* the target of a slot without a handler

ASSUME RegistryAssumption ==
    /\ BootstrapName \in Usernames
    /\ MaxStops \in Nat
    /\ Nothing \notin Usernames \cup AgentNames \cup MissionIds

VARIABLES
    role,           \* User.role, "none" if no user has the name
    agents,         \* names of the rows of agents
    staff,          \* the agents of each mission's steps, {} if no such row
    tokens,         \* users who hold an access token that has not expired
    audit,          \* audit_events as triples <<action, resource, actor>>
    boot,           \* how far the start of each API process has come
    stops,          \* how often a process has been stopped
    slot            \* the create handler each slot is executing

rows == <<role, agents, staff, audit>>
vars == <<rows, tokens, boot, stops, slot>>

(* Role, models.py *)
Roles == {"viewer", "operator", "admin"}

(* The dependencies Operator and Admin, security.py *)
Operators == {"operator", "admin"}
AdminsOnly == {"admin"}

Idle == [pc |-> "idle", actor |-> Nothing, target |-> Nothing,
         as |-> "none", with |-> {}]

Slot == [pc : {"idle", "user", "agent", "mission"},
         actor : Usernames \cup {Nothing},
         target : Usernames \cup AgentNames \cup MissionIds \cup {Nothing},
         as : Roles \cup {"none"}, with : SUBSET AgentNames]

TypeOK ==
    /\ role \in [Usernames -> Roles \cup {"none"}]
    /\ agents \subseteq AgentNames
    /\ staff \in [MissionIds -> SUBSET AgentNames]
    /\ tokens \subseteq Usernames
    /\ audit \subseteq
          ({"auth.login", "user.created"} \X Usernames \X Usernames)
          \cup ({"agent.created"} \X AgentNames \X Usernames)
          \cup ({"mission.created"} \X MissionIds \X Usernames)
    /\ boot \in [Processes -> {"down", "empty", "up"}]
    /\ stops \in 0..MaxStops
    /\ slot \in [Slots -> Slot]

Init ==
    /\ role = [u \in Usernames |-> "none"]
    /\ agents = {}
    /\ staff = [m \in MissionIds |-> {}]
    /\ tokens = {} /\ audit = {} /\ stops = 0
    /\ boot = [p \in Processes |-> "down"]
    /\ slot = [s \in Slots |-> Idle]

Users == {u \in Usernames : role[u] # "none"}

RecordAudit(action, resource, actor) ==
    audit' = audit \cup {<<action, resource, actor>>}

(* bootstrap_admin: are the credentials given, and is there no user yet? *)
BootstrapCheck(p) ==
    /\ boot[p] = "down"
    /\ \E given \in BOOLEAN :
          boot' = [boot EXCEPT ![p] = IF given /\ Users = {} THEN "empty" ELSE "up"]
    /\ UNCHANGED <<rows, tokens, stops, slot>>

(* Mutant of BootstrapInsert: a process that loses the race hangs. *)
BootstrapInsertHangs(p) ==
    /\ boot[p] = "empty"
    /\ role[BootstrapName] = "none"
    /\ boot' = [boot EXCEPT ![p] = "up"]
    /\ role' = [role EXCEPT ![BootstrapName] = "admin"]
    /\ UNCHANGED <<agents, staff, audit, tokens, stops, slot>>

(* Mutant of BootstrapInsert: a role the enumeration does not have. *)
BootstrapInsertAsRoot(p) ==
    /\ boot[p] = "empty"
    /\ role[BootstrapName] = "none"
    /\ boot' = [boot EXCEPT ![p] = "up"]
    /\ role' = [role EXCEPT ![BootstrapName] = "root"]
    /\ UNCHANGED <<agents, staff, audit, tokens, stops, slot>>

(***************************************************************************)
(* bootstrap_admin: the insert commits, or another process has inserted    *)
(* the name meanwhile and the start-up fails on the unique constraint.     *)
(***************************************************************************)
BootstrapInsert(p) ==
    /\ boot[p] = "empty"
    /\ IF role[BootstrapName] = "none"
         THEN /\ boot' = [boot EXCEPT ![p] = "up"]
              /\ role' = [role EXCEPT ![BootstrapName] = "admin"]
         ELSE /\ boot' = [boot EXCEPT ![p] = "down"]
              /\ UNCHANGED role
    /\ UNCHANGED <<agents, staff, audit, tokens, stops, slot>>

(* login: the user exists and the password is right. *)
Login(u) ==
    /\ \E p \in Processes : boot[p] = "up"
    /\ u \in Users
    /\ RecordAudit("auth.login", u, u)
    /\ tokens' = tokens \cup {u}
    /\ UNCHANGED <<role, agents, staff, boot, stops, slot>>

(* The token's exp passes. *)
Expire(u) ==
    /\ u \in tokens
    /\ tokens' = tokens \ {u}
    /\ UNCHANGED <<rows, boot, stops, slot>>

(* current_user and require_role: who may start a request for these roles *)
Entitled(allowed) == {u \in tokens : role[u] \in allowed}

(* A handler for this actor has looked up what it needs. *)
Opens(s, pc, actor, target, as, with) ==
    /\ slot[s].pc = "idle"
    /\ \E p \in Processes : boot[p] = "up"
    /\ slot' = [slot EXCEPT ![s] = [pc |-> pc, actor |-> actor, target |-> target,
                                    as |-> as, with |-> with]]
    /\ UNCHANGED <<rows, tokens, boot, stops>>

Closes(s) == slot' = [slot EXCEPT ![s] = Idle] /\ UNCHANGED <<tokens, boot, stops>>

(* Mutant of CreateUserCheck: operators may create users too. *)
CreateUserCheckLoose(s) ==
    \E actor \in Entitled(Operators), u \in Usernames, r \in Roles :
        role[u] = "none" /\ Opens(s, "user", actor, u, r, {})

(* create_user: no user has the name. *)
CreateUserCheck(s) ==
    \E actor \in Entitled(AdminsOnly), u \in Usernames, r \in Roles :
        role[u] = "none" /\ Opens(s, "user", actor, u, r, {})

(* Mutant of CreateUserCommit: the row is replaced if there is one. *)
CreateUserOverwrites(s) ==
    LET h == slot[s] IN
    /\ h.pc = "user"
    /\ role' = [role EXCEPT ![h.target] = h.as]
    /\ RecordAudit("user.created", h.target, h.actor)
    /\ UNCHANGED <<agents, staff>>
    /\ Closes(s)

(* create_user: the insert and its audit commit, or the flush fails. *)
CreateUserCommit(s) ==
    LET h == slot[s] IN
    /\ h.pc = "user"
    /\ IF role[h.target] = "none"
         THEN /\ role' = [role EXCEPT ![h.target] = h.as]
              /\ RecordAudit("user.created", h.target, h.actor)
         ELSE UNCHANGED <<role, audit>>
    /\ UNCHANGED <<agents, staff>>
    /\ Closes(s)

(* create_agent: no agent has the name. *)
CreateAgentCheck(s) ==
    \E actor \in Entitled(Operators), g \in AgentNames :
        g \notin agents /\ Opens(s, "agent", actor, g, "none", {})

(* Mutant of CreateAgentCommit: it is audited even if the insert failed. *)
CreateAgentAlways(s) ==
    LET h == slot[s] IN
    /\ h.pc = "agent"
    /\ agents' = agents \cup {h.target}
    /\ RecordAudit("agent.created", h.target, h.actor)
    /\ UNCHANGED <<role, staff>>
    /\ Closes(s)

(* create_agent: the insert and its audit commit, or the flush fails. *)
CreateAgentCommit(s) ==
    LET h == slot[s] IN
    /\ h.pc = "agent"
    /\ IF h.target \notin agents
         THEN /\ agents' = agents \cup {h.target}
              /\ RecordAudit("agent.created", h.target, h.actor)
         ELSE UNCHANGED <<agents, audit>>
    /\ UNCHANGED <<role, staff>>
    /\ Closes(s)

(* create_mission: a validated plan, whose agents have all been found *)
CreateMissionCheck(s) ==
    \E actor \in Entitled(Operators), m \in MissionIds, g \in SUBSET agents :
        /\ staff[m] = {} /\ g # {}
        /\ \A t \in Slots : slot[t].target # m      \* a fresh uuid
        /\ Opens(s, "mission", actor, m, "none", g)

(* create_mission: the mission, its steps and the audit commit. *)
CreateMissionCommit(s) ==
    LET h == slot[s] IN
    /\ h.pc = "mission"
    /\ staff' = [staff EXCEPT ![h.target] = h.with]
    /\ RecordAudit("mission.created", h.target, h.actor)
    /\ UNCHANGED <<role, agents>>
    /\ Closes(s)

(* A process stops: its handlers are dropped, its transactions rolled back. *)
Stop(p) ==
    /\ boot[p] # "down"
    /\ stops < MaxStops
    /\ stops' = stops + 1
    /\ boot' = [boot EXCEPT ![p] = "down"]
    /\ \E lost \in SUBSET Slots :
          slot' = [s \in Slots |-> IF s \in lost THEN Idle ELSE slot[s]]
    /\ UNCHANGED <<rows, tokens>>

Start(p) == BootstrapCheck(p) \/ BootstrapInsert(p)

Create(s) ==
    \/ CreateUserCheck(s) \/ CreateUserCommit(s)
    \/ CreateAgentCheck(s) \/ CreateAgentCommit(s)
    \/ CreateMissionCheck(s) \/ CreateMissionCommit(s)

Next ==
    \/ \E p \in Processes : Start(p) \/ Stop(p)
    \/ \E u \in Usernames : Login(u) \/ Expire(u)
    \/ \E s \in Slots : Create(s)

Spec == Init /\ [][Next]_vars

(* Compose restarts a container that stops (restart: unless-stopped). *)
FairSpec == Spec /\ \A p \in Processes : WF_vars(Start(p))

----------------------------------------------------------------------------

(* The actors the trail names for this action on this resource *)
ActorsOf(action, resource) == {u \in Usernames : <<action, resource, u>> \in audit}

(***************************************************************************)
(* A user, agent or mission that was created has exactly one creation in   *)
(* the trail, a name without a row has none, and only the bootstrap        *)
(* administrator comes without: handlers that race for a name leave one    *)
(* row and one event.  The agents of a mission's steps exist.              *)
(***************************************************************************)
TrailMatchesRows ==
    LET Creations(action, resource) == Cardinality(ActorsOf(action, resource)) IN
    /\ \A u \in Usernames : Creations("user.created", u) =
          IF u \in Users \ {BootstrapName} THEN 1 ELSE 0
    /\ \A g \in AgentNames : Creations("agent.created", g) =
          IF g \in agents THEN 1 ELSE 0
    /\ \A m \in MissionIds :
          /\ Creations("mission.created", m) = IF staff[m] # {} THEN 1 ELSE 0
          /\ staff[m] \subseteq agents

(***************************************************************************)
(* Whoever the trail names as creator has, as the account stands, the role *)
(* README.md demands for it; so every account goes back, through admins,   *)
(* to the bootstrap administrator.                                         *)
(***************************************************************************)
ActorsEntitled ==
    /\ \A r \in Usernames : \A u \in ActorsOf("user.created", r) : role[u] = "admin"
    /\ \A r \in AgentNames : \A u \in ActorsOf("agent.created", r) : role[u] \in Operators
    /\ \A r \in MissionIds : \A u \in ActorsOf("mission.created", r) : role[u] \in Operators

(***************************************************************************)
(* An account keeps its role: neither a create_user that lost a race for   *)
(* the name nor a restart's bootstrap takes an existing account over.      *)
(***************************************************************************)
AccountsImmutable ==
    [][\A u \in Usernames : role[u] # "none" => role'[u] = role[u]]_vars

(***************************************************************************)
(* Every API process comes up in the end, also one whose bootstrap lost    *)
(* the race for the first administrator and failed.                        *)
(***************************************************************************)
AllProcessesStart == \A p \in Processes : <>[](boot[p] = "up")
===============================================================================
