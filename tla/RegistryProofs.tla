---------------------------- MODULE RegistryProofs ----------------------------
(***************************************************************************)
(* Proofs about Registry, for any names, any number of processes, slots    *)
(* and stops.                                                              *)
(***************************************************************************)
EXTENDS Registry, FiniteSetTheorems, TLAPS

(* The first account is the bootstrap administrator's. *)
Founded == Users # {} => role[BootstrapName] = "admin"

TokensOfUsers == tokens \subseteq Users

(* What a handler in progress has established and may rely on *)
SlotSound(s) ==
    /\ slot[s].pc = "user" => /\ slot[s].target \in Usernames \ {BootstrapName}
                              /\ slot[s].as \in Roles
                              /\ slot[s].actor \in Usernames
                              /\ role[slot[s].actor] = "admin"
    /\ slot[s].pc = "agent" => /\ slot[s].target \in AgentNames
                               /\ slot[s].actor \in Usernames
                               /\ role[slot[s].actor] \in Operators
    /\ slot[s].pc = "mission" => /\ slot[s].target \in MissionIds
                                 /\ slot[s].actor \in Usernames
                                 /\ role[slot[s].actor] \in Operators
                                 /\ slot[s].with # {} /\ slot[s].with \subseteq agents
                                 /\ staff[slot[s].target] = {}

SlotsSound == \A s \in Slots : SlotSound(s)

(* No two handlers create the mission of the same id. *)
FreshMissions ==
    \A s, t \in Slots :
        /\ slot[s].pc = "mission" /\ slot[t].pc = "mission"
        /\ slot[t].target = slot[s].target
        => s = t

(* One event if there is such a row, none if there is not *)
Sole(action, resource, exists) ==
    IF exists THEN \E u \in Usernames : ActorsOf(action, resource) = {u}
              ELSE ActorsOf(action, resource) = {}

UserTrail == \A u \in Usernames : Sole("user.created", u, u \in Users \ {BootstrapName})
AgentTrail == \A g \in AgentNames : Sole("agent.created", g, g \in agents)
MissionTrail == \A m \in MissionIds : /\ Sole("mission.created", m, staff[m] # {})
                                      /\ staff[m] \subseteq agents

IInv == /\ TypeOK /\ Founded /\ TokensOfUsers /\ SlotsSound /\ FreshMissions
        /\ UserTrail /\ AgentTrail /\ MissionTrail /\ ActorsEntitled

----------------------------------------------------------------------------
(* What the invariant says of the trail is what TrailMatchesRows counts. *)
LEMMA TrailCounted == IInv => TrailMatchesRows
<1>. SUFFICES ASSUME IInv PROVE TrailMatchesRows
  OBVIOUS
<1>1. /\ Cardinality({}) = 0
      /\ \A u : Cardinality({u}) = 1
  BY FS_EmptySet, FS_Singleton
<1>2. \A a, r : /\ Sole(a, r, TRUE) => Cardinality(ActorsOf(a, r)) = 1
                /\ Sole(a, r, FALSE) => Cardinality(ActorsOf(a, r)) = 0
  BY <1>1 DEF Sole
<1>3. ASSUME NEW u \in Usernames
      PROVE  Cardinality(ActorsOf("user.created", u)) =
                IF u \in Users \ {BootstrapName} THEN 1 ELSE 0
  <2>1. CASE u \in Users \ {BootstrapName}
    BY <1>2, <2>1 DEF IInv, UserTrail, Sole
  <2>2. CASE u \notin Users \ {BootstrapName}
    BY <1>2, <2>2 DEF IInv, UserTrail, Sole
  <2>. QED  BY <2>1, <2>2
<1>4. ASSUME NEW g \in AgentNames
      PROVE  Cardinality(ActorsOf("agent.created", g)) = IF g \in agents THEN 1 ELSE 0
  <2>1. CASE g \in agents
    BY <1>2, <2>1 DEF IInv, AgentTrail, Sole
  <2>2. CASE g \notin agents
    BY <1>2, <2>2 DEF IInv, AgentTrail, Sole
  <2>. QED  BY <2>1, <2>2
<1>5. ASSUME NEW m \in MissionIds
      PROVE  Cardinality(ActorsOf("mission.created", m)) = IF staff[m] # {} THEN 1 ELSE 0
  <2>1. CASE staff[m] # {}
    BY <1>2, <2>1 DEF IInv, MissionTrail, Sole
  <2>2. CASE staff[m] = {}
    BY <1>2, <2>2 DEF IInv, MissionTrail, Sole
  <2>. QED  BY <2>1, <2>2
<1>6. \A m \in MissionIds : staff[m] \subseteq agents
  BY DEF IInv, MissionTrail
<1>. QED  BY <1>3, <1>4, <1>5, <1>6 DEF TrailMatchesRows

LEMMA InitInv == Init => IInv
<1>. SUFFICES ASSUME Init PROVE IInv
  OBVIOUS
<1>1. Users = {}
  BY DEF Init, Users
<1>2. \A a, r : ActorsOf(a, r) = {}
  BY DEF Init, ActorsOf
<1>3. TypeOK
  BY RegistryAssumption DEF Init, TypeOK, Idle, Slot, Roles
<1>4. Founded /\ TokensOfUsers
  BY <1>1 DEF Init, Founded, TokensOfUsers
<1>5. SlotsSound /\ FreshMissions
  BY DEF Init, SlotsSound, SlotSound, FreshMissions, Idle
<1>6. UserTrail /\ AgentTrail /\ MissionTrail /\ ActorsEntitled
  BY <1>1, <1>2 DEF Init, UserTrail, AgentTrail, MissionTrail, Sole, ActorsEntitled
<1>. QED  BY <1>3, <1>4, <1>5, <1>6 DEF IInv

(* Who is an operator or an administrator is a user. *)
LEMMA EntitledAreUsers ==
    ASSUME IInv, NEW allowed, NEW u \in Entitled(allowed)
    PROVE  u \in Usernames /\ u \in Users /\ role[u] \in allowed /\ role[u] # "none"
BY DEF IInv, TokensOfUsers, Users, Entitled

(***************************************************************************)
(* The parts of the invariant that the rows alone decide                   *)
(***************************************************************************)
LEMMA SameRows ==
    ASSUME IInv, UNCHANGED rows
    PROVE  Founded' /\ UserTrail' /\ AgentTrail' /\ MissionTrail' /\ ActorsEntitled'
           /\ Users' = Users
<1>1. Users' = Users
  BY DEF rows, Users
<1>2. \A a, r : ActorsOf(a, r)' = ActorsOf(a, r)
  BY DEF rows, ActorsOf
<1>3. Founded'
  BY <1>1 DEF IInv, Founded, rows
<1>4. UserTrail' /\ AgentTrail' /\ MissionTrail'
  BY <1>1, <1>2 DEF IInv, UserTrail, AgentTrail, MissionTrail, Sole, rows
<1>5. ActorsEntitled'
  BY <1>2 DEF IInv, ActorsEntitled, rows
<1>. QED  BY <1>1, <1>3, <1>4, <1>5

(* A step that leaves the rows and every handler as they are *)
LEMMA SameSlots ==
    ASSUME IInv, UNCHANGED <<rows, slot>>, TypeOK', TokensOfUsers'
    PROVE  IInv'
<1>1. SlotsSound' /\ FreshMissions'
  BY DEF IInv, SlotsSound, SlotSound, FreshMissions, rows
<1>. QED  BY <1>1, SameRows DEF IInv

(* What is in the trail after one more event *)
LEMMA Recorded ==
    ASSUME NEW a, NEW r, NEW u \in Usernames, RecordAudit(a, r, u)
    PROVE  /\ ActorsOf(a, r)' = ActorsOf(a, r) \cup {u}
           /\ \A b, s : b # a \/ s # r => ActorsOf(b, s)' = ActorsOf(b, s)
BY DEF ActorsOf, RecordAudit

LEMMA BootstrapCheckInv ==
    ASSUME IInv, NEW p \in Processes, BootstrapCheck(p)
    PROVE  IInv'
<1>1. UNCHANGED <<rows, tokens, stops, slot>>
  BY DEF BootstrapCheck
<1>2. TypeOK'
  BY <1>1 DEF IInv, TypeOK, BootstrapCheck, rows
<1>3. TokensOfUsers'
  BY <1>1, SameRows DEF IInv, TokensOfUsers
<1>. QED  BY <1>1, <1>2, <1>3, SameSlots

LEMMA LoginInv ==
    ASSUME IInv, NEW u \in Usernames, Login(u)
    PROVE  IInv'
<1>1. /\ UNCHANGED <<role, agents, staff, boot, stops, slot>>
      /\ tokens' = tokens \cup {u} /\ u \in Users
      /\ RecordAudit("auth.login", u, u)
  BY DEF Login
<1>2. Users' = Users
  BY <1>1 DEF Users
<1>3. \A a, r : a # "auth.login" => ActorsOf(a, r)' = ActorsOf(a, r)
  BY <1>1, Recorded
<1>4. TypeOK'
  BY <1>1 DEF IInv, TypeOK, RecordAudit
<1>5. Founded' /\ TokensOfUsers'
  BY <1>1, <1>2 DEF IInv, Founded, TokensOfUsers
<1>6. SlotsSound' /\ FreshMissions'
  BY <1>1 DEF IInv, SlotsSound, SlotSound, FreshMissions
<1>7. UserTrail' /\ AgentTrail' /\ MissionTrail'
  BY <1>1, <1>2, <1>3 DEF IInv, UserTrail, AgentTrail, MissionTrail, Sole
<1>8. ActorsEntitled'
  BY <1>1, <1>3 DEF IInv, ActorsEntitled
<1>. QED  BY <1>4, <1>5, <1>6, <1>7, <1>8 DEF IInv

LEMMA ExpireInv ==
    ASSUME IInv, NEW u \in Usernames, Expire(u)
    PROVE  IInv'
<1>1. UNCHANGED <<rows, boot, stops, slot>> /\ tokens' = tokens \ {u}
  BY DEF Expire
<1>2. TypeOK'
  BY <1>1 DEF IInv, TypeOK, rows
<1>3. TokensOfUsers'
  BY <1>1, SameRows DEF IInv, TokensOfUsers
<1>. QED  BY <1>1, <1>2, <1>3, SameSlots

(* A name without a row: what its row is when the insert commits *)
LEMMA BootstrapInsertInv ==
    ASSUME IInv, NEW p \in Processes, BootstrapInsert(p)
    PROVE  IInv'
<1>1. UNCHANGED <<agents, staff, audit, tokens, stops, slot>>
  BY DEF BootstrapInsert
<1>2. CASE role[BootstrapName] = "none"
  <2>1. /\ role' = [role EXCEPT ![BootstrapName] = "admin"]
        /\ boot' = [boot EXCEPT ![p] = "up"]
    BY <1>2 DEF BootstrapInsert
  <2>2. Users = {} /\ \A u \in Usernames : role[u] = "none"
    BY <1>2 DEF IInv, Founded, Users
  <2>3. /\ role'[BootstrapName] = "admin"
        /\ Users' = {BootstrapName}
    BY <2>1, <2>2, RegistryAssumption DEF Users, IInv, TypeOK
  <2>4. \A a, r : ActorsOf(a, r)' = ActorsOf(a, r)
    BY <1>1 DEF ActorsOf
  <2>5. \A a, r : \A u \in ActorsOf(a, r) : u \in Usernames
    BY DEF ActorsOf
  <2>6. TypeOK'
    BY <1>1, <2>1 DEF IInv, TypeOK, Roles
  <2>7. Founded' /\ TokensOfUsers'
    BY <1>1, <2>2, <2>3 DEF IInv, Founded, TokensOfUsers
  <2>8. SlotsSound' /\ FreshMissions'
    BY <1>1, <2>2 DEF IInv, SlotsSound, SlotSound, FreshMissions, Operators
  <2>9. UserTrail' /\ AgentTrail' /\ MissionTrail'
    <3>1. UserTrail'
      BY <2>2, <2>3, <2>4 DEF IInv, UserTrail, Sole
    <3>. QED  BY <1>1, <2>4, <3>1 DEF IInv, AgentTrail, MissionTrail, Sole
  <2>10. ActorsEntitled'
    BY <2>2, <2>4, <2>5 DEF IInv, ActorsEntitled, Operators
  <2>. QED  BY <2>6, <2>7, <2>8, <2>9, <2>10 DEF IInv
<1>3. CASE role[BootstrapName] # "none"
  <2>1. boot' = [boot EXCEPT ![p] = "down"] /\ UNCHANGED <<rows, slot>>
    BY <1>1, <1>3 DEF BootstrapInsert, rows
  <2>2. TypeOK'
    BY <1>1, <2>1 DEF IInv, TypeOK, rows
  <2>3. TokensOfUsers'
    BY <1>1, <2>1, SameRows DEF IInv, TokensOfUsers
  <2>. QED  BY <2>1, <2>2, <2>3, SameSlots
<1>. QED  BY <1>2, <1>3

(* A handler that has looked up what it needs takes a free slot. *)
LEMMA OpensInv ==
    ASSUME IInv, NEW s \in Slots, NEW pc \in {"user", "agent", "mission"},
           NEW actor \in Usernames,
           NEW target \in Usernames \cup AgentNames \cup MissionIds,
           NEW as \in Roles \cup {"none"}, NEW with \in SUBSET AgentNames,
           Opens(s, pc, actor, target, as, with),
           pc = "user" => /\ target \in Usernames \ {BootstrapName}
                          /\ as \in Roles /\ role[actor] = "admin",
           pc = "agent" => target \in AgentNames /\ role[actor] \in Operators,
           pc = "mission" => /\ target \in MissionIds /\ role[actor] \in Operators
                             /\ with # {} /\ with \subseteq agents /\ staff[target] = {},
           pc = "mission" => \A t \in Slots : slot[t].target # target
    PROVE  IInv'
<1>. DEFINE new == [pc |-> pc, actor |-> actor, target |-> target, as |-> as, with |-> with]
<1>1. /\ slot' = [slot EXCEPT ![s] = new]
      /\ UNCHANGED <<rows, tokens, boot, stops>>
  BY DEF Opens
<1>2. /\ slot'[s] = new
      /\ \A t \in Slots : t # s => slot'[t] = slot[t]
  BY <1>1 DEF IInv, TypeOK
<1>3. new \in Slot
  BY DEF Slot
<1>4. TypeOK'
  BY <1>1, <1>3 DEF IInv, TypeOK, rows
<1>5. TokensOfUsers'
  BY <1>1, SameRows DEF IInv, TokensOfUsers
<1>6. SlotsSound'
  <2>. SUFFICES ASSUME NEW t \in Slots PROVE SlotSound(t)'
    BY DEF SlotsSound
  <2>1. CASE t = s
    <3>1. /\ slot'[t].pc = pc /\ slot'[t].actor = actor /\ slot'[t].target = target
          /\ slot'[t].as = as /\ slot'[t].with = with
      <4>1. slot'[t] = new
        BY <1>2, <2>1
      <4>2. /\ new.pc = pc /\ new.actor = actor /\ new.target = target
            /\ new.as = as /\ new.with = with
        OBVIOUS
      <4>. QED  BY <4>1, <4>2
    <3>. QED  BY <1>1, <3>1 DEF SlotSound, rows
  <2>2. CASE t # s
    BY <1>1, <1>2, <2>2 DEF SlotSound, SlotsSound, IInv, rows
  <2>. QED  BY <2>1, <2>2
<1>7. FreshMissions'
  BY <1>2 DEF IInv, FreshMissions
<1>. QED  BY <1>1, <1>4, <1>5, <1>6, <1>7, SameRows DEF IInv

LEMMA CheckInv ==
    ASSUME IInv, NEW s \in Slots,
           CreateUserCheck(s) \/ CreateAgentCheck(s) \/ CreateMissionCheck(s)
    PROVE  IInv'
<1>1. CASE CreateUserCheck(s)
  <2>1. PICK actor \in Entitled(AdminsOnly), u \in Usernames, r \in Roles :
          role[u] = "none" /\ Opens(s, "user", actor, u, r, {})
    BY <1>1 DEF CreateUserCheck
  <2>2. actor \in Usernames /\ actor \in Users /\ role[actor] = "admin"
    BY EntitledAreUsers DEF AdminsOnly
  <2>3. u # BootstrapName
    BY <2>1, <2>2 DEF IInv, Founded
  <2>. QED  BY <2>1, <2>2, <2>3, OpensInv
<1>2. CASE CreateAgentCheck(s)
  <2>1. PICK actor \in Entitled(Operators), g \in AgentNames :
          Opens(s, "agent", actor, g, "none", {})
    BY <1>2 DEF CreateAgentCheck
  <2>2. actor \in Usernames /\ role[actor] \in Operators
    BY EntitledAreUsers
  <2>. QED  BY <2>1, <2>2, OpensInv
<1>3. CASE CreateMissionCheck(s)
  <2>1. PICK actor \in Entitled(Operators), m \in MissionIds, g \in SUBSET agents :
          /\ staff[m] = {} /\ g # {}
          /\ \A t \in Slots : slot[t].target # m
          /\ Opens(s, "mission", actor, m, "none", g)
    BY <1>3 DEF CreateMissionCheck
  <2>2. actor \in Usernames /\ role[actor] \in Operators
    BY EntitledAreUsers
  <2>3. g \in SUBSET AgentNames
    BY DEF IInv, TypeOK
  <2>. QED  BY <2>1, <2>2, <2>3, OpensInv
<1>. QED  BY <1>1, <1>2, <1>3

(* A handler that ends leaves nothing to establish for itself. *)
LEMMA ClosesSlots ==
    ASSUME IInv, NEW s \in Slots, Closes(s),
           \A u \in Usernames : role[u] # "none" => role'[u] = role[u],
           agents \subseteq agents',
           \A m \in MissionIds : staff'[m] = staff[m] \/ (slot[s].pc = "mission" /\ m = slot[s].target)
    PROVE  /\ slot' \in [Slots -> Slot]
           /\ tokens' \subseteq Usernames
           /\ boot' \in [Processes -> {"down", "empty", "up"}]
           /\ stops' \in 0..MaxStops
           /\ TokensOfUsers' /\ SlotsSound' /\ FreshMissions'
<1>1. /\ slot' = [slot EXCEPT ![s] = Idle]
      /\ UNCHANGED <<tokens, boot, stops>>
  BY DEF Closes
<1>2. /\ slot'[s] = Idle /\ Idle \in Slot /\ Idle.pc = "idle"
      /\ \A t \in Slots : t # s => slot'[t] = slot[t]
  BY <1>1 DEF IInv, TypeOK, Idle, Slot
<1>3. TokensOfUsers'
  BY <1>1 DEF IInv, TokensOfUsers, Users
<1>4. SlotsSound'
  <2>. SUFFICES ASSUME NEW t \in Slots PROVE SlotSound(t)'
    BY DEF SlotsSound
  <2>1. CASE t = s
    BY <1>2, <2>1 DEF SlotSound
  <2>2. CASE t # s
    <3>1. slot'[t] = slot[t] /\ SlotSound(t)
      BY <1>2, <2>2 DEF IInv, SlotsSound
    <3>2. slot[t].pc = "mission" => staff'[slot[t].target] = staff[slot[t].target]
      BY <2>2, <3>1 DEF IInv, FreshMissions, SlotSound
    <3>. QED  BY <3>1, <3>2 DEF SlotSound, Operators
  <2>. QED  BY <2>1, <2>2
<1>5. FreshMissions'
  BY <1>2 DEF IInv, FreshMissions
<1>. QED  BY <1>1, <1>2, <1>3, <1>4, <1>5 DEF IInv, TypeOK

LEMMA CreateUserCommitInv ==
    ASSUME IInv, NEW s \in Slots, CreateUserCommit(s)
    PROVE  IInv'
<1>1. PICK h : h = slot[s]
  OBVIOUS
<1>2. /\ h.pc = "user" /\ UNCHANGED <<agents, staff>> /\ Closes(s)
  BY <1>1 DEF CreateUserCommit
<1>3. /\ h.target \in Usernames \ {BootstrapName} /\ h.as \in Roles
      /\ h.actor \in Usernames /\ role[h.actor] = "admin"
  BY <1>1, <1>2 DEF IInv, SlotsSound, SlotSound
<1>4. CASE role[h.target] = "none"
  <2>1. /\ role' = [role EXCEPT ![h.target] = h.as]
        /\ RecordAudit("user.created", h.target, h.actor)
    BY <1>1, <1>4 DEF CreateUserCommit
  <2>2. /\ role'[h.target] = h.as
        /\ \A u \in Usernames : u # h.target => role'[u] = role[u]
        /\ \A u \in Usernames : role[u] # "none" => role'[u] = role[u]
    BY <1>3, <1>4, <2>1 DEF IInv, TypeOK
  <2>3. /\ ActorsOf("user.created", h.target)' = {h.actor}
        /\ \A b, r : b # "user.created" \/ r # h.target => ActorsOf(b, r)' = ActorsOf(b, r)
    <3>1. ActorsOf("user.created", h.target) = {}
      BY <1>3, <1>4 DEF IInv, UserTrail, Sole, Users
    <3>. QED  BY <1>3, <2>1, <3>1, Recorded
  <2>4. Users' = Users \cup {h.target}
    BY <1>3, <2>2 DEF Users, Roles
  <2>5. /\ slot' \in [Slots -> Slot] /\ tokens' \subseteq Usernames
        /\ boot' \in [Processes -> {"down", "empty", "up"}] /\ stops' \in 0..MaxStops
        /\ TokensOfUsers' /\ SlotsSound' /\ FreshMissions'
    BY <1>2, <2>2, ClosesSlots
  <2>6. TypeOK'
    BY <1>2, <1>3, <2>1, <2>5 DEF IInv, TypeOK, RecordAudit
  <2>7. Founded'
    <3>1. role[BootstrapName] = "admin"
      BY <1>3 DEF IInv, Founded, Users
    <3>. QED  BY <2>2, <3>1, RegistryAssumption DEF Founded
  <2>8. UserTrail'
    <3>. SUFFICES ASSUME NEW u \in Usernames
                  PROVE  Sole("user.created", u, u \in Users \ {BootstrapName})'
      BY DEF UserTrail
    <3>1. CASE u = h.target
      BY <1>3, <2>3, <2>4, <3>1 DEF Sole
    <3>2. CASE u # h.target
      <4>1. ActorsOf("user.created", u)' = ActorsOf("user.created", u)
        BY <2>3, <3>2
      <4>. QED  BY <2>4, <3>2, <4>1 DEF IInv, UserTrail, Sole
    <3>. QED  BY <3>1, <3>2
  <2>9. AgentTrail' /\ MissionTrail'
    BY <1>2, <2>3 DEF IInv, AgentTrail, MissionTrail, Sole
  <2>10. ActorsEntitled'
    <3>1. \A b, r : \A u \in ActorsOf(b, r) : u \in Usernames
      BY DEF ActorsOf
    <3>. QED  BY <1>3, <2>2, <2>3, <3>1 DEF IInv, ActorsEntitled, Operators
  <2>. QED  BY <2>5, <2>6, <2>7, <2>8, <2>9, <2>10 DEF IInv
<1>5. CASE role[h.target] # "none"
  <2>1. UNCHANGED rows
    BY <1>1, <1>2, <1>5 DEF CreateUserCommit, rows
  <2>2. /\ slot' \in [Slots -> Slot] /\ tokens' \subseteq Usernames
        /\ boot' \in [Processes -> {"down", "empty", "up"}] /\ stops' \in 0..MaxStops
        /\ TokensOfUsers' /\ SlotsSound' /\ FreshMissions'
    BY <1>2, <2>1, ClosesSlots DEF rows
  <2>3. TypeOK'
    BY <2>1, <2>2 DEF IInv, TypeOK, rows
  <2>. QED  BY <2>1, <2>2, <2>3, SameRows DEF IInv
<1>. QED  BY <1>4, <1>5

LEMMA CreateAgentCommitInv ==
    ASSUME IInv, NEW s \in Slots, CreateAgentCommit(s)
    PROVE  IInv'
<1>1. PICK h : h = slot[s]
  OBVIOUS
<1>2. /\ h.pc = "agent" /\ UNCHANGED <<role, staff>> /\ Closes(s)
  BY <1>1 DEF CreateAgentCommit
<1>3. /\ h.target \in AgentNames
      /\ h.actor \in Usernames /\ role[h.actor] \in Operators
  BY <1>1, <1>2 DEF IInv, SlotsSound, SlotSound
<1>4. CASE h.target \notin agents
  <2>1. /\ agents' = agents \cup {h.target}
        /\ RecordAudit("agent.created", h.target, h.actor)
    BY <1>1, <1>4 DEF CreateAgentCommit
  <2>2. /\ ActorsOf("agent.created", h.target)' = {h.actor}
        /\ \A b, r : b # "agent.created" \/ r # h.target => ActorsOf(b, r)' = ActorsOf(b, r)
    <3>1. ActorsOf("agent.created", h.target) = {}
      BY <1>3, <1>4 DEF IInv, AgentTrail, Sole
    <3>. QED  BY <1>3, <2>1, <3>1, Recorded
  <2>3. /\ slot' \in [Slots -> Slot] /\ tokens' \subseteq Usernames
        /\ boot' \in [Processes -> {"down", "empty", "up"}] /\ stops' \in 0..MaxStops
        /\ TokensOfUsers' /\ SlotsSound' /\ FreshMissions'
    BY <1>2, <2>1, ClosesSlots
  <2>4. TypeOK'
    BY <1>2, <1>3, <2>1, <2>3 DEF IInv, TypeOK, RecordAudit
  <2>5. Users' = Users
    BY <1>2 DEF Users
  <2>6. Founded' /\ UserTrail'
    BY <1>2, <2>2, <2>5 DEF IInv, Founded, UserTrail, Sole
  <2>7. AgentTrail'
    <3>. SUFFICES ASSUME NEW g \in AgentNames
                  PROVE  Sole("agent.created", g, g \in agents)'
      BY DEF AgentTrail
    <3>1. CASE g = h.target
      BY <1>3, <2>1, <2>2, <3>1 DEF Sole
    <3>2. CASE g # h.target
      <4>1. ActorsOf("agent.created", g)' = ActorsOf("agent.created", g)
        BY <2>2, <3>2
      <4>. QED  BY <2>1, <3>2, <4>1 DEF IInv, AgentTrail, Sole
    <3>. QED  BY <3>1, <3>2
  <2>8. MissionTrail'
    BY <1>2, <2>1, <2>2 DEF IInv, MissionTrail, Sole
  <2>9. ActorsEntitled'
    BY <1>2, <1>3, <2>2 DEF IInv, ActorsEntitled
  <2>. QED  BY <2>3, <2>4, <2>6, <2>7, <2>8, <2>9 DEF IInv
<1>5. CASE h.target \in agents
  <2>1. UNCHANGED rows
    BY <1>1, <1>2, <1>5 DEF CreateAgentCommit, rows
  <2>2. /\ slot' \in [Slots -> Slot] /\ tokens' \subseteq Usernames
        /\ boot' \in [Processes -> {"down", "empty", "up"}] /\ stops' \in 0..MaxStops
        /\ TokensOfUsers' /\ SlotsSound' /\ FreshMissions'
    BY <1>2, <2>1, ClosesSlots DEF rows
  <2>3. TypeOK'
    BY <2>1, <2>2 DEF IInv, TypeOK, rows
  <2>. QED  BY <2>1, <2>2, <2>3, SameRows DEF IInv
<1>. QED  BY <1>4, <1>5

LEMMA CreateMissionCommitInv ==
    ASSUME IInv, NEW s \in Slots, CreateMissionCommit(s)
    PROVE  IInv'
<1>1. PICK h : h = slot[s]
  OBVIOUS
<1>2. /\ h.pc = "mission" /\ UNCHANGED <<role, agents>> /\ Closes(s)
      /\ staff' = [staff EXCEPT ![h.target] = h.with]
      /\ RecordAudit("mission.created", h.target, h.actor)
  BY <1>1 DEF CreateMissionCommit
<1>3. /\ h.target \in MissionIds
      /\ h.actor \in Usernames /\ role[h.actor] \in Operators
      /\ h.with # {} /\ h.with \subseteq agents /\ staff[h.target] = {}
  BY <1>1, <1>2 DEF IInv, SlotsSound, SlotSound
<1>4. /\ staff'[h.target] = h.with
      /\ \A m \in MissionIds : m # h.target => staff'[m] = staff[m]
  BY <1>2, <1>3 DEF IInv, TypeOK
<1>5. /\ ActorsOf("mission.created", h.target)' = {h.actor}
      /\ \A b, r : b # "mission.created" \/ r # h.target => ActorsOf(b, r)' = ActorsOf(b, r)
  <2>1. ActorsOf("mission.created", h.target) = {}
    BY <1>3 DEF IInv, MissionTrail, Sole
  <2>. QED  BY <1>2, <1>3, <2>1, Recorded
<1>6. /\ slot' \in [Slots -> Slot] /\ tokens' \subseteq Usernames
      /\ boot' \in [Processes -> {"down", "empty", "up"}] /\ stops' \in 0..MaxStops
      /\ TokensOfUsers' /\ SlotsSound' /\ FreshMissions'
  BY <1>1, <1>2, <1>4, ClosesSlots
<1>7. TypeOK'
  BY <1>2, <1>3, <1>6 DEF IInv, TypeOK, RecordAudit
<1>8. Users' = Users
  BY <1>2 DEF Users
<1>9. Founded' /\ UserTrail' /\ AgentTrail'
  BY <1>2, <1>5, <1>8 DEF IInv, Founded, UserTrail, AgentTrail, Sole
<1>10. MissionTrail'
  <2>. SUFFICES ASSUME NEW m \in MissionIds
                PROVE  (Sole("mission.created", m, staff[m] # {}) /\ staff[m] \subseteq agents)'
    BY DEF MissionTrail
  <2>1. CASE m = h.target
    BY <1>2, <1>3, <1>4, <1>5, <2>1 DEF Sole
  <2>2. CASE m # h.target
    <3>1. ActorsOf("mission.created", m)' = ActorsOf("mission.created", m)
      BY <1>5, <2>2
    <3>. QED  BY <1>2, <1>4, <2>2, <3>1 DEF IInv, MissionTrail, Sole
  <2>. QED  BY <2>1, <2>2
<1>11. ActorsEntitled'
  BY <1>2, <1>3, <1>5 DEF IInv, ActorsEntitled
<1>. QED  BY <1>6, <1>7, <1>9, <1>10, <1>11 DEF IInv

LEMMA StopInv ==
    ASSUME IInv, NEW p \in Processes, Stop(p)
    PROVE  IInv'
<1>1. /\ UNCHANGED <<rows, tokens>>
      /\ boot' = [boot EXCEPT ![p] = "down"]
      /\ stops < MaxStops /\ stops' = stops + 1
  BY DEF Stop
<1>2. PICK lost \in SUBSET Slots :
        slot' = [s \in Slots |-> IF s \in lost THEN Idle ELSE slot[s]]
  BY DEF Stop
<1>3. Idle \in Slot /\ Idle.pc = "idle"
  BY DEF Idle, Slot
<1>4. \A s \in Slots : slot'[s] = Idle \/ slot'[s] = slot[s]
  BY <1>2
<1>5. TypeOK'
  <2>1. slot' \in [Slots -> Slot]
    BY <1>2, <1>3 DEF IInv, TypeOK
  <2>2. stops' \in 0..MaxStops
    BY <1>1, RegistryAssumption DEF IInv, TypeOK
  <2>. QED  BY <1>1, <2>1, <2>2 DEF IInv, TypeOK, rows
<1>6. TokensOfUsers'
  BY <1>1, SameRows DEF IInv, TokensOfUsers
<1>7. SlotsSound'
  <2>. SUFFICES ASSUME NEW s \in Slots PROVE SlotSound(s)'
    BY DEF SlotsSound
  <2>1. CASE slot'[s] = Idle
    BY <1>3, <2>1 DEF SlotSound
  <2>2. CASE slot'[s] = slot[s]
    BY <1>1, <2>2 DEF IInv, SlotsSound, SlotSound, rows
  <2>. QED  BY <1>4, <2>1, <2>2
<1>8. FreshMissions'
  BY <1>3, <1>4 DEF IInv, FreshMissions
<1>. QED  BY <1>1, <1>5, <1>6, <1>7, <1>8, SameRows DEF IInv

LEMMA StepInv == IInv /\ [Next]_vars => IInv'
<1>. SUFFICES ASSUME IInv, [Next]_vars PROVE IInv'
  OBVIOUS
<1>1. ASSUME NEW p \in Processes, Start(p) \/ Stop(p) PROVE IInv'
  BY <1>1, BootstrapCheckInv, BootstrapInsertInv, StopInv DEF Start
<1>2. ASSUME NEW u \in Usernames, Login(u) \/ Expire(u) PROVE IInv'
  BY <1>2, LoginInv, ExpireInv
<1>3. ASSUME NEW s \in Slots, Create(s) PROVE IInv'
  BY <1>3, CheckInv, CreateUserCommitInv, CreateAgentCommitInv, CreateMissionCommitInv
     DEF Create
<1>4. ASSUME UNCHANGED vars PROVE IInv'
  <2>1. TypeOK'
    BY <1>4 DEF IInv, TypeOK, vars, rows
  <2>2. TokensOfUsers'
    BY <1>4, SameRows DEF IInv, TokensOfUsers, vars
  <2>. QED  BY <1>4, <2>1, <2>2, SameSlots DEF vars
<1>. QED  BY <1>1, <1>2, <1>3, <1>4 DEF Next

(* The invariant every theorem below rests on *)
THEOREM Inductive == Spec => []IInv
BY InitInv, StepInv, PTL DEF Spec

(***************************************************************************)
(* Type correctness, for any names and any number of handlers              *)
(***************************************************************************)
THEOREM TypeCorrect == Spec => []TypeOK
<1>1. IInv => TypeOK
  BY DEF IInv
<1>. QED  BY <1>1, Inductive, PTL

(***************************************************************************)
(* However many handlers race for a name, the trail has one creation for   *)
(* its row and none without one.                                           *)
(***************************************************************************)
THEOREM TrailIsRows == Spec => []TrailMatchesRows
BY Inductive, TrailCounted, PTL

(***************************************************************************)
(* Nobody without the role has created anything, for any chain of accounts *)
(* that create accounts.                                                   *)
(***************************************************************************)
THEOREM OnlyEntitledCreate == Spec => []ActorsEntitled
<1>1. IInv => ActorsEntitled
  BY DEF IInv
<1>. QED  BY <1>1, Inductive, PTL

(***************************************************************************)
(* No step, of create_user or of bootstrap_admin, changes the role of an   *)
(* account that exists.                                                    *)
(***************************************************************************)
THEOREM RolesStay == Spec => AccountsImmutable
<1>. DEFINE Stay == \A u \in Usernames : role[u] # "none" => role'[u] = role[u]
<1>1. IInv /\ [Next]_vars => [Stay]_vars
  <2>. SUFFICES ASSUME IInv, Next PROVE Stay
    OBVIOUS
  <2>1. ASSUME NEW p \in Processes, BootstrapInsert(p) PROVE Stay
    BY <2>1 DEF BootstrapInsert, IInv, TypeOK
  <2>2. ASSUME NEW s \in Slots, CreateUserCommit(s) PROVE Stay
    <3>1. slot[s].target \in Usernames
      BY <2>2 DEF CreateUserCommit, IInv, SlotsSound, SlotSound
    <3>. QED  BY <2>2, <3>1 DEF CreateUserCommit, IInv, TypeOK
  <2>3. \/ \E p \in Processes : BootstrapInsert(p)
        \/ \E s \in Slots : CreateUserCommit(s)
        \/ UNCHANGED role
    BY DEF Next, Start, Create, BootstrapCheck, Stop, Login, Expire, CreateUserCheck,
           CreateAgentCheck, CreateMissionCheck, Opens, CreateAgentCommit,
           CreateMissionCommit, rows
  <2>. QED  BY <2>1, <2>2, <2>3
<1>. QED  BY <1>1, Inductive, PTL DEF Spec, AccountsImmutable
===============================================================================
