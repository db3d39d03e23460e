\* Either backend, two missions: executions and processes that die, hand-overs to
\* Redis that fail.
SPECIFICATION Spec
CONSTANTS
    m1 = m1
    m2 = m2
    a = a
    b = b
    c = c
    d = d
    NoMission = NoMission
    NoStep = NoStep
    w1 = w1
    r1 = r1
    r2 = r2
    Missions = {m1, m2}
    Steps = {a, b, c}
    MissionOf <- TwoMissions
    DependsOn <- MCDependsOn
    Position <- MCPosition
    Risk <- MCRisk
    Action <- MCAction
    LowerCase <- MCLowerCase
    Backends = {"redis", "local"}
    Executors = {w1}
    Requests = {r1, r2}
    Admins = {r1}
    MaxQueue = 1
    FaultKinds = {"crash", "enqueue"}
    MaxFaults = 2
INVARIANTS
    AtMostOnceInvocation
    FaultsStrandOne
    TrailExplainsState
CHECK_DEADLOCK FALSE
