\* Two workers and two handlers, one of them deciding, no faults.
SPECIFICATION Spec
CONSTANTS
    m1 = m1
    m2 = m2
    a = a
    b = b
    c = c
    d = d
    NoMission = NoMission
    NoStep = NoStep
    w1 = w1
    w2 = w2
    r1 = r1
    r2 = r2
    Missions = {m1}
    Steps = {a, b}
    MissionOf <- OneMission
    DependsOn <- MCDependsOn
    Position <- MCPosition
    Risk <- MCRisk
    Action <- MCAction
    LowerCase <- MCLowerCase
    Backends = {"redis"}
    Executors = {w1, w2}
    Requests = {r1, r2}
    Admins = {r1}
    MaxQueue = 1
    FaultKinds = {}
    MaxFaults = 0
INVARIANTS
    TypeOK
    IInv
    GateBeforeRuntime
    DependenciesFirst
    CompletionIsEarned
    TrailExplainsState
PROPERTIES
    ImplementsWorkflow
    ExecutionsAdvance
SYMMETRY AlikeWorkers
CHECK_DEADLOCK FALSE
