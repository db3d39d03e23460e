\* Two administrators decide the same approval.
SPECIFICATION Spec
CONSTANTS
    m1 = m1
    m2 = m2
    a = a
    b = b
    c = c
    d = d
    NoMission = NoMission
    NoStep = NoStep
    w1 = w1
    r1 = r1
    r2 = r2
    Missions = {m1}
    Steps = {a, b}
    MissionOf <- OneMission
    DependsOn <- MCDependsOn
    Position <- MCPosition
    Risk <- MCRisk
    Action <- MCAction
    LowerCase <- MCLowerCase
    Backends = {"redis"}
    Executors = {w1}
    Requests = {r1, r2}
    Admins = {r1, r2}
    MaxQueue = 1
    FaultKinds = {}
    MaxFaults = 0
PROPERTIES
    DecisionsImmutable
CHECK_DEADLOCK FALSE
