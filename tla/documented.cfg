\* The documented deployment under fair scheduling: one worker, one administrator
\* deciding at a time, no faults.
SPECIFICATION FairSpec
CONSTANTS
    m1 = m1
    m2 = m2
    a = a
    b = b
    c = c
    d = d
    NoMission = NoMission
    NoStep = NoStep
    w1 = w1
    r1 = r1
    r2 = r2
    Missions = {m1}
    Steps = {a, b, c, d}
    MissionOf <- OneMission
    DependsOn <- MCDependsOn
    Position <- MCPosition
    Risk <- MCRisk
    Action <- MCAction
    LowerCase <- MCLowerCase
    Backends = {"redis"}
    Executors = {w1}
    Requests = {r1, r2}
    Admins = {r1}
    MaxQueue = 1
    FaultKinds = {}
    MaxFaults = 0
INVARIANTS
    NoSchedulingDeadlock
    CompletedMeansAllSteps
    NotLeftBehind
PROPERTIES
    DecisionsImmutable
    ExecutionTerminates
    SubmittedComesToRest
    ApprovedStepRuns
CHECK_DEADLOCK FALSE
