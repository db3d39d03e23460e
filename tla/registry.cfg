\* Two API processes start, stop once, and serve two create requests at a time.
SPECIFICATION FairSpec
CONSTANTS
    root = root
    ann = ann
    bob = bob
    writer = writer
    reader = reader
    m1 = m1
    p1 = p1
    p2 = p2
    s1 = s1
    s2 = s2
    Usernames = {root, ann, bob}
    AgentNames = {writer}
    MissionIds = {m1}
    BootstrapName = root
    Processes = {p1, p2}
    Slots = {s1, s2}
    MaxStops = 1
    Nothing = Nothing
INVARIANTS
    TypeOK
    TrailMatchesRows
    ActorsEntitled
PROPERTIES
    AccountsImmutable
    AllProcessesStart
CHECK_DEADLOCK FALSE
