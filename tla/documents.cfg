\* Two clients ingest and search up to three documents with either backend and
\* either Qdrant; two failures of Qdrant or the database, or deaths of an API
\* process.
SPECIFICATION FairSpec
CONSTANTS
    x1 = x1
    x2 = x2
    x3 = x3
    runbook = runbook
    policy = policy
    slogan = slogan
    dots = dots
    h1 = h1
    h2 = h2
    Documents = {x1, x2, x3}
    Contents = {runbook, policy, slogan, dots}
    Handlers = {h1, h2}
    NoDocument = NoDocument
    MaxFaults = 2
    Token = {"restart", "never", "worker", "secret"}
    Index <- MCIndex
    Sign <- MCSign
    TokensOf <- MCTokensOf
INVARIANTS
    TypeOK
    PersistedIsSearched
    OrphansAccounted
    OwnTextRanksFirst
PROPERTIES
    IngestionEnds
CHECK_DEADLOCK FALSE
