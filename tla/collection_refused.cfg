\* Two clients ingest and search documents with either backend and either
\* Qdrant; nothing fails.
SPECIFICATION Spec
CONSTANTS
    x1 = x1
    x2 = x2
    x3 = x3
    runbook = runbook
    policy = policy
    slogan = slogan
    dots = dots
    h1 = h1
    h2 = h2
    Documents = {x1, x2}
    Contents = {runbook, policy}
    Handlers = {h1, h2}
    NoDocument = NoDocument
    MaxFaults = 0
    Token = {"restart", "never", "worker", "secret"}
    Index <- MCIndex
    Sign <- MCSign
    TokensOf <- MCTokensOf
PROPERTIES
    CreatedIdempotently
CHECK_DEADLOCK FALSE
