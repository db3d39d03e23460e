\* Two API processes, a worker and an alembic command, with two deaths.
SPECIFICATION FairSpec
CONSTANTS
    api1 = api1
    api2 = api2
    Apis = {api1, api2}
    Cli = Cli
    Profiles <- MCProfiles
    Texts <- MCTexts
    MaxCommands = 2
    MaxCrashes = 2
INVARIANTS
    TypeOK
    SchemaSound
    ServingFindsSchema
    StepsGetTheirTexts
PROPERTIES
    OrphansStayUnstamped
    ContainersComeUp
CHECK_DEADLOCK FALSE
