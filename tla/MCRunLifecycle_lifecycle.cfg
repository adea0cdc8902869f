SPECIFICATION FairSpec
CONSTANTS
    Hosts = {cli, bench}
    Tokens = {cli, bench}
    Embedding = {bench}
    Priced <- MCPriced
    Prefixed <- MCPrefixed
    Files <- MCFiles
    Shipped <- MCShipped
    Contents <- MCContents
    Choices <- MCChoices
    Charges = {1}
    MaxRuns = 2
    MaxLaunches = 2
    MaxSteps = 2
    MaxFaults = 1
INVARIANTS
    TypeOK
    CostTold
    NothingLeftRunning
    RolesServed
PROPERTIES
    NoChildForgotten
    ImplementsRunReport
    RunsSettle
CHECK_DEADLOCK FALSE
