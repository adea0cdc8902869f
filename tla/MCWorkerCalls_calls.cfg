\* Any course of an attempt.
SPECIFICATION FairSpec
CONSTANTS
    MaxReactSteps = 2
    MaxReactToolFailures = 2
    LlmMaxRetries = 1
    ToolMaxRetries = 1
    Calls <- Bound
    TokenCounts <- Counts
    Prices <- PriceList
INVARIANTS
    TypeOK
    RefusalsFailFast
    BillsAccounted
    OutagesRetried
    ChildAccountedFor
PROPERTIES
    ImplementsSwarmWorker
    AttemptEnds
