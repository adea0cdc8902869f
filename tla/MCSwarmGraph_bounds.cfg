\* Any course of planner, tools, oracle and operator.
SPECIFICATION FairSpec
CONSTANTS
    fs_read = fs_read
    Aliases <- OneTool
    MaxReactSteps = 3
    MaxReactToolFailures = 2
    MaxEscalationAttempts = 2
    RoundCaps <- LowAndReal
INVARIANTS
    TypeOK
    WorkBounded
    ForcedAbortUnneeded
    RetriesAreGuided
    GivenUpOnlyWhenExhausted
    ToolKeysFresh
PROPERTIES
    AbortIsFinal
    SwarmEnds
