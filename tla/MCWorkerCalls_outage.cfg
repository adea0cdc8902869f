\* An attempt whose planner is out of reach.
SPECIFICATION Spec
CONSTANTS
    MaxReactSteps = 2
    MaxReactToolFailures = 2
    LlmMaxRetries = 1
    ToolMaxRetries = 1
    Calls <- Bound
    TokenCounts <- Counts
    Prices <- PriceList
INVARIANT PlannerOutagesAreEnvironment
