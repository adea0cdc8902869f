SPECIFICATION Spec
CONSTANTS
    Hosts = {cli}
    Tokens = {cli}
    Embedding = {}
    Priced <- MCPriced
    Prefixed <- MCPrefixed
    Files <- MCPlainFiles
    Shipped <- MCPlainFiles
    Contents <- MCPlainContents
    Choices <- MCPlainChoices
    Charges = {1}
    MaxRuns = 1
    MaxLaunches = 3
    MaxSteps = 2
    MaxFaults = 0
INVARIANT RecoveredProfileIsOriginal
CHECK_DEADLOCK FALSE
