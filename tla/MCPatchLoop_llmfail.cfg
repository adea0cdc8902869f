\* A model call that fails after a round was applied and rejected.
SPECIFICATION Spec
CONSTANTS
    existing = existing
    missing = missing
    guarded = guarded
    pristine = pristine
    edited = edited
    Files <- MCFiles
    Protected <- MCProtected
    Contents <- MCContents
    Absent = Absent
    Outside = Outside
    Torn = edited
    InitialTrees <- MCTrees
    Paths <- PlainPaths
    Resolve <- PlainResolve
    Utf8 <- TextOnly
    MaxBlocks = 1
    MaxVerifyAttempts = 2
    MaxPatchFormatRetries = 2
    CrashIn <- Nowhere
    LlmFaults = TRUE
    IoFaults = FALSE
INVARIANT FailedRunLeavesTree
