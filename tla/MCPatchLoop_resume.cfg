\* A run killed while it writes a draft, and resumed.
SPECIFICATION Spec
CONSTANTS
    existing = existing
    missing = missing
    guarded = guarded
    pristine = pristine
    edited = edited
    Files <- MCFiles
    Protected <- MCProtected
    Contents <- MCContents
    Absent = Absent
    Outside = Outside
    Torn = edited
    InitialTrees <- MCTrees
    Paths <- PlainPaths
    Resolve <- PlainResolve
    Utf8 <- TextOnly
    MaxBlocks = 2
    MaxVerifyAttempts = 2
    MaxPatchFormatRetries = 2
    CrashIn <- Anywhere
    LlmFaults = FALSE
    IoFaults = FALSE
INVARIANT UnverifiedRunLeavesTree
