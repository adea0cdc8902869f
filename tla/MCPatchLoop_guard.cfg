\* Any sequence of drafts, model failures, and crashes outside a half-written draft.
SPECIFICATION Spec
CONSTANTS
    existing = existing
    missing = missing
    guarded = guarded
    pristine = pristine
    edited = edited
    Files <- MCFiles
    Protected <- MCProtected
    Contents <- MCContents
    Absent = Absent
    Outside = Outside
    Torn = edited
    InitialTrees <- MCTrees
    Paths <- PlainPaths
    Resolve <- PlainResolve
    Utf8 <- TextOnly
    MaxBlocks = 2
    MaxVerifyAttempts = 2
    MaxPatchFormatRetries = 2
    CrashIn <- AtRest
    LlmFaults = TRUE
    IoFaults = FALSE
INVARIANTS
    TypeOK
    CheckpointUndoes
    KeptAnswerOnDisk
PROPERTY ImplementsGuardedWorkspace
