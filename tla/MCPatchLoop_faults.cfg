\* What survives when reads, writes and rollbacks fail and the process dies anywhere.
SPECIFICATION Spec
CONSTANTS
    existing = existing
    missing = missing
    guarded = guarded
    pristine = pristine
    edited = edited
    Files <- MCFiles
    Protected <- MCProtected
    Contents <- MCContents
    Absent = Absent
    Outside = Outside
    Torn = edited
    InitialTrees <- MCTrees
    Paths <- PlainPaths
    Resolve <- PlainResolve
    Utf8 <- Lossy
    MaxBlocks = 2
    MaxVerifyAttempts = 2
    MaxPatchFormatRetries = 2
    CrashIn <- Anywhere
    LlmFaults = TRUE
    IoFaults = TRUE
INVARIANTS
    KeptTreeIsVerified
    ProtectedUntouched
