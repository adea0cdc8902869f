\* The default caps of consts/tuning.ts, with money no object.
SPECIFICATION PersistentSpec
CONSTANTS
    MinRemaining = 1
    Budgets <- NoBudget
    Charge <- FreeCharge
    ProjRefetch = 16
    ProjStrongArchitect = 10
    ProjCoderReview = 12
    ProjStrongCritic = 10
    ProjSme = 10
    MaxDebateIterations = 4
    MaxContextFetches = 2
    MaxVerifyAttempts = 2
    MaxPatchFormatRetries = 2
    RecursionLimit = 50
INVARIANTS
    TypeOK
    LoopsCapped
    StepsBounded
    VerifyKeysFresh
    UnreviewedOnlyToReformat
PROPERTY RunCompletes
