\* Budgets that run out at every gate; a recursion limit that stops long runs half-way.
SPECIFICATION Spec
CONSTANTS
    MinRemaining = 1
    Budgets <- TightBudgets
    Charge <- PricedCharge
    ProjRefetch = 8
    ProjStrongArchitect = 5
    ProjCoderReview = 6
    ProjStrongCritic = 5
    ProjSme = 5
    MaxDebateIterations = 2
    MaxContextFetches = 2
    MaxVerifyAttempts = 2
    MaxPatchFormatRetries = 1
    RecursionLimit = 10
INVARIANTS
    SpendingStopsAtCeiling
    StrongReviewSkippedOnlyForBudget
    RejectedDraftOnlyWhenBroke
