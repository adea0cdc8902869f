\* Two runs over one repository.
SPECIFICATION Spec
CONSTANTS
    hook = hook
    developer = developer
    Runners <- BothRunners
    Invocations <- CommandLines
    Manifests <- AnyManifest
    Listings <- Lists
    Characters <- Letters
    Directories = {"."}
    MaxDelay = 2
SYMMETRY Symmetric
INVARIANTS
    TypeOK
    GreenMeansChecked
    ReportsWhole
