CONSTANTS
    Confs <- AllConfs
    Trimmed <- Padded
    MaxCreates = 2
SPECIFICATION Spec
INVARIANTS TypeOK NeedsMet HandleKept CleanupNilMeansClean FailedCreateReleases ReadyMeansComplete
PROPERTIES KeepsContract
