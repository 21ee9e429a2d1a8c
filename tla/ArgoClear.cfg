CONSTANTS
    CRDs = 2
    Manifests = 2
    CleanupCRDs = TRUE
    ClearCRDs = TRUE
    MaxCreates = 2
SPECIFICATION FairSpec
INVARIANTS TypeOK RecordTellsOwn OwnCRDsGone ReadyMeansInstalled
PROPERTIES UserCRDsKept CallsReturn KeepsContract
