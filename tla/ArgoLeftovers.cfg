CONSTANTS
    CRDs = 1
    Manifests = 0
    CleanupCRDs = TRUE
    ClearCRDs = TRUE
    MaxCreates = 1
SPECIFICATION Spec
INVARIANTS LeftoversCleared
