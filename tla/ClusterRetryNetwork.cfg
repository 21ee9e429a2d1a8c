CONSTANTS
    SSH = FALSE
    Registry = TRUE
    Namespace = FALSE
    Images = 0
    Manifests = 0
    MaxCreates = 2
SPECIFICATION Spec
INVARIANTS SameNetwork
