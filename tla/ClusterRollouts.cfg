CONSTANTS
    SSH = FALSE
    Registry = FALSE
    Namespace = FALSE
    Images = 0
    Manifests = 1
    MaxCreates = 2
SPECIFICATION Spec
INVARIANTS RolloutsFinished
