CONSTANTS
    SSH = TRUE
    Registry = TRUE
    Namespace = FALSE
    Images = 0
    Manifests = 0
    MaxCreates = 2
SPECIFICATION Spec
PROPERTIES KeepsStrictContract
