CONSTANTS
    SSH = TRUE
    Registry = TRUE
    Namespace = TRUE
    Images = 1
    Manifests = 2
    MaxCreates = 1
SPECIFICATION FairSpec
PROPERTIES CallsReturn
