CONSTANTS
    SSH = TRUE
    Registry = TRUE
    Namespace = TRUE
    Images = 1
    Manifests = 1
    MaxCreates = 2
SPECIFICATION Spec
INVARIANTS TypeOK HandleKept CleanupNilMeansClean FailedCreateReleases AddressesLive
           ReadyMeansComplete WiredExactly
PROPERTIES ForeignNetworkKept ImagesBeforeManifests KeepsContract
