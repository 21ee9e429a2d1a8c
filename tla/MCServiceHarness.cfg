CONSTANTS
    Services <- AllServices
    MaxPreloads = 2
    MaxClients = 2
    MaxTries = 2
    MaxCreates = 2
SPECIFICATION FairSpec
INVARIANTS TypeOK ClientsReachable CleanupNilMeansClean FailedCreateReleases OrphanClient ReadyMeansPreloaded PreloadOrder
PROPERTIES CallsReturn KeepsContract
