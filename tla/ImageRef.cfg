CONSTANTS
    Hosts = {address, internal}
    Words = {word}
    Address = address
    Internal = internal
    Sources = {s1, s2}
    Depth = 3
    MaxPushes = 2
SPECIFICATION Spec
CHECK_DEADLOCK FALSE
INVARIANTS NamePulls ReturnedPulls RegistryImageStable
