CONSTANTS
    Hosts = {address, internal}
    Words = {word}
    Address = address
    Internal = internal
    Sources = {s1, s2}
    Depth = 3
    MaxPushes = 1
SPECIFICATION Spec
CHECK_DEADLOCK FALSE
INVARIANTS ClusterImagePulls
