SPECIFICATION Spec
CONSTANTS
    Stacks <- AllStacks
    Prefix <- Dev
    MaxCreates = 2
INVARIANT LakeWired
PROPERTY KeepsContract
