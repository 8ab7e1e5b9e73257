SPECIFICATION Spec
CONSTANTS
    Keys <- MCKeys
    Numerals <- MCNumerals
    Levels <- MCLevels
    Docs <- PatchDocs
    Goals <- NoGoals
    Operations <- AnyPlace
    MaxOps = 2
INVARIANT TargetUnchanged
CHECK_DEADLOCK FALSE
