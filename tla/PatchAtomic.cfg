SPECIFICATION Spec
CONSTANTS
    Keys <- MCKeys
    Numerals <- MCNumerals
    Levels <- MCLevels
    Docs <- PatchDocs
    Goals <- DiffDocs
    Operations <- BelowRoot
    MaxOps = 3
INVARIANTS PatchConforms TargetUnchanged DiffReaches
CHECK_DEADLOCK FALSE
