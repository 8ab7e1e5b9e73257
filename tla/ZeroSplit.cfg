SPECIFICATION ReaderSpec
CONSTANTS
    MaxNestingDepth = 2
    AllowTrailingComma = FALSE
    AllowComments = FALSE
    LosslessNumber = FALSE
    LosslessBignum = TRUE
    DoubleStrings = {}
    Lenient = {}
    VisitorFails = {}
    Callers <- ZeroCallers
    ChunkSizes <- ZeroSizes
    SourceFails = FALSE
    FitsInteger <- MCFitsInteger
    FitsDouble <- MCFitsDouble
INVARIANT ReadConforms
CHECK_DEADLOCK FALSE
