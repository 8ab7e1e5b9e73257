SPECIFICATION ReaderSpec
CONSTANTS
    MaxNestingDepth = 2
    AllowTrailingComma = FALSE
    AllowComments = FALSE
    LosslessNumber = FALSE
    LosslessBignum = TRUE
    DoubleStrings = {}
    Lenient = {}
    VisitorFails = {}
    Callers <- BlankCallers
    ChunkSizes <- BlankSizes
    SourceFails = FALSE
    FitsInteger <- MCFitsInteger
    FitsDouble <- MCFitsDouble
INVARIANT EofMeansNoMore
CHECK_DEADLOCK FALSE
