SPECIFICATION ReaderSpec
CONSTANTS
    MaxNestingDepth = 2
    AllowTrailingComma = TRUE
    AllowComments = FALSE
    LosslessNumber = FALSE
    LosslessBignum = TRUE
    DoubleStrings = {}
    Lenient = {}
    VisitorFails = {}
    Callers <- SourceCallers
    ChunkSizes <- SourceSizes
    SourceFails = TRUE
    FitsInteger <- MCFitsInteger
    FitsDouble <- MCFitsDouble
INVARIANTS ReadConforms CallsInTurn SourceErrorReported
PROPERTY ReaderReturns
CHECK_DEADLOCK FALSE
