SPECIFICATION ReaderSpec
CONSTANTS
    MaxNestingDepth = 2
    AllowTrailingComma = FALSE
    AllowComments = FALSE
    LosslessNumber = FALSE
    LosslessBignum = TRUE
    DoubleStrings = {}
    Lenient = {}
    VisitorFails = {}
    Callers <- TextCallers
    ChunkSizes <- TextSizes
    SourceFails = FALSE
    FitsInteger <- MCFitsInteger
    FitsDouble <- MCFitsDouble
INVARIANTS ReadConforms ReadNextConforms NestingBounded
CHECK_DEADLOCK FALSE
