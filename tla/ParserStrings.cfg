SPECIFICATION PushSpec
CONSTANTS
    MaxNestingDepth = 2
    AllowTrailingComma = FALSE
    AllowComments = TRUE
    LosslessNumber = FALSE
    LosslessBignum = TRUE
    DoubleStrings = {}
    Lenient = {"illegal_comment"}
    VisitorFails = {}
    Callers <- StringCallers
    FitsInteger <- MCFitsInteger
    FitsDouble <- MCFitsDouble
CONSTRAINT ShortStrings
INVARIANTS TypeOK ParserConforms LineAndColumn StringsAreUtf8
CHECK_DEADLOCK FALSE
