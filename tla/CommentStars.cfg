SPECIFICATION PushSpec
CONSTANTS
    MaxNestingDepth = 2
    AllowTrailingComma = FALSE
    AllowComments = TRUE
    LosslessNumber = FALSE
    LosslessBignum = TRUE
    DoubleStrings = {}
    Lenient = {"illegal_comment"}
    VisitorFails = {}
    Callers <- StarCallers
    FitsInteger <- MCFitsInteger
    FitsDouble <- MCFitsDouble
INVARIANT ParserConforms
CHECK_DEADLOCK FALSE
