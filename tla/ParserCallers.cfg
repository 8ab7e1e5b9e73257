SPECIFICATION Spec
CONSTANTS
    MaxNestingDepth = 2
    AllowTrailingComma = TRUE
    AllowComments = TRUE
    LosslessNumber = FALSE
    LosslessBignum = TRUE
    DoubleStrings = {}
    Lenient = {"illegal_comment"}
    VisitorFails = {"key", "begin_object", "end_array", "end_object"}
    Callers <- AnyCallers
    FitsInteger <- MCFitsInteger
    FitsDouble <- MCFitsDouble
INVARIANTS Consistent NoAssertionFails
PROPERTY VisitorSeesProtocol
CHECK_DEADLOCK FALSE
