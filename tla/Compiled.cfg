\* Expressions of at most five to eleven lexemes, by their theme; schemas of two or three
\* fragments, instances of at most three elements or two members.
SPECIFICATION CompiledSpec
CONSTANT
    Names <- MCNames
INVARIANTS
    LevelsMatch
    OpeningsFound
    
    RefusedForGood
    SearchConforms
    VerdictConforms
    ReferencesResolve
    EarlyIsFirst
    ErrorsAreLocated
    DefaultsAreAdded
    WalkVisitsErrors
CHECK_DEADLOCK FALSE
