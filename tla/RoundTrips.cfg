SPECIFICATION Spec
CONSTANTS
    CharsSize <- MCSize
    BadUtf8 <- MCBad
    Int32Max = 16777215
    Int64Max = 268435455
    Formats <- MCFormats
    Offers <- MCOffers
    Pieces <- MCPieces
    MaxSupply <- MCSupply
    MaxDepth = 3
    UbjsonMaxItems = 4
INVARIANTS
    RoundTrip
    EncoderRefuses
    CountsKept
    NoAssertionFails
    DecoderBuildsValue
    KeysSeparated
