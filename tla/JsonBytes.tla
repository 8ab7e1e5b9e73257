------------------------------ MODULE JsonBytes ------------------------------
(***************************************************************************)
(* The byte alphabet of the JSON text parser (char_type = char), and the   *)
(* conversions between bytes and code points that the parser relies on.    *)
(***************************************************************************)
EXTENDS Integers, Sequences

Byte == 0 .. 255

\* Bytes with a meaning of their own in the parser's switch statements.
HTab == 9          LF == 10          CR == 13          Space == 32
Quote == 34        Apostrophe == 39  Asterisk == 42    Plus == 43
Comma == 44        Minus == 45       Dot == 46         Slash == 47
Colon == 58        LBracket == 91    Backslash == 92   RBracket == 93
LBrace == 123      RBrace == 125     Zero == 48        One == 49
BigE == 69         LowA == 97        LowB == 98        LowE == 101
LowF == 102        LowL == 108       LowN == 110       LowR == 114
LowS == 115        LowT == 116       LowU == 117

Blank == {Space, HTab, LF, CR}

\* JSONCONS_ILLEGAL_CONTROL_CHARACTER
ControlByte == (0 .. 31) \ {HTab, LF, CR}

Digit == 48 .. 57                      \* is_digit
NonzeroDigit == 49 .. 57               \* is_nonzero_digit
ExpMark == {LowE, BigE}                \* is_exp
HexDigit == Digit \cup (65 .. 70) \cup (97 .. 102)

\* Mutant: the capital letters are taken for small ones.
HexValueOneCase(b) == IF b \in Digit THEN b - 48 ELSE b - 87

\* The value append_to_codepoint adds for the digit b; nothing for a byte
\* that is no hexadecimal digit.
HexValue(b) == IF b \in Digit THEN b - 48
               ELSE IF b \in 65 .. 70 THEN b - 55
               ELSE IF b \in 97 .. 102 THEN b - 87
               ELSE 0

\* The literal names.
TrueWord  == <<LowT, LowR, LowU, LowE>>
FalseWord == <<LowF, LowA, LowL, LowS, LowE>>
NullWord  == <<LowN, LowU, LowL, LowL>>

HighSurrogate == 55296 .. 56319        \* 0xD800 .. 0xDBFF
LowSurrogate  == 56320 .. 57343        \* 0xDC00 .. 0xDFFF

\* Mutant: the offset of the supplementary planes is forgotten.
CombineWithoutOffset(cp, cp2) == (cp % 1024) * 1024 + (cp2 % 1024)

\* 0x10000 + ((cp & 0x3FF) << 10) + (cp2 & 0x3FF)
CombineSurrogates(cp, cp2) == 65536 + (cp % 1024) * 1024 + (cp2 % 1024)

\* unicode_traits::convert of one code point, appended to a byte string: it
\* refuses a surrogate and then appends nothing.
Utf8(cp) ==
    IF cp \in HighSurrogate \cup LowSurrogate THEN <<>>
    ELSE IF cp < 128 THEN <<cp>>
    ELSE IF cp < 2048 THEN <<192 + cp \div 64, 128 + (cp % 64)>>
    ELSE IF cp < 65536
         THEN <<224 + cp \div 4096, 128 + ((cp \div 64) % 64), 128 + (cp % 64)>>
         ELSE <<240 + ((cp \div 262144) % 8), 128 + ((cp \div 4096) % 64),
                128 + ((cp \div 64) % 64), 128 + (cp % 64)>>

\* trailing_bytes_for_utf8
Trailing(b) == IF b < 192 THEN 0 ELSE IF b < 224 THEN 1 ELSE IF b < 240 THEN 2
               ELSE IF b < 248 THEN 3 ELSE IF b < 252 THEN 4 ELSE 5

Continuation == 128 .. 191

Utf8Error == {"over_long_utf8_sequence", "bad_continuation_byte", "illegal_codepoint"}

\* What is_legal_utf8 (and the length test before it) says of the sequence
\* that begins at s[i].  The parser reports source_exhausted and
\* source_illegal as illegal_codepoint.
SequenceError(s, i) ==
    LET n == Trailing(s[i])
        second == s[i + 1]
    IN  IF i + n > Len(s) THEN "illegal_codepoint"
        ELSE IF n > 3 THEN "over_long_utf8_sequence"
        ELSE IF \E k \in i + 1 .. i + n : s[k] \notin Continuation
             THEN "bad_continuation_byte"
        ELSE IF \/ s[i] \in 128 .. 193 \/ s[i] > 244
                \/ s[i] = 224 /\ second < 160
                \/ s[i] = 237 /\ second > 159
                \/ s[i] = 240 /\ second < 144
                \/ s[i] = 244 /\ second > 143
             THEN "illegal_codepoint"
        ELSE "none"

\* s[i] is a trailing byte of a sequence that begins before it.
InSequence(s, i) ==
    /\ s[i] \in Continuation
    /\ \E j \in 1 .. i - 1 : s[j] \notin Continuation /\ j + Trailing(s[j]) >= i

IllegalAt(s) == {i \in DOMAIN s : ~InSequence(s, i) /\ SequenceError(s, i) # "none"}

\* Mutant: the string is not validated.
Unvalidated(s) == TRUE

\* unicode_traits::validate: it stops at the first illegal sequence.
ValidUtf8(s) == IllegalAt(s) = {}
Utf8Stop(s) == {i \in IllegalAt(s) : \A j \in IllegalAt(s) : i <= j}

------------------------------------------------------------------------------
\* Reference: well-formed UTF-8 as the Unicode standard defines it, a sequence
\* of these patterns of bytes.
Tail80BF == 128 .. 191
Utf8Patterns ==
    {<<0 .. 127>>, <<194 .. 223, Tail80BF>>,
     <<{224}, 160 .. 191, Tail80BF>>, <<225 .. 236, Tail80BF, Tail80BF>>,
     <<{237}, 128 .. 159, Tail80BF>>, <<238 .. 239, Tail80BF, Tail80BF>>,
     <<{240}, 144 .. 191, Tail80BF, Tail80BF>>,
     <<241 .. 243, Tail80BF, Tail80BF, Tail80BF>>,
     <<{244}, 128 .. 143, Tail80BF, Tail80BF>>}

\* The bytes of s from i on begin with pattern p.
Matches(s, i, p) ==
    /\ i + Len(p) <= Len(s) + 1
    /\ \A k \in 1 .. Len(p) : s[i + k - 1] \in p[k]

\* s can be cut at starts so that each piece is an instance of a pattern.
CutAt(s, starts) ==
    /\ s # <<>> => 1 \in starts
    /\ \A i \in starts : \E p \in Utf8Patterns :
           /\ Matches(s, i, p)
           /\ i + Len(p) \in starts \cup {Len(s) + 1}
           /\ \A j \in i + 1 .. i + Len(p) - 1 : j \notin starts

WellFormed(s) == \E starts \in SUBSET DOMAIN s : CutAt(s, starts)
==============================================================================
