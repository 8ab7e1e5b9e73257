------------------------------ MODULE MCReader -------------------------------
(***************************************************************************)
(* JsonReader for TLC, and its correctness stated against JsonGrammar.     *)
(* The stream's bytes are chosen as they are read: a caller reads every    *)
(* text over its alphabet that is short enough, cut into chunks of every   *)
(* size that it may give its source.                                       *)
(***************************************************************************)
EXTENDS JsonReader, JsonParserContract

\* Stands for the 64 bits of dec_to_integer: integers of three digits are out
\* of range, as are numbers with an exponent of two digits.
MCFitsInteger(b) == Cardinality({i \in DOMAIN b : b[i] \in Digit}) < 3
MCFitsDouble(b) ==
    \A i \in DOMAIN b : b[i] \in ExpMark => Cardinality({j \in i .. Len(b) : b[j] \in Digit}) < 2

\* A program that reads texts of at most n bytes, in the chunks of S.
Reads(S, n) == [chunks |-> S, maxText |-> n, cursorModes |-> {}, markLevels |-> {}]

\* The sequences over the bytes in B that have a length in N.
Over(B, N) == UNION {[1 .. n -> B] : n \in N}

StructureBytes == {LBrace, RBrace, LBracket, RBracket, Comma, Colon, Quote, One}
ArrayBytes == {LBracket, RBracket, Comma, Space, One}
NumberBytes == {Minus, Plus, One, Dot, LowE, LBracket, RBracket}
ZeroBytes == {Minus, Zero, One, Dot, LowE, LBracket, RBracket}

\* The literals and their pieces, and words that are nearly literals.
Pieces(w) == {SubSeq(w, i, j) : i \in 1 .. Len(w), j \in 1 .. Len(w)} \ {<<>>}
LiteralPieces ==
    UNION {Pieces(w) : w \in {TrueWord, FalseWord, NullWord, <<LowT, LowR, LowU, LowL>>,
                              <<LowF, LowA, LowL, LowL, LowS>>, <<LBracket, LowN, LowU, LowL, LowL>>}}

\* No chunk ends after a zero that a number begins with.
ZeroInside == {c \in Over(ZeroBytes, 1 .. 2) :
                  c[Len(c)] = Zero => Len(c) = 1 \/ c[1] \in {Zero, One, Dot, LowE}}

TextCallers == [structure |-> Reads(Over(StructureBytes, 1 .. 2), 6),
                number    |-> Reads(Over(NumberBytes, 1 .. 2), 6),
                zero      |-> Reads(ZeroInside, 6),
                literal   |-> Reads(LiteralPieces, 7)]
TextSizes == [structure |-> {1, 2}, number |-> {1, 2}, zero |-> {2}, literal |-> 1 .. 5]

SourceCallers == [array |-> Reads(Over(ArrayBytes, 1 .. 2), 5)]
SourceSizes == [array |-> {1, 2}]

ZeroCallers == [zero |-> Reads(Over(ZeroBytes, {1}), 4)]
ZeroSizes == [zero |-> {1}]

BlankCallers == [array |-> Reads(Over(ArrayBytes, 1 .. 2), 5)]
BlankSizes == [array |-> {2}]

ReturnCallers == [lines |-> Reads(Over({CR, LF, One}, {1}), 2)]
ReturnSizes == [lines |-> {1}]

------------------------------------------------------------------------------
Grammar == INSTANCE JsonGrammar
    WITH Depth <- MaxNestingDepth, TrailingComma <- AllowTrailingComma,
         FitsInt <- FitsInteger, FitsDbl <- FitsDouble

\* What has been taken from the text so far.
Consumed == SubSeq(text, 1, Len(text) - Len(input))

\* read() succeeds on the JSON texts and on nothing else, with the calls that
\* stand for the text, wherever the chunks end; and it gives up before the end
\* of the stream only when no continuation could have been a JSON text.
ReadConforms ==
    (op = "read" /\ pc = "idle" /\ ~bad) =>
        LET reference == Grammar!WholeText(text) IN
        IF result = "none" THEN reference.st = "ok" /\ calls = reference.calls
        ELSE IF ended THEN reference.st # "ok" ELSE reference.st = "bad"

\* Each read_next() that succeeds has read one JSON text, made its calls, and
\* has taken nothing of what follows but blanks.
ReadNextConforms ==
    (op = "read_next" /\ pc = "idle" /\ result = "none") =>
        LET reference == Grammar!JsonText(text)
            n == Len(Consumed)
        IN  /\ reference.st = "ok" /\ calls = reference.calls
            /\ reference.at <= n + 1 /\ Grammar!SkipBlanks(Consumed, reference.at) = n + 1

\* eof(), after a successful read_next(), is false only if there is another
\* text to be read: something other than blanks.
EofMeansNoMore ==
    (op = "read_next" /\ pc = "idle" /\ result = "none" /\ ended) =>
        (input # <<>> => \E i \in DOMAIN input : input[i] \notin Blank)

\* A call of the reader returns.
ReaderReturns == (pc # "idle") ~> (pc = "idle")
==============================================================================
