------------------------------- MODULE MCParser ------------------------------
(***************************************************************************)
(* JsonParser for TLC, driven by every caller its Next allows.             *)
(***************************************************************************)
EXTENDS JsonParserContract

MCFitsInteger(b) == Cardinality({i \in DOMAIN b : b[i] \in Digit}) < 3
MCFitsDouble(b) == Cardinality({i \in DOMAIN b : b[i] \in Digit}) < 4

\* Chunks that reach every state between tokens within a few bytes.
StructureChunks == {<<LBrace>>, <<Quote>>, <<Quote, Colon>>, <<LBracket, One>>, <<Comma>>,
                    <<RBracket>>, <<RBrace>>}
\* Chunks of several tokens, for a parser that stops in the middle of them.
CursorChunks == {<<LBrace, Quote>>, <<Quote, Colon>>, <<LBracket, One>>, <<Comma, CR>>,
                 <<RBracket, RBrace>>, <<RBrace, RBracket>>}
\* The pieces of "\uD83D\uDC00", "\u0041" and the like, cut anywhere.
EscapeChunks == {<<Zero, Zero>>} \cup {<<b>> : b \in {Quote, Backslash, LowU, 68, 56}}
\* Bytes that begin, continue and break UTF-8 sequences of every length.
Utf8Chunks == {<<b>> : b \in {Quote, 65, 143, 159, 191, 193, 194, 224, 237, 240, 244, 248}}
CommentChunks == {<<Slash>>, <<Asterisk>>, <<CR>>, <<LF>>, <<LBracket>>, <<RBracket>>, <<1>>}

\* Comments, in which no asterisk follows another.
PlainCommentChunks == {<<Slash>>, <<Slash, Slash>>, <<Slash, Asterisk, One>>, <<Asterisk, Slash>>,
                       <<CR>>, <<LF>>, <<LBracket>>, <<Quote>>, <<One>>, <<RBracket>>}
LineChunks == {<<b>> : b \in {CR, LF, Space, LBracket, RBracket, One}} \cup {<<CR, LF>>, <<CR, CR>>}
\* Pieces of a literal and of numbers, none of which ends after a leading zero.
WordChunks == {NullWord, <<Zero, One>>}
              \cup {<<b>> : b \in {LowN, LowU, LowL, Minus, One, Dot, LowE, LBracket, RBracket}}
StarChunks == {<<Slash, Asterisk>>, <<Asterisk>>, <<Asterisk, Slash>>, <<One>>}

\* Callers that may do all that Next lets them, and callers that only push text.
Drives(S, n) == [chunks |-> S, maxText |-> n, cursorModes |-> {TRUE}, markLevels |-> {1}]
Pushes(S, n) == [chunks |-> S, maxText |-> n, cursorModes |-> {}, markLevels |-> {}]

AnyCallers == [structure |-> Pushes(StructureChunks, 6), comments |-> Pushes(CommentChunks, 5),
               cursor |-> Drives(CursorChunks, 8)]
StringCallers == [escapes |-> Pushes(EscapeChunks, 14), utf8 |-> Pushes(Utf8Chunks, 6),
                  comments |-> Pushes(PlainCommentChunks, 6), lines |-> Pushes(LineChunks, 5),
                  words |-> Pushes(WordChunks, 6)]
StarCallers == [stars |-> Pushes(StarChunks, 6)]

------------------------------------------------------------------------------
Grammar == INSTANCE JsonGrammar
    WITH Depth <- MaxNestingDepth, TrailingComma <- AllowTrailingComma,
         FitsInt <- FitsInteger, FitsDbl <- FitsDouble

\* Bound: texts that are one string, of at most four bytes; for escapes, a
\* string that is made of two escapes with six bytes each, or begins like one.
ShortStrings ==
    /\ caller \in {"escapes", "utf8"} => Len(buffer) <= 4 /\ (text = <<>> \/ text[1] = Quote)
    /\ caller = "escapes" =>
           \A i \in {2, 8} \cap DOMAIN text : text[i] \in {Backslash, Quote}

\* Wherever the chunks end, the parser is done with the JSON texts only, having
\* made the calls that stand for them, and reports an error only for a text
\* that no continuation makes right.  Comments, where they are allowed, make no
\* difference.
ParserConforms ==
    phase = "idle" =>
        LET reference == Grammar!JsonText(IF AllowComments THEN Grammar!Plain(text, 1, FALSE)
                                                           ELSE text)
        IN  /\ ec = "none" /\ done => reference.st = "ok" /\ calls = reference.calls
            /\ ec # "none" => reference.st = (IF ec = "unexpected_eof" THEN "short" ELSE "bad")
==============================================================================
