----------------------------- MODULE JsonGrammar -----------------------------
(***************************************************************************)
(* A reference definition of what reading a JSON text must do, written     *)
(* from the grammar and not from the parser: recursive descent over the    *)
(* whole text, with no chunks, no stack and no resumable states.  It says  *)
(* whether a text is a JSON text ("ok"), may become one when more bytes    *)
(* follow ("short"), or cannot ("bad"), and which visitor calls stand for  *)
(* it.  Which numbers are in range is a parameter, and Utf8 encodes a code *)
(* point as for the parser; the rest is independent of it.                 *)
(*                                                                         *)
(* Recursive operators: for model checking only.                           *)
(***************************************************************************)
EXTENDS JsonBytes

CONSTANTS Depth, TrailingComma, FitsInt(_), FitsDbl(_)

Outcome(st, at, cs) == [st |-> st, at |-> at, calls |-> cs]
Bad == Outcome("bad", 0, <<>>)
Short == Outcome("short", 0, <<>>)

\* The next byte after blanks, from i on: Len(t) + 1 if there is none.
SkipBlanks(t, i) ==
    CHOOSE j \in i .. Len(t) + 1 :
        /\ \A k \in i .. j - 1 : t[k] \in Blank
        /\ j = Len(t) + 1 \/ t[j] \notin Blank

Word(t, i, w, c) ==
    LET n == Len(t) + 1 - i
        have == IF n < Len(w) THEN n ELSE Len(w)
    IN  IF SubSeq(t, i, i + have - 1) # SubSeq(w, 1, have) THEN Bad
        ELSE IF have < Len(w) THEN Short ELSE Outcome("ok", i + Len(w), <<<<c, w>>>>)

\* The end of the run of digits that begins at i.
DigitsEnd(t, i) ==
    CHOOSE j \in i .. Len(t) + 1 :
        /\ \A k \in i .. j - 1 : t[k] \in Digit
        /\ j = Len(t) + 1 \/ t[j] \notin Digit

\* One or more digits at i: "ok" with the index after them.
Digits(t, i) == IF i > Len(t) THEN Short
                ELSE IF DigitsEnd(t, i) = i THEN Bad ELSE Outcome("ok", DigitsEnd(t, i), <<>>)

Passed(o) == o.st = "ok"

\* number = [ "-" ] int [ frac ] [ exp ], where each part is looked for where
\* outcome o of the part before it ends.
IntegerPart(t, i) ==
    IF i > Len(t) \/ t[i] # Zero THEN Digits(t, i)
    ELSE IF i < Len(t) /\ t[i + 1] \in Digit THEN Bad ELSE Outcome("ok", i + 1, <<>>)

Fraction(t, o) ==
    IF Passed(o) /\ o.at <= Len(t) /\ t[o.at] = Dot THEN Digits(t, o.at + 1) ELSE o

Exponent(t, o) ==
    IF Passed(o) /\ o.at <= Len(t) /\ t[o.at] \in ExpMark
    THEN Digits(t, IF o.at < Len(t) /\ t[o.at + 1] \in {Plus, Minus} THEN o.at + 2 ELSE o.at + 1)
    ELSE o

NumberCall(lexeme) ==
    IF \E j \in DOMAIN lexeme : lexeme[j] \in ExpMark \cup {Dot}
    THEN IF FitsDbl(lexeme) THEN "double_value" ELSE "bigdec_value"
    ELSE IF ~FitsInt(lexeme) THEN "bigint_value"
    ELSE IF lexeme[1] = Minus THEN "int64_value" ELSE "uint64_value"

WholeNumber(lexeme, o) ==
    IF Passed(o) THEN Outcome("ok", o.at, <<<<NumberCall(lexeme), lexeme>>>>) ELSE o

NumberEnding(t, i, o) == WholeNumber(SubSeq(t, i, o.at - 1), o)

Number(t, i) ==
    NumberEnding(t, i, Exponent(t, Fraction(t, IntegerPart(t, IF t[i] = Minus THEN i + 1 ELSE i))))

RECURSIVE HexNumber(_)
HexNumber(h) == IF h = <<>> THEN 0
                ELSE HexNumber(SubSeq(h, 1, Len(h) - 1)) * 16 + HexValue(h[Len(h)])

\* The contents of a string from i on, s being what it has so far.  An
\* unpaired low surrogate stands for nothing, and the second half of a pair
\* may be any four digits: the parser's reading of \u escapes.
RECURSIVE Chars(_, _, _, _)
Chars(t, i, s, c) ==
    LET from == i + 2
        hex(k) == SubSeq(t, k, k + 3)
        isHex(k) == \A j \in k .. k + 3 : j > Len(t) \/ t[j] \in HexDigit
        cp == HexNumber(hex(from))
    IN  IF i > Len(t) THEN Short
        ELSE IF t[i] = Quote THEN IF WellFormed(s) THEN Outcome("ok", i + 1, <<<<c, s>>>>) ELSE Bad
        ELSE IF t[i] < 32 THEN Bad
        ELSE IF t[i] # Backslash THEN Chars(t, i + 1, Append(s, t[i]), c)
        ELSE IF i = Len(t) THEN Short
        ELSE IF t[i + 1] \in {Quote, Backslash, Slash} THEN Chars(t, i + 2, Append(s, t[i + 1]), c)
        ELSE IF t[i + 1] = LowB THEN Chars(t, i + 2, Append(s, 8), c)
        ELSE IF t[i + 1] = LowF THEN Chars(t, i + 2, Append(s, 12), c)
        ELSE IF t[i + 1] = LowN THEN Chars(t, i + 2, Append(s, 10), c)
        ELSE IF t[i + 1] = LowR THEN Chars(t, i + 2, Append(s, 13), c)
        ELSE IF t[i + 1] = LowT THEN Chars(t, i + 2, Append(s, 9), c)
        ELSE IF t[i + 1] # LowU THEN Bad
        ELSE IF ~isHex(from) THEN Bad
        ELSE IF from + 3 > Len(t) THEN Short
        ELSE IF cp \notin HighSurrogate THEN Chars(t, i + 6, s \o Utf8(cp), c)
        ELSE IF \/ i + 6 <= Len(t) /\ t[i + 6] # Backslash
                \/ i + 7 <= Len(t) /\ t[i + 7] # LowU
                \/ ~isHex(i + 8) THEN Bad
        ELSE IF i + 11 > Len(t) THEN Short
        ELSE Chars(t, i + 12, s \o Utf8(65536 + (cp % 1024) * 1024 + (HexNumber(hex(i + 8)) % 1024)), c)

\* A member name and its colon, which is looked for where the name ends.
ColonAt(t, i, name) == IF i > Len(t) THEN Short
                       ELSE IF t[i] = Colon THEN Outcome("ok", i + 1, name.calls) ELSE Bad

WithColon(t, name) == IF Passed(name) THEN ColonAt(t, SkipBlanks(t, name.at), name) ELSE name

Name(t, i) == IF t[i] = Quote THEN WithColon(t, Chars(t, i + 1, <<>>, "key")) ELSE Bad

\* Value: the value that begins at i, in d containers.  Items: what follows the
\* byte o that opens a container, or a comma in it, cs being the calls so far.
\* ItemValue and AfterItem go on from outcome k, a member's name or nothing,
\* and from outcome v, the item's value.
RECURSIVE Value(_, _, _), Items(_, _, _, _, _, _)
RECURSIVE ItemValue(_, _, _, _, _), AfterItem(_, _, _, _, _)

Value(t, i, d) ==
    IF i > Len(t) THEN Short
    ELSE CASE t[i] \in {LBrace, LBracket} ->
                 IF d = Depth THEN Bad ELSE Items(t, SkipBlanks(t, i + 1), d + 1, t[i], <<>>, TRUE)
           [] t[i] = Quote -> Chars(t, i + 1, <<>>, "string_value")
           [] t[i] \in Digit \cup {Minus} -> Number(t, i)
           [] t[i] = LowT -> Word(t, i, TrueWord, "bool_value")
           [] t[i] = LowF -> Word(t, i, FalseWord, "bool_value")
           [] t[i] = LowN -> Word(t, i, NullWord, "null_value")
           [] OTHER -> Bad

\* The container that the byte o opens, closed.
Closing(o) == IF o = LBrace THEN RBrace ELSE RBracket
Container(at, o, cs) ==
    Outcome("ok", at,
            IF o = LBrace THEN <<<<"begin_object", <<>>>>>> \o cs \o <<<<"end_object", <<>>>>>>
                          ELSE <<<<"begin_array", <<>>>>>> \o cs \o <<<<"end_array", <<>>>>>>)

\* A comma or the closing byte at i, cs being the calls up to there.
NextItem(t, i, d, o, cs) ==
    IF i > Len(t) THEN Short
    ELSE IF t[i] = Comma THEN Items(t, SkipBlanks(t, i + 1), d, o, cs, FALSE)
    ELSE IF t[i] = Closing(o) THEN Container(i + 1, o, cs)
    ELSE Bad

AfterItem(t, v, d, o, cs) ==
    IF Passed(v) THEN NextItem(t, SkipBlanks(t, v.at), d, o, cs \o v.calls) ELSE v

ItemValue(t, k, d, o, cs) ==
    IF Passed(k) THEN AfterItem(t, Value(t, SkipBlanks(t, k.at), d), d, o, cs \o k.calls) ELSE k

Items(t, i, d, o, cs, first) ==
    IF i > Len(t) THEN Short
    ELSE IF t[i] = Closing(o) /\ (first \/ TrailingComma) THEN Container(i + 1, o, cs)
    ELSE ItemValue(t, IF o = LBrace THEN Name(t, i) ELSE Outcome("ok", i, <<>>), d, o, cs)

\* t from i on with its comments left out, quoted being whether i is inside a
\* string.  A comment that does not end takes the rest of the text with it.
RECURSIVE Plain(_, _, _)
Plain(t, i, quoted) ==
    LET lineEnds == {j \in i + 2 .. Len(t) : t[j] \in {CR, LF}}
        closings == {j \in i + 3 .. Len(t) : t[j - 1] = Asterisk /\ t[j] = Slash}
        first(S) == CHOOSE j \in S : \A k \in S : j <= k
    IN  IF i > Len(t) THEN <<>>
        ELSE IF quoted /\ t[i] = Backslash
             THEN SubSeq(t, i, i + 1 - (IF i = Len(t) THEN 1 ELSE 0)) \o Plain(t, i + 2, TRUE)
        ELSE IF quoted \/ t[i] # Slash
             THEN <<t[i]>> \o Plain(t, i + 1, quoted # (t[i] = Quote))
        ELSE IF i = Len(t) THEN <<>>
        ELSE IF t[i + 1] = Slash
             THEN IF lineEnds = {} THEN <<>> ELSE Plain(t, first(lineEnds), FALSE)
        ELSE IF t[i + 1] = Asterisk
             THEN IF closings = {} THEN <<>>
                  ELSE <<Space>> \o Plain(t, first(closings) + 1, FALSE)
        ELSE SubSeq(t, i, Len(t))

\* One JSON text and the calls for it, flush last; at says where it ends.
Flushed(v) == IF Passed(v) THEN [v EXCEPT !.calls = Append(@, <<"flush", <<>>>>)] ELSE v
JsonText(t) == Flushed(Value(t, SkipBlanks(t, 1), 0))

\* t holds one JSON text and nothing else.
OnlyText(t, v) == IF Passed(v) /\ SkipBlanks(t, v.at) <= Len(t) THEN Bad ELSE v
WholeText(t) == OnlyText(t, JsonText(t))
==============================================================================
