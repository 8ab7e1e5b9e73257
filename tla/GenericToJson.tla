---------------------------- MODULE GenericToJson -----------------------------
(***************************************************************************)
(* basic_generic_to_json_visitor: turns the calls of a parser whose keys   *)
(* may be any item into calls on a basic_json_visitor, whose keys are      *)
(* strings.  A key that is a container is written out as JSON text in      *)
(* key_buffer_, and handed on as one key when its outermost container ends.*)
(*                                                                         *)
(* The text is kept as its lexemes.                                        *)
(***************************************************************************)
EXTENDS JsonDecoder

VARIABLES
    given,     \* how far the calls on the adaptor have come
    adaptor    \* levels (level_stack_), buffer (key_buffer_), failed: an assertion
               \* does not hold, and made: the calls made on the destination, which
               \* is a json_decoder

Level(target, kind) == [target |-> target, kind |-> kind, key |-> kind = "object", count |-> 0]
NewAdaptor == [levels |-> <<Level("destination", "root")>>, buffer |-> <<>>, failed |-> FALSE, made |-> <<>>]

Innermost(a) == Last(a.levels)
\* Mutant: keys are counted, the items of arrays are not.
AdvancedByKeys(a) ==
    LET top == Innermost(a)
    IN  [a EXCEPT !.levels[Len(a.levels)] =
            [top EXCEPT !.count = IF top.key THEN @ + 1 ELSE @,
                        !.key = IF top.kind = "object" THEN ~@ ELSE @]]

Advanced(a) ==
    LET top == Innermost(a)
    IN  [a EXCEPT !.levels[Len(a.levels)] =
            [top EXCEPT !.count = IF top.key THEN @ ELSE @ + 1,
                        !.key = IF top.kind = "object" THEN ~@ ELSE @]]

Punctuation(p) == <<"punctuation", p>>
Written(a, lexemes) == [a EXCEPT !.buffer = @ \o lexemes]
Made(a, call) == [a EXCEPT !.made = Append(@, call)]
CommaIf(needed) == IF needed THEN <<Punctuation(",")>> ELSE <<>>

\* The text of a key or of a value in the buffer.
BytesText(c) == <<CASE c[3] = "base64" -> "base64" [] c[3] = "base16" -> "base16"
                    [] OTHER -> "base64url", c[2]>>
KeyText(c) == CASE c[1] = "string_value" -> c[2]
                [] c[1] = "byte_string_value" -> BytesText(c)
                [] c[1] = "ext_byte_string" -> <<"base64url", c[2][1]>>
                [] c[1] \in {"uint64_value", "int64_value"} -> <<"int", c[2]>>
                [] c[1] \in {"double_value", "half_value"} -> <<"double", c[2]>>
                [] c[1] = "bool_value" -> <<"chars", IF c[2] THEN "true" ELSE "false">>
                [] c[1] = "null_value" -> <<"chars", "null">>
Lexeme(c) == IF c[1] \in {"string_value", "byte_string_value", "ext_byte_string"}
             THEN <<"quoted", KeyText(c)>> ELSE <<"literal", KeyText(c)>>

AdaptScalar(a, c) ==
    LET top == Innermost(a)
        comma == CommaIf(top.count > 0 /\ (top.key \/ top.kind # "object"))
        text == Append(comma, Lexeme(c))
    IN  Advanced(IF top.target = "buffer"
                 THEN Written(a, IF top.key THEN Append(text, Punctuation(":")) ELSE text)
                 ELSE Made(a, IF top.key THEN Untagged("key", KeyText(c)) ELSE c))

\* The comma before a container in the buffer: of the four functions three differ.
CommaBefore(top, c) ==
    /\ top.count > 0
    /\ \/ top.key /\ top.target = "buffer"
       \/ ~top.key /\ c[2] # Unsized /\ top.kind # "object"
       \/ ~top.key /\ c[2] = Unsized /\ c[1] = "begin_array" /\ top.kind = "object"

AdaptBegin(a, c) ==
    LET top == Innermost(a)
        kind == KindOf[c[1]]
        open == Punctuation(IF kind = "object" THEN "{" ELSE "[")
    IN  IF top.key \/ top.target = "buffer"
        THEN Written([a EXCEPT !.levels = Append(@, Level("buffer", kind))],
                     Append(CommaIf(CommaBefore(top, c)), open))
        ELSE Made([a EXCEPT !.levels = Append(@, Level("destination", kind))], c)

AdaptEnd(a, c) ==
    LET close == Punctuation(IF c[1] = "end_object" THEN "}" ELSE "]")
        text == Append(a.buffer, close)
        popped == [a EXCEPT !.levels = Front(@)]
        outer == Innermost(popped)
    IN  IF Len(a.levels) = 1 THEN [a EXCEPT !.failed = TRUE]
        ELSE IF Innermost(a).target = "destination" THEN Made(Advanced(popped), c)
        ELSE IF outer.target = "destination"
        THEN Advanced([Made(popped, Untagged("key", <<"joined", text>>)) EXCEPT !.buffer = <<>>])
        ELSE Advanced(Written(popped, <<close>> \o IF outer.key THEN <<Punctuation(":")>> ELSE <<>>))

Adapt(a, c) ==
    IF a.failed THEN a
    ELSE CASE c[1] \in Begin -> AdaptBegin(a, c)
           [] c[1] \in End -> AdaptEnd(a, c)
           [] c[1] = "flush" -> Made(a, c)
           [] OTHER -> AdaptScalar(a, c)

AdaptorInit == adaptor = NewAdaptor /\ given = NothingGiven /\ DecoderInit

\* A parser makes these calls, one after another.
ReceiveGeneric(calls) ==
    /\ adaptor' = FoldLeft(Adapt, [adaptor EXCEPT !.made = <<>>], calls)
    /\ given' = FoldLeft(AfterGiven, given, calls)
    /\ Receive(adaptor'.made)
-------------------------------------------------------------------------------
\* The calls on the adaptor and on the decoder keep the order of their visitors, and
\* the counts that containers announce.
CountsKept == given.status # "broken" /\ asked.status # "broken"

\* No assertion of the adaptor or of the decoder fails.
NoAssertionFails == ~adaptor.failed /\ ~decoder.failed

\* In the text of a key that is a container every item is separated from the last
\* one, if the containers announce their items.
Separated(s) ==
    \A i \in 1..(Len(s) - 1) :
        LET ends(x) == x[1] # "punctuation" \/ x[2] \in {"]", "}"}
            begins(x) == x[1] # "punctuation" \/ x[2] \in {"[", "{"}
        IN  /\ ends(s[i]) => ~begins(s[i + 1])
            /\ s[i] \in {<<"punctuation", ",">>, <<"punctuation", ":">>} => begins(s[i + 1])
KeysSeparated ==
    given.counted =>
        \A i \in DOMAIN adaptor.made :
            LET c == adaptor.made[i] IN c[1] = "key" /\ c[2][1] = "joined" => Separated(c[2][2])
===============================================================================
