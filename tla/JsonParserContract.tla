-------------------------- MODULE JsonParserContract -------------------------
(***************************************************************************)
(* What basic_json_parser keeps true of itself, and what it promises its   *)
(* visitor: every run of JsonParser is a run of VisitorProtocol.           *)
(***************************************************************************)
EXTENDS JsonParser, FiniteSets

\* Types of the members.
TypeOK ==
    /\ input \in Seq(Byte) /\ text \in Seq(Byte) /\ ended \in BOOLEAN
    /\ caller \in DOMAIN Callers
    /\ state \in States /\ stateStack \in Seq(States) /\ level \in Nat
    /\ numberState \in NumberStates /\ stringState \in StringStates
    /\ buffer \in Seq(Byte) /\ cp \in Nat /\ cp2 \in Nat
    /\ more \in BOOLEAN /\ done \in BOOLEAN
    /\ line \in Nat /\ position \in Nat /\ markPosition \in Nat
    /\ cursorMode \in BOOLEAN /\ markLevel \in Nat
    /\ ec \in Errors \cup {"none"}
    /\ phase \in {"idle", "parse", "skip", "check"}
    /\ calls \in Seq(CallNames \X Seq(Byte))

\* The part of the stack that holds the root and the open containers.
Frames == level + 1

\* The state in which the innermost container is: what a comment, a carriage
\* return or a member name has pushed on the stack, or else state_ itself.
Base == IF Len(stateStack) > Frames THEN stateStack[Frames + 1] ELSE state

\* state_stack_ is the root, the open containers, and what state_ has put off:
\* this is why parent() and pop_state() never meet an empty stack, and why a
\* value or a string that ends finds a container, the root or member_name there.
StackShape ==
    /\ stateStack[1] = "root"
    /\ Len(stateStack) >= Frames
    /\ \A i \in 2 .. Frames : stateStack[i] \in Containers
    /\ state \in CommentStates =>
           Len(stateStack) = Frames + 1 /\ Base \in BetweenStates
    /\ state = "cr" =>
           \/ Len(stateStack) = Frames + 1 /\ Base \in BetweenStates \cup {"accept", "done"}
           \/ /\ Len(stateStack) = Frames + 2 /\ stateStack[Frames + 2] = "slash_star"
              /\ Base \in BetweenStates
    /\ state = "string" =>
           Len(stateStack) = Frames \/ (Len(stateStack) = Frames + 1 /\ Base = "member_name")
    /\ state \notin CommentStates \cup {"cr", "string"} =>
           /\ Len(stateStack) = Frames
           /\ state \in BetweenStates \cup LiteralStates \cup {"number", "accept", "done"}

\* The state belongs to the innermost container.
BaseFits ==
    /\ Base \in {"start", "accept", "done"} => level = 0
    /\ Base \in BetweenStates \ {"start"} => level > 0
    /\ Base \in NameStates \cup {"expect_colon", "member_name"} =>
           level > 0 /\ stateStack[Frames] = "object"
    /\ Base = "expect_value_or_end" => stateStack[Frames] = "array"
    /\ done <=> Base = "done"

\* No function runs in a state it has no case for, and a number being read has
\* a first byte for end_integer_value to look at.
RunsFit ==
    /\ phase = "parse" /\ done => ~more
    /\ phase = "skip" => BetweenTexts
    /\ state = "number" => buffer # <<>>

\* The inductive invariant: all of it holds until an error is reported, and
\* skip_whitespace, which has none to report, does not run after one.
Consistent ==
    /\ phase = "skip" => ec = "none"
    /\ ec = "none" => StackShape /\ BaseFits /\ RunsFit

\* parse_some_ never reaches its default case, JSONCONS_ASSERT(false), and
\* pop_state() and parent() never find the stack empty: what is popped is never
\* the root, at a member name, a comment, or the end of a container.
NoAssertionFails ==
    ec = "none" =>
        /\ stateStack # <<>>
        /\ state \in CommentStates \cup {"cr"} \/ level > 0 => Len(stateStack) > 1
        /\ phase = "parse" /\ more => state \in CaseStates

\* The containers open never outnumber max_nesting_depth, unless the handler
\* lets them.
DepthBounded ==
    (ec = "none" /\ "max_nesting_depth_exceeded" \notin Lenient) => level <= MaxNestingDepth

\* A text that is accepted has every container closed.
AcceptedIsClosed ==
    (ec = "none" /\ (state = "accept" \/ done)) => level = 0 /\ ~(state = "accept" /\ done)

\* How many of the calls made for the text have a name in names.
CallCount(names) == Cardinality({i \in DOMAIN calls : calls[i][1] \in names})

\* The containers that the visitor has been told of and that are still open
\* never outnumber max_nesting_depth, even after an error and whichever call
\* failed, unless the handler lets them.
NestingBounded ==
    "max_nesting_depth_exceeded" \notin Lenient =>
        CallCount({"begin_object", "begin_array"}) - CallCount({"end_object", "end_array"})
            <= MaxNestingDepth

\* The visitor is given well-formed UTF-8 only, whatever bytes and escapes the
\* string is made of.
StringsAreUtf8 ==
    \A i \in DOMAIN calls : calls[i][1] \in {"key", "string_value"} => WellFormed(calls[i][2])

------------------------------------------------------------------------------
\* How many bytes of the text have been taken.
Taken == Len(text) - Len(input)

\* Where the lines end among the first n bytes of t: line feeds, carriage
\* returns, and pairs of the two, which end one line.
LineEnds(t, n) ==
    {i \in 1 .. n : t[i] = LF \/ (t[i] = CR /\ ~(i < n /\ t[i + 1] = LF))}

\* How many bytes have been looked at for their line ends: a carriage return is
\* counted when the byte after it is seen, and not at all at the end of the text.
Counted == IF Taken > 0 /\ text[Taken] = CR /\ (state = "cr" \/ input = <<>>)
           THEN Taken - 1 ELSE Taken

\* No line end gets past the parser: the handler lets none into a string, an
\* escape or a comment that has only a slash, and none follows an asterisk in
\* the text if comments are passed over (there the parser does not count it).
LinesVisible ==
    /\ Lenient \cap {"illegal_character_in_string", "invalid_unicode_escape_sequence",
                     "syntax_error"} = {}
    /\ (AllowComments /\ "illegal_comment" \in Lenient) =>
           \A i \in 1 .. Len(text) - 1 : text[i] = Asterisk => text[i + 1] \notin {CR, LF}

\* The lines and columns that are reported with an error are those of the byte
\* that the parser has come to, wherever the chunks end, even between a
\* carriage return and its line feed.
LineAndColumn ==
    (ec = "none" /\ LinesVisible) =>
        LET ends == LineEnds(text, Counted)
        IN  /\ position = Taken
            /\ line = 1 + Cardinality(ends)
            /\ markPosition \in ends \cup {0} /\ \A i \in ends : i <= markPosition

\* A program that only pushes text: update, parse_some and skip_whitespace.
PushNext == \/ Work \/ ParseSome \/ SkipWhitespace
            \/ \E chunk \in Callers[caller].chunks \cup {<<>>}, last \in BOOLEAN : Update(chunk, last)
PushSpec == Init /\ [][PushNext]_vars

------------------------------------------------------------------------------
\* The visitor's side of the parser's state.
OpenContainers == IF ec # "none" THEN <<>> ELSE [i \in 1 .. level |-> stateStack[i + 1]]

Wanted ==
    IF ec # "none" THEN "failed"
    ELSE IF Base = "done" THEN "none"
    ELSE IF Base = "accept" THEN "flush"
    ELSE IF level > 0 /\ stateStack[Frames] = "object"
            /\ Base \in NameStates \cup {"member_name", "expect_comma_or_end"} THEN "key"
    ELSE "value"

CallsMade == [i \in DOMAIN calls |-> calls[i][1]]

Visitor == INSTANCE VisitorProtocol
    WITH calls <- CallsMade, open <- OpenContainers, want <- Wanted

\* The visitor sees a run of VisitorProtocol, whatever the bytes, the chunks,
\* the options, and the order in which the parser is stopped and restarted.
VisitorSeesProtocol == Visitor!Spec
==============================================================================
