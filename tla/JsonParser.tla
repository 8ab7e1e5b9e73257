----------------------------- MODULE JsonParser ------------------------------
(***************************************************************************)
(* basic_json_parser<char>: the resumable push parser under every way of   *)
(* reading JSON text.  The caller supplies the text chunk by chunk with    *)
(* update, and parse_some turns it into visitor calls; all that the parser *)
(* knows between two calls is in its members, so a chunk may end anywhere. *)
(*                                                                         *)
(* One iteration of the loop in parse_some_ is one action here.  The loops *)
(* inside parse_number, parse_string, skip_space, skip_whitespace and      *)
(* check_done are taken a byte at a time.                                  *)
(***************************************************************************)
EXTENDS JsonBytes

CONSTANTS
    MaxNestingDepth,     \* option max_nesting_depth
    AllowTrailingComma,  \* option allow_trailing_comma
    AllowComments,       \* option allow_comments
    LosslessNumber,      \* option lossless_number
    LosslessBignum,      \* option lossless_bignum
    DoubleStrings,       \* the strings that the options map to inf, -inf and nan
    Lenient,             \* the errors for which err_handler_ returns true
    VisitorFails,        \* the visitor calls that may set the error code
    FitsInteger(_),      \* dec_to_integer succeeds on this number (64 bits)
    FitsDouble(_),       \* decstr_to_double succeeds on it: it is in range
    Callers              \* the callers, by name: what each may do

\* What follows the closing quote of a string that is not UTF-8, when the
\* handler asks to go on, depends on where its chunks ended: not modelled.
ASSUME HandlerAssumption == Lenient \cap Utf8Error = {}
ASSUME OptionAssumption ==
    /\ MaxNestingDepth \in Nat
    /\ {AllowTrailingComma, AllowComments, LosslessNumber, LosslessBignum} \subseteq BOOLEAN

\* A caller supplies these chunks, at most maxText bytes (a bound) for one text,
\* and sets cursor_mode and mark_level to these values.
ASSUME CallerAssumption ==
    \A c \in DOMAIN Callers :
        /\ Callers[c].chunks \subseteq Seq(Byte) \ {<<>>}
        /\ Callers[c].maxText \in Nat
        /\ Callers[c].cursorModes \subseteq BOOLEAN
        /\ Callers[c].markLevels \subseteq Nat

VARIABLES
    input,          \* the bytes from input_ptr_ to input_end_
    state,          \* state_
    stateStack,     \* state_stack_
    level,          \* level_
    numberState,    \* number_state_
    stringState,    \* string_state_
    buffer,         \* buffer_, with what parse_string has yet to append to it
    cp, cp2,        \* cp_, cp2_: the code points of \u escapes
    more,           \* more_
    done,           \* done_
    line,           \* line_
    position,       \* position_
    markPosition,   \* mark_position_: where the line began
    cursorMode,     \* cursor_mode_
    markLevel,      \* mark_level_
    ec,             \* the error code that the call reports
    phase,          \* the member function that is running, or "idle"
    calls,          \* history: the visitor calls made for this text
    text,           \* history: the bytes supplied for this text
    ended,          \* the caller has no more input
    caller          \* who drives the parser: chosen once

marks == <<line, markPosition>>
nest == <<state, stateStack, level>>
token == <<numberState, stringState, buffer, cp, cp2>>
modes == <<cursorMode, markLevel>>
supply == <<text, ended, caller>>
vars == <<input, nest, token, more, done, marks, position, modes, ec, phase, calls, supply>>

------------------------------------------------------------------------------
\* Names

NumberStates == {"minus", "zero", "integer", "fraction1", "fraction2", "exp1", "exp2", "exp3"}

HexStates == {"escape_u1", "escape_u2", "escape_u3", "escape_u4",
              "escape_u5", "escape_u6", "escape_u7", "escape_u8"}

StringStates == HexStates \cup
    {"text", "escape", "escape_expect_surrogate_pair1", "escape_expect_surrogate_pair2"}

\* Where a value may begin, and where a member name may.
ValueStates == {"start", "expect_value", "expect_value_or_end"}
NameStates == {"expect_member_name", "expect_member_name_or_end"}

\* The states in which blanks, comments and control characters are treated alike.
BetweenStates == ValueStates \cup NameStates \cup {"expect_comma_or_end", "expect_colon"}

LiteralStates == {"t", "tr", "tru", "f", "fa", "fal", "fals", "n", "nu", "nul"}
CommentStates == {"slash", "slash_slash", "slash_star", "slash_star_star"}

\* The states that parse_some_ has a case for, and all of parse_state.
CaseStates == BetweenStates \cup LiteralStates \cup CommentStates
              \cup {"string", "number", "cr", "accept"}
States == CaseStates \cup {"root", "object", "array", "member_name", "done"}

Containers == {"object", "array"}

CallNames == {"begin_object", "end_object", "begin_array", "end_array", "key",
              "null_value", "bool_value", "string_value", "uint64_value", "int64_value",
              "double_value", "bigint_value", "bigdec_value", "flush"}

Errors == Utf8Error \cup
    {"unexpected_eof", "syntax_error", "extra_character", "max_nesting_depth_exceeded",
     "single_quote", "illegal_character_in_string", "extra_comma", "expected_key",
     "expected_value", "invalid_value", "expected_colon", "illegal_control_character",
     "illegal_escaped_character", "expected_codepoint_surrogate_pair",
     "invalid_unicode_escape_sequence", "expected_comma_or_rbrace",
     "expected_comma_or_rbracket", "unexpected_rbracket", "unexpected_rbrace",
     "unexpected_character", "illegal_comment", "leading_zero", "invalid_number", "visitor"}

------------------------------------------------------------------------------
\* Building blocks

Top == stateStack[Len(stateStack)]                              \* parent()
Popped == SubSeq(stateStack, 1, Len(stateStack) - 1)            \* pop_state()
Push(s) == stateStack' = Append(stateStack, s)                  \* push_state(s)

Here == Head(input)
Take == input' = Tail(input) /\ position' = position + 1        \* ++input_ptr_; ++position_
Stay == UNCHANGED <<input, position>>

\* err_handler_ is told and parsing stops whatever it answers.
Abort(e) == ec' = e /\ more' = FALSE

\* err_handler_ is asked: parsing stops here, or goes on past this byte.
Skip(e) == IF e \in Lenient THEN Take /\ UNCHANGED <<more, ec>>
                            ELSE Stay /\ Abort(e)

\* The call c of the visitor, with its argument, which may set ec.
Visit(c, arg) ==
    /\ calls' = Append(calls, <<c, arg>>)
    /\ ec' \in {"none"} \cup (IF c \in VisitorFails THEN {"visitor"} ELSE {})

\* What follows a successful call: the parser goes on unless a cursor drives it.
Proceed == more' = IF ec' = "none" THEN ~cursorMode ELSE more

\* Mutant: the top level is taken to begin inside the outermost container.
ValueDoneTooSoon(lvl) == state' = IF ec' # "none" THEN state
                                  ELSE IF lvl <= 1 THEN "accept" ELSE "expect_comma_or_end"

\* A value is complete: state_ becomes accept at the top level.
ValueDone(lvl) == state' = IF ec' # "none" THEN state
                           ELSE IF lvl = 0 THEN "accept" ELSE "expect_comma_or_end"

\* The condition of the loop in parse_some_, at a state of S.
At(S) == phase = "parse" /\ ec = "none" /\ more /\ input # <<>> /\ state \in S

\* Every step of the loop leaves these alone.
LoopFrame == UNCHANGED <<modes, phase, supply>>

------------------------------------------------------------------------------
\* Blanks, line ends and control characters

\* Mutant: every carriage return is a line end of its own.
LineEndOfOneByte(b) == 1

\* The length of a line end that begins with a carriage return, b following.
LineEndLength(b) == IF b = LF THEN 2 ELSE 1

\* One round of skip_space, from the loop or from skip_whitespace.  A carriage
\* return that ends the chunk waits in state cr for the byte after it.
SkipSpace ==
    /\ \/ At(BetweenStates)
       \/ phase = "skip" /\ input # <<>> /\ state # "cr"
    /\ Here \in Blank
    /\ IF Here # CR
       THEN /\ Take
            /\ line' = IF Here = LF THEN line + 1 ELSE line
            /\ markPosition' = IF Here = LF THEN position' ELSE markPosition
            /\ UNCHANGED nest
       ELSE IF Len(input) = 1
       THEN Take /\ Push(state) /\ state' = "cr" /\ UNCHANGED <<marks, level>>
       ELSE LET n == LineEndLength(input[2])
            IN  /\ input' = SubSeq(input, n + 1, Len(input))
                /\ position' = position + n
                /\ line' = line + 1
                /\ markPosition' = position'
                /\ UNCHANGED nest
    /\ UNCHANGED <<token, more, done, ec, calls>> /\ LoopFrame

\* case parse_state::cr, of the loop and of skip_whitespace.
ResumeCr ==
    /\ At({"cr"}) \/ (phase = "skip" /\ input # <<>> /\ state = "cr")
    /\ IF Here = LF THEN Take ELSE Stay
    /\ line' = line + 1 /\ markPosition' = position'
    /\ state' = Top /\ stateStack' = Popped
    /\ UNCHANGED <<level, token, more, done, ec, calls>> /\ LoopFrame

\* In state start a handler that goes on leaves the byte where it is.
ControlCharacter ==
    /\ At(BetweenStates) /\ Here \in ControlByte
    /\ IF state = "start" /\ "illegal_control_character" \in Lenient
       THEN Stay /\ UNCHANGED <<more, ec>>
       ELSE Skip("illegal_control_character")
    /\ UNCHANGED <<nest, token, done, marks, calls>> /\ LoopFrame

------------------------------------------------------------------------------
\* Containers

\* Mutant: the level is compared before it is counted.
TooDeepByOne == level > MaxNestingDepth /\ "max_nesting_depth_exceeded" \notin Lenient

TooDeep == level + 1 > MaxNestingDepth /\ "max_nesting_depth_exceeded" \notin Lenient

BeginObject ==
    /\ At(ValueStates) /\ Here = LBrace /\ Take
    /\ level' = level + 1
    /\ IF TooDeep
       THEN Abort("max_nesting_depth_exceeded") /\ UNCHANGED <<state, stateStack, calls>>
       ELSE /\ Push("object") /\ state' = "expect_member_name_or_end"
            /\ Visit("begin_object", <<>>)
            /\ more' = ~cursorMode
    /\ UNCHANGED <<token, done, marks>> /\ LoopFrame

BeginArray ==
    /\ At(ValueStates) /\ Here = LBracket /\ Take
    /\ level' = level + 1
    /\ IF TooDeep
       THEN Abort("max_nesting_depth_exceeded") /\ UNCHANGED <<state, stateStack, calls>>
       ELSE /\ Push("array") /\ state' = "expect_value_or_end"
            /\ Visit("begin_array", <<>>)
            /\ Proceed
    /\ UNCHANGED <<token, done, marks>> /\ LoopFrame

\* end_object and end_array: kind is the container to be closed by call c.
EndContainer(kind, c, mismatch, unexpected) ==
    IF level < 1 THEN Abort(unexpected) /\ UNCHANGED <<nest, calls>>
    ELSE /\ stateStack' = Popped
         /\ IF Top = kind
            THEN /\ Visit(c, <<>>)
                 /\ IF ec' = "none"
                    THEN /\ more' = (~cursorMode /\ level # markLevel)
                         /\ level' = level - 1
                         /\ ValueDone(level - 1)
                    ELSE state' = Top /\ UNCHANGED <<level, more>>
            ELSE /\ Abort(IF Top \in Containers THEN mismatch ELSE unexpected)
                 /\ state' = Top /\ UNCHANGED <<level, calls>>

\* Mutant: allow_trailing_comma is not consulted.
ExtraCommaAlways == "extra_comma" \notin Lenient

\* A container that closes after a comma.
ExtraComma == ~AllowTrailingComma /\ "extra_comma" \notin Lenient

EndObject ==
    /\ At(NameStates \cup {"expect_comma_or_end"}) /\ Here = RBrace /\ Take
    /\ IF state = "expect_member_name" /\ ExtraComma
       THEN Abort("extra_comma") /\ UNCHANGED <<nest, calls>>
       ELSE EndContainer("object", "end_object", "expected_comma_or_rbracket", "unexpected_rbrace")
    /\ UNCHANGED <<token, done, marks>> /\ LoopFrame

\* In expect_value, "]" follows a comma in an array, or a colon in an object.
EndArray ==
    /\ At({"expect_value", "expect_value_or_end", "expect_comma_or_end"}) /\ Here = RBracket
    /\ Take
    /\ IF state = "expect_value" /\ Top # "array"
       THEN /\ IF "expected_value" \in Lenient THEN UNCHANGED <<more, ec>>
                                               ELSE Abort("expected_value")
            /\ UNCHANGED <<nest, calls>>
       ELSE IF state = "expect_value" /\ ExtraComma
       THEN Abort("extra_comma") /\ UNCHANGED <<nest, calls>>
       ELSE EndContainer("array", "end_array", "expected_comma_or_rbrace", "unexpected_rbracket")
    /\ UNCHANGED <<token, done, marks>> /\ LoopFrame

\* begin_member_or_element
NextMember ==
    /\ At({"expect_comma_or_end"}) /\ Here = Comma
    /\ IF Top \in Containers \cup {"root"}
       THEN /\ Take /\ UNCHANGED <<more, ec>>
            /\ state' = CASE Top = "object" -> "expect_member_name"
                          [] Top = "array" -> "expect_value"
                          [] Top = "root" -> state
       ELSE Skip("syntax_error") /\ UNCHANGED state
    /\ UNCHANGED <<stateStack, level, token, done, marks, calls>> /\ LoopFrame

TakeColon ==
    /\ At({"expect_colon"}) /\ Here = Colon /\ Take
    /\ state' = "expect_value"
    /\ UNCHANGED <<stateStack, level, token, more, done, marks, ec, calls>> /\ LoopFrame

------------------------------------------------------------------------------
\* Bytes that no case of a state expects

ValueBytes == {LBrace, LBracket, Quote, Minus, LowN, LowT, LowF} \cup Digit

\* The bytes that have a case of their own.
Expected(s) ==
    Blank \cup ControlByte \cup {Slash} \cup
    (CASE s = "expect_comma_or_end" -> {RBrace, RBracket, Comma}
       [] s \in NameStates -> {RBrace, Quote}
       [] s = "expect_colon" -> {Colon}
       [] s \in {"expect_value", "expect_value_or_end"} -> ValueBytes \cup {RBracket}
       [] s = "start" -> ValueBytes)

\* The default case and the single quote, which the handler may pass over.
Unexpected ==
    /\ At(BetweenStates \ {"start"}) /\ Here \notin Expected(state)
    /\ Skip(CASE state = "expect_comma_or_end" ->
                     IF Top = "array" THEN "expected_comma_or_rbracket"
                     ELSE IF Top = "object" THEN "expected_comma_or_rbrace"
                     ELSE "unexpected_character"
              [] state = "expect_colon" -> "expected_colon"
              [] state \in NameStates ->
                     IF Here = Apostrophe THEN "single_quote" ELSE "expected_key"
              [] state \in ValueStates ->
                     IF Here = Apostrophe THEN "single_quote" ELSE "expected_value")
    /\ UNCHANGED <<nest, token, done, marks, calls>> /\ LoopFrame

UnexpectedAtStart ==
    /\ At({"start"}) /\ Here \notin Expected("start")
    /\ Stay
    /\ Abort(CASE Here = RBrace -> "unexpected_rbrace"
               [] Here = RBracket -> "unexpected_rbracket"
               [] OTHER -> "syntax_error")
    /\ UNCHANGED <<nest, token, done, marks, calls>> /\ LoopFrame

------------------------------------------------------------------------------
\* Comments

BeginComment ==
    /\ At(BetweenStates) /\ Here = Slash /\ Take
    /\ Push(state) /\ state' = "slash"
    /\ UNCHANGED <<level, token, more, done, marks, ec, calls>> /\ LoopFrame

\* Where comments are not allowed the error is set and more_ is left alone.
CommentKind ==
    /\ At({"slash"})
    /\ IF Here \notin {Asterisk, Slash}
       THEN Skip("syntax_error") /\ UNCHANGED state
       ELSE IF ~AllowComments
       THEN Stay /\ ec' = "illegal_comment" /\ UNCHANGED <<more, state>>
       ELSE /\ Skip("illegal_comment")
            /\ state' = IF "illegal_comment" \notin Lenient THEN state
                        ELSE IF Here = Asterisk THEN "slash_star" ELSE "slash_slash"
    /\ UNCHANGED <<stateStack, level, token, done, marks, calls>> /\ LoopFrame

LineComment ==
    /\ At({"slash_slash"})
    /\ IF Here \in {CR, LF} THEN Stay /\ state' = Top /\ stateStack' = Popped
                            ELSE Take /\ UNCHANGED <<state, stateStack>>
    /\ UNCHANGED <<level, token, more, done, marks, ec, calls>> /\ LoopFrame

BlockComment ==
    /\ At({"slash_star"}) /\ Take
    /\ state' = CASE Here = CR -> "cr" [] Here = Asterisk -> "slash_star_star"
                  [] OTHER -> state
    /\ stateStack' = IF Here = CR THEN Append(stateStack, state) ELSE stateStack
    /\ line' = IF Here = LF THEN line + 1 ELSE line
    /\ markPosition' = IF Here = LF THEN position' ELSE markPosition
    /\ UNCHANGED <<level, token, more, done, ec, calls>> /\ LoopFrame

\* Any byte but "/" takes the comment back to slash_star, and is gone.
BlockCommentStar ==
    /\ At({"slash_star_star"}) /\ Take
    /\ IF Here = Slash THEN state' = Top /\ stateStack' = Popped
                       ELSE state' = "slash_star" /\ UNCHANGED stateStack
    /\ UNCHANGED <<level, token, more, done, marks, ec, calls>> /\ LoopFrame

------------------------------------------------------------------------------
\* Literal names

\* Mutant: the last byte of true and false is not waited for.
LiteralStepShort ==
    [s \in LiteralStates |->
        CASE s = "t" -> <<LowR, "tr">> [] s = "tr" -> <<LowU, "">> [] s = "tru" -> <<LowE, "">>
          [] s = "f" -> <<LowA, "fa">> [] s = "fa" -> <<LowL, "fal">> [] s = "fal" -> <<LowS, "">>
          [] s = "fals" -> <<LowE, "">>
          [] s = "n" -> <<LowU, "nu">> [] s = "nu" -> <<LowL, "nul">> [] s = "nul" -> <<LowL, "">>]

\* From each state inside a literal: the byte it waits for and the state after
\* that byte, "" when the literal is then complete.
LiteralStep ==
    [s \in LiteralStates |->
        CASE s = "t" -> <<LowR, "tr">> [] s = "tr" -> <<LowU, "tru">> [] s = "tru" -> <<LowE, "">>
          [] s = "f" -> <<LowA, "fa">> [] s = "fa" -> <<LowL, "fal">> [] s = "fal" -> <<LowS, "fals">>
          [] s = "fals" -> <<LowE, "">>
          [] s = "n" -> <<LowU, "nu">> [] s = "nu" -> <<LowL, "nul">> [] s = "nul" -> <<LowL, "">>]

\* parse_true, parse_false and parse_null: the whole word at once when the
\* chunk is long enough for it, else byte by byte from state s.
BeginLiteral(word, c, s) ==
    /\ At(ValueStates) /\ Here = word[1]
    /\ IF Len(input) < Len(word)
       THEN Take /\ state' = s /\ UNCHANGED <<more, ec, calls>>
       ELSE IF SubSeq(input, 1, Len(word)) = word
       THEN /\ input' = SubSeq(input, Len(word) + 1, Len(input))
            /\ position' = position + Len(word)
            /\ Visit(c, word) /\ Proceed /\ ValueDone(level)
       ELSE Stay /\ Abort("invalid_value") /\ UNCHANGED <<state, calls>>
    /\ UNCHANGED <<stateStack, level, token, done, marks>> /\ LoopFrame

ParseTrue  == BeginLiteral(TrueWord, "bool_value", "t")
ParseFalse == BeginLiteral(FalseWord, "bool_value", "f")
ParseNull  == BeginLiteral(NullWord, "null_value", "n")

\* State nul counts its byte before it looks at it, and takes it last.
ContinueLiteral ==
    LET next == LiteralStep[state][2] IN
    /\ At(LiteralStates)
    /\ IF Here # LiteralStep[state][1]
       THEN /\ Abort("invalid_value")
            /\ position' = IF state = "nul" THEN position + 1 ELSE position
            /\ UNCHANGED <<input, state, calls>>
       ELSE /\ position' = position + 1
            /\ IF next # "" THEN state' = next /\ UNCHANGED <<more, ec, calls>>
               ELSE /\ IF state = "nul" THEN Visit("null_value", NullWord)
                       ELSE Visit("bool_value", IF state = "tru" THEN TrueWord ELSE FalseWord)
                    /\ Proceed /\ ValueDone(level)
            /\ input' = IF state = "nul" /\ ec' # "none" THEN input ELSE Tail(input)
    /\ UNCHANGED <<stateStack, level, token, done, marks>> /\ LoopFrame

------------------------------------------------------------------------------
\* Numbers

\* The label of parse_number reached from label s by byte b; "end" when b does
\* not belong to the number, else the error that b is.
NumberNext(s, b) ==
    CASE s = "minus" -> IF b \in NonzeroDigit THEN "integer"
                        ELSE IF b = Zero THEN "zero" ELSE "invalid_number"
      [] s = "zero" -> IF b = Dot THEN "fraction1" ELSE IF b \in ExpMark THEN "exp1"
                       ELSE IF b \in Digit THEN "leading_zero" ELSE "end"
      [] s = "integer" -> IF b \in Digit THEN "integer" ELSE IF b = Dot THEN "fraction1"
                          ELSE IF b \in ExpMark THEN "exp1" ELSE "end"
      [] s = "fraction1" -> IF b \in Digit THEN "fraction2" ELSE "invalid_number"
      [] s = "fraction2" -> IF b \in Digit THEN "fraction2"
                            ELSE IF b \in ExpMark THEN "exp1" ELSE "end"
      [] s = "exp1" -> IF b \in {Plus, Minus} THEN "exp2"
                       ELSE IF b \in Digit THEN "exp3" ELSE "invalid_number"
      [] s = "exp2" -> IF b \in Digit THEN "exp3" ELSE "invalid_number"
      [] s = "exp3" -> IF b \in Digit THEN "exp3" ELSE "end"

\* The number_state_ stored when the chunk ends at label s, with rest to come:
\* label zero stores integer.
Resume(s, rest) == IF s = "zero" /\ rest = <<>> THEN "integer" ELSE s

\* The labels at which the text may end.
WholeNumbers == {"zero", "integer", "fraction2", "exp3"}

BeginNumber ==
    /\ At(ValueStates) /\ Here \in Digit \cup {Minus} /\ Take
    /\ buffer' = <<Here>>
    /\ state' = "number"
    /\ numberState' = Resume(IF Here = Minus THEN "minus"
                             ELSE IF Here = Zero THEN "zero" ELSE "integer", input')
    /\ UNCHANGED <<stateStack, level, stringState, cp, cp2, more, done, marks, ec, calls>>
    /\ LoopFrame

NumberByte ==
    LET next == NumberNext(numberState, Here) IN
    /\ At({"number"}) /\ next \in NumberStates /\ Take
    /\ numberState' = Resume(next, input')
    /\ buffer' = Append(buffer, Here)
    /\ UNCHANGED <<nest, stringState, cp, cp2, more, done, marks, ec, calls>> /\ LoopFrame

NumberError ==
    LET next == NumberNext(numberState, Here) IN
    /\ At({"number"}) /\ next \in {"invalid_number", "leading_zero"}
    /\ Stay /\ Abort(next)
    /\ UNCHANGED <<nest, token, done, marks, calls>> /\ LoopFrame

\* The call that end_integer_value or end_fraction_value makes.
NumberCall ==
    IF numberState \in {"zero", "integer"}
    THEN IF FitsInteger(buffer)
         THEN IF buffer[1] = Minus THEN "int64_value" ELSE "uint64_value"
         ELSE IF LosslessBignum THEN "bigint_value" ELSE "double_value"
    ELSE IF LosslessNumber \/ (~FitsDouble(buffer) /\ LosslessBignum)
         THEN "bigdec_value" ELSE "double_value"

\* end_integer_value or end_fraction_value, with after_value.
CompleteNumber ==
    /\ Visit(NumberCall, buffer) /\ Proceed
    /\ state' = IF ec' # "none" THEN state
                ELSE IF Top \in Containers THEN "expect_comma_or_end" ELSE "accept"

EndNumber ==
    /\ At({"number"}) /\ NumberNext(numberState, Here) = "end" /\ Stay
    /\ CompleteNumber
    /\ UNCHANGED <<stateStack, level, token, done, marks>> /\ LoopFrame

------------------------------------------------------------------------------
\* Strings

BeginString ==
    /\ At(ValueStates \cup NameStates) /\ Here = Quote /\ Take
    /\ state' = "string" /\ stringState' = "text" /\ buffer' = <<>>
    /\ IF state \in NameStates THEN Push("member_name") ELSE UNCHANGED stateStack
    /\ UNCHANGED <<level, numberState, cp, cp2, more, done, marks, ec, calls>> /\ LoopFrame

\* A step inside a string at one of the labels in S.
InString(S) == At({"string"}) /\ stringState \in S

StringFrame == UNCHANGED <<nest, numberState, done, marks, calls>> /\ LoopFrame

TextByte ==
    /\ InString({"text"})
    /\ Here \notin ControlByte \cup {LF, CR, HTab, Backslash, Quote} /\ Take
    /\ buffer' = Append(buffer, Here)
    /\ UNCHANGED <<stringState, cp, cp2, more, ec>> /\ StringFrame

\* The byte is counted before the handler is asked, and left out of the string
\* when it lets parsing go on.
IllegalTextByte ==
    LET e == IF Here \in ControlByte THEN "illegal_control_character"
             ELSE "illegal_character_in_string"
    IN  /\ InString({"text"}) /\ Here \in ControlByte \cup {LF, CR, HTab}
        /\ position' = position + 1
        /\ IF e \in Lenient THEN input' = Tail(input) /\ UNCHANGED <<more, ec>>
                            ELSE UNCHANGED input /\ Abort(e)
        /\ UNCHANGED token /\ StringFrame

\* A step that moves to label s.
Label(s) == Take /\ stringState' = s /\ UNCHANGED <<more, ec>>

BeginEscape ==
    /\ InString({"text"}) /\ Here = Backslash
    /\ Label("escape") /\ UNCHANGED <<buffer, cp, cp2>> /\ StringFrame

EscapeBytes == {Quote, Backslash, Slash, LowB, LowF, LowN, LowR, LowT}

Unescaped(b) == CASE b = LowB -> 8 [] b = LowF -> 12 [] b = LowN -> LF
                  [] b = LowR -> CR [] b = LowT -> HTab [] OTHER -> b

SimpleEscape ==
    /\ InString({"escape"}) /\ Here \in EscapeBytes
    /\ Label("text") /\ buffer' = Append(buffer, Unescaped(Here))
    /\ UNCHANGED <<cp, cp2>> /\ StringFrame

UnicodeEscape ==
    /\ InString({"escape"}) /\ Here = LowU
    /\ Label("escape_u1") /\ cp' = 0
    /\ UNCHANGED <<buffer, cp2>> /\ StringFrame

SurrogateBackslash ==
    /\ InString({"escape_expect_surrogate_pair1"}) /\ Here = Backslash
    /\ Label("escape_expect_surrogate_pair2") /\ cp2' = 0
    /\ UNCHANGED <<buffer, cp>> /\ StringFrame

SurrogateU ==
    /\ InString({"escape_expect_surrogate_pair2"}) /\ Here = LowU
    /\ Label("escape_u5")
    /\ UNCHANGED <<buffer, cp, cp2>> /\ StringFrame

EscapeError ==
    /\ \/ InString({"escape"}) /\ Here \notin EscapeBytes \cup {LowU}
       \/ InString({"escape_expect_surrogate_pair1"}) /\ Here # Backslash
       \/ InString({"escape_expect_surrogate_pair2"}) /\ Here # LowU
    /\ Stay
    /\ Abort(IF stringState = "escape" THEN "illegal_escaped_character"
             ELSE "expected_codepoint_surrogate_pair")
    /\ UNCHANGED token /\ StringFrame

HexNext == [s \in HexStates |->
    CASE s = "escape_u1" -> "escape_u2" [] s = "escape_u2" -> "escape_u3"
      [] s = "escape_u3" -> "escape_u4" [] s = "escape_u4" -> "escape_expect_surrogate_pair1"
      [] s = "escape_u5" -> "escape_u6" [] s = "escape_u6" -> "escape_u7"
      [] s = "escape_u7" -> "escape_u8" [] s = "escape_u8" -> "text"]

\* append_to_codepoint, with cp reset at the first digit.  The fourth digit
\* completes a code point, or the high half of a pair; the eighth completes
\* the pair, whatever its second half is.
HexByte ==
    LET base == IF stringState \in {"escape_u1", "escape_u5"} THEN 0
                ELSE IF stringState \in {"escape_u2", "escape_u3", "escape_u4"} THEN cp ELSE cp2
        value == base * 16 + HexValue(Here)
        inPair == stringState \in {"escape_u5", "escape_u6", "escape_u7", "escape_u8"}
    IN  /\ InString(HexStates)
        /\ cp' = IF inPair THEN cp ELSE value
        /\ cp2' = IF inPair THEN value ELSE cp2
        /\ IF Here \notin HexDigit /\ "invalid_unicode_escape_sequence" \notin Lenient
           THEN /\ Stay /\ Abort("invalid_unicode_escape_sequence")
                /\ UNCHANGED <<stringState, buffer>>
           ELSE /\ Label(IF stringState = "escape_u4" /\ value \notin HighSurrogate
                         THEN "text" ELSE HexNext[stringState])
                /\ buffer' = IF stringState = "escape_u8"
                             THEN buffer \o Utf8(CombineSurrogates(cp, value))
                             ELSE IF stringState = "escape_u4" /\ value \notin HighSurrogate
                             THEN buffer \o Utf8(value)
                             ELSE buffer
        /\ StringFrame

\* The closing quote: end_string_value.  The quote is counted first, and taken
\* only if no error is set.
EndString ==
    /\ InString({"text"}) /\ Here = Quote
    /\ IF ~ValidUtf8(buffer)
       THEN /\ \E stop \in Utf8Stop(buffer) :
                  Abort(SequenceError(buffer, stop)) /\ position' = position + stop
            /\ UNCHANGED <<state, stateStack, calls>>
       ELSE /\ position' = position + 1
            /\ IF Top = "member_name"
               THEN /\ Visit("key", buffer)
                    /\ IF ec' = "none" THEN stateStack' = Popped /\ state' = "expect_colon"
                                       ELSE UNCHANGED <<stateStack, state>>
               ELSE /\ Visit(IF buffer \in DoubleStrings THEN "double_value" ELSE "string_value",
                             buffer)
                    /\ state' = IF ec' # "none" THEN state
                                ELSE IF Top = "root" THEN "accept" ELSE "expect_comma_or_end"
                    /\ UNCHANGED stateStack
            /\ Proceed
    /\ input' = IF ec' = "none" THEN Tail(input) ELSE input
    /\ UNCHANGED <<level, token, done, marks>> /\ LoopFrame

------------------------------------------------------------------------------
\* The end of the text

\* Mutant: more_ stays set after flush.
FinishAndGoOn ==
    /\ calls' = Append(calls, <<"flush", <<>>>>)
    /\ done' = TRUE /\ state' = "done" /\ UNCHANGED <<more, ec>>

\* Mutant: state_ stays accept after flush.
FinishAccepting ==
    /\ calls' = Append(calls, <<"flush", <<>>>>)
    /\ done' = TRUE /\ more' = FALSE /\ UNCHANGED <<state, ec>>

\* flush, and nothing more to parse.
Finish ==
    /\ calls' = Append(calls, <<"flush", <<>>>>)
    /\ done' = TRUE /\ state' = "done" /\ more' = FALSE /\ UNCHANGED ec

\* case parse_state::accept in the loop.
AcceptInLoop ==
    /\ At({"accept"}) /\ Finish
    /\ Stay /\ UNCHANGED <<stateStack, level, token, marks>> /\ LoopFrame

\* The caller may go on with this text.
Calling == phase = "idle" /\ ec = "none"

ParseAccepted ==
    /\ Calling /\ state = "accept" /\ Finish
    /\ UNCHANGED <<input, stateStack, level, token, marks, position, modes, phase, supply>>

ParseSome ==
    /\ Calling /\ ~done /\ state # "accept" /\ (input # <<>> \/ ~more)
    /\ phase' = "parse"
    /\ UNCHANGED <<input, nest, token, more, done, marks, position, modes, ec, calls, supply>>

\* parse_some with no input left, at a state of S: the switch before the loop.
AtEnd(S) ==
    /\ Calling /\ ~done /\ input = <<>> /\ ended /\ more /\ state \in S
    /\ UNCHANGED <<input, level, token, done, marks, position, modes, phase, supply>>

EndOfNumber ==
    /\ AtEnd({"number"}) /\ UNCHANGED stateStack
    /\ IF numberState \in WholeNumbers THEN CompleteNumber
       ELSE Abort("unexpected_eof") /\ UNCHANGED <<state, calls>>

EndOfCr ==
    /\ AtEnd({"cr"})
    /\ state' = Top /\ stateStack' = Popped /\ UNCHANGED <<more, ec, calls>>

UnexpectedEnd ==
    /\ AtEnd(States \ {"number", "cr", "accept", "done"})
    /\ Abort("unexpected_eof") /\ UNCHANGED <<state, stateStack, calls>>

------------------------------------------------------------------------------
\* The rest of the interface

\* parse_some, skip_whitespace or check_done returns.
Return ==
    /\ \/ phase = "parse" /\ (input = <<>> \/ ~more \/ ec # "none")
       \/ phase = "skip" /\ ~(input # <<>> /\ (state = "cr" \/ Here \in Blank))
       \/ phase = "check" /\ (input = <<>> \/ ec # "none")
    /\ phase' = "idle"
    /\ UNCHANGED <<input, nest, token, more, done, marks, position, modes, ec, calls, supply>>

\* skip_whitespace and check_done are called between texts.
BetweenTexts == (IF state = "cr" THEN Top ELSE state) \in {"start", "accept", "done"}

SkipWhitespace ==
    /\ Calling /\ BetweenTexts
    /\ phase' = "skip"
    /\ UNCHANGED <<input, nest, token, more, done, marks, position, modes, ec, calls, supply>>

CheckDone ==
    /\ Calling /\ BetweenTexts
    /\ phase' = "check"
    /\ UNCHANGED <<input, nest, token, more, done, marks, position, modes, ec, calls, supply>>

\* One round of the loop in check_done, which does not move position_.
CheckByte ==
    /\ phase = "check" /\ ec = "none" /\ input # <<>>
    /\ IF Here \in Blank THEN input' = Tail(input) /\ UNCHANGED <<more, ec>>
       ELSE IF "extra_character" \in Lenient
       THEN input' = Tail(input) /\ more' = TRUE /\ UNCHANGED ec
       ELSE UNCHANGED input /\ Abort("extra_character")
    /\ UNCHANGED <<nest, token, done, marks, position, modes, phase, calls, supply>>

\* update: the caller supplies a chunk when the last one is used up.  It knows
\* when there is no more input with the last chunk, or after it (chunk <<>>).
Update(chunk, last) ==
    /\ phase = "idle" /\ input = <<>> /\ ~ended
    /\ chunk # <<>> \/ last
    /\ Len(text) + Len(chunk) <= Callers[caller].maxText
    /\ input' = chunk
    /\ text' = text \o chunk
    /\ ended' = last
    /\ UNCHANGED <<nest, token, more, done, marks, position, modes, ec, phase, calls, caller>>

\* Mutant: the level of the text that is given up is kept.
FreshNestDeep == state' = "start" /\ stateStack' = <<"root">> /\ UNCHANGED level

\* The part of reset that says where in a text the parser is.
FreshNest == state' = "start" /\ stateStack' = <<"root">> /\ level' = 0

\* reset: a new text is begun, with what is left of the chunk.
Reset ==
    /\ phase = "idle"
    /\ FreshNest
    /\ more' = TRUE /\ done' = FALSE /\ ec' = "none"
    /\ line' = 1 /\ position' = 0 /\ markPosition' = 0
    /\ calls' = <<>> /\ text' = input
    /\ UNCHANGED <<input, token, modes, phase, ended, caller>>

\* restart: a cursor asks for the next call.
Restart ==
    /\ Calling /\ ~done /\ more' = TRUE
    /\ UNCHANGED <<input, nest, token, done, marks, position, modes, ec, phase, calls, supply>>

SetCursorMode(on) ==
    /\ phase = "idle" /\ cursorMode' = on
    /\ UNCHANGED <<input, nest, token, more, done, marks, position, markLevel, ec, phase, calls, supply>>

SetMarkLevel(lvl) ==
    /\ phase = "idle" /\ markLevel' = lvl
    /\ UNCHANGED <<input, nest, token, more, done, marks, position, cursorMode, ec, phase, calls, supply>>

------------------------------------------------------------------------------
Init ==
    /\ input = <<>> /\ state = "start" /\ stateStack = <<"root">> /\ level = 0
    /\ numberState = "minus" /\ stringState = "text" /\ buffer = <<>> /\ cp = 0 /\ cp2 = 0
    /\ more = TRUE /\ done = FALSE /\ line = 1 /\ position = 0 /\ markPosition = 0
    /\ cursorMode = FALSE /\ markLevel = 0
    /\ ec = "none" /\ phase = "idle"
    /\ calls = <<>> /\ text = <<>> /\ ended = FALSE /\ caller \in DOMAIN Callers

\* One iteration of the loop in parse_some_.
Iterate ==
    \/ ControlCharacter \/ BeginObject \/ EndObject \/ BeginArray \/ EndArray
    \/ NextMember \/ TakeColon \/ Unexpected \/ UnexpectedAtStart
    \/ BeginComment \/ CommentKind \/ LineComment \/ BlockComment \/ BlockCommentStar
    \/ ParseTrue \/ ParseFalse \/ ParseNull \/ ContinueLiteral
    \/ BeginNumber \/ NumberByte \/ NumberError \/ EndNumber
    \/ BeginString \/ TextByte \/ IllegalTextByte \/ BeginEscape \/ SimpleEscape
    \/ UnicodeEscape \/ SurrogateBackslash \/ SurrogateU \/ EscapeError \/ HexByte \/ EndString
    \/ AcceptInLoop

\* The steps of a member function that is running, and the calls that finish at once.
Work == \/ Iterate \/ SkipSpace \/ ResumeCr \/ CheckByte \/ Return
        \/ ParseAccepted \/ EndOfNumber \/ EndOfCr \/ UnexpectedEnd

\* Any caller that supplies a chunk only when the last one is used up, calls
\* parse_some without input only at the end of it and never once the text is
\* done, skips blanks and checks for the end only between texts, and after an
\* error only resets.
Next == \/ Work
        \/ ParseSome \/ SkipWhitespace \/ CheckDone
        \/ \E chunk \in Callers[caller].chunks \cup {<<>>}, last \in BOOLEAN : Update(chunk, last)
        \/ Reset \/ Restart
        \/ \E on \in Callers[caller].cursorModes : SetCursorMode(on)
        \/ \E lvl \in Callers[caller].markLevels : SetMarkLevel(lvl)

Spec == Init /\ [][Next]_vars
==============================================================================
