--------------------------- MODULE JmespathCompiler ---------------------------
(***************************************************************************)
(* jmespath_evaluator::compile of jmespath.hpp: a machine with a stack of  *)
(* states that reads the text of an expression and gives tokens to         *)
(* push_token, one action per state.                                       *)
(*                                                                         *)
(* A text is a sequence of lexemes <<kind, content>>.  An identifier, a    *)
(* quoted or raw string, a number or a JSON literal is one lexeme, every   *)
(* other character is its own kind, and between two words there is a       *)
(* space.  The lexemes come one by one, the machine has to know one ahead. *)
(***************************************************************************)
EXTENDS JmespathTokens

\* The functions that are modelled, with the number of their arguments or -1.
Arities ==
    [f \in {"keys", "length", "map", "max", "max_by", "min", "min_by", "not_null", "sort", "sort_by", "sum",
            "to_array", "type", "values"} |->
        IF f = "not_null" THEN -1 ELSE IF f \in {"map", "max_by", "min_by", "sort_by"} THEN 2 ELSE 1]

VARIABLES
    text,       \* the lexemes so far
    ended,      \* whether there are no more of them
    p,          \* the one that comes next, p_
    states,     \* state_stack
    tokens,     \* output_stack, operator_stack_ and the error
    buffer,     \* the name or number that has been read, or none
    slic,       \* start, stop and step of a slice
    compiled    \* whether compile has returned

compileVars == <<text, ended, p, states, tokens, buffer, slic, compiled>>

NoSlice == [start |-> <<>>, stop |-> <<>>, step |-> <<1>>]

CompileInit ==
    /\ text = <<>> /\ ended = FALSE /\ p = 1
    /\ states = <<"start">> /\ tokens = OnStack(<<>>, <<>>)
    /\ buffer = <<>> /\ slic = NoSlice /\ compiled = FALSE

\* The lexemes come when the machine needs them: one, and in two states a second one.
LooksAhead == {"identifier_or_function_expr", "bracket_specifier_or_multi_select_list"}
Wanted == ~ended /\ ~compiled /\ (p > Len(text) \/ (p = Len(text) /\ Last(states) \in LooksAhead))

TypePiece(piece) ==
    /\ Wanted
    /\ text' = text \o piece
    /\ UNCHANGED <<ended, p, states, tokens, buffer, slic, compiled>>

EndText ==
    /\ Wanted
    /\ ended' = TRUE
    /\ UNCHANGED <<text, p, states, tokens, buffer, slic, compiled>>

------------------------------------------------------------------------------
\* The machine is in this state, with what it needs to read.
At(state) ==
    /\ ~compiled /\ p <= Len(text) /\ ~Wanted
    /\ states # <<>> /\ Last(states) = state

Kind(i) == IF i <= Len(text) THEN text[i][1] ELSE "end"
Here == Kind(p)
Next1 == Kind(p + 1)
Content == text[p][2]

\* n lexemes are read and the state on top is replaced by others.
Read(n) == p' = p + n
Becoming(top) == states' = Front(states) \o top
Kept == UNCHANGED <<text, ended>>

Go(n, top) == Read(n) /\ Becoming(top) /\ Kept /\ UNCHANGED <<tokens, buffer, slic, compiled>>
Buffering(n, top, name) ==
    Read(n) /\ Becoming(top) /\ buffer' = name /\ Kept /\ UNCHANGED <<tokens, slic, compiled>>

\* Some tokens are pushed as well; an error ends the compilation.
PushedNext(s, t) == IF s.ec = Nothing THEN Pushed(s, t, Arities) ELSE s
PushedAll(s, toks) == FoldLeft(PushedNext, s, toks)
AfterPushes(toks) == PushedAll(tokens, toks)
Emit(n, top, toks) ==
    /\ Read(n) /\ Becoming(top) /\ Kept
    /\ tokens' = AfterPushes(toks)
    /\ compiled' = (tokens'.ec # Nothing)
    /\ UNCHANGED <<buffer, slic>>
EmitNamed(n, top, toks) ==
    /\ Read(n) /\ Becoming(top) /\ Kept
    /\ tokens' = AfterPushes(toks)
    /\ compiled' = (tokens'.ec # Nothing)
    /\ buffer' = <<>>
    /\ UNCHANGED slic
Fail(error) ==
    /\ tokens' = Failed(tokens, error) /\ compiled' = TRUE
    /\ Kept /\ UNCHANGED <<p, states, buffer, slic>>

Both == <<"rhs_expression", "lhs_expression">>
Separators == {"]", "?", ":", "number"}

------------------------------------------------------------------------------
StartState == At("start") /\ Go(0, Both)

RhsExpression ==
    /\ At("rhs_expression")
    /\ \/ Here = "." /\ Go(1, <<"rhs_expression", "sub_expression">>)
       \/ Here = "|" /\ Go(1, <<"rhs_expression", "lhs_expression", "expect_pipe_or_or">>)
       \/ Here = "&" /\ Go(1, <<"rhs_expression", "lhs_expression", "expect_and">>)
       \/ Here \in {"<", ">", "="} /\ Go(0, <<"rhs_expression", "lhs_expression", "comparator_expression">>)
       \/ Here = "!" /\ Go(1, <<"rhs_expression", "lhs_expression", "cmp_ne">>)
       \/ Here = "[" /\ Go(1, <<"rhs_expression", "bracket_specifier">>)
       \/ Here = ")" /\ IF Len(states) > 1 THEN Go(0, <<>>) ELSE Fail("undefined")    \* reads an empty stack
       \/ Here \notin {".", "|", "&", "<", ">", "=", "!", "[", ")"}
          /\ IF Len(states) > 1 THEN Go(0, <<>>) ELSE Fail("syntax_error")

ComparatorExpression ==
    /\ At("comparator_expression")
    /\ \/ Here = "<" /\ Go(1, <<"cmp_lt_or_lte">>)
       \/ Here = ">" /\ Go(1, <<"cmp_gt_or_gte">>)
       \/ Here = "=" /\ Go(1, <<"cmp_eq">>)

SubstituteVariable ==
    /\ At("substitute_variable")
    /\ EmitNamed(0, <<>>, <<<<"variable_binding", buffer[1]>>>>)

LhsExpression ==
    /\ At("lhs_expression")
    /\ \/ Here = "quoted" /\ Buffering(1, <<"val_expr">>, <<Content>>)
       \/ Here = "raw" /\ EmitNamed(1, <<>>, <<<<"literal", <<"string", Content>>>>>>)
       \/ Here = "literal" /\ EmitNamed(1, <<>>, <<<<"literal", Content>>>>)
       \/ Here = "not_json" /\ Fail("invalid_literal")
       \/ Here = "{" /\ Emit(1, <<"multi_select_hash">>, <<Plain("begin_multi_select_hash")>>)
       \/ Here = "*" /\ Emit(1, <<>>, <<Expression("object_projection", Nothing)>>)
       \/ Here = "(" /\ Emit(1, <<"expect_rparen">> \o Both, <<Plain("lparen")>>)
       \/ Here = "!" /\ Emit(1, <<"lhs_expression">>, <<<<"operation", <<"not", Nothing, <<>>>>>>>>)
       \/ Here = "@" /\ Emit(1, <<>>, <<Expression("current_node", Nothing)>>)
       \/ Here = "[" /\ Go(1, <<"bracket_specifier_or_multi_select_list">>)
       \/ Here = "variable" /\ Buffering(1, <<"substitute_variable">>, <<Content>>)
       \/ Here = "id" /\ Buffering(1, <<"identifier_or_function_expr">>, <<Content>>)
       \/ Here \notin {"quoted", "raw", "literal", "not_json", "{", "*", "(", "!", "@", "[", "variable", "id"}
          /\ Fail("expected_identifier")

SubExpression ==
    /\ At("sub_expression")
    /\ \/ Here = "quoted" /\ Buffering(1, <<"val_expr">>, <<Content>>)
       \/ Here = "{" /\ Emit(1, <<"multi_select_hash">>, <<Plain("begin_multi_select_hash")>>)
       \/ Here = "*" /\ Emit(1, <<>>, <<Expression("object_projection", Nothing)>>)
       \/ Here = "[" /\ Go(1, <<"expect_multi_select_list">>)
       \/ Here = "id" /\ Buffering(1, <<"identifier_or_function_expr">>, <<Content>>)
       \/ Here \notin {"quoted", "{", "*", "[", "id"} /\ Fail("expected_identifier")

KeyExpr == At("key_expr") /\ EmitNamed(0, <<>>, <<<<"key", buffer[1]>>>>)
ValExpr == At("val_expr") /\ EmitNamed(0, <<>>, <<Expression("identifier", buffer[1])>>)

ExpressionOrExpressionType ==
    /\ At("expression_or_expression_type")
    /\ IF Here = "&" THEN Emit(1, <<"argument", "expression_type">> \o Both, <<Plain("begin_expression_type")>>)
       ELSE Go(0, <<"argument">> \o Both)

ExpectInOrComma ==
    /\ At("expect_in_or_comma")
    /\ \/ Here = "," /\ Emit(1, <<"variable_binding">>, <<Plain("variable_expression")>>)
       \/ Here = "id" /\ Content = "in" /\ Emit(1, <<>>, <<Plain("variable_expression")>>)
       \/ ~(Here = "," \/ (Here = "id" /\ Content = "in")) /\ Fail("syntax_error")

ExpectAssign ==
    /\ At("expect_assign")
    /\ IF Here = "=" THEN EmitNamed(1, <<"expect_in_or_comma">> \o Both, <<<<"variable", buffer[1]>>>>)
       ELSE Fail("syntax_error")

VariableBinding ==
    /\ At("variable_binding")
    /\ IF Here = "variable" THEN Buffering(1, <<"expect_assign">>, <<Content>>) ELSE Fail("syntax_error")

\* A name is a function before a parenthesis, whose arguments are only looked for when
\* there are any; let begins bindings; every other name is a member.
IdentifierOrFunctionExpr ==
    /\ At("identifier_or_function_expr")
    /\ \/ Here = "(" /\ buffer[1] \notin DOMAIN Arities /\ Fail("unknown_function")
       \/ Here = "(" /\ buffer[1] \in DOMAIN Arities /\ Next1 \in {")", "end"}
          /\ EmitNamed(1, <<"function_expression">>, <<<<"function", buffer[1]>>>>)
       \/ Here = "(" /\ buffer[1] \in DOMAIN Arities /\ Next1 \notin {")", "end"}
          /\ EmitNamed(1, <<"function_expression", "expression_or_expression_type">>,
                       <<<<"function", buffer[1]>>, Plain("lparen")>>)
       \/ Here = "variable" /\ IF buffer[1] = "let" THEN Buffering(0, <<"lhs_expression", "variable_binding">>, <<>>)
                               ELSE Fail("syntax_error")
       \/ Here \notin {"(", "variable"} /\ EmitNamed(0, <<>>, <<Expression("identifier", buffer[1])>>)

FunctionExpression ==
    /\ At("function_expression")
    /\ \/ Here = "," /\ Emit(1, <<"function_expression", "expression_or_expression_type">>, <<Plain("lparen")>>)
       \/ Here = ")" /\ Emit(1, <<>>, <<Plain("end_function")>>)
       \/ Here \notin {",", ")"} /\ Fail("for_ever")     \* the state stays as it is

Argument == At("argument") /\ Emit(0, <<>>, <<Plain("argument")>>)
ExpressionType == At("expression_type") /\ Emit(0, <<>>, <<Plain("end_expression_type")>>)

------------------------------------------------------------------------------
Number ==
    /\ At("number")
    /\ IF Here = "number" THEN Buffering(1, <<>>, <<Content>>) ELSE Go(0, <<>>)

BracketSpecifier ==
    /\ At("bracket_specifier")
    /\ \/ Here = "*" /\ Emit(1, <<"expect_rbracket">>, <<Expression("list_projection", Nothing)>>)
       \/ Here = "]" /\ Emit(1, <<>>, <<Expression("flatten", Nothing)>>)
       \/ Here = "?" /\ Emit(1, <<"filter">> \o Both, <<Plain("begin_filter")>>)
       \/ Here = ":" /\ Go(1, <<"rhs_slice_expression_stop", "number">>)
       \/ Here = "number" /\ Go(0, <<"index_or_slice_expression", "number">>)
       \/ Here \notin {"*", "]", "?", ":", "number"} /\ Fail("expected_index_expression")

BracketSpecifierOrMultiSelectList ==
    /\ At("bracket_specifier_or_multi_select_list")
    /\ \/ Here = "*" /\ Next1 = "end" /\ Fail("unexpected_end_of_input")
       \/ ((Here = "*" /\ Next1 = "]") \/ Here \in Separators) /\ Go(0, <<"bracket_specifier">>)
       \/ ((Here = "*" /\ Next1 \notin {"]", "end"}) \/ Here \notin Separators \cup {"*"})
          /\ Emit(0, <<"multi_select_list">> \o Both, <<Plain("begin_multi_select_list")>>)

ExpectMultiSelectList ==
    /\ At("expect_multi_select_list")
    /\ \/ Here \in Separators /\ Fail("expected_multi_select_list")
       \/ Here = "*" /\ Emit(1, <<"expect_rbracket">>, <<Expression("list_projection", Nothing)>>)
       \/ Here \notin Separators \cup {"*"}
          /\ Emit(0, <<"multi_select_list">> \o Both, <<Plain("begin_multi_select_list")>>)

MultiSelectHashStart ==
    /\ At("multi_select_hash")
    /\ IF Here \in Separators \cup {"*"} THEN Fail("for_ever")     \* the state stays as it is
       ELSE Go(0, <<"expect_rbrace", "key_val_expr">>)

IndexOrSliceExpression ==
    /\ At("index_or_slice_expression")
    /\ \/ Here = "]" /\ EmitNamed(1, <<>>, <<Expression("index", buffer[1])>>)
       \/ /\ Here = ":" /\ Read(1) /\ Becoming(<<"rhs_slice_expression_stop", "number">>)
          /\ slic' = [slic EXCEPT !.start = buffer] /\ buffer' = <<>>
          /\ Kept /\ UNCHANGED <<tokens, compiled>>
       \/ Here \notin {"]", ":"} /\ Fail("expected_rbracket")

\* A slice ends: its projection is pushed and the next one starts afresh.
EmitSlice(s) ==
    /\ Read(1) /\ Becoming(<<>>) /\ Kept
    /\ tokens' = AfterPushes(<<Expression("slice", s)>>)
    /\ slic' = NoSlice /\ buffer' = <<>>
    /\ UNCHANGED compiled

RhsSliceExpressionStop ==
    /\ At("rhs_slice_expression_stop")
    /\ LET s == IF buffer = <<>> THEN slic ELSE [slic EXCEPT !.stop = buffer]
       IN  \/ Here = "]" /\ EmitSlice(s)
           \/ /\ Here = ":" /\ Read(1) /\ Becoming(<<"rhs_slice_expression_step", "number">>)
              /\ slic' = s /\ buffer' = <<>>
              /\ Kept /\ UNCHANGED <<tokens, compiled>>
           \/ Here \notin {"]", ":"} /\ Fail("expected_rbracket")

RhsSliceExpressionStep ==
    /\ At("rhs_slice_expression_step")
    /\ \/ buffer = <<0>> /\ Fail("step_cannot_be_zero")
       \/ buffer # <<0>> /\ Here = "]" /\ EmitSlice(IF buffer = <<>> THEN slic ELSE [slic EXCEPT !.step = buffer])
       \/ buffer # <<0>> /\ Here # "]" /\ Fail("expected_rbracket")

ExpectRbracket == At("expect_rbracket") /\ IF Here = "]" THEN Go(1, <<>>) ELSE Fail("expected_rbracket")
ExpectRparen ==
    /\ At("expect_rparen")
    /\ IF Here = ")" THEN Emit(1, <<>>, <<Plain("rparen")>>) ELSE Fail("expected_rparen")

KeyValExpr ==
    /\ At("key_val_expr")
    /\ \/ Here \in {"quoted", "id"} /\ Buffering(1, <<"expect_colon", "key_expr">>, <<Content>>)
       \/ Here = "raw" /\ EmitNamed(1, <<"expect_colon">>, <<<<"literal", <<"string", Content>>>>>>)
       \/ Here \notin {"quoted", "id", "raw"} /\ Fail("expected_key")

\* An operator of one character, or of two with "=".
Compare(state, single, double) ==
    /\ At(state)
    /\ IF Here = "=" THEN Emit(1, <<>>, <<<<"operation", <<double, Nothing, <<>>>>>>>>)
       ELSE IF single = Nothing THEN Fail("expected_comparator")
       ELSE Emit(0, <<>>, <<<<"operation", <<single, Nothing, <<>>>>>>>>)
CmpLtOrLte == Compare("cmp_lt_or_lte", "lt", "lte")
CmpGtOrGte == Compare("cmp_gt_or_gte", "gt", "gte")
CmpEq == Compare("cmp_eq", Nothing, "eq")
CmpNe == Compare("cmp_ne", Nothing, "ne")

ExpectPipeOrOr ==
    /\ At("expect_pipe_or_or")
    /\ IF Here = "|" THEN Emit(1, <<>>, <<<<"operation", <<"or", Nothing, <<>>>>>>>>)
       ELSE Emit(0, <<>>, <<Plain("pipe")>>)
ExpectAnd ==
    /\ At("expect_and")
    /\ IF Here = "&" THEN Emit(1, <<>>, <<<<"operation", <<"and", Nothing, <<>>>>>>>>) ELSE Fail("expected_and")

\* What rhs_expression leaves: "[", "." and "|" are never among it.
MultiSelectListState ==
    /\ At("multi_select_list")
    /\ \/ Here = "," /\ Emit(1, <<"multi_select_list">> \o Both, <<Plain("separator")>>)
       \/ Here = "]" /\ Emit(1, <<>>, <<Plain("end_multi_select_list")>>)
       \/ Here \notin {",", "]"} /\ Fail("expected_rbracket")

Filter ==
    /\ At("filter")
    /\ IF Here = "]" THEN Emit(1, <<>>, <<Plain("end_filter")>>) ELSE Fail("expected_rbracket")

ExpectRbrace ==
    /\ At("expect_rbrace")
    /\ \/ Here = "," /\ Emit(1, <<"expect_rbrace", "key_val_expr">>, <<Plain("separator")>>)
       \/ Here = "}" /\ Emit(1, <<>>, <<Plain("end_multi_select_hash")>>)
       \/ Here \notin {",", "}"} /\ Fail("expected_rbrace")

ExpectColon == At("expect_colon") /\ IF Here = ":" THEN Go(1, Both) ELSE Fail("expected_colon")

------------------------------------------------------------------------------
\* The end of the text: what may be missing is completed, the operators get their
\* right operands, and the whole is evaluated from the root unless a literal comes
\* first; in any other state the text is refused.
Completion(state) ==
    CASE state \in {"val_expr", "identifier_or_function_expr"} -> <<Expression("identifier", buffer[1])>>
      [] state = "substitute_variable" -> <<<<"variable_binding", buffer[1]>>>>
      [] OTHER -> <<>>

Finish ==
    /\ ~compiled /\ ended /\ p > Len(text)
    /\ LET last == states[Len(states)]
           below == IF Completion(last) = <<>> THEN states ELSE Front(states)
           s == AfterPushes(Append(Completion(last), Plain("end_of_expression")))
       IN  tokens' = IF last = "start" \/ \E i \in DOMAIN below : below[i] # "rhs_expression"
                     THEN Failed(tokens, "syntax_error")
                     ELSE IF s.ec = Nothing THEN [s EXCEPT !.out = Rooted(s.out)] ELSE s
    /\ compiled' = TRUE
    /\ UNCHANGED <<text, ended, p, states, buffer, slic>>

Step ==
    \/ StartState \/ RhsExpression \/ ComparatorExpression \/ SubstituteVariable \/ LhsExpression \/ SubExpression
    \/ KeyExpr \/ ValExpr \/ ExpressionOrExpressionType \/ ExpectInOrComma \/ ExpectAssign \/ VariableBinding
    \/ IdentifierOrFunctionExpr \/ FunctionExpression \/ Argument \/ ExpressionType
    \/ Number \/ BracketSpecifier \/ BracketSpecifierOrMultiSelectList \/ ExpectMultiSelectList
    \/ MultiSelectHashStart \/ IndexOrSliceExpression \/ RhsSliceExpressionStop \/ RhsSliceExpressionStep
    \/ ExpectRbracket \/ ExpectRparen \/ KeyValExpr \/ CmpLtOrLte \/ CmpGtOrGte \/ CmpEq \/ CmpNe
    \/ ExpectPipeOrOr \/ ExpectAnd \/ MultiSelectListState \/ Filter \/ ExpectRbrace \/ ExpectColon
    \/ Finish

------------------------------------------------------------------------------
\* The operators that wait are kept apart by one left parenthesis for each bracket,
\* argument and binding that the machine is in (push_token, state_stack).
LevelStates == {"expect_rparen", "filter", "multi_select_list", "multi_select_hash", "expect_rbrace", "expression_type",
                "function_expression", "expression_or_expression_type", "argument", "expect_in_or_comma"}
LevelsMatch ==
    ~compiled => Cardinality({i \in DOMAIN tokens.ops : tokens.ops[i][1] = "lparen"})
                 = Cardinality({i \in DOMAIN states : states[i] \in LevelStates})

\* A closing token finds the opening one, and the left parenthesis that came with it,
\* however the operators in between were moved: push_token never misses one.
OpeningsFound == tokens.ec \notin {"unbalanced_parentheses", "unbalanced_braces"}
==============================================================================
