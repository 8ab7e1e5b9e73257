---------------------------- MODULE JmespathTokens ----------------------------
(***************************************************************************)
(* The tokens and expressions of a compiled JMESPath expression, and what  *)
(* push_token of jmespath.hpp makes of a stack of tokens when another one  *)
(* comes: an operator takes its left operand, a projection takes what is   *)
(* applied to its elements, a bracket takes what is between it and its     *)
(* match.                                                                  *)
(*                                                                         *)
(* An expression is <<kind, argument, expressions>>, a token is            *)
(* <<kind, argument>>: an expression, a value, a name or nothing.          *)
(***************************************************************************)
EXTENDS Integers, SequencesExt

Nothing == ""

Comparators == {"eq", "ne", "lt", "lte", "gt", "gte"}
Operators == Comparators \cup {"or", "and", "not"}
Projections == {"object_projection", "list_projection", "slice", "filter", "flatten"}

\* The levels of the operators and of the tokens: the lower one binds tighter.
\* Mutant: "and" binds no tighter than "or".
ExpressionLevelOfOr(e) ==
    CASE e[1] \in {"or", "and"} -> 9 [] e[1] \in {"eq", "ne"} -> 6
      [] e[1] \in {"lt", "lte", "gt", "gte"} -> 5 [] e[1] \in Projections -> 3 [] OTHER -> 1
ExpressionLevel(e) ==
    CASE e[1] = "or" -> 9 [] e[1] = "and" -> 8 [] e[1] \in {"eq", "ne"} -> 6
      [] e[1] \in {"lt", "lte", "gt", "gte"} -> 5 [] e[1] \in Projections -> 3 [] OTHER -> 1
\* Mutant: a negation does not wait for another one.
OnlyProjections(e) == e[1] \in Projections \ {"flatten"}
RightAssociative(e) == e[1] \in ({"not"} \cup Projections) \ {"flatten"}

\* Mutant: the beginning of a filter binds as tight as a name.
BarriersButFilter == {"begin_multi_select_list", "begin_multi_select_hash", "begin_expression_type", "variable", "key",
                      "function", "argument", "separator", "current_node"}
Barriers == {"begin_filter", "begin_multi_select_list", "begin_multi_select_hash", "begin_expression_type",
             "variable", "key", "function", "argument", "separator", "current_node"}
Level(t) ==
    CASE t[1] \in {"expression", "operation"} -> ExpressionLevel(t[2])
      [] t[1] \in Barriers -> 15 [] t[1] = "pipe" -> 13 [] OTHER -> 0
IsOperator(t) == t[1] = "operation"
IsProjection(t) == t[1] = "expression" /\ t[2][1] \in Projections
IsRightAssociative(t) == t[1] \in {"expression", "operation"} /\ RightAssociative(t[2])

Plain(kind) == <<kind, Nothing>>
Expression(kind, arg) == <<"expression", <<kind, arg, <<>>>>>>
Operation(kind) == <<"operation", <<kind, Nothing, <<>>>>>>

\* Tokens that are evaluated from the current node, unless a literal comes first.
Rooted(toks) == IF toks[1][1] = "literal" THEN toks ELSE <<Plain("current_node")>> \o toks
Function(toks) == <<"function", toks, <<>>>>

\* Whether a token of this level goes to the expression in front of it.
Takes(front, level, right) == level < ExpressionLevel(front) \/ (level = ExpressionLevel(front) /\ right)

\* A projection passes x on to the projection it applies last, if x goes to that one.
PassesOn(e, x) ==
    /\ e[1] \in Projections /\ e[3] # <<>> /\ Last(e[3])[1] \in Projections
    /\ Takes(Last(e[3]), ExpressionLevel(x), RightAssociative(x))
Added(e, x) ==
    LET inner[n \in Nat] == IF n = 0 THEN e ELSE Last(inner[n - 1][3])
        added[n \in Nat] ==
            CASE PassesOn(inner[n], x) -> <<inner[n][1], inner[n][2], Append(Front(inner[n][3]), added[n + 1])>>
              [] inner[n][1] \notin Projections \cup Operators -> inner[n]
              [] OTHER -> <<inner[n][1], inner[n][2], Append(inner[n][3], x)>>
    IN  added[0]

------------------------------------------------------------------------------
\* What push_token works on: the output, the operators that wait for their right
\* operand between left parentheses, and the error.
OnStack(out, ops) == [out |-> out, ops |-> ops, ec |-> Nothing]
Failed(s, error) == [s EXCEPT !.ec = error]
Out(s, t) == [s EXCEPT !.out = Append(s.out, t)]

Behind(out, k) == SubSeq(out, k + 1, Len(out))
Ahead(out, k) == SubSeq(out, 1, k)
LastOfKind(out, kind) == SelectLastInSeq(out, LAMBDA t : t[1] = kind)

\* How far the output reaches before the tokens that bind tighter than an operator, or
\* as tight.
BeforeOperand(out, level, equal) ==
    SelectLastInSeq(out, LAMBDA t : ~(IsOperator(t) \/ level > Level(t) \/ (level = Level(t) /\ equal)))

WithOperand(op, toks) == <<"operation", Added(op[2], Function(Rooted(toks)))>>

\* The last operator that waits gets its right operand (unwind_roperator).
RightOperand(s, op, k) ==
    IF k = Len(s.out) THEN Failed(s, "assertion")
    ELSE OnStack(Append(Ahead(s.out, k), WithOperand(op, Behind(s.out, k))), Front(s.ops))
UnwoundOperator(s, op) == RightOperand(s, op, BeforeOperand(s.out, Level(op), IsRightAssociative(op)))
Unwound(s) == UnwoundOperator(s, Last(s.ops))

\* So do those that wait on top of the stack and bind tighter than this level, or as tight.
BindsBefore(o, level, equal) == IsOperator(o) /\ (level > Level(o) \/ (level = Level(o) /\ equal))
UnwoundOnce(u, level, equal) ==
    IF u.ec = Nothing /\ u.ops # <<>> /\ BindsBefore(Last(u.ops), level, equal) THEN Unwound(u) ELSE u
UnwoundTo(s, level, equal) ==
    LET round[n \in 0..Len(s.ops)] == IF n = 0 THEN s ELSE UnwoundOnce(round[n - 1], level, equal)
    IN  round[Len(s.ops)]

\* All operators down to the left parenthesis, which ends a projection (unwind_rparen):
\* no operator is of the level of a barrier.
UnwoundToParen(s) ==
    LET u == UnwoundTo(s, 15, FALSE)
        t == [u EXCEPT !.ops = Front(u.ops)]
    IN  CASE u.ec # Nothing -> u
          [] u.ec = Nothing /\ u.ops = <<>> -> Failed(u, "unbalanced_parentheses")
          [] OTHER -> IF u.out # <<>> /\ IsProjection(Last(u.out)) THEN Out(t, Plain("pipe")) ELSE t

\* A bracket, a function or a variable, which opens a level of operators.
\* Mutant: it does not.
OpeningFlat(s, t) == Out(s, t)
Opening(s, t) == [Out(s, t) EXCEPT !.ops = Append(s.ops, Plain("lparen"))]

\* An expression goes to the projection before it, if there is one.
Placed(s, e, level, right) ==
    LET last == Last(s.out)
    IN  IF s.out # <<>> /\ IsProjection(last) /\ Takes(last[2], level, right)
        THEN [s EXCEPT !.out = Append(Front(s.out), <<"expression", Added(last[2], e)>>)]
        ELSE Out(s, <<"expression", e>>)

\* The parts of the tokens between tokens of a kind.
PartsOf(toks, kind) ==
    FoldLeft(LAMBDA parts, t : IF t[1] = kind THEN Append(parts, <<>>)
                               ELSE Append(Front(parts), Append(Last(parts), t)), <<<<>>>>, toks)
RootedParts(parts) == [i \in DOMAIN parts |-> Rooted(parts[i])]

\* Mutant: all members have the name of the first.
MembersOfOneName(toks) ==
    FoldLeft(LAMBDA ms, t : IF t[1] = "key" THEN Append(ms, <<IF ms = <<>> THEN t[2] ELSE ms[1][1], <<>>>>)
                            ELSE Append(Front(ms), <<Last(ms)[1], Append(Last(ms)[2], t)>>), <<>>, toks)

\* The members begin at the keys, and end before a separator; what is before the first
\* key has none, and the search for one leaves the stack.
Members(toks) ==
    FoldLeft(LAMBDA ms, t : IF t[1] = "key" THEN Append(ms, <<t[2], <<>>>>)
                            ELSE Append(Front(ms), <<Last(ms)[1], Append(Last(ms)[2], t)>>), <<>>, toks)
WithoutSeparator(toks) == IF Last(toks)[1] = "separator" THEN Front(toks) ELSE toks
RootedMembers(ms) == [i \in DOMAIN ms |-> <<ms[i][1], Rooted(WithoutSeparator(ms[i][2]))>>]

Made(opening, toks) ==
    CASE opening = "begin_filter" -> <<"filter", Rooted(toks), <<>>>>
      [] opening = "begin_multi_select_list" -> <<"multi_select_list", RootedParts(PartsOf(toks, "separator")), <<>>>>
      [] opening = "begin_multi_select_hash" -> <<"multi_select_hash", RootedMembers(Members(toks)), <<>>>>

\* A closing token makes an expression of the tokens since the opening one of its kind.
Closed(s, opening, k) ==
    CASE k = 0 -> Failed(s, "unbalanced_braces")
      [] k # 0 /\ (k = Len(s.out) \/ (opening = "begin_multi_select_hash" /\ s.out[k + 1][1] # "key")) ->
           Failed(s, "undefined")
      [] OTHER -> Placed([s EXCEPT !.out = Ahead(s.out, k - 1)], Made(opening, Behind(s.out, k)), 0, FALSE)

\* The arguments of the last function, each from the current node, and the function.
Arguments(parts) ==
    FlattenSeq([i \in 1..(Len(parts) - 1) |-> Append(Rooted(parts[i]), Plain("argument"))])
FunctionOf(s, k, parts, arity) ==
    CASE arity[s.out[k][2]] \notin {-1, Len(parts) - 1} -> Failed(s, "invalid_arity")
      [] arity[s.out[k][2]] \in {-1, Len(parts) - 1} /\ Len(parts) = 1 ->
           Out([s EXCEPT !.out = Ahead(s.out, k - 1)], <<"expression", Function(Append(parts[1], s.out[k]))>>)
      [] OTHER -> Placed([s EXCEPT !.out = Ahead(s.out, k - 1)], Function(Append(Arguments(parts), s.out[k])), 0, FALSE)
EndOfFunction(s, k, arity) ==
    IF k = 0 THEN Failed(s, "unbalanced_parentheses")
    ELSE FunctionOf(s, k, PartsOf(Behind(s.out, k), "argument"), arity)

\* An operator gets its left operand, when the operators before it that bind as tight
\* have got their right ones.
LeftOperand(s, op, k) ==
    IF k = Len(s.out) THEN [s EXCEPT !.ops = Append(s.ops, op)]
    ELSE OnStack(Ahead(s.out, k), Append(s.ops, WithOperand(op, Behind(s.out, k))))
WithOperator(s, op) ==
    LET u == UnwoundTo(s, Level(op), ~IsRightAssociative(op))
    IN  IF u.ec # Nothing THEN u ELSE LeftOperand(u, op, BeforeOperand(u.out, Level(op), ~IsRightAssociative(op)))

\* All operators get their right operands at the end.
Drained(u) ==
    CASE u.ec # Nothing -> u
      [] u.ec = Nothing /\ IsOperator(Last(u.ops)) -> Unwound(u)
      [] u.ec = Nothing /\ ~IsOperator(Last(u.ops)) -> [Out(u, Last(u.ops)) EXCEPT !.ops = Front(u.ops)]
UnwoundAll(s) ==
    LET round[n \in 0..Len(s.ops)] == IF n = 0 THEN s ELSE Drained(round[n - 1])
    IN  round[Len(s.ops)]

\* The tokens at which the operators of a level get their right operands, and what then
\* becomes of the output.
Ending == {"end_filter", "end_multi_select_list", "end_multi_select_hash", "end_expression_type",
           "variable_expression", "rparen", "end_function", "separator", "argument"}
OpeningOf(kind) ==
    CASE kind = "end_filter" -> "begin_filter" [] kind = "end_multi_select_list" -> "begin_multi_select_list"
      [] kind = "end_multi_select_hash" -> "begin_multi_select_hash"
      [] kind = "end_expression_type" -> "begin_expression_type" [] kind = "variable_expression" -> "variable"
      [] kind = "end_function" -> "function" [] OTHER -> Nothing

EndOfExpressionType(s, k) ==
    Out([s EXCEPT !.out = Ahead(s.out, k)], <<"expression", Function(Rooted(Behind(s.out, k)))>>)
VariableExpression(s, k) ==
    Out([s EXCEPT !.out = Ahead(s.out, k - 1)], Expression("variable", <<s.out[k][2], Rooted(Behind(s.out, k))>>))

Ended(s, t, k, arity) ==
    CASE s.ec # Nothing \/ t[1] = "rparen" -> s
      [] s.ec = Nothing /\ t[1] \in {"end_filter", "end_multi_select_list", "end_multi_select_hash"} ->
           Closed(s, OpeningOf(t[1]), k)
      [] s.ec = Nothing /\ t[1] = "end_expression_type" -> EndOfExpressionType(s, k)
      [] s.ec = Nothing /\ t[1] = "variable_expression" -> VariableExpression(s, k)
      [] s.ec = Nothing /\ t[1] = "end_function" -> EndOfFunction(s, k, arity)
      [] s.ec = Nothing /\ t[1] = "separator" -> Opening(s, t)
      [] s.ec = Nothing /\ t[1] = "argument" -> Out(s, t)
AfterEnding(s, t, arity) == Ended(s, t, LastOfKind(s.out, OpeningOf(t[1])), arity)

\* push_token.
Pushed(s, t, arity) ==
    CASE t[1] \in Ending -> AfterEnding(UnwoundToParen(s), t, arity)
      [] t[1] = "literal" ->
           IF s.out # <<>> /\ Last(s.out)[1] = "current_node" THEN [s EXCEPT !.out = Append(Front(s.out), t)]
           ELSE Out(s, t)
      [] t[1] = "expression" -> Placed(s, t[2], Level(t), IsRightAssociative(t))
      [] t[1] = "end_of_expression" -> UnwoundAll(s)
      [] t[1] = "operation" -> WithOperator(s, t)
      [] t[1] \in {"begin_filter", "begin_multi_select_list", "begin_multi_select_hash", "begin_expression_type",
                   "function", "variable"} -> Opening(s, t)
      [] t[1] = "lparen" -> [s EXCEPT !.ops = Append(s.ops, t)]
      [] OTHER -> Out(s, t)
==============================================================================
