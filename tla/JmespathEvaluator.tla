-------------------------- MODULE JmespathEvaluator --------------------------
(***************************************************************************)
(* The evaluation of compiled JMESPath tokens (jmespath.hpp): a machine    *)
(* with a stack of values, whose expressions evaluate lists of tokens of   *)
(* their own.                                                              *)
(*                                                                         *)
(* A JSON value is <<type, content>>.  A result is a value and an error,   *)
(* "" when there is none; an error does not always end the evaluation.     *)
(***************************************************************************)
EXTENDS JmespathTokens

CONSTANT Names      \* the strings and member names, in their order

Null == <<"null", 0>>
Bool(b) == <<"boolean", b>>
Num(n) == <<"number", n>>
Str(s) == <<"string", s>>
Arr(s) == <<"array", s>>
Obj(f) == <<"object", f>>
Fine(v) == [v |-> v, ec |-> Nothing]
Error(e) == [v |-> Null, ec |-> e]

IsArray(v) == v[1] = "array"
IsObject(v) == v[1] = "object"
IsNumber(v) == v[1] = "number"
IsString(v) == v[1] = "string"
IsValue(param) == param[1] # "expression"

KeysOf(v) == SelectSeq(Names, LAMBDA n : n \in DOMAIN v[2])
MembersOf(v) == [i \in DOMAIN KeysOf(v) |-> v[2][KeysOf(v)[i]]]
Place(s) == CHOOSE i \in DOMAIN Names : Names[i] = s
Less(v, w) == IF IsNumber(v) THEN v[2] < w[2] ELSE Place(v[2]) < Place(w[2])
SameOrder(v, w) == IsNumber(v) = IsNumber(w) /\ IsString(v) = IsString(w)
Ordered(v) == IsNumber(v) \/ IsString(v)

IsFalse(v) ==
    \/ v = Null \/ v = Bool(FALSE)
    \/ IsArray(v) /\ v[2] = <<>>
    \/ IsObject(v) /\ DOMAIN v[2] = {}
    \/ IsString(v) /\ v[2] = Nothing

------------------------------------------------------------------------------
\* A slice: where it begins and ends in an array of n elements, and what it takes.
Start(s, n) ==
    LET start == IF s.start = <<>> THEN (IF s.step[1] >= 0 THEN 0 ELSE n)
                 ELSE IF s.start[1] >= 0 THEN s.start[1] ELSE n + s.start[1]
        most == IF start <= n THEN start ELSE n
    IN  CASE s.step[1] > 0 /\ most < 0 -> 0 [] s.step[1] < 0 /\ most >= n -> n - 1 [] OTHER -> most
\* Mutant: a slice backwards leaves the first element out.
StopBeforeFirst(s, n) ==
    LET end == IF s.stop = <<>> THEN (IF s.step[1] >= 0 THEN n ELSE 0)
               ELSE IF s.stop[1] >= 0 THEN s.stop[1] ELSE n + s.stop[1]
        most == IF end <= n THEN end ELSE n
    IN  IF s.step[1] < 0 /\ most < -1 THEN -1 ELSE most
Stop(s, n) ==
    LET end == IF s.stop = <<>> THEN (IF s.step[1] >= 0 THEN n ELSE -1)
               ELSE IF s.stop[1] >= 0 THEN s.stop[1] ELSE n + s.stop[1]
        most == IF end <= n THEN end ELSE n
    IN  IF s.step[1] < 0 /\ most < -1 THEN -1 ELSE most

RECURSIVE Sliced(_, _, _, _)
Sliced(x, i, end, step) ==
    IF (step > 0 /\ i >= end) \/ (step < 0 /\ i <= end) THEN <<>>
    ELSE <<x[i + 1]>> \o Sliced(x, i + step, end, step)

Index(x, n) ==
    CASE n >= 0 /\ n < Len(x) -> x[n + 1]
      [] n < 0 /\ Len(x) + n >= 0 -> x[Len(x) + n + 1]
      [] OTHER -> Null

------------------------------------------------------------------------------
\* What a projection applies its expressions to, or Null when it cannot.
\* Mutant: an array in an array is one element.
UnflattenedElements(e, v) ==
    CASE e[1] = "object_projection" /\ IsObject(v) -> <<SelectSeq(MembersOf(v), LAMBDA x : x # Null)>>
      [] e[1] \in {"list_projection", "flatten"} /\ IsArray(v) -> <<SelectSeq(v[2], LAMBDA x : x # Null)>>
      [] e[1] = "slice" /\ IsArray(v) -> <<Sliced(v[2], Start(e[2], Len(v[2])), Stop(e[2], Len(v[2])), e[2].step[1])>>
      [] OTHER -> <<>>
Elements(e, v) ==
    CASE e[1] = "object_projection" /\ IsObject(v) -> <<SelectSeq(MembersOf(v), LAMBDA x : x # Null)>>
      [] e[1] = "list_projection" /\ IsArray(v) -> <<SelectSeq(v[2], LAMBDA x : x # Null)>>
      [] e[1] = "slice" /\ IsArray(v) -> <<Sliced(v[2], Start(e[2], Len(v[2])), Stop(e[2], Len(v[2])), e[2].step[1])>>
      [] e[1] = "flatten" /\ IsArray(v) ->
           LET inner(x) == IF IsArray(x) THEN x[2] ELSE <<x>>
           IN  <<SelectSeq(FlattenSeq([i \in DOMAIN v[2] |-> inner(v[2][i])]), LAMBDA x : x # Null)>>
      [] OTHER -> <<>>

FirstError(results) ==
    LET bad == SelectSeq(results, LAMBDA r : r.ec # Nothing) IN IF bad = <<>> THEN Nothing ELSE bad[1].ec
Collected(results) ==
    LET some == SelectSeq(results, LAMBDA r : r.v # Null)
    IN  [v |-> Arr([i \in DOMAIN some |-> some[i].v]), ec |-> FirstError(results)]

\* The comparisons give null for what is not a number, except the equalities.
Comparison(op, v, w) ==
    CASE op = "eq" -> Bool(v = w) [] op = "ne" -> Bool(v # w)
      [] op \notin {"eq", "ne"} /\ ~(IsNumber(v) /\ IsNumber(w)) -> Null
      [] op = "lt" /\ IsNumber(v) /\ IsNumber(w) -> Bool(v[2] < w[2])
      [] op = "lte" /\ IsNumber(v) /\ IsNumber(w) -> Bool(v[2] <= w[2])
      [] op = "gt" /\ IsNumber(v) /\ IsNumber(w) -> Bool(v[2] > w[2])
      [] op = "gte" /\ IsNumber(v) /\ IsNumber(w) -> Bool(v[2] >= w[2])

RECURSIVE Eval(_, _, _)
RECURSIVE Call(_, _, _)

\* One token: values go to the stack, and from it to the arguments of a function.
Earlier(ec, other) == IF ec = Nothing THEN other ELSE ec
Replaced(m, r) == [m EXCEPT !.stack = Append(Front(m.stack), r.v), !.ec = Earlier(m.ec, r.ec)]
Returned(m, e) == [m EXCEPT !.stop = TRUE, !.stack = <<Null>>, !.ec = e]
Bound(m, name, r) == [m EXCEPT !.vars = (name :> r.v) @@ m.vars, !.ec = Earlier(m.ec, r.ec)]
Answered(m, r) ==
    IF Earlier(m.ec, r.ec) # Nothing THEN Returned(m, Earlier(m.ec, r.ec))
    ELSE [m EXCEPT !.args = <<>>, !.stack = Append(m.stack, r.v)]

OnTop(m, t, top) ==
    CASE t[1] = "begin_expression_type" -> [m EXCEPT !.stack = Front(m.stack), !.quoting = TRUE]
      [] t[1] = "pipe" -> [m EXCEPT !.root = top]
      [] t[1] = "expression" /\ t[2][1] = "variable" -> Bound(m, t[2][2][1], Eval(Function(t[2][2][2]), top, m.vars))
      [] t[1] \in {"expression", "operation"} /\ t[2][1] # "variable" -> Replaced(m, Eval(t[2], top, m.vars))
      [] t[1] = "variable_binding" ->
           IF t[2] \in DOMAIN m.vars /\ m.ec = Nothing THEN Replaced(m, Fine(m.vars[t[2]]))
           ELSE Returned(m, "undefined_variable")
      [] t[1] = "argument" -> [m EXCEPT !.args = Append(m.args, top), !.stack = Front(m.stack)]

EvalToken(m, t) ==
    CASE m.stop \/ t[1] \in {"separator", "key", "lparen"} -> m
      [] ~m.stop /\ t[1] = "literal" -> [m EXCEPT !.stack = Append(m.stack, t[2])]
      [] ~m.stop /\ t[1] = "current_node" -> [m EXCEPT !.stack = Append(m.stack, m.root)]
      [] ~m.stop /\ t[1] = "function" -> Answered(m, Call(t[2], m.args, m.vars))
      [] ~m.stop /\ t[1] = "expression" /\ m.quoting ->
           [m EXCEPT !.stack = Append(m.stack, <<"expression", t[2]>>), !.quoting = FALSE]
      [] OTHER -> IF m.stack = <<>> THEN Returned(m, "assertion") ELSE OnTop(m, t, Last(m.stack))

AtEnd(m) == IF Len(m.stack) # 1 THEN Error("assertion") ELSE [v |-> m.stack[1], ec |-> m.ec]
EvalTokens(toks, v, vars) ==
    AtEnd(FoldLeft(EvalToken, [root |-> v, stack |-> <<>>, args |-> <<>>, vars |-> vars,
                               quoting |-> FALSE, stop |-> FALSE, ec |-> Nothing], toks))

\* The expressions of a projection, one after the other.
After(r, next) == [next EXCEPT !.ec = Earlier(r.ec, next.ec)]
Applied(exprs, v, vars) == FoldLeft(LAMBDA r, e : After(r, Eval(e, r.v, vars)), Fine(v), exprs)

Projected(e, on, vars) ==
    IF on = <<>> THEN Fine(Null) ELSE Collected([i \in DOMAIN on[1] |-> Applied(e[3], on[1][i], vars)])

\* A filter also keeps or drops a value that is not an array.
Passing(test, e, x, vars) ==
    IF IsFalse(test.v) THEN [test EXCEPT !.v = Null] ELSE After(test, Applied(e[3], x, vars))
Tested(e, x, vars) == Passing(EvalTokens(e[2], x, vars), e, x, vars)
Filtered(e, v, vars) ==
    IF IsArray(v) THEN Collected([i \in DOMAIN v[2] |-> Tested(e, v[2][i], vars)]) ELSE Tested(e, v, vars)

\* An operator evaluates its right operand when the left one does not decide.
Decided(op, v, w) ==
    CASE op = "or" -> IF IsFalse(v.v) THEN After(v, w) ELSE v
      [] op = "and" -> IF IsFalse(v.v) THEN v ELSE After(v, w)
Operate(op, on) ==
    CASE op = "not" -> IF Len(on) # 1 THEN Error("assertion") ELSE [on[1] EXCEPT !.v = Bool(IsFalse(on[1].v))]
      [] op # "not" /\ Len(on) # 2 -> Error("assertion")
      [] op \in {"or", "and"} /\ Len(on) = 2 -> Decided(op, on[1], on[2])
      [] op \in Comparators /\ Len(on) = 2 -> [v |-> Comparison(op, on[1].v, on[2].v), ec |-> FirstError(on)]

\* What a multi-select makes of the values that it selects.
ListOf(rs) == [v |-> Arr([i \in DOMAIN rs |-> rs[i].v]), ec |-> FirstError(rs)]
FirstOf(names, n) == SelectInSeq(names, LAMBDA m : m = n)
HashOf(names, rs) ==
    [v |-> Obj([n \in {names[i] : i \in DOMAIN names} |-> rs[FirstOf(names, n)].v]), ec |-> FirstError(rs)]

Eval(e, v, vars) ==
    CASE e[1] = "identifier" -> Fine(IF IsObject(v) /\ e[2] \in DOMAIN v[2] THEN v[2][e[2]] ELSE Null)
      [] e[1] = "current_node" -> Fine(v)
      [] e[1] = "index" -> Fine(IF IsArray(v) THEN Index(v[2], e[2]) ELSE Null)
      [] e[1] = "function" -> EvalTokens(e[2], v, vars)
      [] e[1] = "filter" -> Filtered(e, v, vars)
      [] e[1] \in Projections \ {"filter"} -> Projected(e, Elements(e, v), vars)
      [] e[1] = "multi_select_list" ->
           IF v = Null THEN Fine(Null) ELSE ListOf([i \in DOMAIN e[2] |-> EvalTokens(e[2][i], v, vars)])
      [] e[1] = "multi_select_hash" ->
           IF v = Null THEN Fine(Null)
           ELSE HashOf([i \in DOMAIN e[2] |-> e[2][i][1]], [i \in DOMAIN e[2] |-> EvalTokens(e[2][i][2], v, vars)])
      [] e[1] \in Operators -> Operate(e[1], [i \in DOMAIN e[3] |-> Eval(e[3][i], v, vars)])

------------------------------------------------------------------------------
\* The functions, without those that are only about the characters of strings or the
\* digits of numbers.
Invalid == Error("invalid_type")

\* The first place of the greatest, or the least, of keys that are all numbers or all
\* strings.
Better(v, w, least) == IF least THEN Less(v, w) ELSE Less(w, v)
Extremal(key, least) ==
    FoldLeft(LAMBDA best, i : IF Better(key[i], key[best], least) THEN i ELSE best, 1, [i \in DOMAIN key |-> i])
Comparable(key) == Ordered(key[1]) /\ \A i \in DOMAIN key : SameOrder(key[1], key[i])
\* The errors of the keys themselves are lost.
KeyValues(e, x, vars) == [i \in DOMAIN x |-> Eval(e, x[i], vars).v]
BestOf(x, key, least) ==
    IF x = <<>> THEN Fine(Null) ELSE IF Comparable(key) THEN Fine(x[Extremal(key, least)]) ELSE Invalid

\* A stable sort: elements that compare as equal keep their order.
Sorted(key) ==
    FoldLeft(LAMBDA done, i : InsertAt(done, SelectLastInSeq(done, LAMBDA j : ~Less(key[i], key[j])) + 1, i), <<>>,
             [i \in DOMAIN key |-> i])
InKeyOrder(x, key) ==
    IF Len(x) <= 1 THEN Fine(Arr(x))
    ELSE IF Comparable(key) THEN Fine(Arr([i \in DOMAIN x |-> x[Sorted(key)[i]]])) ELSE Invalid

TypeName(v) == Str(v[1])

\* map stops at the first error.
Mapped(rs) == IF FirstError(rs) # Nothing THEN Error(FirstError(rs)) ELSE Fine(Arr([i \in DOMAIN rs |-> rs[i].v]))

Length(v) ==
    CASE IsArray(v) \/ IsString(v) -> Fine(Num(Len(v[2])))
      [] IsObject(v) -> Fine(Num(Len(KeysOf(v))))
      [] OTHER -> Invalid
Sum(v) ==
    IF IsArray(v) /\ \A i \in DOMAIN v[2] : IsNumber(v[2][i])
    THEN Fine(Num(FoldLeft(LAMBDA n, x : n + x[2], 0, v[2]))) ELSE Invalid
ToArray(v) == Fine(IF IsArray(v) THEN v ELSE Arr(<<v>>))

CallOnValue(f, v) ==
    CASE f = "length" -> Length(v)
      [] f = "type" -> Fine(TypeName(v))
      [] f = "to_array" -> ToArray(v)
      [] f = "sum" -> Sum(v)
      [] f = "keys" /\ IsObject(v) -> Fine(Arr([i \in DOMAIN KeysOf(v) |-> Str(KeysOf(v)[i])]))
      [] f = "values" /\ IsObject(v) -> Fine(Arr(MembersOf(v)))
      [] f = "max" /\ IsArray(v) -> BestOf(v[2], v[2], FALSE)
      [] f = "min" /\ IsArray(v) -> BestOf(v[2], v[2], TRUE)
      [] f = "sort" /\ IsArray(v) -> InKeyOrder(v[2], v[2])
      [] OTHER -> Invalid

CallByKeys(f, x, key) == IF f = "sort_by" THEN InKeyOrder(x, key) ELSE BestOf(x, key, f = "min_by")

Call(f, args, vars) ==
    CASE f = "not_null" ->
           LET some == SelectSeq(args, LAMBDA a : IsValue(a) /\ a # Null) IN Fine(IF some = <<>> THEN Null ELSE some[1])
      [] f \in {"max_by", "min_by", "sort_by"} ->
           IF ~IsArray(args[1]) \/ IsValue(args[2]) THEN Invalid
           ELSE CallByKeys(f, args[1][2], KeyValues(args[2][2], args[1][2], vars))
      [] f = "map" ->
           IF IsValue(args[1]) \/ ~IsArray(args[2]) THEN Invalid
           ELSE Mapped([i \in DOMAIN args[2][2] |-> Eval(args[1][2], args[2][2][i], vars)])
      [] OTHER -> IF IsValue(args[1]) THEN CallOnValue(f, args[1]) ELSE Invalid

\* A compiled expression on a document (jmespath_expression::evaluate).
Search(tokens, v) == EvalTokens(tokens, v, <<>>)
==============================================================================
