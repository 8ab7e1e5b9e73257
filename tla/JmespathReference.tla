-------------------------- MODULE JmespathReference --------------------------
(***************************************************************************)
(* What a JMESPath expression means: its grammar as the ways to split a    *)
(* text, and its value on a document by structural recursion.              *)
(*                                                                         *)
(* A tree is <<kind, data, children>>.  A chain is the list of what is     *)
(* applied after each other; the values are those of JmespathEvaluator.    *)
(* Where the implementation has decided for itself, this follows it: a     *)
(* projection passes over null elements, a filter takes a value that is no *)
(* array for one element, not_null passes over expression types, .[*] is a *)
(* projection and .[* begins no list, sort_by of one element is that       *)
(* element, and the names bound by a let can be used in the bindings after *)
(* them.                                                                   *)
(***************************************************************************)
EXTENDS JmespathEvaluator, JmespathCompiler

Err == <<"error", 0>>
Failing(v) == v[1] = "error"

\* Characters that are one word when they stand together.
Doubles == {<<"|", "|", "||">>, <<"&", "&", "&&">>, <<"<", "=", "<=">>, <<">", "=", ">=">>, <<"=", "=", "==">>, <<"!", "=", "!=">>}
Words(lexemes) ==
    FoldLeft(LAMBDA ws, l : IF ws # <<>> /\ \E d \in Doubles : d[1] = Last(ws)[1] /\ d[2] = l[1]
                            THEN Append(Front(ws), <<(CHOOSE d \in Doubles : d[1] = Last(ws)[1] /\ d[2] = l[1])[3], Nothing>>)
                            ELSE Append(ws, l), <<>>, lexemes)

Opens == {"(", "[", "{"}
Closes == {")", "]", "}"}

\* How deep in brackets each word is, a bracket being outside what it encloses.
Depths(w) ==
    FoldLeft(LAMBDA r, x : LET d == IF x[1] \in Closes THEN r[2] - 1 ELSE r[2]
                           IN  <<Append(r[1], d), IF x[1] \in Opens THEN d + 1 ELSE d>>, <<<<>>, 0>>, w)[1]
Outside(w, kinds) == LET d == Depths(w) IN {i \in DOMAIN w : d[i] = 0 /\ w[i][1] \in kinds}

SplitAt(w, marks) ==
    LET cuts == <<0>> \o SetToSortSeq(marks, <) \o <<Len(w) + 1>>
    IN  [i \in 1..(Len(cuts) - 1) |-> SubSeq(w, cuts[i] + 1, cuts[i + 1] - 1)]
Middle(w) == SubSeq(w, 2, Len(w) - 1)
Enclosed(w, open, close) == Len(w) >= 2 /\ w[1][1] = open /\ Last(w)[1] = close

\* The infix operators, the loosest first.
Infixes == <<{"|"}, {"||"}, {"&&"}, {"==", "!=", "<", "<=", ">", ">="}>>

\* A let reaches as far as it can, so nothing that ends in one is a left operand.
RECURSIVE EndsInLet(_)
EndsInLet(e) == e[1] = "let" \/ (e[1] \in {"!"} \cup UNION {Infixes[i] : i \in 1..4} /\ EndsInLet(Last(e[3])))

RECURSIVE Exprs(_, _)
RECURSIVE Chains(_)

\* One tree for each part, if every part has one.
Each(parts, Trees(_)) ==
    IF \E i \in DOMAIN parts : Trees(parts[i]) = {} THEN {} ELSE {[i \in DOMAIN parts |-> CHOOSE t \in Trees(parts[i]) : TRUE]}
Expr(w) == Exprs(1, w)

Let(w) ==
    LET bindings(k) == SplitAt(SubSeq(w, 2, k - 1), Outside(SubSeq(w, 2, k - 1), {","}))
        bound(b) == IF Len(b) >= 3 /\ b[1][1] = "variable" /\ b[2][1] = "=" THEN Expr(SubSeq(b, 3, Len(b))) ELSE {}
    IN  IF Len(w) < 2 \/ w[1] # <<"id", "let">> THEN {}
        ELSE UNION {{<<"let", [i \in DOMAIN bindings(k) |-> bindings(k)[i][1][2]], Append(values, body)>> :
                        values \in Each(bindings(k), bound), body \in Expr(SubSeq(w, k + 1, Len(w)))} :
                    k \in {i \in Outside(w, {"id"}) : w[i][2] = "in"}}

Exprs(n, w) ==
    IF w = <<>> THEN {}
    ELSE IF n = 5 THEN
        {<<"chain", Nothing, c>> : c \in Chains(w)} \cup Let(w)
        \cup (IF w[1][1] = "!" THEN {<<"!", Nothing, <<x>>>> : x \in Exprs(5, Tail(w))} ELSE {})
    ELSE Exprs(n + 1, w) \cup
         UNION {{<<w[k][1], Nothing, <<l, r>>>> : l \in {x \in Exprs(n, SubSeq(w, 1, k - 1)) : ~EndsInLet(x)},
                                                  r \in Exprs(n + 1, SubSeq(w, k + 1, Len(w)))} :
                k \in Outside(w, Infixes[n])}

\* A slice has one or two colons, and a number or none before, between and behind them.
SliceOf(w) ==
    LET parts == SplitAt(w, {i \in DOMAIN w : w[i][1] = ":"})
        part(i) == IF i > Len(parts) \/ parts[i] = <<>> THEN <<>> ELSE <<parts[i][1][2]>>
    IN  IF Len(parts) \notin {2, 3} \/ (\E i \in DOMAIN parts : Len(parts[i]) > 1 \/ (parts[i] # <<>> /\ parts[i][1][1] # "number"))
           \/ part(3) = <<0>>
        THEN {} ELSE {<<"slice", <<part(1), part(2), part(3)>>, <<>>>>}

Bracketed(w) ==
    LET in == Middle(w)
    IN  CASE ~Enclosed(w, "[", "]") -> {}
          [] Enclosed(w, "[", "]") /\ in = <<>> -> {<<"flatten", Nothing, <<>>>>}
          [] Enclosed(w, "[", "]") /\ Len(in) = 1 /\ in[1][1] = "*" -> {<<"each", Nothing, <<>>>>}
          [] Enclosed(w, "[", "]") /\ Len(in) = 1 /\ in[1][1] = "number" -> {<<"index", in[1][2], <<>>>>}
          [] Enclosed(w, "[", "]") /\ in # <<>> /\ in[1][1] = "?" -> {<<"filter", Nothing, <<x>>>> : x \in Expr(Tail(in))}
          [] OTHER -> SliceOf(in)

\* A list, a hash, a call or a name, as it can come first or behind a dot.
Listed(w) ==
    IF ~Enclosed(w, "[", "]") \/ Bracketed(w) # {} THEN {}
    ELSE {<<"list", Nothing, xs>> : xs \in Each(SplitAt(Middle(w), Outside(Middle(w), {","})), Expr)}
Hash(w) ==
    LET members == SplitAt(Middle(w), Outside(Middle(w), {","}))
        value(m) == IF Len(m) >= 3 /\ m[1][1] \in {"id", "quoted"} /\ m[2][1] = ":" THEN Expr(SubSeq(m, 3, Len(m))) ELSE {}
    IN  IF ~Enclosed(w, "{", "}") THEN {}
        ELSE {<<"hash", [i \in DOMAIN members |-> members[i][1][2]], xs>> : xs \in Each(members, value)}
Called(w) ==
    LET inner == SubSeq(w, 3, Len(w) - 1)
        args == IF inner = <<>> THEN <<>> ELSE SplitAt(inner, Outside(inner, {","}))
        argument(a) == IF a # <<>> /\ a[1][1] = "&" THEN {<<"ref", Nothing, <<x>>>> : x \in Expr(Tail(a))} ELSE Expr(a)
    IN  IF ~(Len(w) >= 3 /\ w[1][1] = "id" /\ w[2][1] = "(" /\ Last(w)[1] = ")")
           \/ w[1][2] \notin DOMAIN Arities \/ Arities[w[1][2]] \notin {-1, Len(args)} THEN {}
        ELSE {<<"call", w[1][2], xs>> : xs \in Each(args, argument)}
Named(w) ==
    IF Len(w) = 1 /\ w[1][1] \in {"id", "quoted"} THEN {<<"field", w[1][2], <<>>>>}
    ELSE IF Len(w) = 1 /\ w[1][1] = "*" THEN {<<"members", Nothing, <<>>>>} ELSE {}

First(w) ==
    Named(w) \cup Bracketed(w) \cup Listed(w) \cup Hash(w) \cup Called(w)
    \cup (IF Enclosed(w, "(", ")") THEN {<<"paren", Nothing, <<x>>>> : x \in Expr(Middle(w))} ELSE {})
    \cup (IF Len(w) # 1 THEN {}
          ELSE CASE w[1][1] = "raw" -> {<<"value", Str(w[1][2]), <<>>>>}
                 [] w[1][1] = "literal" -> {<<"value", w[1][2], <<>>>>}
                 [] w[1][1] = "variable" -> {<<"variable", w[1][2], <<>>>>}
                 [] w[1][1] = "@" -> {<<"current", Nothing, <<>>>>}
                 [] OTHER -> {})
Further(w) ==
    LET x == Tail(w)
    IN  IF w[1][1] # "." THEN Bracketed(w)
        ELSE Named(x) \cup Hash(x) \cup Called(x)
             \cup (IF Len(x) > 1 /\ x[2][1] = "*" THEN Bracketed(x) ELSE Listed(x))

Chains(w) ==
    {<<x>> : x \in First(w)}
    \cup UNION {{Append(c, x) : c \in Chains(SubSeq(w, 1, k - 1)), x \in Further(SubSeq(w, k, Len(w)))} :
                k \in Outside(w, {".", "["}) \ {1}}

\* The trees of a text, which has none when its brackets do not match.
Balanced(w) ==
    LET d == Depths(w \o <<<<"end", Nothing>>>>) IN Last(d) = 0 /\ \A i \in DOMAIN d : d[i] >= 0
Parses(lexemes) == LET w == Words(lexemes) IN IF Balanced(w) THEN Expr(w) ELSE {}

------------------------------------------------------------------------------
Projecting == {"members", "each", "slice", "filter", "flatten"}
True(v) == ~(v[1] = "null" \/ v = Bool(FALSE) \/ (v[1] \in {"array", "string"} /\ Len(v[2]) = 0)
             \/ (v[1] = "object" /\ DOMAIN v[2] = {}))
Present(s) == SelectSeq(s, LAMBDA x : x # Null)
Gathered(s) == IF \E i \in DOMAIN s : Failing(s[i]) THEN Err ELSE Arr(s)

\* The elements that a slice takes, as in Python.
Taken(slice, x) ==
    LET n == Len(x)
        step == IF slice[3] = <<>> THEN 1 ELSE slice[3][1]
        low == IF step > 0 THEN 0 ELSE -1
        high == IF step > 0 THEN n ELSE n - 1
        within(i) == IF i < low THEN low ELSE IF i > high THEN high ELSE i
        place(part, default) == IF part = <<>> THEN default ELSE within(IF part[1] < 0 THEN part[1] + n ELSE part[1])
        from == place(slice[1], IF step > 0 THEN 0 ELSE n - 1)
        to == place(slice[2], IF step > 0 THEN n ELSE -1)
        taken == {i \in 0..(n - 1) : IF step > 0 THEN from <= i /\ i < to /\ (i - from) % step = 0
                                     ELSE to < i /\ i <= from /\ (from - i) % (-step) = 0}
        order == SetToSortSeq(taken, LAMBDA i, j : IF step > 0 THEN i < j ELSE j < i)
    IN  [k \in DOMAIN order |-> x[order[k] + 1]]

RECURSIVE Value(_, _, _)
RECURSIVE Along(_, _, _)

Compared(op, v, w) ==
    CASE op = "==" -> Bool(v = w) [] op = "!=" -> Bool(v # w)
      [] op \notin {"==", "!="} /\ ~(v[1] = "number" /\ w[1] = "number") -> Null
      [] OTHER -> Bool(CASE op = "<" -> v[2] < w[2] [] op = "<=" -> v[2] <= w[2]
                         [] op = ">" -> v[2] > w[2] [] op = ">=" -> v[2] >= w[2])

\* Keys of one type that has an order.
OneOrder(keys) ==
    \A i \in DOMAIN keys : keys[i][1] \in {"number", "string"} /\ keys[i][1] = keys[1][1]
\* The elements by their keys, those of equal keys as they were.
InOrder(x, keys) ==
    LET before(i, j) == Less(keys[i], keys[j]) \/ (~Less(keys[j], keys[i]) /\ i < j)
        order == SetToSortSeq(DOMAIN x, before)
    IN  IF Len(x) <= 1 THEN Arr(x) ELSE IF ~OneOrder(keys) THEN Err ELSE Arr([k \in DOMAIN x |-> x[order[k]]])
\* The first one with the greatest, or the least, key.
Extreme(x, keys, Beats(_, _)) ==
    IF x = <<>> THEN Null ELSE IF ~OneOrder(keys) THEN Err
    ELSE x[CHOOSE i \in DOMAIN x : /\ \A j \in DOMAIN x : ~Beats(keys[j], keys[i])
                                   /\ \A j \in 1..(i - 1) : Beats(keys[i], keys[j])]
Greater(v, w) == Less(w, v)

\* A function on values; the argument that is an expression is given by its values.
Applied1(f, v) ==
    CASE f = "length" /\ v[1] \in {"array", "string"} -> Num(Len(v[2]))
      [] f = "length" /\ v[1] = "object" -> Num(Cardinality(DOMAIN v[2]))
      [] f = "type" -> Str(v[1])
      [] f = "to_array" -> IF v[1] = "array" THEN v ELSE Arr(<<v>>)
      [] f = "keys" /\ v[1] = "object" -> Arr([i \in DOMAIN KeysOf(v) |-> Str(KeysOf(v)[i])])
      [] f = "values" /\ v[1] = "object" -> Arr(MembersOf(v))
      [] f = "max" /\ v[1] = "array" -> Extreme(v[2], v[2], Greater)
      [] f = "min" /\ v[1] = "array" -> Extreme(v[2], v[2], Less)
      [] f = "sort" /\ v[1] = "array" -> InOrder(v[2], v[2])
      [] f = "sum" /\ v[1] = "array" /\ (\A i \in DOMAIN v[2] : v[2][i][1] = "number") ->
           Num(FoldLeft(LAMBDA n, x : n + x[2], 0, v[2]))
      [] OTHER -> Err
AppliedBy(f, x, keys) ==
    CASE f = "map" -> Gathered(keys)
      [] f = "max_by" -> Extreme(x, keys, Greater)
      [] f = "min_by" -> Extreme(x, keys, Less)
      [] f = "sort_by" -> InOrder(x, keys)

Applying(f, args, v, env) ==
    LET by == IF f = "map" THEN 1 ELSE 2
        plain == {i \in DOMAIN args : args[i][1] # "ref"}
        values == [i \in plain |-> Value(args[i], v, env)]
        given == SelectSeq([i \in DOMAIN args |-> IF i \in plain THEN values[i] ELSE Null], LAMBDA x : x # Null)
        on == values[3 - by][2]
    IN  CASE \E i \in plain : Failing(values[i]) -> Err
          [] f = "not_null" /\ (\A i \in plain : ~Failing(values[i])) -> IF given = <<>> THEN Null ELSE given[1]
          [] f \in {"map", "max_by", "min_by", "sort_by"} /\ (\A i \in plain : ~Failing(values[i])) ->
               IF plain # {3 - by} \/ values[3 - by][1] # "array" THEN Err
               ELSE AppliedBy(f, on, [i \in DOMAIN on |-> Value(args[by][3][1], on[i], env)])
          [] OTHER -> IF plain = {1} THEN Applied1(f, values[1]) ELSE Err

\* One part of a chain that is no projection.
Part(s, v, env) ==
    LET values == [i \in DOMAIN s[3] |-> Value(s[3][i], v, env)]
    IN  CASE s[1] = "field" -> IF v[1] = "object" /\ s[2] \in DOMAIN v[2] THEN v[2][s[2]] ELSE Null
          [] s[1] = "index" -> LET n == IF v[1] = "array" THEN Len(v[2]) ELSE 0
                                   i == IF s[2] < 0 THEN n + s[2] ELSE s[2]
                               IN  IF i \in 0..(n - 1) THEN v[2][i + 1] ELSE Null
          [] s[1] = "current" -> v
          [] s[1] = "value" -> s[2]
          [] s[1] = "variable" -> IF s[2] \in DOMAIN env THEN env[s[2]] ELSE Err
          [] s[1] = "paren" -> values[1]
          [] s[1] = "call" -> Applying(s[2], s[3], v, env)
          [] s[1] = "list" -> IF v = Null THEN Null ELSE Gathered(values)
          [] s[1] = "hash" ->
               LET first(n) == CHOOSE i \in DOMAIN values : s[2][i] = n /\ \A j \in 1..(i - 1) : s[2][j] # n
               IN  IF v = Null THEN Null ELSE IF Failing(Gathered(values)) THEN Err
                   ELSE Obj([n \in {s[2][i] : i \in DOMAIN values} |-> values[first(n)]])

\* A flattening takes all that is before it; any other projection takes what comes
\* first, and the rest of the chain is applied to every element.
Over(elements, rest, env) ==
    Gathered(Present([i \in DOMAIN elements |-> Along(rest, elements[i], env)]))

Projection(s, v, rest, env) ==
    LET holds(x) == Value(s[3][1], x, env)
        inner(x) == IF x[1] = "array" THEN x[2] ELSE <<x>>
    IN  CASE s[1] = "members" -> IF v[1] = "object" THEN Over(Present(MembersOf(v)), rest, env) ELSE Null
          [] s[1] = "filter" ->
               LET on == IF v[1] = "array" THEN v[2] ELSE <<v>>
                   kept == SelectSeq(on, LAMBDA x : True(holds(x)))
               IN  IF \E i \in DOMAIN on : Failing(holds(on[i])) THEN Err
                   ELSE IF v[1] = "array" THEN Over(kept, rest, env)
                   ELSE IF kept = <<>> THEN Null ELSE Along(rest, v, env)
          [] s[1] \in {"each", "slice", "flatten"} /\ v[1] # "array" -> Null
          [] s[1] = "each" /\ v[1] = "array" -> Over(Present(v[2]), rest, env)
          [] s[1] = "slice" /\ v[1] = "array" -> Over(Taken(s[2], v[2]), rest, env)
          [] s[1] = "flatten" /\ v[1] = "array" ->
               Over(Present(FlattenSeq([i \in DOMAIN v[2] |-> inner(v[2][i])])), rest, env)

Along(segs, v, env) ==
    LET flat == SelectLastInSeq(segs, LAMBDA s : s[1] = "flatten")
        any == SelectInSeq(segs, LAMBDA s : s[1] \in Projecting)
        k == IF flat # 0 THEN flat ELSE any
        before == Along(SubSeq(segs, 1, k - 1), v, env)
    IN  IF segs = <<>> THEN v
        ELSE IF k # 0 THEN IF Failing(before) THEN Err ELSE Projection(segs[k], before, SubSeq(segs, k + 1, Len(segs)), env)
        ELSE LET x == Along(Front(segs), v, env) IN IF Failing(x) THEN Err ELSE Part(Last(segs), x, env)

Value(e, v, env) ==
    LET x == Value(e[3][1], v, env)
        y == Value(e[3][2], v, env)
        both(r) == IF Failing(x) \/ Failing(y) THEN Err ELSE r
        bound == FoldLeft(LAMBDA en, i : LET val == Value(e[3][i], v, en) IN (e[2][i] :> val) @@ en, env,
                          [i \in DOMAIN e[2] |-> i])
    IN  CASE e[1] = "chain" -> Along(e[3], v, env)
          [] e[1] = "!" -> IF Failing(x) THEN Err ELSE Bool(~True(x))
          [] e[1] = "|" -> IF Failing(x) THEN Err ELSE Value(e[3][2], x, env)
          [] e[1] = "||" -> IF Failing(x) \/ True(x) THEN x ELSE y
          [] e[1] = "&&" -> IF Failing(x) \/ ~True(x) THEN x ELSE y
          [] e[1] \in Infixes[4] -> both(Compared(e[1], x, y))
          [] e[1] = "let" -> IF \E i \in DOMAIN e[2] : Failing(bound[e[2][i]]) THEN Err ELSE Value(Last(e[3]), v, bound)
==============================================================================
