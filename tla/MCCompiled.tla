------------------------------ MODULE MCCompiled ------------------------------
(***************************************************************************)
(* What is compiled once and used on many documents: the text of a         *)
(* JMESPath expression, here, or a JSON Schema document (MCSchemas).       *)
(*                                                                         *)
(* Small JMESPath expressions, typed a piece at a time until they are      *)
(* compiled or refused, and their values on small documents.  A theme      *)
(* gives the pieces that a text may be made of and its length.             *)
(***************************************************************************)
EXTENDS JmespathReference

VARIABLE theme      \* what the text is about

vars == <<text, ended, p, states, tokens, buffer, slic, compiled, theme>>

L(kind) == <<<<kind, Nothing>>>>
Id(n) == <<<<"id", n>>>>
N(n) == <<<<"number", n>>>>
Var == <<<<"variable", "$x">>>>
One == <<<<"literal", Num(1)>>>>
Bracket(piece) == L("[") \o piece \o L("]")

a == Id("a")
b == Id("b")
Dot(n) == L(".") \o n
Expand == Bracket(L("*"))
Flat == Bracket(<<>>)
Test(piece) == Bracket(L("?") \o piece)
Fn(f) == Id(f) \o L("(")
Themes ==
    [operators   |-> <<7, {a, b, L("|"), L("|") \o L("|"), L("&") \o L("&"), L("<"), L("!"), L("("), L(")")}>>,
     comparisons |-> <<6, {a, L("="), L("<"), L(">"), L("!"), L("|"), L("&"), One, Expand}>>,
     projections |-> <<7, {a, Dot(a), Dot(b), Expand, Flat, L("*"), Dot(L("*")), Bracket(N(0)), L("["), L("?"), L("]"), L("(") \o a, L(")"), L("|") \o b}>>,
     characters  |-> <<5, {a, L("."), L("["), L("]"), L("*"), L("?"), N(-1), L(":"), L("@"), <<<<"quoted", "b">>>>, L("#")}>>,
     filters     |-> <<8, {a \o L("[") \o L("?"), b, L("]"), L("|") \o L("|"), L("<"), L("!"), L("("), L(")")}>>,
     slices      |-> <<8, {Id("c") \o L("["), N(-2), N(1), N(0), N(5), L(":"), L("]"), Flat}>>,
     selections  |-> <<7, {a, b, Dot(a), L("["), L("]"), Expand, L(","), Dot(L("{")), L("{"), L("}"), b \o L(":"), a \o L(":"), L("*")}>>,
     hashes      |-> <<6, {L("{"), L("}"), L(":"), L(","), a, <<<<"quoted", "b">>>>, <<<<"raw", "b">>>>, <<<<"not_json", Nothing>>>>, L("."), L("*"), L("[")}>>,
     members     |-> <<11, {L("{") \o a \o L(":"), a, b, One, Dot(b), Expand, L("|") \o L("|"), L(","), b \o L(":"),
                           <<<<"quoted", "c">>>> \o L(":"), <<<<"raw", "c">>>> \o L(":"), L("}")}>>,
     functions   |-> <<6, {Fn("sort"), Fn("max"), Fn("min"), Fn("keys"), Fn("values"), Fn("length"), Fn("type"), Fn("sum"),
                          Fn("to_array"), L(")"), a, b, Dot(a), Expand, Flat, L("@")}>>,
     by_keys     |-> <<9, {Fn("sort_by") \o a, Fn("max_by") \o a, Fn("min_by") \o a, Fn("map"), L(","), L("&"), b, L("@"), L(")"), Expand, Dot(b)}>>,
     arguments   |-> <<7, {Fn("not_null"), Fn("type"), L(","), a, Dot(b), L(")"), L("|") \o L("|"), L("&"), Expand, Id("f") \o L("("), L("("), L("|")}>>,
     bindings    |-> <<7, {Id("let") \o Var \o L("="), Var, Id("in") \o a, Id("in"), b, Dot(b), L(","), L("|"), L("("), L(")"), One}>>]

MCNames == <<"a", "array", "b", "boolean", "c", "null", "number", "object", "string", "x">>

O(f) == Obj(f)
Docs ==
    { O("a" :> Arr(<<O("a" :> Num(1) @@ "b" :> Num(2)), O("a" :> Num(2) @@ "b" :> Num(1)), O("a" :> Num(1))>>)
        @@ "b" :> O("a" :> Arr(<<Num(1), Arr(<<Num(2)>>)>>) @@ "b" :> Num(1)) @@ "c" :> Arr(<<Num(0), Num(1), Num(2), Num(3)>>)),
      O("a" :> Num(1) @@ "b" :> Arr(<<O("a" :> Arr(<<Arr(<<Num(3)>>), Num(4)>>)), O("b" :> Str("x"))>>) @@ "c" :> Arr(<<>>)),
      O("a" :> O("a" :> Str("x") @@ "b" :> Str("a")) @@ "b" :> Bool(FALSE)),
      O("a" :> Null @@ "b" :> Num(2) @@ "c" :> Arr(<<Str("x")>>)),
      Arr(<<Num(3), Arr(<<O("a" :> Num(5) @@ "b" :> Num(1)), O("b" :> Num(0))>>), O("a" :> Arr(<<Num(1)>>) @@ "b" :> Str("x"))>>),
      Arr(<<Num(2), Num(1), Num(2)>>), Arr(<<Str("x"), Str("a")>>) }

Init == theme \in DOMAIN Themes /\ CompileInit
Next ==
    \/ \E piece \in Themes[theme][2] :
          Len(text) + Len(piece) <= Themes[theme][1] /\ TypePiece(piece) /\ UNCHANGED theme
    \/ EndText /\ UNCHANGED theme
    \/ Step /\ UNCHANGED theme
Spec == Init /\ [][Next]_vars

------------------------------------------------------------------------------
RECURSIVE Within(_)
Within(e) == {e} \cup UNION {Within(e[3][i]) : i \in DOMAIN e[3]}

OperatorKinds == {"!"} \cup Infixes[2] \cup Infixes[3] \cup Infixes[4]
Projects(e) == e[1] = "chain" /\ \E i \in DOMAIN e[3] : e[3][i][1] \in Projecting
InParens(e) == e[1] = "chain" /\ e[3][1][1] = "paren"

\* Whether the tokens of a tree have a pipe in them: where one is written, and behind a
\* projection that ends at a closing parenthesis.
RECURSIVE EndsProjecting(_)
EndsProjecting(e) ==
    CASE e[1] = "chain" -> Projects(e) \/ (InParens(e) /\ Len(e[3]) = 1 /\ EndsProjecting(e[3][1][3][1]))
      [] e[1] \in {"|", "let"} -> EndsProjecting(Last(e[3]))
      [] OTHER -> FALSE
RECURSIVE Pipes(_)
Pipes(e) ==
    CASE e[1] = "|" -> TRUE
      [] e[1] = "chain" -> InParens(e) /\ (Pipes(e[3][1][3][1]) \/ EndsProjecting(e[3][1][3][1]))
      [] e[1] = "let" -> Pipes(Last(e[3]))
      [] OTHER -> \E i \in DOMAIN e[3] : Pipes(e[3][i])
RECURSIVE BeginsWithValue(_)
BeginsWithValue(e) ==
    CASE e[1] = "chain" -> e[3][1][1] = "value" \/ (InParens(e) /\ BeginsWithValue(e[3][1][3][1]))
      [] e[1] = "|" -> BeginsWithValue(e[3][1])
      [] OTHER -> FALSE
LastOf(e) == IF e[1] = "|" THEN e[3][2] ELSE e

\* The expressions that the code does not treat as it should, or in a way of its own:
\* a pipe in the tokens of an operand, an operator before a pipe, a negated projection,
\* a comparison of comparisons, a literal behind a pipe or a let, a pipe or a projection
\* in an argument that is not the last.
Strays(e) ==
    CASE e[1] \in OperatorKinds ->
           \/ \E i \in DOMAIN e[3] : Pipes(e[3][i])
           \/ e[1] = "!" /\ Projects(e[3][1])
           \/ e[1] \in Infixes[4] /\ \E i \in DOMAIN e[3] : e[3][i][1] \in Infixes[4]
      [] e[1] = "|" -> LastOf(e[3][1])[1] \in OperatorKinds \/ BeginsWithValue(e[3][2])
      [] e[1] = "let" -> BeginsWithValue(Last(e[3]))
      [] e[1] = "call" -> \E i \in 1..(Len(e[3]) - 1) : Pipes(e[3][i]) \/ EndsProjecting(e[3][i])
      [] OTHER -> FALSE
Covered(e) == \A x \in Within(e) : ~Strays(x)

\* The text with quoted names for members, but the first, that are named by a raw string:
\* compile takes the string for a literal, which goes to the member before it.
WithNames(w) ==
    [i \in DOMAIN w |-> IF i \in 2..(Len(w) - 1) /\ w[i - 1][1] = "," /\ w[i][1] = "raw" /\ w[i + 1][1] = ":"
                        THEN <<"quoted", w[i][2]>> ELSE w[i]]


\* What may come after a text that is refused before its end.
Endings == IF ended THEN {<<>>} ELSE {<<>>, a, L(")"), L("]"), L("}"), a \o L(")"), a \o L("]"), Id("in") \o a}

\* A text that can be continued to one that follows the grammar is not refused
\* (compile, push_token).
RefusedForGood ==
    compiled /\ tokens.ec # Nothing => \A c \in Endings : \A e \in Parses(text \o c) : ~Covered(e)

\* A text that follows the grammar has its value on every document (evaluate).
SearchConforms ==
    compiled /\ tokens.ec = Nothing => \A e \in Parses(text) :
        Covered(e) =>
            \A d \in Docs :
                LET r == Search(tokens.out, d)
                    x == Value(e, d, <<>>)
                IN  (r.ec # Nothing) = Failing(x) /\ (r.ec = Nothing => r.v = x)
------------------------------------------------------------------------------
\* Schemas.

VARIABLES document, phase, built, instance, outcome, early, visits

schemaVars == <<document, phase, built, instance, outcome, early, visits>>

MCKeys == <<"a", "b", "n", "p", "q">>
MCNumerals == <<"0", "1", "2", "3">>
MCKindOf(x) == CASE x \in {"one", "three"} -> "int" [] x \in {"half", "two"} -> "double" [] x = "true" -> "boolean"
                 [] x = "null" -> "null" [] OTHER -> "string"
MCNumberOf(x) == CASE x = "half" -> 1 [] x = "one" -> 2 [] x = "two" -> 4 [] x = "three" -> 6
MCLengthOf(x) == IF x = "b" THEN 2 ELSE 1       \* b stands for a longer name
MCMatches(x, pattern) == pattern = "q" \/ x = "a"           \* p is found in a only, q anywhere

Schemas == INSTANCE MCSchemas WITH
    Keys <- MCKeys, Numerals <- MCNumerals, KindOf <- MCKindOf, NumberOf <- MCNumberOf,
    LengthOf <- MCLengthOf, Matches <- MCMatches

NoQuery == theme = "none" /\ CompileInit
NoSchema == document = 0 /\ phase = "none" /\ built = Schemas!NoDocument /\ Schemas!Unused

CompiledInit == (Init /\ NoSchema) \/ (Schemas!Init /\ NoQuery)
CompiledNext ==
    \/ theme # "none" /\ Next /\ UNCHANGED schemaVars
    \/ phase # "none" /\ Schemas!Next /\ UNCHANGED vars
CompiledSpec == CompiledInit /\ [][CompiledNext]_<<vars, schemaVars>>

\* The properties of MCSchemas: a schema and the instances it finds valid, its references,
\* the errors it reports, the defaults it adds, and what a walk visits (json_schema).
VerdictConforms == Schemas!VerdictConforms
ReferencesResolve == Schemas!ReferencesResolve
EarlyIsFirst == Schemas!EarlyIsFirst
ErrorsAreLocated == Schemas!ErrorsAreLocated
DefaultsAreAdded == Schemas!DefaultsAreAdded
WalkVisitsErrors == Schemas!WalkVisitsErrors
==============================================================================
