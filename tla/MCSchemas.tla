------------------------------ MODULE MCSchemas ------------------------------
(***************************************************************************)
(* Small JSON Schema documents, each compiled and then used on small       *)
(* instances: to collect all errors, to stop at the first one, and to walk *)
(* through the keywords.  Documents are made of fragments, two of them     *)
(* beside each other, with or without a keyword for what they leave        *)
(* unevaluated; the documents about references are listed one by one.      *)
(***************************************************************************)
EXTENDS JsonSchemaReference

VARIABLES
    document,   \* the index of the document
    phase,      \* what has been done: named, undefined, compiled, collected, stopped, walked
    instance,   \* the instance it is used on
    outcome,    \* of the validation that collects all errors
    early,      \* the errors of the one that stops
    visits      \* what the walk has visited

vars == <<built, document, phase, instance, outcome, early, visits>>

------------------------------------------------------------------------------
True == <<"bool", TRUE>>
False == <<"bool", FALSE>>
S(f) == <<"object", f>>
One == Atom("one")
Str == Atom("a")
Integer == S("type" :> {"integer"})
Text == S("type" :> {"string"})
Has(names) == S("required" :> names)
WithA(schema) == S("properties" :> ("a" :> schema))
Default(schema, x) == S(schema[2] @@ ("default" :> x))
Here(tokens) == <<"", "pointer", tokens>>
Anchor(name) == <<"", "anchor", name>>

\* The fragments.  The first ones are about objects and arrays, and leave something
\* for the unevaluated keywords.
ObjectFragments ==
    << "properties" :> ("a" :> Integer),
       "properties" :> ("a" :> False @@ "b" :> Default(Text, Str)),
       "patternProperties" :> ("p" :> Integer),
       "patternProperties" :> ("p" :> WithA(Text) @@ "q" :> Integer),
       "additionalProperties" :> Integer,
       "propertyNames" :> S("maxLength" :> 1),
       "required" :> <<"a", "b">>,
       "properties" :> ("a" :> Default(WithA(Default(Integer, One)), EmptyObject)) >>
ArrayFragments2020 ==
    << "prefixItems" :> <<Integer, True>>,
       "prefixItems" :> <<Text>> @@ "items" :> Integer,
       "prefixItems" :> <<Integer>> @@ "items" :> False,
       "items" :> Text,
       "contains" :> Integer,
       "contains" :> Text @@ "maxContains" :> 1 @@ "minContains" :> 0,
       "contains" :> Integer @@ "minContains" :> 2 >>
ArrayFragmentsEarlier ==
    << "items" :> <<"list", <<Integer, True>>>>,
       "items" :> <<"list", <<Text>>>> @@ "additionalItems" :> Integer,
       "items" :> Text @@ "additionalItems" :> False,
       "items" :> False,
       "contains" :> Integer >>
ApplicatorFragments ==
    << "allOf" :> <<WithA(Integer), S("items" :> Integer)>>,
       "anyOf" :> <<S("properties" :> ("a" :> Default(Integer, One)) @@ "required" :> <<"b">>), Has(<<"a">>), Text>>,
       "oneOf" :> <<WithA(Integer), S("properties" :> ("b" :> Default(Text, Str))), Integer>>,
       "not" :> S("type" :> {"integer", "null"}),
       "if" :> S("properties" :> ("a" :> Integer) @@ "required" :> <<"a">>) @@ "then" :> Has(<<"b">>)
           @@ "else" :> S("properties" :> ("b" :> Integer)),
       "if" :> S("maxProperties" :> 1 @@ "maxItems" :> 1) @@ "then" :> S("items" :> Integer) >>
Later2019 ==
    << "dependentRequired" :> ("a" :> <<"b">>),
       "dependentSchemas" :> ("a" :> Has(<<"b">>) @@ "b" :> S("maxProperties" :> 1)),
       "$ref" :> Here(<<"$defs", "n">>) @@ "$defs" :> ("n" :> WithA(Default(Integer, One))) >>
Draft7Fragments ==
    << "dependencies" :> ("a" :> <<"names", <<"b">>>> @@ "b" :> Has(<<"n">>)) >>
AssertionFragments ==
    << "type" :> {"integer", "object"}, "type" :> {"number", "array"}, "maximum" :> Atom("two"), "minimum" :> One,
       "exclusiveMaximum" :> Atom("two"), "exclusiveMinimum" :> One, "multipleOf" :> One, "maxLength" :> 1,
       "minLength" :> 2, "pattern" :> "p", "maxItems" :> 1, "minItems" :> 2, "uniqueItems" :> TRUE,
       "maxProperties" :> 1, "minProperties" :> 2, "enum" :> <<One, EmptyObject>>, "const" :> Array(<<One>>),
       "additionalProperties" :> False, "items" :> False, "not" :> S("not" :> True), "allOf" :> <<True, False>> >>
UnevaluatedFragments ==
    << "unevaluatedProperties" :> False, "unevaluatedProperties" :> Integer,
       "unevaluatedItems" :> False, "unevaluatedItems" :> Text >>

\* The members of two sequences in pairs, and fragments beside each other, if they have
\* no keyword in common.
Pairs(fs, gs) == [k \in 1..(Len(fs) * Len(gs)) |-> <<fs[(k - 1) \div Len(gs) + 1], gs[((k - 1) % Len(gs)) + 1]>>]
Beside(fs, gs) ==
    LET apart == SelectSeq(Pairs(fs, gs), LAMBDA p : DOMAIN p[1] \cap DOMAIN p[2] = {})
    IN  [k \in DOMAIN apart |-> apart[k][1] @@ apart[k][2]]

\* A fragment one level down: behind an applicator, a reference or a member.
Wrapped(f) ==
    << "allOf" :> <<S(f), True>>, "anyOf" :> <<S(f), Text>>, "oneOf" :> <<S(f), S("maxItems" :> 1)>>,
       "if" :> S(f) @@ "then" :> True @@ "else" :> Has(<<"a">>),
       "$ref" :> Here(<<"$defs", "q">>) @@ "$defs" :> ("q" :> S(f)) >>
AllWrapped(fs) ==
    LET ways == Pairs(fs, <<1, 2, 3, 4, 5>>) IN [k \in DOMAIN ways |-> Wrapped(ways[k][1])[ways[k][2]]]
Inside(fs) == [i \in DOMAIN fs |-> IF i % 2 = 0 THEN WithA(S(fs[i]))[2] ELSE "items" :> S(fs[i])]

ForMembers == ObjectFragments \o ApplicatorFragments
Documents202012 ==
    LET own == ObjectFragments \o ArrayFragments2020 \o ApplicatorFragments \o Later2019
    IN  own \o AssertionFragments \o Beside(ForMembers \o Later2019, ForMembers)
        \o Beside(own \o AllWrapped(ObjectFragments \o ArrayFragments2020 \o ApplicatorFragments), UnevaluatedFragments)
        \o Inside(AllWrapped(own)) \o [i \in DOMAIN own |-> "not" :> S(own[i])]
        \o Beside(Beside(ForMembers, ApplicatorFragments \o Later2019), SubSeq(UnevaluatedFragments, 1, 1))
        \o Beside(Beside(ArrayFragments2020, ApplicatorFragments), SubSeq(UnevaluatedFragments, 3, 3))
Documents201909 ==
    LET own == ArrayFragmentsEarlier \o Later2019
    IN  own \o Beside(own, ObjectFragments \o ApplicatorFragments) 
        \o Beside(SubSeq(ArrayFragmentsEarlier, 1, 4), SubSeq(UnevaluatedFragments, 3, 4))
\* In draft 4 the exclusive limits are flags.
Flags == << "maximum" :> Atom("two") @@ "exclusiveMaximum" :> TRUE, "minimum" :> One @@ "exclusiveMinimum" :> TRUE,
            "maximum" :> One @@ "exclusiveMaximum" :> FALSE @@ "exclusiveMinimum" :> TRUE, "minimum" :> Atom("two") >>
NotLimits(fs) == SelectSeq(fs, LAMBDA f : DOMAIN f \cap {"exclusiveMaximum", "exclusiveMinimum"} = {})
Documents4 == Flags \o NotLimits(AssertionFragments) \o Beside(Flags, ArrayFragmentsEarlier \o ApplicatorFragments)
Documents6 == ApplicatorFragments \o Beside(Draft7Fragments \o ArrayFragmentsEarlier, ObjectFragments)
Documents7 ==
    LET own == ArrayFragmentsEarlier \o Draft7Fragments
    IN  own \o AssertionFragments \o Beside(own, ObjectFragments \o ApplicatorFragments)

------------------------------------------------------------------------------
\* References: to the root, to anchors, into and out of resources of their own.
Ref(uri) == S("$ref" :> uri)
Tree == [properties |-> ("a" :> Ref(Here(<<>>))), additionalProperties |-> Integer]
Resource(id, f) == S("$id" :> Uri(id) @@ f)
References202012 ==
    << Tree, "$id" :> Uri("r") @@ Tree,
       "$ref" :> Anchor("n") @@ "$defs" :> ("n" :> S("$anchor" :> "n" @@ "type" :> {"object"})),
       "$ref" :> Anchor("n") @@ "$defs" :> ("n" :> Resource("s", "$anchor" :> "n")),
       "$ref" :> Here(<<"$defs", "q">>),
       "$ref" :> Uri("s") @@ "$defs" :> ("n" :> Resource("s", Tree)),
       "$id" :> Uri("r") @@ "$anchor" :> "n" @@ "items" :> Ref(Uri("s"))
           @@ "$defs" :> ("n" :> Resource("s", "$ref" :> Anchor("n")
               @@ "$defs" :> ("n" :> S("$anchor" :> "n" @@ "type" :> {"integer"})))),
       "$ref" :> <<"", "pointer", <<"$defs", "n", "properties", "a">>>>
           @@ "$defs" :> ("n" :> Resource("s", Tree)),
       "allOf" :> <<Ref(Anchor("p")), Ref(Here(<<"properties", "a">>))>> @@ "properties" :> ("a" :> Has(<<"b">>))
           @@ "$defs" :> ("p" :> S("$anchor" :> "p" @@ "maxProperties" :> 1)),
       \* a tree whose nodes are extended from outside
       "$id" :> Uri("r") @@ "$dynamicAnchor" :> "n" @@ "$ref" :> Uri("s") @@ "required" :> <<"b">>
           @@ "$defs" :> ("n" :> Resource("s", "$dynamicAnchor" :> "n"
               @@ "properties" :> ("a" :> S("$dynamicRef" :> Anchor("n"))))),
       "$id" :> Uri("r") @@ "$ref" :> Uri("s") @@ "required" :> <<"b">>
           @@ "$defs" :> ("n" :> Resource("s", "$dynamicAnchor" :> "n" @@ "type" :> {"object"}
               @@ "properties" :> ("a" :> S("$dynamicRef" :> Anchor("n"))))),
       "$id" :> Uri("r") @@ "$ref" :> Uri("s")
           @@ "$defs" :> ("q" :> S("$dynamicAnchor" :> "n" @@ "type" :> {"integer"})
               @@ "n" :> Resource("s", "items" :> S("$dynamicRef" :> Anchor("n"))
                   @@ "$defs" :> ("p" :> S("$dynamicAnchor" :> "n")))),
       "$id" :> Uri("r") @@ "$ref" :> Uri("s")
           @@ "$defs" :> ("q" :> S("$dynamicAnchor" :> "n" @@ "type" :> {"integer"})
               @@ "n" :> Resource("s", "items" :> S("$dynamicRef" :> Anchor("n"))
                   @@ "$defs" :> ("p" :> S("$anchor" :> "n" @@ "type" :> {"string"})))),
       "unevaluatedProperties" :> False @@ "$ref" :> Here(<<"$defs", "n">>)
           @@ "$defs" :> ("n" :> S("properties" :> ("a" :> Ref(Here(<<>>))) @@ "unevaluatedProperties" :> Text)) >>
Recursive(f) == f @@ "properties" :> ("a" :> S("$recursiveRef" :> Here(<<>>)))
References201909 ==
    << Recursive("additionalProperties" :> Integer),
       "$id" :> Uri("r") @@ "$recursiveAnchor" :> TRUE @@ "$ref" :> Uri("s") @@ "required" :> <<"b">>
           @@ "$defs" :> ("n" :> Resource("s", Recursive("$recursiveAnchor" :> TRUE))),
       "$id" :> Uri("r") @@ "$recursiveAnchor" :> FALSE @@ "$ref" :> Uri("s") @@ "required" :> <<"b">>
           @@ "$defs" :> ("n" :> Resource("s", Recursive("$recursiveAnchor" :> TRUE))),
       "$id" :> Uri("r") @@ "$recursiveAnchor" :> TRUE @@ "$ref" :> Uri("s") @@ "required" :> <<"b">>
           @@ "$defs" :> ("n" :> Resource("s", Recursive("$recursiveAnchor" :> FALSE))) >>
References7 ==
    << Tree,
       "$ref" :> Here(<<"definitions", "n">>) @@ "required" :> <<"b">>
           @@ "definitions" :> ("n" :> S("maxProperties" :> 1 @@ "type" :> {"object", "integer"})),
       "properties" :> ("a" :> Ref(Uri("s"))) @@ "definitions" :> ("n" :> Resource("s", Tree)) >>

Objects(draft, fs) == [i \in DOMAIN fs |-> <<draft, S(fs[i])>>]
Documents ==
    Objects("2020-12", Documents202012 \o References202012)
    \o Objects("2019-09", Documents201909 \o References201909)
    \o Objects("7", Documents7 \o References7) \o Objects("6", Documents6 \o References7)
    \o Objects("4", Documents4 \o References7)
    \o <<<<"2020-12", True>>, <<"2020-12", False>>>>

Values == {One, Str, EmptyObject, Object("a" :> One), Object("b" :> Str)}
Instances ==
    {Atom(a) : a \in {"one", "half", "two", "three", "true", "null", "a", "b"}}
    \cup {Array(s) : s \in {<<>>, <<One>>, <<One, One>>, <<One, Str>>, <<Str, One>>, <<Str, Atom("b")>>,
                            <<One, Str, One>>, <<Str, One, Str>>, <<Object("a" :> One)>>, <<Array(<<One>>), Str>>}}
    \cup {Object(f) : f \in UNION {[ns -> Values] : ns \in SUBSET {"a", "b"}}}

------------------------------------------------------------------------------
NoDocument == [draft |-> "", at |-> <<>>, store |-> <<>>]
NoInstance == NoValue

Unused == instance = NoInstance /\ outcome = Fresh(FALSE) /\ early = <<>> /\ visits = <<>>
Init == document \in DOMAIN Documents /\ phase = "named" /\ built = NoDocument /\ Unused

Compile ==
    /\ phase = "named"
    /\ built' = Built(Documents[document][1], Documents[document][2])
    /\ phase' = IF Undefined(built') THEN "undefined" ELSE "compiled"
    /\ UNCHANGED <<document, instance, outcome, early, visits>>

Collect ==
    /\ phase = "compiled"
    /\ \E x \in Instances : instance' = x /\ outcome' = Validation(x, FALSE)
    /\ phase' = "collected"
    /\ UNCHANGED <<built, document, early, visits>>

StopEarly ==
    /\ phase = "collected"
    /\ early' = Validation(instance, TRUE).errors
    /\ phase' = "stopped"
    /\ UNCHANGED <<built, document, instance, outcome, visits>>

WalkThrough ==
    /\ phase = "stopped"
    /\ visits' = Walked(instance)
    /\ phase' = "walked"
    /\ UNCHANGED <<built, document, instance, outcome, early>>

Next == Compile \/ Collect \/ StopEarly \/ WalkThrough
Spec == Init /\ [][Next]_vars

------------------------------------------------------------------------------
\* A schema reports an error if and only if the instance is not valid, whatever the
\* keywords beside each other have claimed to be evaluated (object_schema_validator).
VerdictConforms == phase = "collected" => (outcome.errors = <<>>) = IsValid(instance)

\* Every reference leads to the schema of the document that it names, and a document
\* with one that leads nowhere is refused (schema_validator_factory_base).
ReferencesResolve ==
    phase \in {"undefined", "compiled"} =>
        LET referring == {<<p, k>> \in SchemaPaths \X References : Holds(p, k)}
            to(r) == Referents(Argument(r[1], r[2]), r[1])
        IN  /\ (phase = "undefined") = (\E r \in referring : to(r) = {})
            /\ phase = "compiled" => \A r \in referring : {Target(r[1], r[2])} = to(r)

\* A validation that stops at the first error finds what comes first in the one that
\* collects all: the errors of false schemas, which do not end it, and one that does.
EarlyIsFirst ==
    phase = "stopped" =>
        LET ends == {i \in DOMAIN outcome.errors : outcome.errors[i][1] # "false"}
        IN  IF ends = {} THEN early = outcome.errors
            ELSE early = SubSeq(outcome.errors, 1, CHOOSE i \in ends : \A j \in ends : i <= j)

\* Every error is about a value that is in the instance.
ErrorsAreLocated ==
    phase = "collected" => \A i \in DOMAIN outcome.errors : ValueAt(instance, outcome.errors[i][2]) # NoValue

\* x with members added.
RECURSIVE Extends(_, _)
Extends(y, x) ==
    IF x.kind # "object" THEN y = x
    ELSE IsObject(y) /\ \A n \in DOMAIN x.members : n \in DOMAIN y.members /\ Extends(y.members[n], x.members[n])

\* The patch of the defaults can be applied, and adds members without touching one
\* that the instance has.
DefaultsAreAdded ==
    phase = "collected" /\ IsObject(instance) =>
        LET patched == FoldLeft(LAMBDA v, o : IF v = NoValue THEN v ELSE Performed(v, o), instance, outcome.patch)
        IN  patched # NoValue /\ Extends(patched, instance)

\* A walk visits the keyword of every error, at its location or above it, or for a
\* member name, which has no location, at the member; except below the keywords that
\* it does not enter.
NotEntered == {"dependencies", "unevaluatedProperties", "unevaluatedItems"}
VisitedAt(visit, at) == IsPrefix(visit, at) \/ (visit # <<>> /\ Front(visit) = at)
WalkVisitsErrors ==
    phase = "walked" /\ (\A p \in SchemaPaths : \A k \in NotEntered : ~Holds(p, k)) =>
        \A i \in DOMAIN outcome.errors :
            outcome.errors[i][1] # "false" =>
                \E j \in DOMAIN visits :
                    visits[j][1] = outcome.errors[i][1] /\ VisitedAt(visits[j][2], outcome.errors[i][2])
==============================================================================
