------------------------- MODULE JsonSchemaReference -------------------------
(***************************************************************************)
(* What the keywords of JSON Schema mean (drafts 4 to 2020-12):            *)
(* whether an instance is valid against the schema at a path of the        *)
(* document, and which of its members and elements have been evaluated.    *)
(* The reference that JsonSchema is compared with: it knows no validators, *)
(* no order of keywords and no store, and what does not hold evaluates     *)
(* nothing.                                                                *)
(*                                                                         *)
(* Recursive operators: for model checking only.                           *)
(***************************************************************************)
EXTENDS JsonSchema

Says(valid, names, items) ==
    [valid |-> valid, names |-> IF valid THEN names ELSE {}, items |-> IF valid THEN items ELSE {}]
Claims(valid) == Says(valid, {}, {})
NamesOf(rs) == UNION {r.names : r \in rs}
ItemsOf(rs) == UNION {r.items : r \in rs}
Every(rs) == Says(\A r \in rs : r.valid, NamesOf(rs), ItemsOf(rs))
Some(rs, ok) == Says(ok, NamesOf(rs), ItemsOf(rs))
Valid(rs) == {r \in rs : r.valid}

------------------------------------------------------------------------------
\* Where a reference leads.  The resource of a schema is the closest one around it
\* that has an id; a pointer starts there, an anchor is one of the same resource.
SchemaPaths == DOMAIN built.at
ResourceOf(p) ==
    LET around == {n \in 0..Len(p) : n = 0 \/ (SubSeq(p, 1, n) \in SchemaPaths /\ HasId(SchemaOf(SubSeq(p, 1, n))))}
    IN  SubSeq(p, 1, CHOOSE n \in around : \A m \in around : m <= n)
ResourcesNamed(uri, p) ==
    IF uri[1] = "" THEN {ResourceOf(p)}
    ELSE {q \in SchemaPaths : HasId(SchemaOf(q)) /\ SchemaOf(q)[2]["$id"][1] = uri[1]}
AnchoredAs(q, k, name) == Holds(q, k) /\ Argument(q, k) = name
Referents(uri, p) ==
    UNION {IF uri[2] = "pointer" THEN {resource \o uri[3]} \cap SchemaPaths
           ELSE {q \in SchemaPaths : /\ ResourceOf(q) = resource
                                     /\ \E k \in {"$anchor", "$dynamicAnchor"} : AnchoredAs(q, k, uri[3])} :
           resource \in ResourcesNamed(uri, p)}
ReferredTo(uri, p) == CHOOSE q \in Referents(uri, p) : TRUE

\* The dynamic scope: the resources that the evaluation has entered.
Outermost(scope, has(_), otherwise) ==
    IF \E i \in DOMAIN scope : has(scope[i]) THEN SelectSeq(scope, has)[1] ELSE otherwise
DynamicallyAnchored(resource, name) ==
    {q \in SchemaPaths : ResourceOf(q) = resource /\ AnchoredAs(q, "$dynamicAnchor", name)}
DynamicallyReferredTo(uri, p, scope) ==
    LET first == ReferredTo(uri, p)
        has(resource) == DynamicallyAnchored(resource, uri[3]) # {}
    IN  IF uri[2] = "anchor" /\ AnchoredAs(first, "$dynamicAnchor", uri[3]) /\ \E i \in DOMAIN scope : has(scope[i])
        THEN CHOOSE q \in DynamicallyAnchored(Outermost(scope, has, first), uri[3]) : TRUE
        ELSE first
RecursivelyReferredTo(p, scope) ==
    LET has(q) == AnchoredAs(q, "$recursiveAnchor", TRUE)
    IN  IF has(ResourceOf(p)) THEN Outermost(scope, has, ResourceOf(p)) ELSE ResourceOf(p)

------------------------------------------------------------------------------
\* The assertions.
Size(x) == CASE IsArray(x) -> Len(x.items)
             [] IsObject(x) -> Cardinality(DOMAIN x.members)
             [] OTHER -> LengthOf(x.atom)
KindsOf(x) ==
    IF x.kind # "atom" THEN {x.kind}
    ELSE CASE KindOf(x.atom) = "int" -> {"number", "integer"}
           [] KindOf(x.atom) = "double" -> {"number"} \cup IF Number(x) % 2 = 0 THEN {"integer"} ELSE {}
           [] OTHER -> {KindOf(x.atom)}
Bounded == [maxLength |-> "string", minLength |-> "string", maxItems |-> "array", minItems |-> "array",
            maxProperties |-> "object", minProperties |-> "object"]
Limits == {"maximum", "minimum", "exclusiveMaximum", "exclusiveMinimum", "multipleOf"}

Asserted(k, arg, x) ==
    CASE k \in DOMAIN Bounded ->
           Bounded[k] \in KindsOf(x) =>
               IF k \in {"maxLength", "maxItems", "maxProperties"} THEN Size(x) <= arg ELSE arg <= Size(x)
      [] k \in Limits ->
           "number" \in KindsOf(x) =>
               LET d == Number(x) - Number(arg)
               IN  CASE k = "maximum" -> d <= 0 [] k = "minimum" -> d >= 0 [] k = "exclusiveMaximum" -> d < 0
                     [] k = "exclusiveMinimum" -> d > 0
                     [] OTHER -> \E n \in 0..Number(x) : n * Number(arg) = Number(x)
      [] k = "pattern" -> "string" \in KindsOf(x) => Matches(x.atom, arg)
      [] k = "uniqueItems" -> arg /\ IsArray(x) => Cardinality(ToSet(x.items)) = Len(x.items)
      [] k = "enum" -> x \in ToSet(arg)
      [] k = "const" -> x = arg
      [] k = "type" -> arg \cap KindsOf(x) # {}
      [] k = "required" -> IsObject(x) => ToSet(arg) \subseteq DOMAIN x.members
      [] k = "dependentRequired" ->
           IsObject(x) => \A n \in DOMAIN arg \cap DOMAIN x.members : ToSet(arg[n]) \subseteq DOMAIN x.members

------------------------------------------------------------------------------
RECURSIVE Evaluate(_, _, _)

\* Keywords that apply schemas to the instance itself.
InPlace(k, p, x, scope) ==
    LET sub(key) == Evaluate(p \o key, x, scope)
        all == {sub(<<k, Numeral(i - 1)>>) : i \in DOMAIN Argument(p, k)}
        ones == {i \in DOMAIN Argument(p, k) : sub(<<k, Numeral(i - 1)>>).valid}
        branch == IF sub(<<"if">>).valid THEN "then" ELSE "else"
    IN  CASE k = "$ref" -> Evaluate(ReferredTo(Argument(p, k), p), x, scope)
          [] k = "$dynamicRef" -> Evaluate(DynamicallyReferredTo(Argument(p, k), p, scope), x, scope)
          [] k = "$recursiveRef" -> Evaluate(RecursivelyReferredTo(p, scope), x, scope)
          [] k = "allOf" -> Every(all)
          [] k = "anyOf" -> Some(Valid(all), ones # {})
          [] k = "oneOf" -> Some(Valid(all), Cardinality(ones) = 1)
          [] k = "not" -> Claims(~sub(<<"not">>).valid)
          [] k = "if" ->
               LET then == IF Holds(p, branch) THEN sub(<<branch>>) ELSE Claims(TRUE)
               IN  Some(Valid({sub(<<"if">>), then}), then.valid)

\* Keywords that apply schemas to the members of an object.
InObject(k, p, x, scope) ==
    LET arg == Argument(p, k)
        names == DOMAIN x.members
        declared == IF Holds(p, "properties") THEN DOMAIN Argument(p, "properties") ELSE {}
        patterns == IF Holds(p, "patternProperties") THEN DOMAIN Argument(p, "patternProperties") ELSE {}
        matched == {n \in names : \E r \in patterns : Matches(n, r)}
        of(ns, ok(_)) == Says(\A n \in ns : ok(n), ns, {})
        member(key, n) == Evaluate(p \o key, x.members[n], scope).valid
    IN  CASE k = "properties" -> of(names \cap declared, LAMBDA n : member(<<k, n>>, n))
          [] k = "patternProperties" ->
               of(matched, LAMBDA n : \A r \in patterns : Matches(n, r) => member(<<k, r>>, n))
          [] k = "additionalProperties" -> of(names \ (declared \cup matched), LAMBDA n : member(<<k>>, n))
          [] k = "propertyNames" -> Claims(\A n \in names : Evaluate(p \o <<k>>, Atom(n), scope).valid)
          [] k = "dependentSchemas" -> Every({Evaluate(p \o <<k, n>>, x, scope) : n \in names \cap DOMAIN arg})
          [] k = "dependencies" ->
               Every({IF IsSchema(arg[n]) THEN Evaluate(p \o <<k, n>>, x, scope)
                      ELSE Claims(ToSet(arg[n][2]) \subseteq names) : n \in names \cap DOMAIN arg})

\* Keywords that apply schemas to the elements of an array.
InArray(k, p, x, scope) ==
    LET arg == Argument(p, k)
        all == 0..(Len(x.items) - 1)
        tuple(j) == IF j = "items" THEN Argument(p, j)[2] ELSE Argument(p, j)
        behind(j) == IF Holds(p, j) THEN {i \in all : i >= Len(tuple(j))} ELSE all
        of(is, ok(_)) == Says(\A i \in is : ok(i), {}, is)
        element(key, i) == Evaluate(p \o key, x.items[i + 1], scope).valid
        first == of({i \in all : i < Len(tuple(k))}, LAMBDA i : element(<<k, Numeral(i)>>, i))
        found == {i \in all : element(<<"contains">>, i)}
        bound(j, otherwise) == IF Holds(p, j) THEN Argument(p, j) ELSE otherwise
    IN  CASE k = "prefixItems" -> first
          [] k = "items" -> IF ~IsSchema(arg) THEN first
                            ELSE of(IF built.draft = "2020-12" THEN behind("prefixItems") ELSE all,
                                    LAMBDA i : element(<<k>>, i))
          [] k = "additionalItems" ->
               IF ~Holds(p, "items") \/ IsSchema(Argument(p, "items")) THEN Claims(TRUE)
               ELSE of(behind("items"), LAMBDA i : element(<<k>>, i))
          [] k = "contains" ->
               Says(/\ Cardinality(found) >= bound("minContains", 1)
                    /\ Cardinality(found) <= bound("maxContains", Len(x.items)),
                    {}, IF built.draft = "2020-12" THEN found ELSE {})

Applicators == {"$ref", "$dynamicRef", "$recursiveRef", "allOf", "anyOf", "oneOf", "not", "if"}
ForObjects == {"properties", "patternProperties", "additionalProperties", "propertyNames", "dependentSchemas", "dependencies"}
ForArrays == {"prefixItems", "items", "additionalItems", "contains"}
Asserting == DOMAIN Bounded \cup Limits \cup
             {"pattern", "uniqueItems", "enum", "const", "type", "required", "dependentRequired"}

\* Draft 4 does not know all of them, and has flags for the exclusive limits.
Unknown(k) == CASE built.draft = "4" -> k \in {"const", "contains", "propertyNames", "if"}
                [] built.draft = "6" -> k = "if"
                [] OTHER -> FALSE
Flagged(k, p) == built.draft = "4" /\ Holds(p, k) /\ Argument(p, k)
Limited(k, p, x) ==
    CASE k = "maximum" -> Asserted(IF Flagged("exclusiveMaximum", p) THEN "exclusiveMaximum" ELSE k, Argument(p, k), x)
      [] k = "minimum" -> Asserted(IF Flagged("exclusiveMinimum", p) THEN "exclusiveMinimum" ELSE k, Argument(p, k), x)
      [] OTHER -> built.draft = "4" \/ Asserted(k, Argument(p, k), x)

Meaning(k, p, x, scope) ==
    CASE Unknown(k) -> Claims(TRUE)
      [] k \in {"maximum", "minimum", "exclusiveMaximum", "exclusiveMinimum"} -> Claims(Limited(k, p, x))
      [] k \in Applicators -> InPlace(k, p, x, scope)
      [] k \in ForObjects -> IF IsObject(x) THEN InObject(k, p, x, scope) ELSE Claims(TRUE)
      [] k \in ForArrays -> IF IsArray(x) THEN InArray(k, p, x, scope) ELSE Claims(TRUE)
      [] k \in Asserting -> Claims(Asserted(k, Argument(p, k), x))
      [] OTHER -> Claims(TRUE)

\* The unevaluated keywords look at what the others have left.
Evaluate(p, x, scope) ==
    LET inner == IF scope # <<>> /\ Last(scope) = ResourceOf(p) THEN scope ELSE Append(scope, ResourceOf(p))
        keywords == IF IsBareRef(built.draft, SchemaOf(p)) THEN {"$ref"} ELSE Keywords(SchemaOf(p))
        r == Every({Meaning(k, p, x, inner) : k \in keywords})
        names == IF IsObject(x) /\ "unevaluatedProperties" \in keywords THEN DOMAIN x.members \ r.names ELSE {}
        items == IF IsArray(x) /\ "unevaluatedItems" \in keywords THEN (0..(Len(x.items) - 1)) \ r.items ELSE {}
    IN  IF SchemaOf(p)[1] = "bool" THEN Claims(SchemaOf(p)[2])
        ELSE Says(/\ r.valid
                  /\ \A n \in names : Evaluate(p \o <<"unevaluatedProperties">>, x.members[n], inner).valid
                  /\ \A i \in items : Evaluate(p \o <<"unevaluatedItems">>, x.items[i + 1], inner).valid,
                  r.names \cup names, r.items \cup items)

IsValid(x) == Evaluate(<<>>, x, <<>>).valid
==============================================================================
