--------------------------- MODULE JsonSchemaStore ---------------------------
(***************************************************************************)
(* jsonschema, from a document to its validators: the URIs under which     *)
(* each subschema is known, the store in which references are looked up,   *)
(* the anchors for dynamic references, and the keywords of a schema in the *)
(* order in which its validators run.  Drafts 4, 6, 7, 2019-09 and 2020-12; *)
(* the keyword id of draft 4 is called $id here.                           *)
(*                                                                         *)
(* Recursive operators: for model checking only.                           *)
(***************************************************************************)
EXTENDS JsonPatchReference, TLC

\* A schema is <<"bool", b>> or <<"object", f>>, f from keywords to what they say:
\* a schema, a function to schemas, a sequence of schemas, or a plain argument.
IsSchema(a) == a[1] \in {"bool", "object"}
Keywords(schema) == IF schema[1] = "bool" THEN {} ELSE DOMAIN schema[2]

\* A URI is <<document, "pointer", tokens>> or <<document, "anchor", name>>; the
\* document of a relative one is "".
Uri(base) == <<base, "pointer", <<>>>>
HasPlainName(uri) == uri[2] = "anchor"
Appended(uri, key) == <<uri[1], "pointer", Append(uri[3], key)>>
Resolved(base, uri) == IF uri[1] = "" THEN <<base[1], uri[2], uri[3]>> ELSE uri

First == {"4", "6", "7"}      \* the drafts in which a reference stands alone

Named == {"$defs", "definitions", "properties", "patternProperties", "dependentSchemas", "dependencies"}
Listed == {"allOf", "anyOf", "oneOf", "prefixItems"}

\* The keywords that hold subschemas, in the order in which they are compiled.
Holders(draft) ==
    CASE draft = "2020-12" ->
           <<"$defs", "propertyNames", "dependentSchemas", "if", "then", "else", "properties", "patternProperties",
             "additionalProperties", "prefixItems", "items", "allOf", "anyOf", "contains", "not", "oneOf",
             "unevaluatedProperties", "unevaluatedItems">>
      [] draft = "2019-09" ->
           <<"$defs", "propertyNames", "dependentSchemas", "if", "then", "else", "properties", "patternProperties",
             "additionalProperties", "items", "additionalItems", "allOf", "anyOf", "contains", "not", "oneOf",
             "unevaluatedProperties", "unevaluatedItems">>
      [] draft \in First ->
           <<"definitions", "allOf", "anyOf">> \o (IF draft = "4" THEN <<>> ELSE <<"contains">>)
           \o <<"dependencies", "not", "oneOf">> \o (IF draft = "4" THEN <<>> ELSE <<"propertyNames">>)
           \o (IF draft = "7" THEN <<"if", "then", "else">> ELSE <<>>)
           \o <<"properties", "patternProperties", "additionalProperties", "items", "additionalItems">>

NamesIn(f) == SelectSeq(Keys, LAMBDA k : k \in DOMAIN f)

\* The subschemas under keyword k, as <<sub keys, path, schema>>: the sub keys go into
\* the URI of the subschema, the path leads to it.
SubschemasAt(draft, f, k) ==
    LET arg == f[k]
        named == SelectSeq(NamesIn(arg), LAMBDA n : IsSchema(arg[n]))
        list == IF k = "items" THEN arg[2] ELSE arg
    IN  IF k \in Named
        THEN [i \in DOMAIN named |->
                 <<IF k \in {"$defs", "definitions", "properties"} THEN <<k, named[i]>> ELSE <<k>>,
                   <<k, named[i]>>, arg[named[i]]>>]
        ELSE IF k \in Listed \/ (k = "items" /\ draft # "2020-12" /\ ~IsSchema(arg))
        THEN [i \in DOMAIN list |-> <<<<k, Numeral(i - 1)>>, <<k, Numeral(i - 1)>>, list[i]>>]
        ELSE IF k = "additionalItems" /\ ("items" \notin DOMAIN f \/ IsSchema(f["items"])) THEN <<>>
        ELSE <<<<<<IF k = "items" /\ "prefixItems" \in DOMAIN f THEN "additionalItems" ELSE k>>, <<k>>, arg>>>>

\* Until draft 7 a reference replaces what stands beside it, save the definitions.
IsBareRef(draft, schema) == draft \in First /\ "$ref" \in Keywords(schema)

Subschemas(draft, schema) ==
    LET of(k) == SubschemasAt(draft, schema[2], k)
        holders == IF IsBareRef(draft, schema) THEN <<"definitions">> ELSE Holders(draft)
    IN  FoldLeft(LAMBDA s, k : IF k \in Keywords(schema) THEN s \o of(k) ELSE s, <<>>, holders)

AnchorsOf(draft, schema) ==
    SelectSeq(CASE draft \in First -> <<>> [] draft = "2019-09" -> <<"$anchor">> [] draft = "2020-12" -> <<"$anchor", "$dynamicAnchor">>,
              LAMBDA k : k \in Keywords(schema))
AddUri(uris, uri) == IF \E i \in DOMAIN uris : uris[i] = uri THEN uris ELSE Append(uris, uri)
HasId(schema) == "$id" \in Keywords(schema)

\* The URIs of a schema as those of a subschema, and with its id.
Moved(uris, keys) ==
    [i \in DOMAIN uris |-> FoldLeft(Appended, uris[i], keys)]
WithId(moved, base, schema) == IF HasId(schema) THEN AddUri(moved, Resolved(base, schema[2]["$id"])) ELSE moved
Known(uris, keys, schema) ==
    WithId(Moved(SelectSeq(uris, LAMBDA u : ~HasPlainName(u)), keys), Last(uris), schema)

\* Mutant: an anchor belongs to the resource of the first URI.
NewUrisByPointer(draft, uris, keys, schema) ==
    FoldLeft(LAMBDA us, k : AddUri(us, <<us[1][1], "anchor", schema[2][k]>>), Known(uris, keys, schema),
             AnchorsOf(draft, schema))

\* make_compilation_context: the URIs of a subschema.  The last one is its base.
NewUris(draft, uris, keys, schema) ==
    FoldLeft(LAMBDA us, k : AddUri(us, <<Last(us)[1], "anchor", schema[2][k]>>), Known(uris, keys, schema),
             AnchorsOf(draft, schema))

\* The dynamic anchor of a schema, and those that may be reached from it without
\* entering another resource.
NoAnchors == [n \in {} |-> <<>>]
OwnAnchor(draft, schema, uri) ==
    IF draft = "2020-12" /\ "$dynamicAnchor" \in Keywords(schema) THEN schema[2]["$dynamicAnchor"] :> uri ELSE NoAnchors
Beneath(r, c) == [nodes |-> r.nodes \o c.nodes, anchors |-> c.anchors @@ r.anchors]

\* make_schema_validator: the subschemas below one, and itself behind them.
RECURSIVE WithUris(_, _, _, _, _)
Compiled(draft, schema, path, outer, keys) == WithUris(draft, schema, path, outer, NewUris(draft, outer, keys, schema))
BaseOf(draft, schema, outer, uris) == IF IsBareRef(draft, schema) THEN outer ELSE uris
Node(draft, schema, path, outer, uris, below) ==
    [nodes |-> Append(below.nodes, [path |-> path, schema |-> schema, uris |-> uris, anchors |-> below.anchors,
                                    base |-> Last(BaseOf(draft, schema, outer, uris))]),
     anchors |-> IF HasId(schema) THEN NoAnchors ELSE below.anchors]
WithUris(draft, schema, path, outer, uris) ==
    Node(draft, schema, path, outer, uris,
         FoldLeft(LAMBDA r, sub : Beneath(r, Compiled(draft, sub[3], path \o sub[2],
                                                      BaseOf(draft, schema, outer, uris), sub[1])),
                  [nodes |-> <<>>, anchors |-> OwnAnchor(draft, schema, Last(uris))], Subschemas(draft, schema)))

\* build_schema: the validators by the paths of their schemas, and the store.
\* Of two schemas with the same URI the first one keeps it.
FirstWith(nodes, uri) == nodes[SelectInSeq(nodes, LAMBDA n : uri \in ToSet(n.uris))]
Stored(draft, nodes) ==
    [draft |-> draft,
     at |-> [p \in {nodes[i].path : i \in DOMAIN nodes} |-> nodes[SelectInSeq(nodes, LAMBDA n : n.path = p)]],
     store |-> [uri \in UNION {ToSet(nodes[i].uris) : i \in DOMAIN nodes} |-> FirstWith(nodes, uri).path]]
Built(draft, schema) == Stored(draft, Compiled(draft, schema, <<>>, <<Uri("default")>>, <<>>).nodes)

References == {"$ref", "$dynamicRef", "$recursiveRef"}
TargetUri(node, k) == Resolved(node.base, node.schema[2][k])

\* resolve_references: a reference that leads nowhere is an error.
Undefined(built) ==
    \E p \in DOMAIN built.at : \E k \in References \cap Keywords(built.at[p].schema) :
        TargetUri(built.at[p], k) \notin DOMAIN built.store

\* The keywords in the order in which their validators are made.
Assertions ==
    <<"allOf", "anyOf", "const", "contains", "dependencies", "dependentRequired", "enum", "exclusiveMaximum",
      "exclusiveMinimum", "maxItems", "maxLength", "maxProperties", "maximum", "minItems", "minLength",
      "minProperties", "minimum", "multipleOf", "not", "oneOf", "pattern", "propertyNames", "required", "type",
      "uniqueItems">>
Later == {"dependentRequired"}    \* since 2019-09
Earlier == {"dependencies", "propertyNames"}    \* among the assertions until draft 7
ObjectAndArray == <<"properties", "patternProperties", "additionalProperties", "prefixItems", "items">>

\* additionalProperties takes over properties and patternProperties, prefixItems takes
\* over items, and one validator stands for if, then and else.
MakesValidator(k, f) ==
    IF k = "if" THEN {"if", "then", "else"} \cap DOMAIN f # {}
    ELSE /\ k \in DOMAIN f
         /\ k \in {"properties", "patternProperties"} => "additionalProperties" \notin DOMAIN f
         /\ k = "items" => "prefixItems" \notin DOMAIN f

Order202012 ==
    <<"$ref", "$dynamicRef", "propertyNames", "dependentSchemas", "if">> \o ObjectAndArray
    \o SelectSeq(Assertions, LAMBDA k : k \notin Earlier) \o <<"unevaluatedProperties", "unevaluatedItems">>
Order201909 ==
    <<"$ref", "$recursiveRef", "propertyNames", "dependentSchemas", "if">>
    \o SelectSeq(ObjectAndArray, LAMBDA k : k # "prefixItems")
    \o SelectSeq(Assertions, LAMBDA k : k \notin Earlier) \o <<"unevaluatedProperties", "unevaluatedItems">>
SinceDraft6 == {"const", "contains", "propertyNames", "exclusiveMaximum", "exclusiveMinimum"}
FirstOrder(draft) ==
    SelectSeq(Assertions, LAMBDA k : k \notin Later /\ (draft = "4" => k \notin SinceDraft6))
    \o (IF draft = "7" THEN <<"if">> ELSE <<>>) \o SelectSeq(ObjectAndArray, LAMBDA k : k # "prefixItems")

Validators(draft, schema) ==
    IF IsBareRef(draft, schema) THEN <<"$ref">>
    ELSE SelectSeq(CASE draft = "2020-12" -> Order202012 [] draft = "2019-09" -> Order201909 [] OTHER -> FirstOrder(draft),
                   LAMBDA k : MakesValidator(k, schema[2]))
==============================================================================
