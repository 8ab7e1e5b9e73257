----------------------------- MODULE JsonSchema -----------------------------
(***************************************************************************)
(* jsonschema, validating an instance: what each keyword reports, what it  *)
(* claims to have evaluated, and the defaults that it proposes to add.     *)
(* Each keyword is an operator on the validator v (the path of its         *)
(* schema), the instance x at the location at, the context and the state s *)
(* of the validation; it stops where the reporter says so.                 *)
(*                                                                         *)
(* Recursive operators: for model checking only.                           *)
(***************************************************************************)
EXTENDS JsonSchemaStore

CONSTANTS
    KindOf(_),      \* of an atom: null, boolean, int, double, bigint (a string tagged as one) or string
    NumberOf(_),    \* the value of a number, in halves
    LengthOf(_),    \* the number of codepoints of a string
    Matches(_, _)   \* whether a string is found by a pattern

VARIABLE built      \* what the document has been compiled to

IsAtom(x, kinds) == x.kind = "atom" /\ KindOf(x.atom) \in kinds
IsString(x) == IsAtom(x, {"string", "bigint"})
IsNumber(x) == IsAtom(x, {"int", "double", "bigint"})
Number(x) == NumberOf(x.atom)

\* The assertions: whether instance x is what the argument of the keyword asks for.
Pattern(arg, x) == IsString(x) => Matches(x.atom, arg)
MaxLength(arg, x) == IsString(x) => LengthOf(x.atom) <= arg
MinLength(arg, x) == IsString(x) => LengthOf(x.atom) >= arg
MaxItems(arg, x) == IsArray(x) => Len(x.items) <= arg
MinItems(arg, x) == IsArray(x) => Len(x.items) >= arg
MaxProperties(arg, x) == IsObject(x) => Cardinality(DOMAIN x.members) <= arg
MinProperties(arg, x) == IsObject(x) => Cardinality(DOMAIN x.members) >= arg
UniqueItems(arg, x) ==
    arg /\ IsArray(x) => \A i, j \in DOMAIN x.items : i < j => x.items[i] # x.items[j]
Maximum(arg, x) == IsNumber(x) => Number(x) <= Number(arg)
Minimum(arg, x) == IsNumber(x) => Number(x) >= Number(arg)
ExclusiveMaximum(arg, x) == IsNumber(x) => Number(x) < Number(arg)
ExclusiveMinimum(arg, x) == IsNumber(x) => Number(x) > Number(arg)
MultipleOf(arg, x) == IsNumber(x) /\ Number(x) # 0 => Number(x) % Number(arg) = 0
Enum(arg, x) == \E i \in DOMAIN arg : arg[i] = x
Const(arg, x) == arg = x
Type(arg, x) ==
    \E t \in arg :
        CASE t = "array" -> IsArray(x)
          [] t = "object" -> IsObject(x)
          [] t = "string" -> IsAtom(x, {"string"})
          [] t = "integer" -> IsAtom(x, {"int", "bigint"}) \/ (IsAtom(x, {"double"}) /\ Number(x) % 2 = 0)
          [] t = "number" -> IsNumber(x)
          [] OTHER -> IsAtom(x, {t})

Satisfied(k, arg, x) ==
    CASE k = "pattern" -> Pattern(arg, x) [] k = "maxLength" -> MaxLength(arg, x) [] k = "minLength" -> MinLength(arg, x)
      [] k = "maxItems" -> MaxItems(arg, x) [] k = "minItems" -> MinItems(arg, x)
      [] k = "maxProperties" -> MaxProperties(arg, x) [] k = "minProperties" -> MinProperties(arg, x)
      [] k = "uniqueItems" -> UniqueItems(arg, x) [] k = "maximum" -> Maximum(arg, x) [] k = "minimum" -> Minimum(arg, x)
      [] k = "exclusiveMaximum" -> ExclusiveMaximum(arg, x) [] k = "exclusiveMinimum" -> ExclusiveMinimum(arg, x)
      [] k = "multipleOf" -> MultipleOf(arg, x) [] k = "enum" -> Enum(arg, x) [] k = "const" -> Const(arg, x)
      [] k = "type" -> Type(arg, x)

------------------------------------------------------------------------------
\* The state of a validation: the names and indexes claimed to be evaluated, the errors
\* <<keyword, location>>, the patch of defaults, and whether an error ends it.
Fresh(early) ==
    [names |-> {}, items |-> {}, errors |-> <<>>, patch |-> <<>>, early |-> early, stop |-> FALSE]
NoContext == [names |-> FALSE, items |-> FALSE, scope |-> <<>>]
Unflagged(ctx) == [ctx EXCEPT !.names = FALSE, !.items = FALSE]

\* Mutant: an error ends nothing.
ReportAndGoOn(s, k, at) == [s EXCEPT !.errors = Append(@, <<k, at>>)]
Report(s, k, at) == [s EXCEPT !.errors = Append(@, <<k, at>>), !.stop = s.early]

\* A collecting_error_listener in the place of the reporter, with results of its own;
\* its user returns to the state s before, keeping the patch.
Collecting(s) == [s EXCEPT !.errors = <<>>, !.early = FALSE]
Local(s) == [Collecting(s) EXCEPT !.names = {}, !.items = {}]
Merged(s, r) == [s EXCEPT !.names = @ \cup r.names, !.items = @ \cup r.items]
Patched(s, r) == [s EXCEPT !.patch = r.patch]
Grown(s, r) == Len(r.errors) > Len(s.errors)

Through(s, seq, f(_, _)) == FoldLeft(LAMBDA r, e : IF r.stop THEN r ELSE f(r, e), s, seq)
Members(x) == NamesIn(x.members)
Indexes(x, from) == [i \in 1..(Len(x.items) - from) |-> from + i - 1]

SchemaOf(v) == built.at[v].schema
Argument(v, k) == SchemaOf(v)[2][k]
Holds(v, k) == k \in Keywords(SchemaOf(v))
ValidatorsOf(v) == Validators(built.draft, SchemaOf(v))
List(v, k) == [i \in DOMAIN Argument(v, k) |-> v \o <<k, Numeral(i - 1)>>]

\* init: a schema that fails or succeeds whatever the instance is.  Only not says so
\* of itself, and no schema with an unevaluated keyword does.
RECURSIVE Always(_, _)
Always(v, fails) ==
    IF SchemaOf(v)[1] = "bool" THEN SchemaOf(v)[2] = ~fails
    ELSE LET ks == ToSet(ValidatorsOf(v))
         IN  /\ ks \subseteq {"not"} /\ (fails => ks # {})
             /\ \A k \in ks : Always(v \o <<k>>, ~fails)
AlwaysFails(v) == Always(v, TRUE)
AlwaysSucceeds(v) == Always(v, FALSE)

RECURSIVE Validate(_, _, _, _, _)

\* Elements of an array one after the other, each by f.  Those without an error are
\* claimed in runs, if the context asks for it: a run is inserted where it ends.
Claimed(run, t) == [t EXCEPT !.items = @ \cup run.start..(run.end - 1)]
Prolonged(run, i) ==
    IF run.start = run.end THEN [run EXCEPT !.start = i, !.end = i + 1] ELSE [run EXCEPT !.end = run.end + 1]
AfterElement(run, i, ctx, t) ==
    IF t.stop THEN [run EXCEPT !.s = t]
    ELSE IF Grown(run.s, t) THEN [run EXCEPT !.s = Claimed(run, t), !.start = run.end]
    ELSE [(IF ctx.items THEN Prolonged(run, i) ELSE run) EXCEPT !.s = t, !.valid = run.valid + 1]
AtEnd(run) == [s |-> Claimed(run, run.s), valid |-> run.valid]
Elements(s, ctx, indexes, f(_, _)) ==
    AtEnd(FoldLeft(LAMBDA run, i : IF run.s.stop THEN run ELSE AfterElement(run, i, ctx, f(run.s, i)),
                   [s |-> s, valid |-> 0, start |-> 0, end |-> 0], indexes))

Reference(target, x, at, ctx, s) == Validate(target, x, at, ctx, s)
Target(v, k) == built.store[TargetUri(built.at[v], k)]

\* The outermost resource in scope that has the anchor takes the reference over.
DynamicTarget(v, ctx) ==
    LET first == Target(v, "$dynamicRef")
        anchor == Argument(first, "$dynamicAnchor")
        having == SelectSeq(ctx.scope, LAMBDA p : anchor \in DOMAIN built.at[p].anchors)
    IN  IF Argument(v, "$dynamicRef")[2] = "anchor" /\ Holds(first, "$dynamicAnchor") /\ having # <<>>
        THEN built.store[built.at[having[1]].anchors[anchor]] ELSE first

RecursiveAnchor(p) == Holds(p, "$recursiveAnchor") /\ Argument(p, "$recursiveAnchor")
RecursiveTarget(v, ctx) ==
    LET first == Target(v, "$recursiveRef")
        having == SelectSeq(ctx.scope, RecursiveAnchor)
    IN  IF RecursiveAnchor(first) /\ having # <<>> THEN having[1] ELSE first

Items(v, x, at, ctx, s) ==
    LET sub == v \o <<"items">>
    IN  IF ~IsArray(x) \/ Len(x.items) = 0 THEN s
        ELSE IF AlwaysFails(sub) THEN Report(s, "items", at \o <<Numeral(0)>>)
        ELSE IF AlwaysSucceeds(sub) THEN [s EXCEPT !.items = @ \cup IF ctx.items THEN 0..(Len(x.items) - 1) ELSE {}]
        ELSE Elements(s, ctx, Indexes(x, 0),
                      LAMBDA t, i : Validate(sub, x.items[i + 1], at \o <<Numeral(i)>>, ctx, t)).s

\* Mutant: the location is that of the next item.
ItemsBehindByOne(v, k, n, x, at, ctx, s) ==
    IF ~Holds(v, k) \/ n >= Len(x.items) THEN s
    ELSE IF AlwaysFails(v \o <<k>>) THEN Report(s, k, at \o <<Numeral(n + 1)>>)
    ELSE Elements(s, ctx, Indexes(x, n),
                  LAMBDA t, i : Validate(v \o <<k>>, x.items[i + 1], at \o <<Numeral(i)>>, ctx, t)).s

\* items_keyword: the items behind the first n ones.
ItemsBehind(v, k, n, x, at, ctx, s) ==
    LET sub == v \o <<k>>
    IN  IF ~Holds(v, k) \/ n >= Len(x.items) THEN s
        ELSE IF AlwaysFails(sub) THEN Report(s, k, at \o <<Numeral(n)>>)
        ELSE IF AlwaysSucceeds(sub) THEN [s EXCEPT !.items = @ \cup 0..(Len(x.items) - 1)]
        ELSE Elements(s, ctx, Indexes(x, n),
                      LAMBDA t, i : Validate(sub, x.items[i + 1], at \o <<Numeral(i)>>, ctx, t)).s

Shorter(seq, other) == IF Len(seq) < Len(other) THEN Len(seq) ELSE Len(other)
BehindPrefix(v, k, n, x, at, ctx, r) == IF r.stop THEN r ELSE ItemsBehind(v, k, n, x, at, ctx, r)
PrefixItems(v, k, subs, x, at, ctx, s) ==
    IF ~IsArray(x) THEN s
    ELSE BehindPrefix(v, k, Shorter(subs, x.items), x, at, ctx,
                      Elements(s, ctx, [i \in 1..Shorter(subs, x.items) |-> i - 1],
                               LAMBDA t, i : Validate(subs[i + 1], x.items[i + 1], at \o <<Numeral(i)>>,
                                                      Unflagged(ctx), t)).s)

AtMost(v, n, at, s) ==
    IF Holds(v, "maxContains") /\ n > Argument(v, "maxContains") THEN Report(s, "maxContains", at) ELSE s
AtLeast(v, n, at, s) ==
    IF ~s.stop /\ n < IF Holds(v, "minContains") THEN Argument(v, "minContains") ELSE 1
    THEN Report(s, "minContains", at) ELSE s
Counted(v, at, s, all) == AtLeast(v, all.valid, at, AtMost(v, all.valid, at, Patched(Merged(s, all.s), all.s)))
ContainsItem(v, x, at, ctx, s) ==
    IF ~IsArray(x) THEN s
    ELSE Counted(v, at, s, Elements(Collecting(s), ctx, Indexes(x, 0), LAMBDA t, i :
                     Validate(v \o <<"contains">>, x.items[i + 1], at \o <<Numeral(i)>>, ctx, t)))

Negated(s, r, at) ==
    IF r.errors = <<>> THEN Report(Patched(s, r), "not", at) ELSE Patched(Merged(s, r), r)
Not(v, x, at, ctx, s) == Negated(s, Validate(v \o <<"not">>, x, at, ctx, Local(s)), at)

\* The branches of anyOf and oneOf that hold; each begins with an empty patch.
Branches(v, k, x, at, ctx, s) ==
    SelectSeq([i \in DOMAIN List(v, k) |-> Validate(List(v, k)[i], x, at, ctx, [Local(s) EXCEPT !.patch = <<>>])],
              LAMBDA r : r.errors = <<>>)
Joined(s, rs) == FoldLeft(LAMBDA t, r : [Merged(t, r) EXCEPT !.patch = @ \o r.patch], s, rs)

Chosen(k, holds, rs, at, s) == IF holds THEN Joined(s, rs) ELSE Report(s, k, at)
AnyHold(rs, at, s) == Chosen("anyOf", rs # <<>>, rs, at, s)
OneHolds(rs, at, s) == Chosen("oneOf", Len(rs) = 1, rs, at, s)
AnyOf(v, x, at, ctx, s) == AnyHold(Branches(v, "anyOf", x, at, ctx, s), at, s)
OneOf(v, x, at, ctx, s) == OneHolds(Branches(v, "oneOf", x, at, ctx, s), at, s)

OneMore(t, u) == IF Grown(t, u) THEN Patched([t EXCEPT !.errors = u.errors], u) ELSE Merged(u, t)
AllHold(s, r, at) == IF r.errors = <<>> THEN Patched(Merged(s, r), r) ELSE Report(Patched(s, r), "allOf", at)
AllOf(v, x, at, ctx, s) ==
    AllHold(s, FoldLeft(LAMBDA t, sub : OneMore(t, Validate(sub, x, at, ctx, [t EXCEPT !.names = {}, !.items = {}])),
                        Local(s), List(v, "allOf")), at)

Branch(v, k, x, at, ctx, s) == IF Holds(v, k) THEN Validate(v \o <<k>>, x, at, ctx, s) ELSE s
\* Mutant: an if that fails claims too.
DecidedClaimingAnyway(v, x, at, ctx, s, r) ==
    Branch(v, IF r.errors = <<>> THEN "then" ELSE "else", x, at, ctx, Patched(Merged(s, r), r))
Decided(v, x, at, ctx, s, r) ==
    Branch(v, IF r.errors = <<>> THEN "then" ELSE "else", x, at, ctx,
           Patched(IF r.errors = <<>> THEN Merged(s, r) ELSE s, r))
Conditional(v, x, at, ctx, s) ==
    IF ~Holds(v, "if") THEN s ELSE Decided(v, x, at, ctx, s, Validate(v \o <<"if">>, x, at, ctx, Local(s)))

Required(names, x, at, s) ==
    IF ~IsObject(x) THEN s
    ELSE Through(s, names, LAMBDA t, n : IF n \in DOMAIN x.members THEN t ELSE Report(t, "required", at))

DefaultOf(v) == IF SchemaOf(v)[1] = "object" /\ ~IsBareRef(built.draft, SchemaOf(v)) /\ Holds(v, "default")
                THEN <<Argument(v, "default")>> ELSE <<>>

\* A member, by a schema of its own: without an error its name is claimed.
Naming(n, ctx, s, r) == IF ctx.names /\ ~r.stop /\ ~Grown(s, r) THEN [r EXCEPT !.names = @ \cup {n}] ELSE r
Member(sub, n, x, at, ctx, s) ==
    Naming(n, ctx, s, Validate(sub, x.members[n], at \o <<n>>, Unflagged(ctx), s))

\* Mutant: the default is added even if the member is there.
AddedDefaultAnyway(v, n, x, at) ==
    IF DefaultOf(v) = <<>> THEN <<>> ELSE <<AddOf(at \o <<n>>, DefaultOf(v)[1])>>

\* The default of a member that is not there.
AddedDefault(v, n, x, at) ==
    IF n \in DOMAIN x.members \/ DefaultOf(v) = <<>> THEN <<>> ELSE <<AddOf(at \o <<n>>, DefaultOf(v)[1])>>

Properties(v, x, at, ctx, s) ==
    IF ~IsObject(x) THEN s
    ELSE LET declared == Argument(v, "properties")
             sub(n) == v \o <<"properties", n>>
             r == Through(s, SelectSeq(Members(x), LAMBDA n : n \in DOMAIN declared),
                          LAMBDA t, n : Member(sub(n), n, x, at, ctx, t))
         IN  Through(r, NamesIn(declared), LAMBDA t, n : [t EXCEPT !.patch = @ \o AddedDefault(sub(n), n, x, at)])

Found(v, n) == SelectSeq(NamesIn(Argument(v, "patternProperties")), LAMBDA p : Matches(n, p))
PatternProperties(v, x, at, ctx, s) ==
    IF ~IsObject(x) THEN s
    ELSE Through(s, Members(x), LAMBDA t, n :
             Through(t, Found(v, n), LAMBDA u, p : Member(v \o <<"patternProperties", p>>, n, x, at, ctx, u)))

\* The members that are left for additionalProperties.
Allowed(v, n) == \/ Holds(v, "properties") /\ n \in DOMAIN Argument(v, "properties")
                 \/ Holds(v, "patternProperties") /\ Found(v, n) # <<>>
Additional(v, x) == SelectSeq(Members(x), LAMBDA n : ~Allowed(v, n))

\* Properties and patternProperties come before it.
Declared(v, x, at, ctx, s) == IF Holds(v, "properties") THEN Properties(v, x, at, ctx, s) ELSE s
ByPattern(v, x, at, ctx, s) ==
    IF Holds(v, "patternProperties") /\ ~s.stop THEN PatternProperties(v, x, at, ctx, s) ELSE s
OneAdditional(n, at, ctx, r, u) ==
    IF r.errors # <<>> THEN Report(u, "additionalProperties", at)
    ELSE IF ctx.names THEN [u EXCEPT !.names = @ \cup {n}] ELSE u
WithAdditional(n, at, ctx, t, r) == OneAdditional(n, at, ctx, r, Patched(Merged(t, r), r))
AllAdditional(v, sub, x, at, ctx, s) ==
    IF ~IsObject(x) \/ s.stop THEN s
    ELSE IF AlwaysFails(sub)
    THEN Through(s, Additional(v, x), LAMBDA t, n : Report(t, "additionalProperties", at \o <<n>>))
    ELSE IF AlwaysSucceeds(sub)
    THEN [s EXCEPT !.names = @ \cup IF ctx.names THEN DOMAIN x.members ELSE {}]
    ELSE Through(s, Additional(v, x), LAMBDA t, n :
             WithAdditional(n, at, ctx, t,
                            Validate(sub, x.members[n], at \o <<n>>, Unflagged(ctx), Collecting(t))))
AdditionalProperties(v, x, at, ctx, s) ==
    AllAdditional(v, v \o <<"additionalProperties">>, x, at, ctx,
                  ByPattern(v, x, at, ctx, Declared(v, x, at, ctx, s)))

\* The keywords that apply if a member is there look at the whole object, but at the
\* location of that member.
Present(v, k, x) == IF IsObject(x) THEN SelectSeq(NamesIn(Argument(v, k)), LAMBDA n : n \in DOMAIN x.members) ELSE <<>>
DependentRequired(v, x, at, ctx, s) ==
    Through(s, Present(v, "dependentRequired", x),
            LAMBDA t, n : Required(Argument(v, "dependentRequired")[n], x, at \o <<n>>, t))
DependentSchemas(v, x, at, ctx, s) ==
    Through(s, Present(v, "dependentSchemas", x),
            LAMBDA t, n : Validate(v \o <<"dependentSchemas", n>>, x, at \o <<n>>, ctx, t))
Dependencies(v, x, at, ctx, s) ==
    LET arg == Argument(v, "dependencies")
        present(schemas) == SelectSeq(Present(v, "dependencies", x), LAMBDA n : IsSchema(arg[n]) = schemas)
    IN  Through(Through(s, present(FALSE), LAMBDA t, n : Required(arg[n][2], x, at \o <<n>>, t)),
                present(TRUE), LAMBDA t, n : Validate(v \o <<"dependencies", n>>, x, at \o <<n>>, ctx, t))

PropertyNames(v, x, at, ctx, s) ==
    LET sub == v \o <<"propertyNames">>
    IN  IF ~IsObject(x) \/ DOMAIN x.members = {} \/ AlwaysSucceeds(sub) THEN s
        ELSE IF AlwaysFails(sub) THEN Report(s, "propertyNames", at)
        ELSE Through(s, Members(x), LAMBDA t, n : Validate(sub, Atom(n), at, ctx, t))

UnevaluatedProperties(v, x, at, ctx, s) ==
    LET sub == v \o <<"unevaluatedProperties">>
        left == SelectSeq(Members(x), LAMBDA n : n \notin s.names)
        one(t, n) == IF n \in t.names THEN t ELSE Naming(n, ctx, t, Validate(sub, x.members[n], at, ctx, t))
    IN  IF ~IsObject(x) THEN s
        ELSE IF AlwaysFails(sub)
        THEN IF left = <<>> THEN s ELSE Report(s, "unevaluatedProperties", at \o <<left[1]>>)
        ELSE IF AlwaysSucceeds(sub)
        THEN [s EXCEPT !.names = @ \cup IF ctx.names THEN DOMAIN x.members ELSE {}]
        ELSE Through(s, Members(x), one)

\* Its validator calls itself unevaluatedProperties.
UnevaluatedItems(v, x, at, ctx, s) ==
    LET sub == v \o <<"unevaluatedItems">>
        left == SelectSeq(Indexes(x, 0), LAMBDA i : i \notin s.items)
    IN  IF ~IsArray(x) THEN s
        ELSE IF AlwaysFails(sub)
        THEN IF left = <<>> THEN s ELSE Report(s, "unevaluatedProperties", at \o <<Numeral(left[1])>>)
        ELSE IF AlwaysSucceeds(sub)
        THEN [s EXCEPT !.items = @ \cup IF ctx.items THEN 0..(Len(x.items) - 1) ELSE {}]
        ELSE Elements(s, ctx, left, LAMBDA t, i :
                          Validate(sub, x.items[i + 1], at \o <<Numeral(i)>>, Unflagged(ctx), t)).s

\* In draft 4 a limit says with a keyword of its own whether it is exclusive.
Exclusive == [maximum |-> "exclusiveMaximum", minimum |-> "exclusiveMinimum"]
AssertedAs(k, v) ==
    IF built.draft = "4" /\ k \in DOMAIN Exclusive /\ Holds(v, Exclusive[k]) /\ Argument(v, Exclusive[k])
    THEN Exclusive[k] ELSE k

Keyword(k, v, x, at, ctx, s) ==
    CASE k = "$ref" -> Reference(Target(v, k), x, at, ctx, s)
      [] k = "$dynamicRef" -> Reference(DynamicTarget(v, ctx), x, at, ctx, s)
      [] k = "$recursiveRef" -> Reference(RecursiveTarget(v, ctx), x, at, ctx, s)
      [] k = "if" -> Conditional(v, x, at, ctx, s)
      [] k = "allOf" -> AllOf(v, x, at, ctx, s)
      [] k = "anyOf" -> AnyOf(v, x, at, ctx, s)
      [] k = "oneOf" -> OneOf(v, x, at, ctx, s)
      [] k = "not" -> Not(v, x, at, ctx, s)
      [] k = "properties" -> Properties(v, x, at, ctx, s)
      [] k = "patternProperties" -> PatternProperties(v, x, at, ctx, s)
      [] k = "additionalProperties" -> AdditionalProperties(v, x, at, ctx, s)
      [] k = "propertyNames" -> PropertyNames(v, x, at, ctx, s)
      [] k = "required" -> Required(Argument(v, k), x, at, s)
      [] k = "dependentRequired" -> DependentRequired(v, x, at, ctx, s)
      [] k = "dependentSchemas" -> DependentSchemas(v, x, at, ctx, s)
      [] k = "dependencies" -> Dependencies(v, x, at, ctx, s)
      [] k = "prefixItems" -> PrefixItems(v, "items", List(v, k), x, at, ctx, s)
      [] k = "items" /\ IsSchema(Argument(v, k)) -> Items(v, x, at, ctx, s)
      [] k = "items" /\ ~IsSchema(Argument(v, k)) ->
            PrefixItems(v, "additionalItems", [i \in DOMAIN Argument(v, k)[2] |-> v \o <<k, Numeral(i - 1)>>], x, at, ctx, s)
      [] k = "contains" -> ContainsItem(v, x, at, ctx, s)
      [] k = "unevaluatedProperties" -> UnevaluatedProperties(v, x, at, ctx, s)
      [] k = "unevaluatedItems" -> UnevaluatedItems(v, x, at, ctx, s)
      [] OTHER -> IF Satisfied(AssertedAs(k, v), Argument(v, k), x) THEN s ELSE Report(s, AssertedAs(k, v), at)

\* A schema enters the dynamic scope if it is the first one or has an id.
Entered(v, ctx) ==
    [ctx EXCEPT !.scope = IF @ = <<>> \/ HasId(SchemaOf(v)) THEN Append(@, v) ELSE @]

\* An object schema claims for itself, and passes on what it is asked for.  A false
\* schema reports and goes on.
Asking(v, ctx) == [ctx EXCEPT !.names = @ \/ Holds(v, "unevaluatedProperties"),
                              !.items = @ \/ Holds(v, "unevaluatedItems")]
Passed(ctx, s, r) == [r EXCEPT !.names = s.names \cup IF ctx.names THEN r.names ELSE {},
                               !.items = s.items \cup IF ctx.items THEN r.items ELSE {}]
Keywordwise(v, x, at, ctx, s) ==
    Through([s EXCEPT !.names = {}, !.items = {}], ValidatorsOf(v), LAMBDA t, k : Keyword(k, v, x, at, ctx, t))
Validate(v, x, at, ctx, s) ==
    IF SchemaOf(v)[1] = "bool"
    THEN IF SchemaOf(v)[2] THEN s ELSE [Report(s, "false", at) EXCEPT !.stop = FALSE]
    ELSE Passed(ctx, s, Keywordwise(v, x, at, Asking(v, Entered(v, ctx)), s))

\* json_schema::validate, with a reporter that goes on or one that stops.
Validation(x, early) == Validate(<<>>, x, <<>>, NoContext, Fresh(early))

------------------------------------------------------------------------------
\* What a walk visits: the keywords, each with the location of the instance.
RECURSIVE Walk(_, _, _, _)

Visits(seq, f(_)) == FoldLeft(LAMBDA r, e : r \o f(e), <<>>, seq)
WalkElements(sub, from, x, at, ctx) ==
    Visits(Indexes(x, from), LAMBDA i : Walk(sub, x.items[i + 1], at \o <<Numeral(i)>>, ctx))
\* Mutant: the items behind are not visited.
WalkPrefixOnly(v, k, subs, x, at, ctx) ==
    Visits([i \in 1..(IF Len(subs) < Len(x.items) THEN Len(subs) ELSE Len(x.items)) |-> i],
           LAMBDA i : Walk(subs[i], x.items[i], at \o <<Numeral(i - 1)>>, ctx))
WalkPrefix(v, k, subs, x, at, ctx) ==
    LET n == IF Len(subs) < Len(x.items) THEN Len(subs) ELSE Len(x.items)
    IN  Visits([i \in 1..n |-> i], LAMBDA i : Walk(subs[i], x.items[i], at \o <<Numeral(i - 1)>>, ctx))
        \o IF n < Len(x.items) /\ Holds(v, k) THEN <<<<k, at>>>> \o WalkElements(v \o <<k>>, n, x, at, ctx) ELSE <<>>
WalkMember(sub, n, x, at, ctx) == Walk(sub, x.members[n], at \o <<n>>, ctx)

WalkProperties(v, x, at, ctx) ==
    LET declared == SelectSeq(Members(x), LAMBDA n : n \in DOMAIN Argument(v, "properties"))
    IN  <<<<"properties", at>>>> \o Visits(declared, LAMBDA n : WalkMember(v \o <<"properties", n>>, n, x, at, ctx))
WalkPatternProperties(v, x, at, ctx) ==
    <<<<"patternProperties", at>>>>
    \o Visits(Members(x), LAMBDA n : Visits(Found(v, n), LAMBDA p : WalkMember(v \o <<"patternProperties", p>>, n, x, at, ctx)))
WalkAdditionalProperties(v, x, at, ctx) ==
    <<<<"additionalProperties", at>>>>
    \o (IF Holds(v, "properties") THEN WalkProperties(v, x, at, ctx) ELSE <<>>)
    \o (IF Holds(v, "patternProperties") THEN WalkPatternProperties(v, x, at, ctx) ELSE <<>>)
    \o Visits(Additional(v, x), LAMBDA n : WalkMember(v \o <<"additionalProperties">>, n, x, at, ctx))

\* Of not, dependencies and the unevaluated keywords only the keyword is visited, of
\* if, then and else only what is below them.
WalkKeyword(k, v, x, at, ctx) ==
    LET self == <<<<k, at>>>>
        dependent(walk(_)) == IF ~IsObject(x) THEN <<>> ELSE self \o Visits(Present(v, k, x), walk)
    IN  CASE k = "$ref" -> Walk(Target(v, k), x, at, ctx)
          [] k = "$dynamicRef" -> Walk(DynamicTarget(v, ctx), x, at, ctx)
          [] k = "$recursiveRef" -> Walk(RecursiveTarget(v, ctx), x, at, ctx)
          [] k = "if" -> Visits(SelectSeq(<<"if", "then", "else">>, LAMBDA b : Holds(v, b)),
                                LAMBDA b : Walk(v \o <<b>>, x, at, ctx))
          [] k \in {"allOf", "anyOf", "oneOf"} -> self \o Visits(List(v, k), LAMBDA sub : Walk(sub, x, at, ctx))
          [] k = "properties" -> IF IsObject(x) THEN WalkProperties(v, x, at, ctx) ELSE <<>>
          [] k = "patternProperties" -> IF IsObject(x) THEN WalkPatternProperties(v, x, at, ctx) ELSE <<>>
          [] k = "additionalProperties" -> IF IsObject(x) THEN WalkAdditionalProperties(v, x, at, ctx) ELSE <<>>
          [] k = "propertyNames" ->
                IF ~IsObject(x) THEN <<>>
                ELSE self \o Visits(Members(x), LAMBDA n : Walk(v \o <<k>>, Atom(n), at \o <<n>>, ctx))
          [] k = "dependentRequired" -> dependent(LAMBDA n : <<<<"required", at \o <<n>>>>>>)
          [] k = "dependentSchemas" -> dependent(LAMBDA n : Walk(v \o <<k, n>>, x, at \o <<n>>, ctx))
          [] k = "prefixItems" -> IF IsArray(x) THEN self \o WalkPrefix(v, "items", List(v, k), x, at, ctx) ELSE <<>>
          [] k = "items" /\ IsSchema(Argument(v, k)) ->
                IF IsArray(x) THEN self \o WalkElements(v \o <<k>>, 0, x, at, ctx) ELSE <<>>
          [] k = "items" /\ ~IsSchema(Argument(v, k)) ->
                IF ~IsArray(x) THEN <<>>
                ELSE self \o WalkPrefix(v, "additionalItems",
                                        [i \in DOMAIN Argument(v, k)[2] |-> v \o <<k, Numeral(i - 1)>>], x, at, ctx)
          [] k = "contains" -> IF ~IsArray(x) THEN <<>>
                               ELSE self \o WalkElements(v \o <<k>>, 0, x, at, ctx)
                                    \o <<<<"maxContains", at>>, <<"minContains", at>>>>
          [] k = "unevaluatedItems" -> <<<<"unevaluatedProperties", at>>>>
          [] OTHER -> <<<<AssertedAs(k, v), at>>>>

Walk(v, x, at, ctx) ==
    IF SchemaOf(v)[1] = "bool" THEN <<>>
    ELSE Visits(ValidatorsOf(v), LAMBDA k : WalkKeyword(k, v, x, at, Entered(v, ctx)))
Walked(x) == Walk(<<>>, x, <<>>, NoContext)
==============================================================================
