------------------------- MODULE JsonPatchReference --------------------------
(***************************************************************************)
(* What the operations of a JSON Patch mean (RFC 6902, section 4), one by  *)
(* one: the reference that JsonPatch is compared with.  What performing an *)
(* operation makes of a value is kept apart from whether the RFC allows    *)
(* it: two kinds of operation that it forbids could be performed.  The     *)
(* root is taken for a location that cannot be removed.                    *)
(***************************************************************************)
EXTENDS JsonPointer

\* An operation is a record: the fields that it lacks are in lacks, those that
\* are no JSON Pointer in malformed.
Op(op, path, value, from) ==
    [op |-> op, path |-> path, value |-> value, from |-> from, lacks |-> {}, malformed |-> {}]

NoValue == [Atom("none") EXCEPT !.kind = "none"]

AddOf(path, value) == Op("add", path, value, <<>>)
ReplaceOf(path, value) == Op("replace", path, value, <<>>)
RemoveOf(path) == [Op("remove", path, NoValue, <<>>) EXCEPT !.lacks = {"value"}]

Lacks(o, field) == field \in o.lacks
Malformed(o, field) == field \in o.malformed

\* Each function below yields NoValue when the operation is an error.

\* The member or the element of v that t names.
Part(v, t) ==
    IF IsObject(v) /\ t \in DOMAIN v.members THEN v.members[t]
    ELSE IF IsArray(v) /\ IsNumeral(t) /\ Index(t) < Len(v.items) THEN v.items[Index(t) + 1]
    ELSE NoValue

PartsAlong(v, path) ==
    LET part[i \in 0 .. Len(path)] == IF i = 0 THEN v ELSE Part(part[i - 1], path[i])
    IN  part

ValueAt(v, path) == PartsAlong(v, path)[Len(path)]

\* x as a new part of the value v.
PartAdded(v, t, x) ==
    LET place == IF t = Dash THEN Numeral(Len(v.items)) ELSE t
    IN  IF IsObject(v) THEN With(v, t, x)
        ELSE IF IsArray(v) /\ IsNumeral(place) /\ Index(place) <= Len(v.items)
        THEN Array(InsertAt(v.items, Index(place) + 1, x))
        ELSE NoValue

\* The value v where what is in it at path has become x, if x is a value.
Having(v, path, x) == IF x = NoValue THEN NoValue ELSE Assigned(v, path, x)

Added(v, path, x) ==
    IF path = <<>> THEN x
    ELSE Having(v, Front(path), PartAdded(ValueAt(v, Front(path)), Last(path), x))

Removed(v, path) ==
    LET whole == ValueAt(v, Front(path)) IN
    IF path = <<>> \/ ValueAt(v, path) = NoValue THEN NoValue
    ELSE Assigned(v, Front(path), IF IsObject(whole) THEN Without(whole, Last(path))
                                  ELSE Array(RemoveAt(whole.items, Index(Last(path)) + 1)))

\* x is looked up before the operation changes anything.
AddedIf(ok, v, path, x) == IF ok /\ v # NoValue /\ x # NoValue THEN Added(v, path, x) ELSE NoValue

\* A replacement is an addition to what is left of the value; at the root
\* nothing is left.
Replaced(v, path, x) ==
    IF path = <<>> THEN x ELSE AddedIf(TRUE, Removed(v, path), path, x)

OpNames == {"test", "add", "remove", "replace", "move", "copy"}

\* An operation of another name is performed by doing nothing.
Performed(v, o) ==
    IF o.lacks \cap {"op", "path"} # {} \/ Malformed(o, "path") THEN NoValue
    ELSE CASE o.op = "test" -> IF ~Lacks(o, "value") /\ ValueAt(v, o.path) = o.value THEN v ELSE NoValue
           [] o.op = "add" -> AddedIf(~Lacks(o, "value"), v, o.path, o.value)
           [] o.op = "remove" -> Removed(v, o.path)
           [] o.op = "replace" -> IF Lacks(o, "value") THEN NoValue ELSE Replaced(v, o.path, o.value)
           [] o.op \in {"move", "copy"} ->
                  IF Lacks(o, "from") \/ Malformed(o, "from") THEN NoValue
                  ELSE AddedIf(TRUE, IF o.op = "move" THEN Removed(v, o.from) ELSE v,
                               o.path, ValueAt(v, o.from))
           [] OTHER -> v

\* What the RFC forbids though it could be performed: a name that it does not know
\* (section 4), and a move of a value into one of its own parts (section 4.4).
Forbidden(o) == o.op \notin OpNames \/ (o.op = "move" /\ IsStrictPrefix(o.from, o.path))
==============================================================================
