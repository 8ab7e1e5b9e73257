----------------------------- MODULE JsonPointer -----------------------------
(***************************************************************************)
(* jsonpointer: reading and editing a JSON value at a location.  A value   *)
(* is a tree; a location is the sequence of its reference tokens.  Each    *)
(* editing function returns the new root and the error code.               *)
(***************************************************************************)
EXTENDS Integers, Sequences, SequencesExt

CONSTANTS
    Keys,       \* the member names, in the order of a sorted object
    Numerals    \* the tokens that denote 0, 1, ... in an array; also names in an object.
                \* Bound: an array is full when it has as many elements

Dash == "-"         \* the place after the last element
Beyond == "beyond"  \* a token that denotes an index for which Numerals has none

ASSUME TokensAssumption ==
    /\ Keys \in Seq(STRING) /\ Numerals \in Seq(STRING) /\ Beyond \in STRING
    /\ IsInjective(Keys) /\ IsInjective(Numerals)
    /\ \A i \in DOMAIN Numerals : Numerals[i] \notin {Dash, Beyond}

\* Values.  The fields that a kind does not use are empty.
Atom(a) == [kind |-> "atom", atom |-> a, items |-> <<>>, members |-> <<>>]
Array(s) == [kind |-> "array", atom |-> "", items |-> s, members |-> <<>>]
Object(f) == [kind |-> "object", atom |-> "", items |-> <<>>, members |-> f]
EmptyObject == Object([k \in {} |-> Atom("")])

\* v is a value whose members or elements are in S.
IsMadeOf(v, S) ==
    \/ v = Atom(v.atom)
    \/ v = Array(v.items) /\ v.items \in Seq(S)
    \/ v = Object(v.members) /\ v.members \in [DOMAIN v.members -> S]

IsArray(v) == v.kind = "array"
IsObject(v) == v.kind = "object"

IsNumeral(t) == \E i \in DOMAIN Numerals : Numerals[i] = t
Index(t) == (CHOOSE i \in DOMAIN Numerals : Numerals[i] = t) - 1    \* dec_to_integer
Numeral(n) == IF n < Len(Numerals) THEN Numerals[n + 1] ELSE Beyond  \* from_integer

Ok(v) == [ec |-> "none", root |-> v]
Err(e, v) == [ec |-> e, root |-> v]
Failed(r) == r.ec # "none"

------------------------------------------------------------------------------
\* What is wrong with token t as the index of one of the first n elements.
IndexError(t, n) ==
    IF t = Dash THEN "index_exceeds_array_size"
    ELSE IF ~IsNumeral(t) THEN "invalid_index"
    ELSE IF Index(t) >= n THEN "index_exceeds_array_size"
    ELSE "none"

\* detail::resolve, with create_if_missing unset.
ResolveError(v, t) ==
    IF IsArray(v) THEN IndexError(t, Len(v.items))
    ELSE IF ~IsObject(v) THEN "expected_object_or_array"
    ELSE IF t \notin DOMAIN v.members THEN "key_not_found"
    ELSE "none"

Child(v, t) == IF IsArray(v) THEN v.items[Index(t) + 1] ELSE v.members[t]

Resolve(r, t) ==
    IF Failed(r) THEN r
    ELSE IF ResolveError(r.root, t) # "none" THEN Err(ResolveError(r.root, t), r.root)
    ELSE Ok(Child(r.root, t))

\* What the first i tokens of path lead to, for each i: a value, or the first error.
Along(root, path) ==
    LET at[i \in 0 .. Len(path)] == IF i = 0 THEN Ok(root) ELSE Resolve(at[i - 1], path[i])
    IN  at

Get(root, path) == Along(root, path)[Len(path)]

------------------------------------------------------------------------------
\* Editing the last container of the path, at its last token.

With(v, t, x) == Object([k \in DOMAIN v.members \cup {t} |-> IF k = t THEN x ELSE v.members[k]])
Without(v, t) == Object([k \in DOMAIN v.members \ {t} |-> v.members[k]])

\* Mutant: an index must be that of an element, not that of the end.
AddElementInside(v, t, x) ==
    IF t = Dash THEN Ok(Array(Append(v.items, x)))
    ELSE IF IndexError(t, Len(v.items)) # "none" THEN Err(IndexError(t, Len(v.items)), v)
    ELSE Ok(Array(InsertAt(v.items, Index(t) + 1, x)))

\* add and add_if_absent, in an array: an insertion, or an append at its end.
AddElement(v, t, x) ==
    IF t = Dash THEN Ok(Array(Append(v.items, x)))
    ELSE IF IndexError(t, Len(v.items) + 1) # "none" THEN Err(IndexError(t, Len(v.items) + 1), v)
    ELSE Ok(Array(InsertAt(v.items, Index(t) + 1, x)))

\* The function f of jsonpointer, where its loop over the tokens has ended.
EditHere(f, v, t, x) ==
    IF IsArray(v)
    THEN IF f \in {"add", "add_if_absent"} THEN AddElement(v, t, x)
         ELSE IF ResolveError(v, t) # "none" THEN Err(ResolveError(v, t), v)
         ELSE Ok(Array(IF f = "remove" THEN RemoveAt(v.items, Index(t) + 1)
                                       ELSE [v.items EXCEPT ![Index(t) + 1] = x]))
    ELSE IF ~IsObject(v) THEN Err("expected_object_or_array", v)
    ELSE IF f = "add" THEN Ok(With(v, t, x))
    ELSE IF f = "add_if_absent"
    THEN IF t \in DOMAIN v.members THEN Err("key_already_exists", v) ELSE Ok(With(v, t, x))
    ELSE IF t \notin DOMAIN v.members THEN Err("key_not_found", v)
    ELSE Ok(IF f = "remove" THEN Without(v, t) ELSE With(v, t, x))

\* v when its child at t becomes x.
Put(v, t, x) ==
    IF IsArray(v) THEN Array([v.items EXCEPT ![Index(t) + 1] = x]) ELSE With(v, t, x)

\* The functions edit a value in place, through their pointer, current, which has
\* come to it along path.  When it has become x, what has the value become that
\* is k tokens before it?
Back(root, path, x) ==
    LET n == Len(path)
        at == Along(root, path)
        up[k \in 0 .. n] == IF k = 0 THEN x ELSE Put(at[n - k].root, path[n - k + 1], up[k - 1])
    IN  up

Assigned(root, path, x) == Back(root, path, x)[Len(path)]

\* At the empty location all but remove assign to the root.
Edit(f, root, path, x) ==
    LET current == Get(root, Front(path))
        edited == EditHere(f, current.root, Last(path), x)
    IN  IF path = <<>>
        THEN IF f = "remove" THEN Err("cannot_remove_root", root) ELSE Ok(x)
        ELSE IF Failed(current) THEN Err(current.ec, root)
        ELSE IF Failed(edited) THEN Err(edited.ec, root)
        ELSE Ok(Assigned(root, Front(path), edited.root))

AddIfAbsent(root, path, x) == Edit("add_if_absent", root, path, x)
RemoveFrom(root, path) == Edit("remove", root, path, Atom(""))
Replace(root, path, x) == Edit("replace", root, path, x)
==============================================================================
