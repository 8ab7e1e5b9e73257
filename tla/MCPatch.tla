------------------------------- MODULE MCPatch -------------------------------
(***************************************************************************)
(* JsonPatch for TLC.                                                      *)
(***************************************************************************)
EXTENDS JsonPatch

MCKeys == <<"0", "a", "b">>
MCNumerals == <<"0", "1", "2", "3", "4", "5">>

Small == {Atom("x"), Array(<<>>), Array(<<Atom("x")>>), EmptyObject}

\* Objects with the members in S, some of them missing.
Objects(S, V) == UNION {{Object(f) : f \in [D -> V]} : D \in SUBSET S}
Arrays(n, V) == {Array(s) : s \in UNION {[1 .. k -> V] : k \in 0 .. n}}

PatchDocs ==
    {Object([k \in {"a"} |-> Array(<<Atom("x"), Atom("y")>>)]),
     Object([k \in {"a", "b"} |-> IF k = "a" THEN EmptyObject ELSE Atom("x")]),
     Array(<<Atom("x"), Object([k \in {"a"} |-> Atom("y")])>>)}

\* Locations below the root: of members, of elements, and of none.
Below == {<<"a">>, <<"b">>, <<"0">>, <<"-">>, <<"a", "0">>, <<"a", "-">>, <<"a", "b">>,
          <<"0", "a">>, <<"1", "a">>, <<"b", "a">>}
Paths == Below \cup {<<>>}
Values == {Atom("x"), Array(<<Atom("z")>>)}

Faulty == {[Op(op, <<"a">>, Atom("x"), <<"a">>) EXCEPT !.lacks = lacks, !.malformed = malformed] :
              op \in {"test", "add", "replace", "move", "copy"},
              lacks \in {{}, {"op"}, {"path"}, {"value"}, {"from"}},
              malformed \in {{}, {"path"}, {"from"}}}
Unknown == {Op("merge", <<"a">>, Atom("x"), <<>>)}

\* Operations that add to places in S.
OpsAt(S) ==
    {Op(op, path, v, <<>>) : op \in {"test", "replace"}, path \in Paths, v \in Values}
    \cup {RemoveOf(path) : path \in Paths}
    \cup {AddOf(path, v) : path \in S, v \in Values}
    \cup {Op(op, path, NoValue, from) : op \in {"move", "copy"}, path \in S, from \in Paths}
    \cup Faulty \cup Unknown

BelowRoot == OpsAt(Below)
AnyPlace == OpsAt(Paths)

DiffDocs == Objects({"0", "a"}, Small) \cup Arrays(3, Small) \cup Small
            \cup {Object([k \in {"b"} |-> v]) : v \in Arrays(2, {Atom("x"), EmptyObject})}
NoGoals == {}

\* The parts of the values in S.
PartsOf(S) == UNION {Range(v.items) \cup {v.members[k] : k \in DOMAIN v.members} : v \in S}

Whole == PatchDocs \cup DiffDocs \cup Values
AllParts == Whole \cup PartsOf(Whole) \cup PartsOf(PartsOf(Whole))
MadeOfParts(S) == {v \in AllParts : IsMadeOf(v, S)}
MCLevels == <<MadeOfParts({}), MadeOfParts(MadeOfParts({})), AllParts>>

==============================================================================
