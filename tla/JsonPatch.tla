------------------------------ MODULE JsonPatch ------------------------------
(***************************************************************************)
(* jsonpatch::apply_patch and from_diff.  The operations of the patch are  *)
(* applied to the target one after another; each that changes it leaves    *)
(* its inverse on the undo stack, which operation_unwinder executes when   *)
(* the patch has not been committed.                                       *)
(***************************************************************************)
EXTENDS JsonPatchReference

CONSTANTS
    Levels,     \* sets of values: those in the first have no parts, those in each
                \* later one have parts from the ones before it
    Docs,       \* the values that are patched
    Goals,      \* the values that from_diff is given
    Operations, \* the operations that a patch may have
    MaxOps      \* bound: operations in a patch that is not made by from_diff

\* The values that there are before an operation makes others, whole and in part.
Parts == UNION {Levels[i] : i \in DOMAIN Levels}

UsesValue(o) == o.op \in {"test", "add", "replace"} /\ ~Lacks(o, "value")

ASSUME ValuesAssumption ==
    /\ Levels \in Seq(SUBSET Parts)
    /\ \A i \in DOMAIN Levels : \A v \in Levels[i] :
           IsMadeOf(v, UNION {Levels[j] : j \in 1 .. i - 1})
    /\ \A v \in Parts : /\ Len(v.items) <= Len(Numerals)
                        /\ \A k \in DOMAIN v.members : \E i \in DOMAIN Keys : Keys[i] = k
    /\ Docs \subseteq Parts /\ Goals \subseteq Parts
    /\ \A o \in Operations : /\ o.path \in Seq(STRING) /\ o.from \in Seq(STRING)
                             /\ UsesValue(o) => o.value \in Parts

VARIABLES
    target,     \* the value being patched
    patch,      \* the operations that are left of a patch made by from_diff
    goal,       \* the second argument of from_diff, or NoValue
    count,      \* the operations applied so far
    stack,      \* unwinder.stack
    phase,      \* unwinder.state: "begin", "commit", or "unwind" and then "abort"
    ec,         \* the error code that the caller is given
    original,   \* history: the target before the patch
    expected,   \* history: what performing the operations makes of it
    forbidden   \* history: one of the operations performed is forbidden by RFC 6902

vars == <<target, patch, goal, count, stack, phase, ec, original, expected, forbidden>>

Entry(op, path, value) == [op |-> op, path |-> path, value |-> value]

------------------------------------------------------------------------------
\* The steps of an operation

Abort(e) == ec' = e /\ phase' = "unwind" /\ UNCHANGED <<target, stack>>

Undoing(entries) == stack' = stack \o entries /\ UNCHANGED <<ec, phase>>

Succeed(root, entries) == target' = root /\ Undoing(entries)

\* detail::definite_path: "-" becomes the index of the element to be added.
DefinitePath(root, path) ==
    IF path = <<>> \/ Last(path) # Dash THEN path
    ELSE LET parent == Front(path)
             found == Get(root, parent)
         IN  IF Failed(found) \/ ~IsArray(found.root) THEN path
             ELSE Append(parent, Numeral(Len(found.root.items)))

\* The add that add, move and copy share: try an insertion, and then a replacement.
\* entries is what the operation has put on the stack before.
AddTo(root, path, x, entries, e) ==
    LET npath == DefinitePath(root, path)
        inserted == AddIfAbsent(root, npath, x)
        old == Get(root, npath)
        replaced == Replace(root, npath, x)
    IN  IF ~Failed(inserted)
        THEN Succeed(inserted.root, entries \o <<Entry("remove", npath, Atom("null"))>>)
        ELSE IF ~Failed(old) /\ ~Failed(replaced)
        THEN Succeed(replaced.root, entries \o <<Entry("replace", npath, old.root)>>)
        ELSE /\ ec' = e /\ phase' = "unwind"
             /\ target' = root /\ stack' = stack \o entries

\* The operation has the name op, and a location.
Is(o, op) == o.op = op /\ ~Lacks(o, "op") /\ ~Lacks(o, "path") /\ ~Malformed(o, "path")

Illformed(o) ==
    /\ Lacks(o, "op") \/ Lacks(o, "path") \/ Malformed(o, "path")
    /\ Abort("invalid_patch")

Test(o) ==
    LET found == Get(target, o.path) IN
    /\ Is(o, "test")
    /\ IF Failed(found) THEN Abort("test_failed")
       ELSE IF Lacks(o, "value") THEN Abort("invalid_patch")
       ELSE IF found.root # o.value THEN Abort("test_failed")
       ELSE UNCHANGED <<target, stack, ec, phase>>

Add(o) ==
    /\ Is(o, "add")
    /\ IF Lacks(o, "value") THEN Abort("invalid_patch")
       ELSE AddTo(target, o.path, o.value, <<>>, "add_failed")

RemoveOp(o) ==
    LET found == Get(target, o.path)
        removed == RemoveFrom(target, o.path)
    IN  /\ Is(o, "remove")
        /\ IF Failed(found) \/ Failed(removed) THEN Abort("remove_failed")
           ELSE Succeed(removed.root, <<Entry("add", o.path, found.root)>>)

ReplaceOp(o) ==
    LET found == Get(target, o.path)
        replaced == Replace(target, o.path, o.value)
    IN  /\ Is(o, "replace")
        /\ IF Failed(found) THEN Abort("replace_failed")
           ELSE IF Lacks(o, "value") THEN Abort("invalid_patch")
           ELSE IF Failed(replaced) THEN Abort("replace_failed")
           ELSE Succeed(replaced.root, <<Entry("replace", o.path, found.root)>>)

Move(o) ==
    LET found == Get(target, o.from)
        removed == RemoveFrom(target, o.from)
    IN  /\ Is(o, "move")
        /\ IF Lacks(o, "from") THEN Abort("invalid_patch")
           ELSE IF Malformed(o, "from") \/ Failed(found) \/ Failed(removed) THEN Abort("move_failed")
           ELSE AddTo(removed.root, o.path, found.root, <<Entry("add", o.from, found.root)>>,
                      "copy_failed")

Copy(o) ==
    LET found == Get(target, o.from)
    IN  /\ Is(o, "copy")
        /\ IF Lacks(o, "from") THEN Abort("invalid_patch")
           ELSE IF Malformed(o, "from") \/ Failed(found) THEN Abort("copy_failed")
           ELSE AddTo(target, o.path, found.root, <<>>, "copy_failed")

\* An operation of any other name is passed over.
Ignore(o) ==
    /\ \A op \in OpNames : ~Is(o, op)
    /\ Is(o, o.op)
    /\ UNCHANGED <<target, stack, ec, phase>>

\* One round of the loop.
Operation(o) == \/ Illformed(o) \/ Test(o) \/ Add(o) \/ RemoveOp(o) \/ ReplaceOp(o)
                \/ Move(o) \/ Copy(o) \/ Ignore(o)

------------------------------------------------------------------------------
\* from_diff

\* Mutant: the elements are removed from the first on.
RemovalFirst(n, m, i) == m + i - 1

\* The i-th of the elements that are removed, there being n of which m are kept.
RemovalIndex(n, m, i) == n - i

\* Patches of a part, as operations on the whole.
In(t, ops) == [i \in DOMAIN ops |-> [ops[i] EXCEPT !.path = <<t>> \o @]]

\* The patch of the member k of source, diff[x][y] being the patch that leads from x to y.
MemberPatch(diff, source, dest, k) ==
    IF k \notin DOMAIN source.members THEN <<>>
    ELSE IF k \in DOMAIN dest.members THEN In(k, diff[source.members[k]][dest.members[k]])
    ELSE <<RemoveOf(<<k>>)>>

NewMember(source, dest, k) ==
    IF k \in DOMAIN dest.members \ DOMAIN source.members
    THEN <<AddOf(<<k>>, dest.members[k])>> ELSE <<>>

\* from_diff, its calls of itself being lookups in diff.
Difference(diff, source, dest) ==
    LET s == source.items
        t == dest.items
        common == IF Len(s) < Len(t) THEN Len(s) ELSE Len(t)
    IN  IF source = dest THEN <<>>
        ELSE IF IsArray(source) /\ IsArray(dest)
        THEN FlattenSeq([i \in 1 .. common |-> In(Numeral(i - 1), diff[s[i]][t[i]])])
             \o [i \in 1 .. Len(s) - common |-> RemoveOf(<<Numeral(RemovalIndex(Len(s), Len(t), i))>>)]
             \o [i \in 1 .. Len(t) - common |-> AddOf(<<Numeral(Len(s) + i - 1)>>, t[Len(s) + i])]
        ELSE IF IsObject(source) /\ IsObject(dest)
        THEN FlattenSeq([i \in DOMAIN Keys |-> MemberPatch(diff, source, dest, Keys[i])])
             \o FlattenSeq([i \in DOMAIN Keys |-> NewMember(source, dest, Keys[i])])
        ELSE <<ReplaceOf(<<>>, dest)>>

FromDiff[source \in Parts] == [dest \in Parts |-> Difference(FromDiff, source, dest)]

------------------------------------------------------------------------------
Init ==
    /\ \/ target \in Docs /\ goal = NoValue
       \/ target \in Goals /\ goal \in Goals
    /\ patch = IF goal = NoValue THEN <<>> ELSE FromDiff[target][goal]
    /\ count = 0 /\ stack = <<>> /\ phase = "begin" /\ ec = "none"
    /\ original = target /\ expected = target /\ forbidden = FALSE

\* The patch is not an array.
NotAPatch ==
    /\ phase = "begin" /\ count = 0 /\ goal = NoValue
    /\ ec' = "invalid_patch" /\ phase' = "abort" /\ expected' = NoValue
    /\ UNCHANGED <<target, patch, goal, count, stack, original, forbidden>>

ApplyOperation(o) ==
    /\ Operation(o)
    /\ count' = count + 1
    /\ expected' = IF expected = NoValue THEN NoValue ELSE Performed(expected, o)
    /\ forbidden' = (forbidden \/ (expected' # NoValue /\ Forbidden(o)))
    /\ UNCHANGED <<goal, original>>

\* The next operation of a patch whose operations are chosen as they are read.
ReadOperation ==
    /\ phase = "begin" /\ goal = NoValue /\ count < MaxOps
    /\ \E o \in Operations : ApplyOperation(o)
    /\ UNCHANGED patch

\* The next operation of a patch made by from_diff.
ReadDifference ==
    /\ phase = "begin" /\ patch # <<>>
    /\ ApplyOperation(Head(patch)) /\ patch' = Tail(patch)

Commit ==
    /\ phase = "begin" /\ patch = <<>>
    /\ phase' = "commit"
    /\ UNCHANGED <<target, patch, goal, count, stack, ec, original, expected, forbidden>>

\* Mutant: the undo stack is a queue.
FirstUndone(s) == 1

\* Which entry of the stack is undone next.
NextUndone(s) == Len(s)

\* ~operation_unwinder: it gives up at the first inverse that fails.
Undo ==
    LET entry == stack[NextUndone(stack)]
        undone == Edit(entry.op, target, entry.path, entry.value)
    IN  /\ phase = "unwind" /\ stack # <<>>
        /\ stack' = RemoveAt(stack, NextUndone(stack))
        /\ target' = undone.root
        /\ phase' = IF Failed(undone) THEN "abort" ELSE phase
        /\ UNCHANGED <<patch, goal, count, ec, original, expected, forbidden>>

Undone ==
    /\ phase = "unwind" /\ stack = <<>>
    /\ phase' = "abort"
    /\ UNCHANGED <<target, patch, goal, count, stack, ec, original, expected, forbidden>>

Next == NotAPatch \/ ReadOperation \/ ReadDifference \/ Commit \/ Undo \/ Undone

Spec == Init /\ [][Next]_vars

------------------------------------------------------------------------------
\* When apply_patch returns, the patch has been committed exactly if each of its
\* operations could be performed on what those before it made, and the target is
\* what they make of it as RFC 6902 has them.
PatchConforms ==
    /\ phase = "commit" => ec = "none" /\ target = expected
    /\ phase = "abort" => ec # "none" /\ expected = NoValue

\* apply_patch does not commit a patch with an operation that RFC 6902 forbids.
ForbiddenRefused == phase = "commit" => ~forbidden

\* A patch that fails leaves the target as it was.
TargetUnchanged == phase = "abort" => target = original

\* The patch that from_diff makes of two values leads from one to the other.
DiffReaches == goal # NoValue => phase # "abort" /\ (phase = "commit" => target = goal)
==============================================================================
