----------------------------- MODULE VisitorCalls -----------------------------
(***************************************************************************)
(* The calls that the parts of the library make on each other's visitors,  *)
(* and the order they must come in: what basic_json_visitor expects of its *)
(* callers, with the number of items that a counted container announces.   *)
(*                                                                         *)
(* A call is <<operation, argument, semantic tag>>.                        *)
(*                                                                         *)
(* The data that the calls and the binary codecs carry, as far as they are *)
(* told apart.                                                             *)
(*                                                                         *)
(* An integer is a TLA+ integer.  TLC's have 32 bits, so the limits of the *)
(* C++ types of four and eight bytes are parameters; those of one and two  *)
(* bytes are the real ones.  A floating point number is the reduced ratio  *)
(* <<p, q>>.  A string or a byte string is a pair: what it is, and of what *)
(*   <<"chars", name>>      characters without a meaning of their own      *)
(*   <<"int", n>>           the decimal digits of the integer n            *)
(*   <<"decimal", <<m, e>>>>  digits that denote m * 10^e                  *)
(*   <<"hexfloat", <<m, e>>>> digits that denote m * 2^e                   *)
(*   <<"exponent", e>>      the exponent of such digits, without any       *)
(*   <<"magnitude", n>>     the big-endian bytes of the natural number n   *)
(*   <<"elements", <<t, s>>>>  the elements s of a typed array, packed     *)
(*   <<"joined", s>>        the text that the lexemes s make               *)
(***************************************************************************)
EXTENDS Integers, Sequences, SequencesExt

CONSTANTS
    CharsSize(_),   \* the length in bytes of a string of characters, by name
    BadUtf8,        \* the names of the strings that are not UTF-8
    Int32Max,       \* the greatest int32_t: 2^31 - 1
    Int64Max        \* the greatest int64_t: 2^63 - 1

ASSUME WidthAssumption ==
    /\ Int32Max \in Nat /\ 65535 < Int32Max
    /\ Int64Max \in Nat /\ 2 * Int32Max + 1 < Int64Max

\* The greatest value of an unsigned and of a signed integer of w bytes.
UintMax(w) == CASE w = 1 -> 255 [] w = 2 -> 65535
                [] w = 4 -> 2 * Int32Max + 1 [] w = 8 -> 2 * Int64Max + 1
IntMax(w) == UintMax(w) \div 2

\* static_cast to an integer of w bytes.
ToUint(n, w) == n % (UintMax(w) + 1)
ToInt(n, w) == LET u == ToUint(n, w)
               IN  IF u > IntMax(w) THEN u - UintMax(w) - 1 ELSE u

FitsInt64(n) == n \in -(Int64Max + 1)..Int64Max

\* The number of digits of n in this base.
Digits(n, base) == IF n < base THEN 1 ELSE IF n < base * base THEN 2
                   ELSE IF n < base * base * base THEN 3 ELSE 4

Magnitude(n) == IF n < 0 THEN -n ELSE n
IntSize(n) == Digits(Magnitude(n), 10) + (IF n < 0 THEN 1 ELSE 0)

\* The size in bytes of an element of a typed array.
ElementSize(t) == CASE t \in {"uint8", "int8", "clamped"} -> 1
                    [] t \in {"uint16", "int16", "half"} -> 2
                    [] t \in {"uint32", "int32", "float"} -> 4
                    [] t \in {"uint64", "int64", "double"} -> 8

Size(s) == CASE s[1] = "chars" -> CharsSize(s[2])
             [] s[1] = "int" -> IntSize(s[2])
             [] s[1] \in {"decimal", "hexfloat"} -> IntSize(s[2][1]) + 1 + IntSize(s[2][2])
             [] s[1] = "exponent" -> 1 + IntSize(s[2])
             [] s[1] = "magnitude" -> Digits(s[2], 256)
             [] s[1] = "elements" -> ElementSize(s[2][1]) * Len(s[2][2])
             [] s[1] = "joined" -> Len(s[2])

WellFormed(s) == ~(s[1] = "chars" /\ s[2] \in BadUtf8)

\* p / q in lowest terms.
Ratio(p, q) ==
    LET g == CHOOSE d \in 1..q :
                 /\ p % d = 0 /\ q % d = 0
                 /\ \A e \in (d + 1)..q : ~(p % e = 0 /\ q % e = 0)
    IN  <<p \div g, q \div g>>

\* A float holds the number exactly: its denominator is a power of two.
FitsFloat(r) == r[2] \in {1, 2, 4, 8, 16, 32, 64, 128, 256}
-------------------------------------------------------------------------------
Unsized == -1   \* a container whose number of items is not announced

\* A call without an argument, or without a tag.
Simple(op) == <<op, 0, "none">>
Untagged(op, arg) == <<op, arg, "none">>

Begin == {"begin_object", "begin_array", "begin_multi_dim"}
End == {"end_object", "end_array", "end_multi_dim"}
KindOf == [begin_object |-> "object", begin_array |-> "array", begin_multi_dim |-> "multi_dim"]
EndOf == [object |-> "end_object", array |-> "end_array", multi_dim |-> "end_multi_dim"]
Scalar == {"string_value", "byte_string_value", "ext_byte_string", "uint64_value", "int64_value",
           "double_value", "half_value", "bool_value", "null_value", "typed_array"}

\* How far a sequence of calls has come: the open containers, each with the
\* items that are still to come and whether an object waits for the value of
\* a key, and the top-level value.
Opened(kind, n) == [kind |-> kind, left |-> n, keyed |-> FALSE]
NoCalls == [open |-> <<>>, status |-> "value"]

\* A value is complete.
ValueMade(w) ==
    IF w.open = <<>> THEN [w EXCEPT !.status = "complete"]
    ELSE LET top == Last(w.open)
             rest == IF top.left = Unsized THEN Unsized ELSE top.left - 1
         IN  [w EXCEPT !.open[Len(w.open)] = [top EXCEPT !.left = rest, !.keyed = FALSE]]

\* The call may be made now.
MayFollow(w, c) ==
    LET top == Last(w.open)
        wantsItem == w.open # <<>> /\ top.left # 0
    IN  \/ c[1] = "flush" /\ w.status = "complete"
        \/ /\ w.status = "value"
           /\ \/ /\ c[1] \in Begin \cup Scalar
                 /\ \/ w.open = <<>>
                    \/ wantsItem /\ (top.kind = "object" => top.keyed)
              \/ c[1] = "key" /\ wantsItem /\ top.kind = "object" /\ ~top.keyed
              \/ /\ c[1] \in End /\ w.open # <<>> /\ c[1] = EndOf[top.kind]
                 /\ top.left \in {0, Unsized} /\ ~top.keyed

After(w, c) ==
    IF ~MayFollow(w, c) THEN [w EXCEPT !.status = "broken"]
    ELSE CASE c[1] \in Begin ->
                LET n == IF c[1] = "begin_multi_dim" THEN 1 ELSE c[2]
                IN  [w EXCEPT !.open = Append(@, Opened(KindOf[c[1]], n))]
           [] c[1] \in Scalar -> ValueMade(w)
           [] c[1] = "key" -> [w EXCEPT !.open[Len(w.open)].keyed = TRUE]
           [] c[1] \in End -> ValueMade([w EXCEPT !.open = Front(@)])
           [] OTHER -> [w EXCEPT !.status = "flushed"]

AfterAll(w, cs) == FoldLeft(After, w, cs)
-------------------------------------------------------------------------------
\* The same for the calls on a generic_visitor: a key is an item like any other, so an
\* object says which of the two comes next.  counted is lost with the first container
\* that does not announce its items.
GivenLevel(kind, n) == [kind |-> kind, left |-> n, key |-> kind = "object"]
NothingGiven == [open |-> <<>>, status |-> "value", counted |-> TRUE]

\* An item is complete.
ItemGiven(g) ==
    IF g.open = <<>> THEN [g EXCEPT !.status = "complete"]
    ELSE LET top == Last(g.open)
             rest == IF top.left = Unsized \/ top.key THEN top.left ELSE top.left - 1
         IN  [g EXCEPT !.open[Len(g.open)] =
                    [top EXCEPT !.left = rest, !.key = IF top.kind = "object" THEN ~@ ELSE @]]

MayBeGiven(g, c) ==
    LET top == Last(g.open)
    IN  \/ c[1] = "flush" /\ g.status = "complete"
        \/ c[1] \in Begin \cup Scalar /\ g.status = "value" /\ (g.open # <<>> => top.left # 0)
        \/ /\ c[1] \in End /\ g.open # <<>> /\ c[1] = EndOf[top.kind]
           /\ top.left \in {0, Unsized} /\ (top.kind = "object" => top.key)

AfterGiven(g, c) ==
    IF ~MayBeGiven(g, c) THEN [g EXCEPT !.status = "broken"]
    ELSE CASE c[1] \in Begin -> [g EXCEPT !.open = Append(@, GivenLevel(KindOf[c[1]], c[2])),
                                          !.counted = @ /\ c[2] # Unsized]
           [] c[1] \in End -> ItemGiven([g EXCEPT !.open = Front(@)])
           [] c[1] = "flush" -> [g EXCEPT !.status = "flushed"]
           [] OTHER -> ItemGiven(g)
===============================================================================
