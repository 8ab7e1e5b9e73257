---------------------------- MODULE UbjsonEncoder -----------------------------
(***************************************************************************)
(* basic_ubjson_encoder: the visitor that writes UBJSON.  One action for   *)
(* each visit_* function.  Semantic tags are dropped, but those of numbers *)
(* that are written as text.                                               *)
(***************************************************************************)
EXTENDS UbjsonItems

CONSTANT UbjsonMaxDepth   \* option max_nesting_depth of the encoder

VARIABLES
    enc,      \* frames (stack_), depth (nesting_depth_), sink and ec
    options   \* this encoder reads none that are modelled

Put(e, items) == [e EXCEPT !.sink = @ \o items]
Raise(e, code) == [e EXCEPT !.ec = code]
EndValue(e) == IF e.frames = <<>> THEN e ELSE [e EXCEPT !.frames[Len(e.frames)].count = @ + 1]

\* The narrowest type for an integer; a positive one fits no signed byte.
TypeFor(n) ==
    IF n >= 0
    THEN CASE n <= UintMax(1) -> "U" [] n <= IntMax(2) -> "I" [] n <= IntMax(4) -> "l" [] OTHER -> "L"
    ELSE CASE n >= -(IntMax(1) + 1) -> "i" [] n >= -(IntMax(2) + 1) -> "I"
           [] n >= -(IntMax(4) + 1) -> "l" [] OTHER -> "L"

\* An unsigned integer that is no int64_t is not written at all.
PutInteger(e, n) == IF n > Int64Max THEN e ELSE Put(e, <<IntegerItem(TypeFor(n), n)>>)
PutLength(e, n) == PutInteger(e, n)

PutText(e, s) == IF WellFormed(s) THEN Put(PutLength(e, Size(s)), Data(s))
                 ELSE Raise(e, "invalid_utf8_text_string")

BeginContainer(e, type, open, length) ==
    LET deeper == [e EXCEPT !.depth = @ + 1]
        q == Put([deeper EXCEPT !.frames = Append(@, [type |-> type, length |-> length, count |-> 0])],
                 <<Mark(open)>>)
    IN  IF deeper.depth > UbjsonMaxDepth THEN Raise(deeper, "max_nesting_depth_exceeded")
        ELSE IF length = Unsized THEN q ELSE PutLength(Put(q, <<Mark("#")>>), length)

EndContainer(e, close) ==
    LET top == Last(e.frames)
        shallower == [e EXCEPT !.depth = @ - 1]
        popped == [shallower EXCEPT !.frames = Front(@)]
    IN  IF top.length = Unsized THEN EndValue(Put(popped, <<Mark(close)>>))
        ELSE IF top.count < top.length THEN Raise(shallower, "too_few_items")
        ELSE IF top.count > top.length THEN Raise(shallower, "too_many_items")
        ELSE EndValue(popped)

\* f is called unless an error has been reported.
Then(e, f(_)) == IF e.ec = "none" THEN f(e) ELSE e
-------------------------------------------------------------------------------
NewEncoder == [frames |-> <<>>, depth |-> 0, sink |-> <<>>, ec |-> "none"]
Init == enc = NewEncoder /\ options = <<>>

Makes(e) == enc.ec = "none" /\ enc' = e /\ UNCHANGED options

VisitBeginObject(c) == c[1] = "begin_object" /\ Makes(BeginContainer(enc, "object", "{", c[2]))
VisitEndObject(c) == c[1] = "end_object" /\ Makes(EndContainer(enc, "}"))
VisitBeginArray(c) == c[1] = "begin_array" /\ Makes(BeginContainer(enc, "array", "[", c[2]))
VisitEndArray(c) == c[1] = "end_array" /\ Makes(EndContainer(enc, "]"))
VisitKey(c) == c[1] = "key" /\ Makes(PutText(enc, c[2]))
VisitNull(c) == c[1] = "null_value" /\ Makes(EndValue(Put(enc, <<<<"Z", 0>>>>)))
VisitBool(c) == c[1] = "bool_value" /\ Makes(EndValue(Put(enc, <<<<IF c[2] THEN "T" ELSE "F", 0>>>>)))
VisitInteger(c) == c[1] \in {"uint64_value", "int64_value"} /\ Makes(EndValue(PutInteger(enc, c[2])))
VisitDouble(c) == c[1] = "double_value" /\
    Makes(EndValue(Put(enc, <<<<IF FitsFloat(c[2]) THEN "d" ELSE "D", c[2]>>>>)))

\* The type goes out before the text is looked at.
VisitString(c) == c[1] = "string_value" /\
    LET type == IF c[3] \in {"bigint", "bigdec"} THEN "H" ELSE "S"
    IN  Makes(Then(PutText(Put(enc, <<<<type, 0>>>>), c[2]), EndValue))

VisitByteString(c) == c[1] = "byte_string_value" /\
    LET n == Size(c[2])
        head == <<Mark("["), Mark("$"), <<"type", "U">>, Mark("#")>>
    IN  Makes(EndValue(Put(PutLength(Put(enc, head), n),
                           [i \in 1..n |-> <<"untyped", ByteOf(c[2], i)>>])))

Visit(c) ==
    \/ VisitBeginObject(c) \/ VisitEndObject(c) \/ VisitBeginArray(c) \/ VisitEndArray(c)
    \/ VisitKey(c) \/ VisitNull(c) \/ VisitBool(c) \/ VisitInteger(c) \/ VisitDouble(c)
    \/ VisitString(c) \/ VisitByteString(c)
===============================================================================
