---------------------------- MODULE MsgpackEncoder ----------------------------
(***************************************************************************)
(* basic_msgpack_encoder: the visitor that writes MessagePack.  One action *)
(* for each visit_* function.  The lengths of containers go out before the *)
(* items, so that a container without one is refused.                      *)
(***************************************************************************)
EXTENDS MsgpackItems

CONSTANT MsgpackMaxDepth   \* option max_nesting_depth of the encoder

VARIABLES
    enc,      \* frames (stack_), depth (nesting_depth_), sink and ec
    options   \* this encoder reads none that are modelled

Put(e, item) == [e EXCEPT !.sink = Append(@, item)]
Raise(e, code) == [e EXCEPT !.ec = code]
EndValue(e) == IF e.frames = <<>> THEN e ELSE [e EXCEPT !.frames[Len(e.frames)].index = @ + 1]

\* An object counts its keys too.
ItemCount(frame) == IF frame.type = "object" THEN frame.index \div 2 ELSE frame.index

LengthFormat(type, n) ==
    IF type = "object" THEN IF n <= 15 THEN "fixmap" ELSE IF n <= 65535 THEN "map16" ELSE "map32"
    ELSE IF n <= 15 THEN "fixarray" ELSE IF n <= 65535 THEN "array16" ELSE "array32"

BeginContainer(e, type, length, code) ==
    LET deeper == [e EXCEPT !.depth = @ + 1]
    IN  CASE length = Unsized -> Raise(e, code)
          [] deeper.depth > MsgpackMaxDepth -> Raise(deeper, "max_nesting_depth_exceeded")
          [] OTHER -> Put([deeper EXCEPT
                              !.frames = Append(@, [type |-> type, length |-> length, index |-> 0])],
                          Headed(LengthFormat(type, length), length, <<>>))

EndContainer(e) ==
    LET top == Last(e.frames)
        shallower == [e EXCEPT !.depth = @ - 1]
    IN  IF ItemCount(top) < top.length THEN Raise(shallower, "too_few_items")
        ELSE IF ItemCount(top) > top.length THEN Raise(shallower, "too_many_items")
        ELSE EndValue([shallower EXCEPT !.frames = Front(@)])

\* write_string_value, which throws.
WriteText(e, s) ==
    LET n == Size(s)
    IN  IF ~WellFormed(s) THEN Raise(e, "invalid_utf8_text_string")
        ELSE EndValue(Put(e, Headed(IF n <= 31 THEN "fixstr" ELSE Wide(<<"str8", "str16", "str32">>, n), n, s)))

IntegerFormat(n) ==
    IF n >= 0
    THEN CASE n <= 127 -> "fixint" [] n <= UintMax(4) -> Wide(<<"uint8", "uint16", "uint32">>, n)
           [] OTHER -> "uint64"
    ELSE CASE n >= -32 -> "negative_fixint" [] n >= -(IntMax(1) + 1) -> "int8"
           [] n >= -(IntMax(2) + 1) -> "int16" [] n >= -(IntMax(4) + 1) -> "int32" [] OTHER -> "int64"

\* Division that rounds towards zero, as std::div and bigint::divide do.
Quotient(n, d) == IF n < 0 THEN -((-n) \div d) ELSE n \div d
Remainder(n, d) == n - d * Quotient(n, d)

\* write_timestamp: 32 bits of seconds, 30 of nanoseconds and 34 of seconds, or
\* 32 of nanoseconds and 64 of seconds.
WriteTimestamp(e, seconds, nanoseconds) ==
    LET at == <<"timestamp", <<seconds, nanoseconds>>>>
        Extension(format, length) == Put(e, <<format, <<length, TimestampType>>, at>>)
    IN  CASE seconds \notin 0..Max34 -> Extension("ext8", 12)
          [] nanoseconds = 0 /\ seconds <= UintMax(4) -> Extension("fixext4", 4)
          [] OTHER -> Extension("fixext8", 8)

TimeTags == {"epoch_second", "epoch_milli", "epoch_nano"}

\* An integer that counts seconds, milliseconds or nanoseconds.  The sign of what
\* is left of a second is dropped.
WriteTime(e, n, tag) ==
    CASE tag = "epoch_second" -> WriteTimestamp(e, n, 0)
      [] tag = "epoch_milli" -> WriteTimestamp(e, Quotient(n, 1000), Magnitude(Remainder(n, 1000)) * 1000000)
      [] OTHER -> WriteTimestamp(e, Quotient(n, 1000000000), Magnitude(Remainder(n, 1000000000)))
WriteTimeText(e, s, tag) ==
    CASE s[1] = "int" -> WriteTime(e, s[2], tag)
      [] s[1] = "nanos" /\ tag = "epoch_nano" -> WriteTimestamp(e, s[2][1], Magnitude(s[2][2]))
      [] OTHER -> Raise(e, "invalid_timestamp")

\* The formats of extensions of a fixed length.
FixedExtension(n) == CASE n = 1 -> "fixext1" [] n = 2 -> "fixext2" [] n = 4 -> "fixext4"
                       [] n = 8 -> "fixext8" [] n = 16 -> "fixext16"
-------------------------------------------------------------------------------
NewEncoder == [frames |-> <<>>, depth |-> 0, sink |-> <<>>, ec |-> "none"]
Init == enc = NewEncoder /\ options = <<>>

Makes(e) == enc.ec = "none" /\ enc' = e /\ UNCHANGED options

VisitBeginObject(c) == c[1] = "begin_object" /\
    Makes(BeginContainer(enc, "object", c[2], "object_length_required"))
VisitBeginArray(c) == c[1] = "begin_array" /\
    Makes(BeginContainer(enc, "array", c[2], "array_length_required"))
VisitEnd(c) == c[1] \in {"end_object", "end_array"} /\ Makes(EndContainer(enc))
VisitKey(c) == c[1] = "key" /\ Makes(WriteText(enc, c[2]))
VisitNull(c) == c[1] = "null_value" /\ Makes(EndValue(Put(enc, Bare("nil"))))
VisitBool(c) == c[1] = "bool_value" /\ Makes(EndValue(Put(enc, Bare(IF c[2] THEN "true" ELSE "false"))))
VisitDouble(c) == c[1] = "double_value" /\
    Makes(EndValue(Put(enc, <<IF FitsFloat(c[2]) THEN "float32" ELSE "float64", 0, c[2]>>)))

VisitInteger(c) == c[1] \in {"uint64_value", "int64_value"} /\
    Makes(EndValue(IF c[3] \in TimeTags THEN WriteTime(enc, c[2], c[3])
                   ELSE Put(enc, Headed(IntegerFormat(c[2]), c[2], <<>>))))

\* A time that is given as text is not counted among the items of its container.
VisitString(c) == c[1] = "string_value" /\
    Makes(IF c[3] \in TimeTags THEN WriteTimeText(enc, c[2], c[3]) ELSE WriteText(enc, c[2]))

VisitByteString(c) == c[1] = "byte_string_value" /\
    LET n == Size(c[2])
    IN  Makes(EndValue(Put(enc, Headed(Wide(<<"bin8", "bin16", "bin32">>, n), n, c[2]))))

VisitExtByteString(c) == c[1] = "ext_byte_string" /\
    LET n == Size(c[2][1])
        type == ToUint(c[2][2], 1)
        wide == Wide(<<"ext8", "ext16", "ext32">>, n)
    IN  Makes(EndValue(Put(enc, IF n \in {1, 2, 4, 8, 16}
                                THEN <<FixedExtension(n), <<n, type>>, c[2][1]>>
                                ELSE <<wide, <<ToUint(n, WidthOf(wide)), type>>, c[2][1]>>)))

Visit(c) ==
    \/ VisitBeginObject(c) \/ VisitBeginArray(c) \/ VisitEnd(c) \/ VisitKey(c)
    \/ VisitNull(c) \/ VisitBool(c) \/ VisitDouble(c) \/ VisitInteger(c)
    \/ VisitString(c) \/ VisitByteString(c) \/ VisitExtByteString(c)
===============================================================================
