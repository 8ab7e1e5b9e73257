---------------------------- MODULE CodecReference ----------------------------
(***************************************************************************)
(* What the binary formats promise, without a byte: the calls that a       *)
(* reader makes for what a writer was given, and the value that a sequence *)
(* of calls stands for.                                                    *)
(***************************************************************************)
EXTENDS VisitorCalls

\* An integer that is not negative is read back as unsigned.
IntegerCall(n, tag) == <<IF n >= 0 THEN "uint64_value" ELSE "int64_value", n, tag>>

IsInteger(c) == c[1] \in {"uint64_value", "int64_value"}
Fraction(c) == IF IsInteger(c) THEN <<c[2], 1>> ELSE c[2]
Seconds(c) == Ratio(Fraction(c)[1], Fraction(c)[2] * IF c[3] = "epoch_milli" THEN 1000 ELSE 1000000000)

\* The part of an array that lies below index at, in the dimensions from d on.
RECURSIVE NestedCalls(_, _, _, _, _)
NestedCalls(call(_), extents, stride, d, at) ==
    IF d > Len(extents) THEN <<call(at)>>
    ELSE LET inner == [i \in 1..extents[d] |->
                          NestedCalls(call, extents, stride, d + 1, at + (i - 1) * stride[d])]
         IN  <<Untagged("begin_array", extents[d])>> \o FoldLeft(LAMBDA s, t : s \o t, <<>>, inner)
             \o <<Simple("end_array")>>

ProductOf(s) == FoldLeft(LAMBDA m, n : m * n, 1, s)
RowStride(x) == [d \in DOMAIN x |-> ProductOf(SubSeq(x, d + 1, Len(x)))]
ColumnStride(x) == [d \in DOMAIN x |-> ProductOf(SubSeq(x, 1, d - 1))]

\* The call for an element of a typed array, from an array that is typed or not.
ElementMeaning(t, x, typed) ==
    CASE t \in {"half", "float", "double"} -> Untagged("double_value", x)
      [] typed /\ t \in {"int8", "int16", "int32", "int64"} -> Untagged("int64_value", x)
      [] OTHER -> IntegerCall(x, "none")

-------------------------------------------------------------------------------
\* CBOR: times in seconds, numbers by their sign, a tag where CBOR has one.
CborScalar(c) ==
    CASE c[3] \in {"epoch_milli", "epoch_nano"} -> <<"double_value", Seconds(c), "epoch_second">>
      [] IsInteger(c) -> IntegerCall(c[2], c[3])
      [] c[1] = "string_value" /\ c[3] \notin {"bigint", "bigdec", "bigfloat", "datetime", "uri",
                                               "base64url", "base64"} -> <<c[1], c[2], "none">>
      [] OTHER -> c

CborTyped(c, typed) ==
    LET t == c[2][1]
        n == Len(c[2][2])
    IN  <<<<"begin_array", n, IF typed /\ t = "clamped" THEN "clamped" ELSE "none">>>>
        \o [i \in 1..n |-> ElementMeaning(t, c[2][2][i], typed)] \o <<Simple("end_array")>>

\* The calls for call number i of those that were made.
CborMeaning(calls, i, typed) ==
    LET c == calls[i]
        shape == calls[i - 1]
        t == c[2][1]
        stride == IF shape[3] = "column_major" THEN ColumnStride(shape[2]) ELSE RowStride(shape[2])
    IN CASE c[1] \in {"begin_multi_dim", "end_multi_dim"} -> <<>>
         [] c[1] = "typed_array" /\ i > 1 /\ shape[1] = "begin_multi_dim" ->
              NestedCalls(LAMBDA k : ElementMeaning(t, c[2][2][k + 1], typed), shape[2], stride, 1, 0)
         [] c[1] = "typed_array" -> CborTyped(c, typed)
         [] c[1] \in Scalar -> <<CborScalar(c)>>
         [] OTHER -> <<c>>

-------------------------------------------------------------------------------
\* UBJSON: bytes are an array of numbers, and the only unsigned type has one byte.
UbjsonMeaning(c) ==
    CASE c[1] = "byte_string_value" ->
           LET n == Size(c[2])
           IN  <<Untagged("begin_array", n)>>
               \o [i \in 1..n |-> Untagged("uint64_value", <<"byte", <<c[2], i>>>>)] \o <<Simple("end_array")>>
      [] IsInteger(c) -> <<Untagged(IF c[2] \in 0..255 THEN "uint64_value" ELSE "int64_value", c[2])>>
      [] c[1] = "string_value" /\ c[3] \in {"bigint", "bigdec"} -> <<c>>
      [] OTHER -> <<Untagged(c[1], c[2])>>

-------------------------------------------------------------------------------
\* The time of a call in seconds and nanoseconds, both of the same sign.
Truncated(n, d) == IF n < 0 THEN -((-n) \div d) ELSE n \div d
TimeOf(c) ==
    LET n == IF c[1] = "string_value" THEN c[2][2] ELSE c[2]
        per == CASE c[3] = "epoch_second" -> 1 [] c[3] = "epoch_milli" -> 1000 [] OTHER -> 1000000000
    IN  IF c[1] = "string_value" /\ c[2][1] = "nanos" THEN n
        ELSE <<Truncated(n, per), (n - per * Truncated(n, per)) * (1000000000 \div per)>>
IsTime(c) == c[3] \in {"epoch_second", "epoch_milli", "epoch_nano"}

\* MessagePack: whole seconds of 32 bits are a number, other times are a text.
MsgpackMeaning(c) ==
    CASE IsTime(c) /\ c[1] # "double_value" ->
           LET t == TimeOf(c)
           IN  <<IF t[2] = 0 /\ t[1] \in 0..UintMax(4) THEN <<"uint64_value", t[1], "epoch_second">>
                 ELSE <<"string_value", <<"nanos", t>>, "epoch_nano">>>>
      [] IsInteger(c) -> <<IntegerCall(c[2], "none")>>
      [] OTHER -> <<Untagged(c[1], c[2])>>

\* BSON: times in milliseconds, signed integers, bytes with a subtype, and
\* containers that do not announce their items.
BsonMeaning(c) ==
    CASE c[1] \in Begin -> <<Untagged(c[1], Unsized)>>
      [] c[1] = "byte_string_value" -> <<Untagged("ext_byte_string", <<c[2], 128>>)>>
      [] IsInteger(c) /\ IsTime(c) ->
           LET t == TimeOf(c)
           IN  <<<<"int64_value", t[1] * 1000 + Truncated(t[2], 1000000), "epoch_milli">>>>
      [] IsInteger(c) -> <<Untagged("int64_value", c[2])>>
      [] c[3] \in {"undefined", "float128", "id", "regex", "code"} -> <<c>>
      [] OTHER -> <<Untagged(c[1], c[2])>>

-------------------------------------------------------------------------------
\* The value that starts with call number i, and the number of the call after it.
RECURSIVE ValueAt(_, _), ItemsFrom(_, _, _)
ValueAt(calls, i) ==
    IF calls[i][1] \in Begin
    THEN LET rest == ItemsFrom(calls, i + 1, <<>>)
             items == rest[1]
             kind == KindOf[calls[i][1]]
             first(k) == CHOOSE j \in DOMAIN items :
                             items[j][1] = k /\ \A m \in 1..(j - 1) : items[m][1] # k
         IN  <<<<kind, IF kind = "object"
                       THEN [k \in {items[j][1] : j \in DOMAIN items} |-> items[first(k)][2]]
                       ELSE [j \in DOMAIN items |-> items[j][2]], calls[i][3]>>, rest[2]>>
    ELSE <<calls[i], i + 1>>

\* The members of a container, each with its key, and the call after its end.
ItemsFrom(calls, i, items) ==
    IF calls[i][1] \in End THEN <<items, i + 1>>
    ELSE LET keyed == calls[i][1] = "key"
             value == ValueAt(calls, IF keyed THEN i + 1 ELSE i)
         IN  ItemsFrom(calls, value[2], Append(items, <<IF keyed THEN calls[i][2] ELSE <<>>, value[1]>>))

ValueOf(calls) == ValueAt(calls, 1)[1]
===============================================================================
