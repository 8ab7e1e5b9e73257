----------------------------- MODULE CborEncoder ------------------------------
(***************************************************************************)
(* basic_cbor_encoder: the visitor that writes CBOR.  One action for each  *)
(* visit_* function; a function that is called by another one maps the     *)
(* encoder's members to what it leaves of them.                            *)
(*                                                                         *)
(* A byte string that packs a bignum or a typed array is not entered in    *)
(* the stringref map, here as in the code; the parser does enter it.       *)
(***************************************************************************)
EXTENDS CborItems

CONSTANT CborMaxDepth   \* option max_nesting_depth of the encoder

VARIABLES
    enc,      \* frames (stack_), depth (nesting_depth_), numbered (the two stringref
              \* maps: the strings in the order of their numbers), sink and ec
    options   \* packStrings, useTypedArrays

Put(e, items) == [e EXCEPT !.sink = @ \o items]
Raise(e, code) == [e EXCEPT !.ec = code]

EndValue(e) == IF e.frames = <<>> THEN e
               ELSE [e EXCEPT !.frames[Len(e.frames)].index = @ + 1]

\* next_stringref_: the strings written in full so far that a reference may name.
NextStringref(e) == Len(e.numbered)

\* The string goes out as it is, or as a reference to where it was first written.
Packed(e, item, before) ==
    LET ref == SelectInSeq(e.numbered, LAMBDA i : i = item)
    IN  IF ~options.packStrings \/ Size(item[3]) < MinLengthForStringref(NextStringref(e))
        THEN Put(e, Append(before, item))
        ELSE IF ref = 0
             THEN Put([e EXCEPT !.numbered = Append(@, item)], Append(before, item))
             ELSE Put(e, <<TagItem(25), UintItem(ref - 1)>>)

WriteString(e, s) ==
    IF ~WellFormed(s) THEN Raise(e, "invalid_utf8_text_string") ELSE Packed(e, TextItem(s), <<>>)

BeginContainer(e, type, length) ==
    LET deeper == [e EXCEPT !.depth = @ + 1]
    IN  IF deeper.depth > CborMaxDepth THEN Raise(deeper, "max_nesting_depth_exceeded")
        ELSE Put([deeper EXCEPT !.frames = Append(@, [type |-> type, length |-> length, index |-> 0])],
                 <<IF length = Unsized THEN IndefiniteItem(type) ELSE Item(type, length, <<>>)>>)

\* Mutant: the keys of an object are counted as items.
ItemCountWithKeys(frame) == frame.index

\* An object counts its keys too.
ItemCount(frame) == IF frame.type = "map" THEN frame.index \div 2 ELSE frame.index

EndContainer(e) ==
    LET top == Last(e.frames)
        shallower == [e EXCEPT !.depth = @ - 1]
        popped == [shallower EXCEPT !.frames = Front(@)]
    IN  IF top.length = Unsized THEN EndValue(Put(popped, <<BreakItem>>))
        ELSE IF ItemCount(top) < top.length THEN Raise(shallower, "too_few_items")
        ELSE IF ItemCount(top) > top.length THEN Raise(shallower, "too_many_items")
        ELSE EndValue(popped)

\* f is called unless an error has been reported.
Then(e, f(_)) == IF e.ec = "none" THEN f(e) ELSE e

WriteBignum(e, n) ==
    Put(e, IF n < 0 THEN <<TagItem(3), BytesItem(<<"magnitude", -1 - n>>)>>
           ELSE <<TagItem(2), BytesItem(<<"magnitude", n>>)>>)

WriteInt64(e, n) == EndValue(Put(e, <<IntItem(n)>>))

\* write_decimal_value, write_hexfloat_value: the array of the scale and the mantissa.
\* Only the mantissa may be a bignum.
WriteScaled(e, tag, m, scale) ==
    LET Scale(a) == IF FitsInt64(scale) THEN WriteInt64(a, scale) ELSE Raise(a, "result_out_of_range")
        Mantissa(a) == IF FitsInt64(m) THEN WriteInt64(a, m) ELSE EndValue(WriteBignum(a, m))
    IN  Then(Then(Then(BeginContainer(Put(e, <<TagItem(tag)>>), "array", 2), Scale), Mantissa),
             EndContainer)

\* epoch times go out in seconds; the width of a float follows from its value.
WriteDouble(e, r, tag) ==
    LET sec == CASE tag = "epoch_milli" -> Ratio(r[1], r[2] * 1000)
                 [] tag = "epoch_nano" -> Ratio(r[1], r[2] * 1000000000)
                 [] OTHER -> r
        mark == IF tag \in {"epoch_second", "epoch_milli", "epoch_nano"} THEN <<TagItem(1)>> ELSE <<>>
    IN  EndValue(Put(e, Append(mark, FloatItem(sec))))

WriteInteger(e, n, tag) ==
    IF tag \in {"epoch_milli", "epoch_nano"} THEN WriteDouble(e, <<n, 1>>, tag)
    ELSE WriteInt64(IF tag = "epoch_second" THEN Put(e, <<TagItem(1)>>) ELSE e, n)

WriteElement(t, e, x) == IF t \in {"half", "float", "double"} THEN WriteDouble(e, x, "none")
                         ELSE WriteInt64(e, x)
-------------------------------------------------------------------------------
NewEncoder(o) == [frames |-> <<>>, depth |-> 0, numbered |-> <<>>, ec |-> "none",
                  sink |-> IF o.packStrings THEN <<TagItem(256)>> ELSE <<>>]

Init ==
    /\ options \in [packStrings : BOOLEAN, useTypedArrays : BOOLEAN]
    /\ enc = NewEncoder(options)

Makes(e) == enc.ec = "none" /\ enc' = e /\ UNCHANGED options

VisitBeginObject(c) == c[1] = "begin_object" /\ Makes(BeginContainer(enc, "map", c[2]))
VisitBeginArray(c) == c[1] = "begin_array" /\ Makes(BeginContainer(enc, "array", c[2]))
VisitEnd(c) == c[1] \in {"end_object", "end_array", "end_multi_dim"} /\ Makes(EndContainer(enc))
VisitKey(c) == c[1] = "key" /\ Makes(Then(WriteString(enc, c[2]), EndValue))
VisitNull(c) == c[1] = "null_value" /\
    Makes(EndValue(Put(enc, <<SimpleItem(IF c[3] = "undefined" THEN "undefined" ELSE "null")>>)))
VisitBool(c) == c[1] = "bool_value" /\
    Makes(EndValue(Put(enc, <<SimpleItem(IF c[2] THEN "true" ELSE "false")>>)))
VisitInteger(c) == c[1] \in {"uint64_value", "int64_value"} /\ Makes(WriteInteger(enc, c[2], c[3]))
VisitDouble(c) == c[1] = "double_value" /\ Makes(WriteDouble(enc, c[2], c[3]))

VisitString(c) ==
    /\ c[1] = "string_value"
    /\ LET mark == CASE c[3] = "datetime" -> <<TagItem(0)>> [] c[3] = "uri" -> <<TagItem(32)>>
                     [] c[3] = "base64url" -> <<TagItem(33)>> [] c[3] = "base64" -> <<TagItem(34)>>
                     [] OTHER -> <<>>
       IN  CASE c[3] = "bigint" -> Makes(EndValue(WriteBignum(enc, c[2][2])))
             [] c[3] = "bigdec" -> Makes(WriteScaled(enc, 4, c[2][2][1], c[2][2][2]))
             [] c[3] = "bigfloat" -> Makes(WriteScaled(enc, 5, c[2][2][1], c[2][2][2]))
             [] OTHER -> Makes(Then(WriteString(Put(enc, mark), c[2]), EndValue))

VisitByteString(c) ==
    /\ c[1] = "byte_string_value"
    /\ LET mark == CASE c[3] = "base64url" -> <<TagItem(21)>> [] c[3] = "base64" -> <<TagItem(22)>>
                     [] c[3] = "base16" -> <<TagItem(23)>> [] OTHER -> <<>>
       IN  Makes(EndValue(Packed(Put(enc, mark), BytesItem(c[2]), <<>>)))

\* The raw tag is written only where the bytes themselves are.
VisitExtByteString(c) ==
    c[1] = "ext_byte_string" /\ Makes(EndValue(Packed(enc, BytesItem(c[2][1]), <<TagItem(c[2][2])>>)))

VisitTypedArray(c) ==
    /\ c[1] = "typed_array"
    /\ LET t == c[2][1]
           WriteElementOf(e, x) == WriteElement(t, e, x)
       IN  Makes(IF options.useTypedArrays
                 THEN EndValue(Put(enc, <<TagItem(TypedArrayTag(t)), BytesItem(<<"elements", c[2]>>)>>))
                 ELSE Then(BeginContainer(enc, "array", Len(c[2][2])),
                           LAMBDA e : EndContainer(FoldLeft(WriteElementOf, e, c[2][2]))))

\* The array of the extents is closed here, the one around it by end_multi_dim.
VisitBeginMultiDim(c) ==
    /\ c[1] = "begin_multi_dim"
    /\ Makes(Then(Then(BeginContainer(Put(enc, <<TagItem(IF c[3] = "column_major" THEN 1040 ELSE 40)>>), "array", 2),
                       LAMBDA e : BeginContainer(e, "array", Len(c[2]))),
                  LAMBDA e : EndContainer(FoldLeft(WriteInt64, e, c[2]))))

Visit(c) ==
    \/ VisitBeginObject(c) \/ VisitBeginArray(c) \/ VisitEnd(c) \/ VisitKey(c)
    \/ VisitNull(c) \/ VisitBool(c) \/ VisitInteger(c) \/ VisitDouble(c)
    \/ VisitString(c) \/ VisitByteString(c) \/ VisitExtByteString(c)
    \/ VisitTypedArray(c) \/ VisitBeginMultiDim(c)
===============================================================================
