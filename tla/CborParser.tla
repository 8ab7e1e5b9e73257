------------------------------ MODULE CborParser ------------------------------
(***************************************************************************)
(* basic_cbor_parser: CBOR items to calls on a generic_visitor, whose keys *)
(* are items like any other.  One iteration of the loop in parse is one    *)
(* action, by the parse_mode on top of state_stack_; read_item is a        *)
(* function of the parser's members.                                       *)
(*                                                                         *)
(* The source gives items, as CborItems has them.  A source that ends in   *)
(* an item is refused where one that ends before the item is.              *)
(***************************************************************************)
EXTENDS CborItems

CONSTANT CborMaxParseDepth   \* option max_nesting_depth of the parser

VARIABLES
    source,   \* the items of the source
    parser    \* pos, stack (state_stack_), depth, refs (stringref_map_stack_), tags
              \* (other_tags_), raw (raw_tag_), arrays (typed_array_stack_), extents,
              \* order, mdSize, done, ec, and out: the calls made in this iteration

EofItem == <<"eof", 0, <<>>>>
ItemAt(p) == IF p.pos > Len(source) THEN EofItem ELSE source[p.pos]
Skip(p) == [p EXCEPT !.pos = @ + 1]
Fail(p, code) == [p EXCEPT !.ec = code]
Emit(p, call) == [p EXCEPT !.out = Append(@, call)]
PushState(p, mode, length, pop) ==
    [p EXCEPT !.stack = Append(@, [mode |-> mode, length |-> length, index |-> 0, pop |-> pop])]
PopState(p) ==
    [p EXCEPT !.stack = Front(@), !.refs = IF Last(p.stack).pop THEN Front(@) ELSE @]
SetTop(p, mode) == [p EXCEPT !.stack[Len(p.stack)].mode = mode]
Mode(p) == Last(p.stack).mode
InMultiDim(p) == Len(p.stack) >= 2 /\ p.stack[Len(p.stack) - 1].mode = "multi_dim"
Untag(p) == [p EXCEPT !.tags = @ \ {"item"}]

\* f is called unless an error has been reported.
Then(p, f(_)) == IF p.ec = "none" THEN f(p) ELSE p

\* read_tags: any number of them; of those that are not about strings the last counts.
TagRead(p, item) ==
    CASE item[2] = 25 -> [p EXCEPT !.tags = @ \cup {"stringref"}]
      [] item[2] = 256 -> [p EXCEPT !.tags = @ \cup {"namespace"}]
      [] OTHER -> [p EXCEPT !.tags = @ \cup {"item"}, !.raw = item[2]]
ReadTags(p) ==
    LET n == CHOOSE i \in p.pos..(Len(source) + 1) :
                 /\ \A j \in p.pos..(i - 1) : source[j][1] = "tag"
                 /\ i <= Len(source) => source[i][1] # "tag"
        q == [FoldLeft(TagRead, p, SubSeq(source, p.pos, n - 1)) EXCEPT !.pos = n]
    IN  IF ItemAt(q) = EofItem THEN Fail(q, "unexpected_eof") ELSE q

\* The bytes that an argument of the head takes as the string's.
Taken(item) == IF item[2] = Size(item[3]) THEN item[3] ELSE <<"chars", "misread">>

Register(p, item) ==
    IF p.refs = <<>> \/ item[2] < MinLengthForStringref(Len(Last(p.refs))) THEN p
    ELSE [p EXCEPT !.refs[Len(p.refs)] = Append(@, item)]

\* iterate_string_chunks: what stops the chunks of an indefinite string.
ChunksEnd(p, major) ==
    CHOOSE i \in (p.pos + 1)..(Len(source) + 1) :
        /\ \A j \in (p.pos + 1)..(i - 1) :
               /\ source[j][1] = major /\ source[j][2] # Unsized
               /\ major = "text" => WellFormed(source[j][3])
        /\ \/ i > Len(source) \/ source[i][1] # major \/ source[i][2] = Unsized
           \/ major = "text" /\ ~WellFormed(source[i][3])
ReadChunks(p, major, k(_, _)) ==
    LET n == ChunksEnd(p, major)
        q == [p EXCEPT !.pos = n]
        chunks == [i \in 1..(n - p.pos - 1) |-> Taken(source[p.pos + i])]
    IN  CASE n > Len(source) -> Fail(q, "unexpected_eof")
          [] source[n][1] = "break" -> k(Skip(q), <<"chunks", chunks>>)
          [] source[n][1] # major \/ source[n][2] = Unsized -> Fail(q, "illegal_chunked_string")
          [] OTHER -> Fail(q, "invalid_utf8_text_string")

\* read_text_string_view, read_byte_string_view: a string of definite length is
\* entered in the innermost stringref map.
ReadString(p, k(_, _)) ==
    LET item == ItemAt(p)
    IN  IF item[2] = Unsized THEN ReadChunks(p, item[1], k)
        ELSE k(Register(Skip(p), item), Taken(item))

HandleString(p, s) ==
    LET tag == CASE "item" \notin p.tags -> "none"
                 [] p.raw = 0 -> "datetime" [] p.raw = 32 -> "uri"
                 [] p.raw = 33 -> "base64url" [] p.raw = 34 -> "base64" [] OTHER -> "none"
    IN  Untag(Emit(p, <<"string_value", s, tag>>))

\* A chunk is validated where it is read, a string of definite length here.
TextValue(p, s) == IF s[1] # "chunks" /\ ~WellFormed(s) THEN Fail(p, "invalid_utf8_text_string")
                   ELSE HandleString(p, s)
-------------------------------------------------------------------------------
(* Typed and multi-dimensional arrays: the iterators make their calls one  *)
(* at a time.                                                              *)

TypedArrayType(tag) ==
    CASE tag = 64 -> "uint8" [] tag = 68 -> "clamped" [] tag \in {65, 69} -> "uint16"
      [] tag \in {66, 70} -> "uint32" [] tag \in {67, 71} -> "uint64" [] tag = 72 -> "int8"
      [] tag \in {73, 77} -> "int16" [] tag \in {74, 78} -> "int32" [] tag \in {75, 79} -> "int64"
      [] tag \in {80, 84} -> "half" [] tag \in {81, 85} -> "float" [] tag \in {82, 86} -> "double"
      [] OTHER -> "none"

ElementCall(t, x) ==
    CASE t \in {"uint8", "clamped", "uint16", "uint32", "uint64"} -> Untagged("uint64_value", x)
      [] t \in {"int8", "int16", "int32", "int64"} -> Untagged("int64_value", x)
      [] OTHER -> Untagged("double_value", x)

\* The elements that the bytes hold when they are taken for elements of type t.
Cast(t, s) == IF s[1] = "elements" /\ s[2][1] = t THEN s[2][2] ELSE <<>>

Product(s) == FoldLeft(LAMBDA m, n : m * n, 1, s)

\* The distance between two elements that differ by one in dimension i.
Stride(extents, order, i) ==
    Product(IF order = "column_major" THEN SubSeq(extents, 1, i - 1)
            ELSE SubSeq(extents, i + 1, Len(extents)))
Dimensions(extents, order) ==
    [i \in 1..Len(extents) |->
        [extent |-> extents[i], stride |-> Stride(extents, order, i), index |-> 0,
         end |-> Stride(extents, order, i) * extents[i]]]

\* A new iterator, which has made its first call.
OneDim(t, data) == [kind |-> "oned", type |-> t, data |-> data, dims |-> <<>>, dim |-> 1,
                    count |-> 0, done |-> FALSE]
MultiDim(kind, t, data, p) ==
    [OneDim(t, data) EXCEPT !.kind = kind, !.dims = Dimensions(p.extents, p.order)]
PushIterator(p, it) == [p EXCEPT !.arrays = Append(@, it)]

TypedArray(p, t, s) ==
    LET data == Cast(t, s)
        first == IF t = "clamped" THEN "clamped" ELSE "none"
    IN  IF Mode(p) # "multi_dim"
        THEN PushState(Emit(PushIterator(p, OneDim(t, data)), <<"begin_array", Len(data), first>>),
                       "typed_array", Len(data), FALSE)
        ELSE IF p.mdSize # Len(data) THEN Fail(p, "bad_extents")
        ELSE PushState(Emit(PushIterator(p, MultiDim("typed", t, data, p)),
                            Untagged("begin_array", p.extents[1])),
                       "typed_array", Len(data), FALSE)

\* read_byte_string, for bytes of the source and of the stringref map.
BytesValue(p, s) ==
    IF "item" \notin p.tags THEN Emit(p, <<"byte_string_value", s, "none">>)
    ELSE LET n == IF s[1] = "magnitude" THEN s[2] ELSE 0
         IN  Then(CASE p.raw = 2 -> Emit(p, <<"string_value", <<"int", n>>, "bigint">>)
                    [] p.raw = 3 -> Emit(p, <<"string_value", <<"int", -1 - n>>, "bigint">>)
                    [] p.raw = 21 -> Emit(p, <<"byte_string_value", s, "base64url">>)
                    [] p.raw = 22 -> Emit(p, <<"byte_string_value", s, "base64">>)
                    [] p.raw = 23 -> Emit(p, <<"byte_string_value", s, "base16">>)
                    [] TypedArrayType(p.raw) # "none" -> TypedArray(p, TypedArrayType(p.raw), s)
                    [] OTHER -> Emit(p, <<"ext_byte_string", <<s, p.raw>>, "none">>),
                  Untag)

Iterator(p) == Last(p.arrays)
SetIterator(p, it) == [p EXCEPT !.arrays[Len(p.arrays)] = it]

\* next of oned_typed_array_iterator, after its first call.
NextOfOneDim(p) ==
    LET it == Iterator(p)
    IN  IF it.count < Len(it.data)
        THEN SetIterator(Emit(p, ElementCall(it.type, it.data[it.count + 1])),
                         [it EXCEPT !.count = @ + 1])
        ELSE SetIterator(Emit(p, Simple("end_array")), [it EXCEPT !.done = TRUE])

\* The inner dimensions start again below the element that dimension d has come to.
Restarted(dims, d) ==
    FoldLeft(LAMBDA ds, i : LET at == ds[i - 1].index
                            IN  [ds EXCEPT ![i].index = at, ![i].end = at + ds[i].stride * ds[i].extent],
             dims, [j \in 1..(Len(dims) - d) |-> d + j])

\* next of the three iterators over several dimensions, after the first call.
\* Only the one over a column-major array of items makes no calls for the inner
\* arrays.  element makes the call for the element at an index.
NextOfMultiDim(p, element(_, _)) ==
    LET it == Iterator(p)
        d == it.dims[it.dim]
        flat == it.kind = "column"
        CallUnlessFlat(c) == IF flat THEN p ELSE Emit(p, c)
        outer == [it.dims EXCEPT ![it.dim - 1].index = @ + it.dims[it.dim - 1].stride]
        up == [it EXCEPT !.dim = @ - 1,
                         !.dims = IF outer[it.dim - 1].index < outer[it.dim - 1].end
                                  THEN Restarted(outer, it.dim - 1) ELSE outer]
    IN  IF it.dim = 1 /\ d.index = d.end
        THEN SetIterator(IF flat THEN Emit(Emit(p, Simple("end_array")), Simple("end_array"))
                         ELSE Emit(p, Simple("end_array")), [it EXCEPT !.done = TRUE])
        ELSE IF it.dim < Len(it.dims) /\ d.index < d.end
        THEN SetIterator(CallUnlessFlat(Untagged("begin_array", d.extent)), [it EXCEPT !.dim = @ + 1])
        ELSE IF d.index < d.end
        THEN element(SetIterator(p, [it EXCEPT !.dims[it.dim].index = @ + d.stride, !.count = @ + 1]),
                     d.index)
        ELSE SetIterator(CallUnlessFlat(Simple("end_array")), up)

NextOfTyped(p) ==
    NextOfMultiDim(p, LAMBDA q, i : Emit(q, ElementCall(Iterator(q).type, Iterator(q).data[i + 1])))
-------------------------------------------------------------------------------
(* Containers.                                                             *)

\* The part that begin_array, begin_object and begin_classical_array_storage share.
Opening(p, sized, indefinite, k(_, _)) ==
    LET item == ItemAt(p)
        deeper == [p EXCEPT !.depth = @ + 1]
        named == "namespace" \in p.tags
        q == [deeper EXCEPT !.refs = IF named THEN Append(@, <<>>) ELSE @, !.tags = @ \ {"namespace"}]
    IN  IF deeper.depth > CborMaxParseDepth THEN Fail(deeper, "max_nesting_depth_exceeded")
        ELSE IF item[2] = Unsized THEN k(PushState(Skip(q), indefinite, 0, named), Unsized)
        ELSE k(PushState(Skip(q), sized, item[2], named), item[2])

BeginArray(p) ==
    Opening(p, "array", "indefinite_array", LAMBDA q, n : Emit(q, Untagged("begin_array", n)))
BeginObject(p) ==
    Opening(p, "map_key", "indefinite_map_key", LAMBDA q, n : Emit(q, Untagged("begin_object", n)))
BeginStorage(p) == Opening(p, "array", "indefinite_array", LAMBDA q, n : q)

\* Mutant: the container's state is left on the stack.
EndContainerWithoutPop(p, call) == Emit([p EXCEPT !.depth = @ - 1], Simple(call))

EndContainer(p, call) == PopState(Emit([p EXCEPT !.depth = @ - 1], Simple(call)))
EndStorage(p) == PopState([p EXCEPT !.depth = @ - 1])

\* read_int64 of a negative integer: one that int64_t does not hold wraps around.
NegativeOf(item) == ToInt(-1 - item[2], 8)

\* Tags 4 and 5: an array of two items, the first of them the exponent.
ReadExponent(p, code, k(_, _)) ==
    LET item == ItemAt(Skip(p))
    IN  IF ItemAt(p)[2] # 2 THEN Fail(p, code)
        ELSE IF item = EofItem THEN Fail(p, "unexpected_eof")
        ELSE IF item[1] \notin {"uint", "nint"} THEN Fail(p, code)
        ELSE k(Skip(Skip(p)), IF item[1] = "nint" THEN NegativeOf(item) ELSE item[2])

\* The mantissa, <<>> where the code has no digits for it: an integer or tagged bytes,
\* a bignum if the tag is 2 or 3.  What is tagged and not bytes is left where it is.
\* (Only the first byte of the tag is read, the whole of a tag up to 23.)
ReadMantissa(p, code, negative(_), k(_, _)) ==
    LET item == ItemAt(p)
        tagged == ItemAt(Skip(p))
        n(s) == IF s[1] = "magnitude" THEN s[2] ELSE 0
        bignum(s) == CASE item[2] = 2 -> <<n(s)>> [] item[2] = 3 -> <<-1 - n(s)>> [] OTHER -> <<>>
    IN  CASE item[1] = "uint" -> k(Skip(p), <<item[2]>>)
          [] item[1] = "nint" -> k(Skip(p), <<negative(item)>>)
          [] item[1] = "tag" /\ tagged[1] = "bytes" ->
               ReadString(Skip(p), LAMBDA q, s : k(q, bignum(s)))
          [] item[1] = "tag" /\ tagged[1] \notin {"bytes", "eof"} -> k(Skip(p), <<>>)
          [] EofItem \in {item, tagged} /\ item[1] \in {"eof", "tag"} -> Fail(p, "unexpected_eof")
          [] OTHER -> Fail(p, code)

\* prettify_string adds the number of digits to the exponent, in an int; beyond its
\* range the text is whatever the overflow makes of it.
DecimalText(m, e) ==
    IF Digits(Magnitude(m), 10) + e \in (1 - Int32Max)..Int32Max
    THEN <<"decimal", <<m, e>>>> ELSE <<"chars", "misread">>

\* Mutant: an exponent that an int does not hold is taken.
FitsAlways(e) == TRUE

\* The exponent of a decimal fraction is to be an int.
FitsInt(e) == e \in -(Int32Max + 1)..Int32Max

ReadDecimalFraction(p) ==
    LET code == "invalid_decimal_fraction"
        Made(q, m, e) == IF m = <<>> THEN Fail(q, code)
                         ELSE Untag(Emit(q, <<"string_value", DecimalText(m[1], e), "bigdec">>))
    IN  ReadExponent(p, code, LAMBDA q, e :
            IF ~FitsInt(e) THEN Fail(q, code)
            ELSE ReadMantissa(q, code, NegativeOf, LAMBDA r, m : Made(r, m, e)))

\* The digits of a negative mantissa are those of an unsigned integer, and a mantissa
\* without digits leaves the exponent alone.
ReadBigfloat(p) ==
    LET code == "invalid_bigfloat"
        text(m, e) == IF m = <<>> THEN <<"exponent", e>> ELSE <<"hexfloat", <<m[1], e>>>>
    IN  ReadExponent(p, code, LAMBDA q, e :
            ReadMantissa(q, code, LAMBDA item : -ToUint(1 + item[2], 8), LAMBDA r, m :
                Untag(Emit(r, <<"string_value", text(m, ToInt(e, 8)), "bigfloat">>))))

\* calculate_mdarray_size, 0 where it reports an error: an extent of zero, or a product
\* that size_t does not hold.
MdarraySize(extents) ==
    FoldLeft(LAMBDA n, x : IF x = 0 \/ n > UintMax(8) \div x THEN 0 ELSE n * x, 1, extents)

\* read_extents: one number for each dimension.
ReadExtents(p) ==
    LET item == ItemAt(p)
        n == IF item[2] # Unsized THEN p.pos + item[2]
             ELSE CHOOSE i \in p.pos..Len(source) :
                      /\ \A j \in (p.pos + 1)..i : source[j] # BreakItem
                      /\ i = Len(source) \/ source[i + 1] = BreakItem
        extents == [i \in 1..(n - p.pos) |-> source[p.pos + i][2]]
        last == IF item[2] = Unsized THEN n + 1 ELSE n
    IN  IF item = EofItem THEN Fail(p, "unexpected_eof")
        ELSE IF item[1] # "array" THEN Fail(p, "bad_extents")
        ELSE IF last > Len(source) THEN Fail(p, "unexpected_eof")
        ELSE IF extents = <<>> \/ MdarraySize(extents) = 0 THEN Fail(p, "bad_extents")
        ELSE [p EXCEPT !.pos = last + 1, !.extents = extents, !.mdSize = MdarraySize(extents)]

\* Both items of the array are read here; its own length is not looked at.
ReadStorage(p) ==
    LET item == ItemAt(p)
        q == PushState(p, "multi_dim", 0, FALSE)
        first == Untagged("begin_array", p.extents[1])
        Row(s) == Emit(PushIterator(s, MultiDim("row", "item", <<>>, s)), first)
        Shape(s) == FoldLeft(LAMBDA r, n : Emit(r, Untagged("uint64_value", n)), Emit(s, first), s.extents)
        Column(s) ==
            Emit(Emit(Shape(Emit(PushIterator(s, MultiDim("column", "item", <<>>, s)),
                                 <<"begin_array", s.extents[1], "column_major">>)),
                      Simple("end_array")),
                 first)
    IN  CASE item[1] = "array" /\ p.order = "row_major" -> Then(BeginStorage(q), Row)
          [] item[1] = "array" /\ p.order = "column_major" -> Then(BeginStorage(q), Column)
          [] item[1] = "bytes" ->
               Then(ReadString(q, BytesValue),
                    LAMBDA r : IF Len(r.arrays) = Len(p.arrays) THEN Fail(r, "bad_mdarray") ELSE r)
          [] OTHER -> Fail(q, "bad_mdarray")
ReadMultiDim(p, order) ==
    Then(Then(ReadExtents(Skip([p EXCEPT !.order = order])), ReadTags), ReadStorage)
-------------------------------------------------------------------------------
(* read_item.                                                              *)

TimeTag(p) == IF "item" \in p.tags /\ p.raw = 1 THEN "epoch_second" ELSE "none"

Stringref(p, n) ==
    LET table == Last(p.refs)
        item == table[n + 1]
        q == [p EXCEPT !.tags = @ \ {"stringref"}]
    IN  IF n >= Len(table) THEN Fail(q, "stringref_too_large")
        ELSE IF item[1] = "text" THEN HandleString(q, item[3]) ELSE BytesValue(q, item[3])

ReadNumber(p, item) ==
    CASE item[1] = "uint" /\ p.refs # <<>> /\ "stringref" \in p.tags -> Stringref(Skip(p), item[2])
      [] item[1] = "uint" -> Emit(Skip(p), <<"uint64_value", item[2], TimeTag(p)>>)
      [] item[1] = "nint" -> Emit(Skip(p), <<"int64_value", NegativeOf(item), TimeTag(p)>>)
      [] item[1] = "half" -> Emit(Skip(p), Untagged("half_value", item[3]))
      [] OTHER -> Emit(Skip(p), <<"double_value", item[3], TimeTag(p)>>)

ReadSimple(p, name) ==
    CASE name \in {"false", "true"} -> Emit(Skip(p), Untagged("bool_value", name = "true"))
      [] name = "null" -> Emit(Skip(p), Simple("null_value"))
      [] name = "undefined" -> Emit(Skip(p), <<"null_value", 0, "undefined">>)
      [] OTHER -> Fail(p, "unknown_type")

ReadArray(p) ==
    CASE "item" \notin p.tags -> BeginArray(p)
      [] p.raw = 4 -> ReadDecimalFraction(p)
      [] p.raw = 5 -> ReadBigfloat(p)
      [] p.raw = 40 -> ReadMultiDim(p, "row_major")
      [] p.raw = 1040 -> ReadMultiDim(p, "column_major")
      [] OTHER -> BeginArray(p)

ReadUntagged(p) ==
    LET item == ItemAt(p)
    IN  Then(CASE item[1] \in {"uint", "nint", "half", "float", "double"} -> ReadNumber(p, item)
               [] item[1] = "text" -> ReadString(p, TextValue)
               [] item[1] = "bytes" -> ReadString(p, BytesValue)
               [] item[1] = "array" -> ReadArray(p)
               [] item[1] = "map" -> BeginObject(p)
               [] item[1] = "simple" -> ReadSimple(p, item[3])
               [] item[1] = "break" -> Fail(p, "unknown_type"),
             Untag)

ReadItem(p) == Then(ReadTags(p), ReadUntagged)
-------------------------------------------------------------------------------
NewParser == [pos |-> 1, stack |-> <<[mode |-> "root", length |-> 0, index |-> 0, pop |-> FALSE]>>,
              depth |-> 0, refs |-> <<>>, tags |-> {}, raw |-> 0, arrays |-> <<>>, extents |-> <<>>,
              order |-> "row_major", mdSize |-> 0, done |-> FALSE, ec |-> "none", out |-> <<>>]

Init == parser = NewParser

Parsing(mode, next(_)) ==
    /\ ~parser.done /\ parser.ec = "none" /\ Mode(parser) = mode
    /\ parser' = next([parser EXCEPT !.out = <<>>])
    /\ UNCHANGED source

Counted(p) == [p EXCEPT !.stack[Len(p.stack)].index = @ + 1]

\* The storage of a multi-dimensional array that is an array of items.
StorageItem(p) ==
    IF ~Iterator(p).done THEN NextOfMultiDim(p, LAMBDA q, i : ReadItem(q))
    ELSE IF Mode(p) = "array"
    THEN IF Iterator(p).count # Last(p.stack).length THEN Fail(p, "bad_mdarray") ELSE EndStorage(p)
    ELSE IF ItemAt(p) = EofItem THEN Fail(p, "unexpected_eof")
    ELSE IF ItemAt(p) # BreakItem THEN Fail(p, "bad_mdarray") ELSE EndStorage(Skip(p))

ParseMultiDim == Parsing("multi_dim", LAMBDA p : PopState([p EXCEPT !.arrays = Front(@)]))

ParseTypedArray == Parsing("typed_array", LAMBDA p :
    LET q == IF Iterator(p).kind = "oned" THEN NextOfOneDim(p) ELSE NextOfTyped(p)
    IN  IF ~Iterator(q).done THEN q
        ELSE PopState(IF InMultiDim(q) THEN q ELSE [q EXCEPT !.arrays = Front(@)]))

ParseArray == Parsing("array", LAMBDA p :
    IF InMultiDim(p) THEN StorageItem(p)
    ELSE IF Last(p.stack).index < Last(p.stack).length THEN ReadItem(Counted(p))
    ELSE EndContainer(p, "end_array"))

\* A break ends what the item is otherwise part of.
ItemOrBreak(p, call, item(_)) ==
    CASE ItemAt(p) = EofItem -> Fail(p, "unexpected_eof")
      [] ItemAt(p) = BreakItem -> EndContainer(Skip(p), call)
      [] OTHER -> item(p)

ParseIndefiniteArray == Parsing("indefinite_array", LAMBDA p :
    IF InMultiDim(p) THEN StorageItem(p) ELSE ItemOrBreak(p, "end_array", ReadItem))

ParseMapKey == Parsing("map_key", LAMBDA p :
    IF Last(p.stack).index < Last(p.stack).length THEN ReadItem(SetTop(Counted(p), "map_value"))
    ELSE EndContainer(p, "end_object"))

ParseMapValue == Parsing("map_value", LAMBDA p : ReadItem(SetTop(p, "map_key")))

ParseIndefiniteMapKey == Parsing("indefinite_map_key", LAMBDA p :
    ItemOrBreak(p, "end_object", LAMBDA q : ReadItem(SetTop(q, "indefinite_map_value"))))

ParseIndefiniteMapValue ==
    Parsing("indefinite_map_value", LAMBDA p : ReadItem(SetTop(p, "indefinite_map_key")))

ParseRoot == Parsing("root", LAMBDA p : ReadItem(SetTop(p, "accept")))

ParseAccept ==
    Parsing("accept", LAMBDA p : [Emit(p, Simple("flush")) EXCEPT !.stack = <<>>, !.done = TRUE])

Parse ==
    \/ ParseMultiDim \/ ParseTypedArray \/ ParseArray \/ ParseIndefiniteArray
    \/ ParseMapKey \/ ParseMapValue \/ ParseIndefiniteMapKey \/ ParseIndefiniteMapValue
    \/ ParseRoot \/ ParseAccept
===============================================================================
