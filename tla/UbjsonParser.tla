----------------------------- MODULE UbjsonParser -----------------------------
(***************************************************************************)
(* basic_ubjson_parser: UBJSON to calls on a json_visitor.  One iteration  *)
(* of the loop in parse is one action, by the parse_mode on top of         *)
(* state_stack_; the read functions map the parser's members.              *)
(***************************************************************************)
EXTENDS UbjsonItems

CONSTANTS
    UbjsonMaxParseDepth,   \* option max_nesting_depth of the parser
    UbjsonMaxItems         \* option max_items

VARIABLES
    source,   \* the items of the source
    parser    \* pos, stack (state_stack_), depth, done, ec, and out: the calls made in
              \* this iteration

EofItem == <<"eof", 0>>
ItemAt(p) == IF p.pos > Len(source) THEN EofItem ELSE source[p.pos]
AtEof(p) == ItemAt(p) = EofItem
Skip(p) == [p EXCEPT !.pos = @ + 1]
Fail(p, code) == [p EXCEPT !.ec = code]
Emit(p, call) == [p EXCEPT !.out = Append(@, call)]
PushState(p, mode, length, type) ==
    [p EXCEPT !.stack = Append(@, [mode |-> mode, length |-> length, type |-> type, index |-> 0])]
Top(p) == Last(p.stack)
SetMode(p, mode) == [p EXCEPT !.stack[Len(p.stack)].mode = mode]
Counted(p) == [p EXCEPT !.stack[Len(p.stack)].index = @ + 1]

\* f is called unless an error has been reported.
Then(p, f(_)) == IF p.ec = "none" THEN f(p) ELSE p

\* get_length: an integer that is not negative.
GetLength(p, k(_, _)) ==
    LET item == ItemAt(p)
        n == IntegerIn(item[1], item[2])
    IN  CASE AtEof(p) -> Fail(p, "unexpected_eof")
          [] item[1] \notin DOMAIN IntWidth -> Fail(p, "length_must_be_integer")
          [] n < 0 -> Fail(p, "length_is_negative")
          [] OTHER -> k(Skip(p), n)

\* read_span: so many bytes of the source.
ReadSpan(p, n, k(_, _)) ==
    IF n = 0 THEN k(p, <<"chars", "">>)
    ELSE IF AtEof(p) THEN Fail(p, "unexpected_eof")
    ELSE LET item == ItemAt(p)
         IN  k(Skip(p), IF item[1] = "data" /\ Size(item[2]) = n THEN item[2] ELSE <<"chars", "misread">>)

ReadText(p, k(_, _)) ==
    GetLength(p, LAMBDA q, n : ReadSpan(q, n, LAMBDA r, s :
        IF WellFormed(s) THEN k(r, s) ELSE Fail(r, "invalid_utf8_text_string")))

\* High precision numbers are not validated; those that are integers are told apart.
ReadHighPrecision(p) ==
    GetLength(p, LAMBDA q, n : ReadSpan(q, n, LAMBDA r, s :
        Emit(r, <<"string_value", s, IF s[1] = "int" THEN "bigint" ELSE "bigdec">>)))

\* read_key: whatever is wrong with the length, a key is missed.
ReadKey(p) ==
    LET q == ReadText(p, LAMBDA r, s : Emit(r, Untagged("key", s)))
        lengthFails == GetLength(p, LAMBDA r, n : r).ec # "none"
    IN  IF lengthFails THEN Fail(p, "key_expected") ELSE q

\* A container after its opening mark: [ or [# length or [$ type # length.
BeginContainer(p, begin, plain, strong, indefinite) ==
    LET deeper == [p EXCEPT !.depth = @ + 1]
        Sized(q, mode, type) ==
            GetLength(q, LAMBDA r, n : IF n > UbjsonMaxItems THEN Fail(r, "max_items_exceeded")
                                       ELSE Emit(PushState(r, mode, n, type), Untagged(begin, n)))
        type == ItemAt(Skip(p))
        count == ItemAt(Skip(Skip(p)))
    IN  CASE deeper.depth > UbjsonMaxParseDepth -> Fail(deeper, "max_nesting_depth_exceeded")
          [] AtEof(p) -> Fail(deeper, "unexpected_eof")
          [] ItemAt(p) = Mark("$") ->
               CASE type = EofItem \/ count = EofItem -> Fail(deeper, "unexpected_eof")
                 [] count # Mark("#") -> Fail(deeper, "count_required_after_type")
                 [] OTHER -> Sized([deeper EXCEPT !.pos = @ + 3], strong, type[2])
          [] ItemAt(p) = Mark("#") -> Sized(Skip(deeper), plain, "none")
          [] OTHER -> Emit(PushState(deeper, indefinite, 0, "none"), Untagged(begin, Unsized))

BeginArray(p) == BeginContainer(p, "begin_array", "array", "strongly_typed_array", "indefinite_array")
BeginObject(p) == BeginContainer(p, "begin_object", "map_key", "strongly_typed_map_key", "indefinite_map_key")
EndContainer(p, call) == [Emit(p, Simple(call)) EXCEPT !.depth = @ - 1, !.stack = Front(@)]

\* read_value: v is the value of fixed size.
ReadValue(p, type, v) ==
    CASE type = "Z" -> Emit(p, Simple("null_value"))
      [] type = "N" -> p
      [] type \in {"T", "F"} -> Emit(p, Untagged("bool_value", type = "T"))
      [] type = "U" -> Emit(p, Untagged("uint64_value", IntegerIn(type, v)))
      [] type \in {"i", "I", "l", "L"} -> Emit(p, Untagged("int64_value", IntegerIn(type, v)))
      [] type \in {"d", "D"} -> Emit(p, Untagged("double_value", v))
      [] type = "C" -> IF WellFormed(v) THEN Emit(p, Untagged("string_value", v))
                       ELSE Fail(p, "invalid_utf8_text_string")
      [] type = "S" -> ReadText(p, LAMBDA q, s : Emit(q, Untagged("string_value", s)))
      [] type = "H" -> ReadHighPrecision(p)
      [] <<type, v>> = Mark("[") \/ type = "[" -> BeginArray(p)
      [] <<type, v>> = Mark("{") \/ type = "{" -> BeginObject(p)
      [] OTHER -> Fail(p, "unknown_type")

ReadTypeAndValue(p) ==
    IF AtEof(p) THEN Fail(p, "unexpected_eof") ELSE ReadValue(Skip(p), ItemAt(p)[1], ItemAt(p)[2])

\* The value of an item whose container says its type.
ReadUntyped(p) ==
    LET type == Top(p).type
        fixed == type \in DOMAIN IntWidth \cup {"d", "D", "C"}
    IN  IF ~fixed THEN ReadValue(p, type, 0)
        ELSE IF AtEof(p) THEN Fail(p, "unexpected_eof")
        ELSE ReadValue(Skip(p), type, ItemAt(p)[2])
-------------------------------------------------------------------------------
NewParser == [pos |-> 1, depth |-> 0, done |-> FALSE, ec |-> "none", out |-> <<>>,
              stack |-> <<[mode |-> "root", length |-> 0, type |-> "none", index |-> 0]>>]
Init == parser = NewParser

Parsing(mode, next(_)) ==
    /\ ~parser.done /\ parser.ec = "none" /\ Top(parser).mode = mode
    /\ parser' = next([parser EXCEPT !.out = <<>>])
    /\ UNCHANGED source

\* The next of a known number of items, or the end.
ItemOrEnd(p, item(_), call) ==
    IF Top(p).index < Top(p).length THEN item(Counted(p)) ELSE EndContainer(p, call)

\* The next of any number of items, or the closing mark.
ItemOrMark(p, item(_), close, call) ==
    CASE AtEof(p) -> Fail(p, "unexpected_eof")
      [] ItemAt(p) = Mark(close) -> EndContainer(Skip(p), call)
      [] Counted(p).stack[Len(p.stack)].index > UbjsonMaxItems -> Fail(Counted(p), "max_items_exceeded")
      [] OTHER -> item(Counted(p))

KeyThen(p, mode) == Then(ReadKey(p), LAMBDA q : SetMode(q, mode))

ParseArray == Parsing("array", LAMBDA p : ItemOrEnd(p, ReadTypeAndValue, "end_array"))
ParseTypedArray == Parsing("strongly_typed_array", LAMBDA p : ItemOrEnd(p, ReadUntyped, "end_array"))
ParseIndefiniteArray ==
    Parsing("indefinite_array", LAMBDA p : ItemOrMark(p, ReadTypeAndValue, "]", "end_array"))

ParseMapKey ==
    Parsing("map_key", LAMBDA p : ItemOrEnd(p, LAMBDA q : KeyThen(q, "map_value"), "end_object"))
ParseMapValue == Parsing("map_value", LAMBDA p : ReadTypeAndValue(SetMode(p, "map_key")))
ParseTypedMapKey ==
    Parsing("strongly_typed_map_key", LAMBDA p :
        ItemOrEnd(p, LAMBDA q : KeyThen(q, "strongly_typed_map_value"), "end_object"))
ParseTypedMapValue ==
    Parsing("strongly_typed_map_value", LAMBDA p : ReadUntyped(SetMode(p, "strongly_typed_map_key")))
ParseIndefiniteMapKey ==
    Parsing("indefinite_map_key", LAMBDA p :
        ItemOrMark(p, LAMBDA q : KeyThen(q, "indefinite_map_value"), "}", "end_object"))
ParseIndefiniteMapValue ==
    Parsing("indefinite_map_value", LAMBDA p : ReadTypeAndValue(SetMode(p, "indefinite_map_key")))

ParseRoot == Parsing("root", LAMBDA p : ReadTypeAndValue(SetMode(p, "accept")))
ParseAccept ==
    Parsing("accept", LAMBDA p : [Emit(p, Simple("flush")) EXCEPT !.stack = <<>>, !.done = TRUE])

Parse ==
    \/ ParseArray \/ ParseTypedArray \/ ParseIndefiniteArray
    \/ ParseMapKey \/ ParseMapValue \/ ParseTypedMapKey \/ ParseTypedMapValue
    \/ ParseIndefiniteMapKey \/ ParseIndefiniteMapValue \/ ParseRoot \/ ParseAccept
===============================================================================
