------------------------------ MODULE BsonParser ------------------------------
(***************************************************************************)
(* basic_bson_parser: BSON to calls on a json_visitor.  One iteration of   *)
(* the loop in parse is one action, by the parse_mode on top of            *)
(* state_stack_.  Each level counts the bytes that it has read, and a      *)
(* document has to be as long as it says.                                  *)
(*                                                                         *)
(* The loop goes on while more_ is set: an error is not asked for.         *)
(***************************************************************************)
EXTENDS BsonItems

CONSTANT BsonMaxParseDepth   \* option max_nesting_depth of the parser

VARIABLES
    source,   \* the items of the source
    parser    \* pos (the next item), stack (state_stack_), more (more_), done, ec, and
              \* out: the calls made in this iteration

AtEof(p) == p.pos > Len(source)
ItemAt(p) == IF AtEof(p) THEN <<"eof", 0>> ELSE source[p.pos]
Fail(p, code) == [p EXCEPT !.ec = code, !.more = FALSE]
Emit(p, call) == [p EXCEPT !.out = Append(@, call), !.more = TRUE]
Top(p) == Last(p.stack)
AddBytes(p, n) == [p EXCEPT !.stack[Len(p.stack)].pos = @ + n]
PushState(p, mode, length) ==
    [p EXCEPT !.stack = Append(@, [mode |-> mode, length |-> length, pos |-> 4, type |-> "none"])]

\* An item is read and its bytes are counted.
Read(p, k(_, _)) ==
    IF AtEof(p) THEN Fail(p, "unexpected_eof")
    ELSE k(AddBytes([p EXCEPT !.pos = @ + 1], ItemSize(ItemAt(p))), ItemAt(p)[2])

\* An item is read without counting.
ReadAhead(p, k(_, _)) ==
    IF AtEof(p) THEN Fail(p, "unexpected_eof") ELSE k([p EXCEPT !.pos = @ + 1], ItemAt(p)[2])

Then(p, f(_)) == IF p.ec = "none" THEN f(p) ELSE p

\* read_span: so many bytes.
ReadSpan(p, n, k(_, _)) ==
    IF n = 0 THEN k(p, <<"chars", "">>)
    ELSE ReadAhead(p, LAMBDA q, s : k(q, IF n = TextSize(s) THEN s ELSE <<"chars", "misread">>))

\* read_string: its bytes are counted when all of them have been read.
ReadString(p, k(_, _)) ==
    ReadAhead(p, LAMBDA q, n :
        IF n < 1 THEN Fail(q, "string_length_is_non_positive")
        ELSE ReadSpan(q, n - 1, LAMBDA r, s :
            ReadAhead(r, LAMBDA t, zero : k(AddBytes(t, 4 + n), s))))
ReadText(p, tag) ==
    ReadString(p, LAMBDA q, s : IF WellFormed(s) THEN Emit(q, <<"string_value", s, tag>>)
                                ELSE Fail(q, "invalid_utf8_text_string"))

BeginContainer(p, mode, begin) ==
    IF Len(p.stack) > BsonMaxParseDepth THEN Fail(p, "max_nesting_depth_exceeded")
    ELSE ReadAhead(p, LAMBDA q, n : PushState(Emit(q, Untagged(begin, Unsized)), mode, n))

\* The container's bytes are also its parent's.
EndContainer(p, call) ==
    LET q == Emit(p, Simple(call))
    IN  IF Top(q).pos # Top(q).length THEN Fail(q, "size_mismatch")
        ELSE AddBytes([q EXCEPT !.stack = Front(@)], Top(q).pos)

\* read_value
ReadValue(p, type) ==
    CASE type = "double" -> Read(p, LAMBDA q, r : Emit(q, Untagged("double_value", r)))
      [] type \in {"string", "symbol", "min_key", "max_key"} -> ReadText(p, "none")
      [] type = "javascript" -> ReadText(p, "code")
      [] type = "regex" ->
           Read(p, LAMBDA q, r : Read(q, LAMBDA t, o :
               Emit(t, <<"string_value", <<"regex", <<r, o>>>>, "regex">>)))
      [] type = "document" -> BeginContainer(p, "document", "begin_object")
      [] type = "array" -> BeginContainer(p, "array", "begin_array")
      [] type = "undefined" -> Emit(p, <<"null_value", 0, "undefined">>)
      [] type = "null" -> Emit(p, Simple("null_value"))
      [] type = "bool" -> Read(p, LAMBDA q, b : Emit(q, Untagged("bool_value", b)))
      [] type = "int32" -> Read(p, LAMBDA q, n : Emit(q, Untagged("int64_value", ToInt(n, 4))))
      [] type = "int64" -> Read(p, LAMBDA q, n : Emit(q, Untagged("int64_value", ToInt(n, 8))))
      [] type = "timestamp" -> Read(p, LAMBDA q, n : Emit(q, Untagged("uint64_value", n)))
      [] type = "datetime" -> Read(p, LAMBDA q, n : Emit(q, <<"int64_value", ToInt(n, 8), "epoch_milli">>))
      [] type = "binary" ->
           Read(p, LAMBDA q, n :
               IF n < 0 THEN Fail(q, "length_is_negative")
               ELSE Read(q, LAMBDA r, subtype : ReadSpan(r, n, LAMBDA t, s :
                   Emit(AddBytes(t, n), Untagged("ext_byte_string", <<s, subtype>>)))))
      [] type = "decimal128" ->
           Read(p, LAMBDA q, d : Emit(q, <<"string_value", <<"decimal", d>>, "float128">>))
      [] type = "object_id" -> Read(p, LAMBDA q, x : Emit(q, <<"string_value", <<"hex", x>>, "id">>))
      [] OTHER -> Fail(p, "unknown_type")

\* read_e_name: the name of a member is its key, that of an array's item is ignored.
ReadMemberName(p) ==
    Read(p, LAMBDA q, s : IF WellFormed(s) THEN Emit(q, Untagged("key", s))
                          ELSE Fail(q, "invalid_utf8_text_string"))
ReadIndexName(p) == Read(p, LAMBDA q, s : q)
-------------------------------------------------------------------------------
NewParser == [pos |-> 1, more |-> TRUE, done |-> FALSE, ec |-> "none", out |-> <<>>,
              stack |-> <<[mode |-> "root", length |-> 0, pos |-> 0, type |-> "none"]>>]
Init == parser = NewParser

Parsing(mode, next(_)) ==
    /\ ~parser.done /\ parser.more /\ Top(parser).mode = mode
    /\ parser' = next([parser EXCEPT !.out = <<>>])
    /\ UNCHANGED source

SetMode(p, mode) == [p EXCEPT !.stack[Len(p.stack)].mode = mode]

ParseRoot == Parsing("root", LAMBDA p : BeginContainer(SetMode(p, "accept"), "document", "begin_object"))

ParseDocument == Parsing("document", LAMBDA p :
    Read(p, LAMBDA q, type :
        IF type = "end" THEN EndContainer(q, "end_object")
        ELSE LET r == ReadMemberName(q)
             IN  [SetMode(r, "value") EXCEPT !.stack[Len(r.stack)].type = type]))

ParseValue == Parsing("value", LAMBDA p : ReadValue(SetMode(p, "document"), Top(p).type))

\* The value is read even if its name could not be.
ParseArray == Parsing("array", LAMBDA p :
    Read(p, LAMBDA q, type :
        IF type = "end" THEN EndContainer(q, "end_array") ELSE ReadValue(ReadIndexName(q), type)))

ParseAccept ==
    Parsing("accept", LAMBDA p : [Emit(p, Simple("flush")) EXCEPT !.stack = <<>>, !.done = TRUE, !.more = FALSE])

Parse == ParseRoot \/ ParseDocument \/ ParseValue \/ ParseArray \/ ParseAccept
===============================================================================
