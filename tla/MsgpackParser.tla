---------------------------- MODULE MsgpackParser -----------------------------
(***************************************************************************)
(* basic_msgpack_parser: MessagePack to calls on a generic_visitor, whose  *)
(* keys are items like any other.  One iteration of the loop in parse is   *)
(* one action, by the parse_mode on top of state_stack_.                   *)
(***************************************************************************)
EXTENDS MsgpackItems

CONSTANT MsgpackMaxParseDepth   \* option max_nesting_depth of the parser

VARIABLES
    source,   \* the items of the source
    parser    \* pos, stack (state_stack_), depth, done, ec, and out: the calls made in
              \* this iteration

Skip(p) == [p EXCEPT !.pos = @ + 1]
Fail(p, code) == [p EXCEPT !.ec = code]
Emit(p, call) == [p EXCEPT !.out = Append(@, call)]
PushState(p, mode, length) == [p EXCEPT !.stack = Append(@, [mode |-> mode, length |-> length, index |-> 0])]
Top(p) == Last(p.stack)
SetMode(p, mode) == [p EXCEPT !.stack[Len(p.stack)].mode = mode]
Counted(p) == [p EXCEPT !.stack[Len(p.stack)].index = @ + 1]

BeginContainer(p, item, mode, begin) ==
    LET deeper == [p EXCEPT !.depth = @ + 1]
    IN  IF deeper.depth > MsgpackMaxParseDepth THEN Fail(deeper, "max_nesting_depth_exceeded")
        ELSE Emit(PushState(deeper, mode, item[2]), Untagged(begin, item[2]))
EndContainer(p, call) == [Emit(p, Simple(call)) EXCEPT !.depth = @ - 1, !.stack = Front(@)]

\* The bytes that a length takes for the string's.
Taken(s, n) == IF n = Size(s) THEN s ELSE <<"chars", "misread">>

ReadText(p, item) ==
    LET s == Taken(item[3], item[2])
    IN  IF WellFormed(s) THEN Emit(p, Untagged("string_value", s)) ELSE Fail(p, "invalid_utf8_text_string")

\* Extensions of type -1 are timestamps, by their length.  The nanoseconds count
\* away from zero.
ReadExtension(p, length, type, content) ==
    LET seconds == content[2][1]
        nanoseconds == content[2][2]
        text == <<"nanos", <<seconds, IF seconds < 0 THEN -nanoseconds ELSE nanoseconds>>>>
    IN  CASE type = TimestampType /\ length = 4 -> Emit(p, <<"uint64_value", seconds, "epoch_second">>)
          [] type = TimestampType /\ length \in {8, 12} -> Emit(p, <<"string_value", text, "epoch_nano">>)
          [] OTHER -> Emit(p, Untagged("ext_byte_string", <<Taken(content, length), type>>))

Texts == {"fixstr", "str8", "str16", "str32"}
ByteStrings == {"bin8", "bin16", "bin32"}
Extensions == {"fixext1", "fixext2", "fixext4", "fixext8", "fixext16", "ext8", "ext16", "ext32"}
Unsigned == {"fixint", "uint8", "uint16", "uint32", "uint64"}
Signed == {"negative_fixint", "int8", "int16", "int32", "int64"}

ReadFormat(p, item) ==
    LET format == item[1]
    IN CASE format \in Unsigned -> Emit(p, Untagged("uint64_value", item[2]))
         [] format \in Signed -> Emit(p, Untagged("int64_value", ToInt(item[2], WidthOf(format))))
         [] format \in {"fixmap", "map16", "map32"} -> BeginContainer(p, item, "map_key", "begin_object")
         [] format \in {"fixarray", "array16", "array32"} -> BeginContainer(p, item, "array", "begin_array")
         [] format \in Texts -> ReadText(p, item)
         [] format \in ByteStrings -> Emit(p, Untagged("byte_string_value", Taken(item[3], item[2])))
         [] format \in Extensions -> ReadExtension(p, item[2][1], item[2][2], item[3])
         [] format = "nil" -> Emit(p, Simple("null_value"))
         [] format \in {"true", "false"} -> Emit(p, Untagged("bool_value", format = "true"))
         [] format \in {"float32", "float64"} -> Emit(p, Untagged("double_value", item[3]))
         [] OTHER -> Fail(p, "unknown_type")

ReadItem(p) == IF p.pos > Len(source) THEN Fail(p, "unexpected_eof") ELSE ReadFormat(Skip(p), source[p.pos])
-------------------------------------------------------------------------------
NewParser == [pos |-> 1, depth |-> 0, done |-> FALSE, ec |-> "none", out |-> <<>>,
              stack |-> <<[mode |-> "root", length |-> 0, index |-> 0]>>]
Init == parser = NewParser

Parsing(mode, next(_)) ==
    /\ ~parser.done /\ parser.ec = "none" /\ Top(parser).mode = mode
    /\ parser' = next([parser EXCEPT !.out = <<>>])
    /\ UNCHANGED source

\* Mutant: one item too many is read.
MoreByOne(p) == Top(p).index <= Top(p).length

More(p) == Top(p).index < Top(p).length

ParseArray == Parsing("array", LAMBDA p : IF More(p) THEN ReadItem(Counted(p)) ELSE EndContainer(p, "end_array"))
ParseMapKey == Parsing("map_key", LAMBDA p :
    IF More(p) THEN ReadItem(SetMode(Counted(p), "map_value")) ELSE EndContainer(p, "end_object"))
ParseMapValue == Parsing("map_value", LAMBDA p : ReadItem(SetMode(p, "map_key")))
ParseRoot == Parsing("root", LAMBDA p : ReadItem(SetMode(p, "accept")))
ParseAccept ==
    Parsing("accept", LAMBDA p : [Emit(p, Simple("flush")) EXCEPT !.stack = <<>>, !.done = TRUE])

Parse == ParseArray \/ ParseMapKey \/ ParseMapValue \/ ParseRoot \/ ParseAccept
===============================================================================
