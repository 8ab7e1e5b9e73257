----------------------------- MODULE BsonEncoder ------------------------------
(***************************************************************************)
(* basic_bson_encoder: the visitor that writes BSON.  One action for each  *)
(* visit_* function.  A document is built in buffer_, since its length is  *)
(* written before it and the type of a member before its name, and goes to *)
(* the sink when it is complete.                                           *)
(*                                                                         *)
(* Regular expressions begin with their slash.                             *)
(***************************************************************************)
EXTENDS BsonItems

CONSTANT BsonMaxDepth   \* option max_nesting_depth of the encoder

VARIABLES
    enc,      \* frames (stack_: at and member are places in the buffer), buffer
              \* (buffer_), depth (nesting_depth_), sink and ec
    options   \* this encoder reads none that are modelled

Put(e, items) == [e EXCEPT !.buffer = @ \o items]
Raise(e, code) == [e EXCEPT !.ec = code]

\* before_value: the type goes where the key left room for it, or in front of the
\* index of an array's item.
BeforeValue(e, type) ==
    LET n == Len(e.frames)
        top == e.frames[n]
    IN  IF top.type = "document" THEN [e EXCEPT !.buffer[top.member] = <<"type", type>>]
        ELSE Put([e EXCEPT !.frames[n].index = @ + 1], <<<<"type", type>>, <<"name", <<"int", top.index>>>>>>)

BeginContainer(e, type) ==
    LET deeper == [e EXCEPT !.depth = @ + 1]
        typed == IF e.buffer = <<>> THEN deeper ELSE BeforeValue(deeper, type)
        frame == [type |-> type, at |-> Len(typed.buffer) + 1, member |-> 0, index |-> 0]
    IN  IF deeper.depth > BsonMaxDepth THEN Raise(deeper, "max_nesting_depth_exceeded")
        ELSE IF e.buffer # <<>> /\ e.frames = <<>> THEN Raise(deeper, "expected_bson_document")
        ELSE Put([typed EXCEPT !.frames = Append(@, frame)], <<<<"length", 0>>>>)

\* The length counts its own four bytes and the zero byte at the end.
EndContainer(e) ==
    LET at == Last(e.frames).at
        ended == Append(e.buffer, <<"type", "end">>)
        length == ToUint(BytesOf(SubSeq(ended, at, Len(ended))), 4)
        patched == [ended EXCEPT ![at] = <<"length", length>>]
        popped == [e EXCEPT !.depth = @ - 1, !.buffer = patched, !.frames = Front(@)]
    IN  IF popped.frames = <<>> THEN [popped EXCEPT !.sink = @ \o patched] ELSE popped

PutText(e, s) ==
    IF ~WellFormed(s) THEN Raise(e, "invalid_utf8_text_string")
    ELSE Put(e, <<<<"length", ToUint(TextSize(s) + 1, 4)>>>> \o Data(s) \o <<<<"zero", 0>>>>)
PutBytes(e, s, subtype) ==
    Put(e, <<<<"length", ToUint(Size(s), 4)>>, <<"subtype", ToUint(subtype, 1)>>>> \o Data(s))

\* A scalar is no document.
Element(e, type, items) ==
    IF e.frames = <<>> THEN Raise(e, "expected_bson_document") ELSE Put(BeforeValue(e, type), items)

\* Division that rounds towards zero.
Quotient(n, d) == IF n < 0 THEN -((-n) \div d) ELSE n \div d

DateTime(e, n) == Element(e, "datetime", <<<<"int64", ToUint(n, 8)>>>>)

\* The number of milliseconds has to be an int64_t; of an unsigned number of
\* seconds it only has to be a uint64_t.
WriteSeconds(e, n, op) ==
    LET least == IF op = "int64_value" THEN Quotient(-(Int64Max + 1), 1000) ELSE 0
        greatest == (IF op = "int64_value" THEN Int64Max ELSE UintMax(8)) \div 1000
    IN  CASE e.frames = <<>> -> Raise(e, "expected_bson_document")
          [] n < least -> Raise(e, "datetime_too_small")
          [] n > greatest -> Raise(e, "datetime_too_large")
          [] OTHER -> DateTime(e, n * 1000)
-------------------------------------------------------------------------------
NewEncoder == [frames |-> <<>>, buffer |-> <<>>, depth |-> 0, sink |-> <<>>, ec |-> "none"]
Init == enc = NewEncoder /\ options = <<>>

Makes(e) == enc.ec = "none" /\ enc' = e /\ UNCHANGED options

VisitBeginObject(c) == c[1] = "begin_object" /\ Makes(BeginContainer(enc, "document"))
VisitBeginArray(c) == c[1] = "begin_array" /\ Makes(BeginContainer(enc, "array"))
VisitEnd(c) == c[1] \in {"end_object", "end_array"} /\ Makes(EndContainer(enc))

\* Names are written as they are.
VisitKey(c) == c[1] = "key" /\
    Makes(Put([enc EXCEPT !.frames[Len(enc.frames)].member = Len(enc.buffer) + 1],
              <<<<"type", "end">>, <<"name", c[2]>>>>))

VisitNull(c) == c[1] = "null_value" /\
    Makes(Element(enc, IF c[3] = "undefined" THEN "undefined" ELSE "null", <<>>))
VisitBool(c) == c[1] = "bool_value" /\ Makes(Element(enc, "bool", <<<<"bool", c[2]>>>>))
VisitDouble(c) == c[1] = "double_value" /\ Makes(Element(enc, "double", <<<<"double", c[2]>>>>))

VisitInteger(c) == c[1] \in {"int64_value", "uint64_value"} /\
    LET n == c[2]
    IN  Makes(CASE c[3] = "epoch_second" -> WriteSeconds(enc, n, c[1])
                [] c[3] = "epoch_milli" -> DateTime(enc, n)
                [] c[3] = "epoch_nano" -> DateTime(enc, Quotient(n, 1000000))
                [] enc.frames # <<>> /\ n > Int64Max -> Raise(enc, "number_too_large")
                [] n \in -(Int32Max + 1)..Int32Max -> Element(enc, "int32", <<<<"int32", ToUint(n, 4)>>>>)
                [] OTHER -> Element(enc, "int64", <<<<"int64", ToUint(n, 8)>>>>))

VisitString(c) == c[1] = "string_value" /\
    LET s == c[2]
        Typed(type, put(_)) ==
            LET e == Element(enc, type, <<>>) IN IF e.ec = "none" THEN put(e) ELSE e
    IN  Makes(CASE c[3] = "float128" -> Typed("decimal128", LAMBDA e :
                     IF s[1] = "decimal" THEN Put(e, <<<<"decimal128", s[2]>>>>)
                     ELSE Raise(e, "invalid_decimal128_string"))
                [] c[3] = "id" -> Typed("object_id", LAMBDA e : Put(e, <<<<"oid", s[2]>>>>))
                [] c[3] = "regex" -> Typed("regex", LAMBDA e :
                     IF s[1] = "regex" THEN Put(e, <<<<"name", s[2][1]>>, <<"name", s[2][2]>>>>)
                     ELSE Raise(e, "invalid_regex_string"))
                [] OTHER -> Typed(IF c[3] = "code" THEN "javascript" ELSE "string", LAMBDA e : PutText(e, s)))

VisitByteString(c) == c[1] = "byte_string_value" /\
    LET e == Element(enc, "binary", <<>>) IN Makes(IF e.ec = "none" THEN PutBytes(e, c[2], 128) ELSE e)
VisitExtByteString(c) == c[1] = "ext_byte_string" /\
    LET e == Element(enc, "binary", <<>>) IN Makes(IF e.ec = "none" THEN PutBytes(e, c[2][1], c[2][2]) ELSE e)

Visit(c) ==
    \/ VisitBeginObject(c) \/ VisitBeginArray(c) \/ VisitEnd(c) \/ VisitKey(c)
    \/ VisitNull(c) \/ VisitBool(c) \/ VisitDouble(c) \/ VisitInteger(c)
    \/ VisitString(c) \/ VisitByteString(c) \/ VisitExtByteString(c)
===============================================================================
