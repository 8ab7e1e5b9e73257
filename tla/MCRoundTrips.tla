----------------------------- MODULE MCRoundTrips -----------------------------
(***************************************************************************)
(* The binary codecs, each between a caller and a json_decoder: the caller *)
(* makes visitor calls on the encoder, the parser reads what was written,  *)
(* and its calls go to the decoder, those of CBOR and MessagePack through  *)
(* the adaptor that turns keys into strings.  The source may end too soon. *)
(* In phase "supply" the parser reads items that no encoder wrote.         *)
(***************************************************************************)
EXTENDS CodecReference, GenericToJson, TLC

CONSTANTS
    Formats,          \* the codecs
    Offers(_, _, _),  \* the calls that a caller may make, by the codec, its options and the calls so far
    Pieces(_, _),     \* the items that may come next, by the codec and the parser
    MaxSupply(_),     \* none come after so many items
    MaxDepth,         \* option max_nesting_depth of the encoders and of the parsers
    UbjsonMaxItems    \* option max_items of the UBJSON parser

VARIABLES format, phase, sent, loose, enc, options, source, cut, parser, got
chain == <<adaptor, given, decoder, asked>>
vars == <<format, phase, sent, loose, enc, options, source, cut, parser, chain, got>>

CE == INSTANCE CborEncoder WITH CborMaxDepth <- MaxDepth
CP == INSTANCE CborParser WITH CborMaxParseDepth <- MaxDepth
ME == INSTANCE MsgpackEncoder WITH MsgpackMaxDepth <- MaxDepth
MP == INSTANCE MsgpackParser WITH MsgpackMaxParseDepth <- MaxDepth
UE == INSTANCE UbjsonEncoder WITH UbjsonMaxDepth <- MaxDepth
UP == INSTANCE UbjsonParser WITH UbjsonMaxParseDepth <- MaxDepth
BE == INSTANCE BsonEncoder WITH BsonMaxDepth <- MaxDepth
BP == INSTANCE BsonParser WITH BsonMaxParseDepth <- MaxDepth

Init ==
    /\ format \in Formats
    /\ phase \in {"write", "supply"}
    /\ sent = <<>> /\ loose = NoCalls /\ source = <<>> /\ cut = FALSE /\ got = <<>>
    /\ \/ format = "cbor" /\ CE!Init /\ CP!Init /\ (phase = "supply" => options.packStrings /\ options.useTypedArrays)
       \/ format = "msgpack" /\ ME!Init /\ MP!Init
       \/ format = "ubjson" /\ UE!Init /\ UP!Init
       \/ format = "bson" /\ BE!Init /\ BP!Init
    /\ AdaptorInit

\* The caller may announce a wrong number of items.
Loosely(c) == IF c[1] \in {"begin_object", "begin_array"} THEN <<c[1], Unsized, c[3]>> ELSE c

Send(c) ==
    /\ phase = "write" /\ MayFollow(loose, Loosely(c))
    /\ \/ format = "cbor" /\ CE!Visit(c)
       \/ format = "msgpack" /\ ME!Visit(c)
       \/ format = "ubjson" /\ UE!Visit(c)
       \/ format = "bson" /\ BE!Visit(c)
    /\ sent' = Append(sent, c)
    /\ loose' = After(loose, Loosely(c))
    /\ UNCHANGED <<format, phase, source, cut, parser, chain, got>>

Read ==
    /\ phase = "write" /\ loose.status = "complete" /\ enc.ec = "none"
    /\ phase' = "read" /\ source' = enc.sink
    /\ UNCHANGED <<format, sent, loose, enc, options, cut, parser, chain, got>>

\* The parser has come to the end of what there is.
Starved == ~parser.done /\ parser.ec = "none" /\ parser.pos > Len(source)

Supply ==
    /\ phase = "supply" /\ Starved
    /\ Len(source) < MaxSupply(format)
    /\ \E p \in Pieces(format, parser) : source' = source \o p
    /\ UNCHANGED <<format, phase, sent, loose, enc, options, cut, parser, chain, got>>

\* What has not been read is lost, from some item on.
SourceEnds ==
    /\ phase = "read" /\ ~cut /\ ~parser.done /\ parser.ec = "none"
    /\ \E n \in (parser.pos - 1)..(Len(source) - 1) : source' = SubSeq(source, 1, n)
    /\ cut' = TRUE
    /\ UNCHANGED <<format, phase, sent, loose, enc, options, parser, chain, got>>

\* A parser of keys that are strings calls the decoder itself.
Call(calls) ==
    /\ IF format \in {"ubjson", "bson"} THEN Receive(calls) /\ UNCHANGED <<adaptor, given>> ELSE ReceiveGeneric(calls)
    /\ got' = got \o (IF format \in {"ubjson", "bson"} THEN calls ELSE adaptor'.made)

Parse ==
    /\ phase # "write"
    /\ \/ format = "cbor" /\ CP!Parse
       \/ format = "msgpack" /\ MP!Parse
       \/ format = "ubjson" /\ UP!Parse
       \/ format = "bson" /\ BP!Parse
    /\ Call(parser'.out)
    /\ UNCHANGED <<format, phase, sent, loose, enc, options, cut>>

Finished ==
    /\ \/ parser.done \/ parser.ec # "none"
       \/ phase = "write" /\ (enc.ec # "none" \/ Offers(format, options, sent) = {})
    /\ UNCHANGED vars

Next ==
    \/ \E c \in Offers(format, options, sent) : Send(c)
    \/ Read \/ Supply \/ SourceEnds \/ Parse \/ Finished
Spec == Init /\ [][Next]_vars
-------------------------------------------------------------------------------
\* What the calls made so far mean to a reader of the format.
Joined(s) == FoldLeft(LAMBDA a, b : a \o b, <<>>, s)
Meaning(i) == CASE format = "cbor" -> CborMeaning(sent, i, options.useTypedArrays)
                [] format = "msgpack" -> MsgpackMeaning(sent[i])
                [] format = "ubjson" -> UbjsonMeaning(sent[i])
                [] format = "bson" -> BsonMeaning(sent[i])
Expected == Append(Joined([i \in DOMAIN sent |-> Meaning(i)]), Simple("flush"))

\* The encoder of CBOR writes the exponent of a decimal fraction in 64 bits, and the
\* parser takes those of an int.
Unreadable(c) == format = "cbor" /\ c[3] = "bigdec" /\ c[2][2][2] \notin -(Int32Max + 1)..Int32Max

\* The errors of a parser whose source ends too soon.  In UBJSON a key whose length is
\* missing is an expected key.
EndErrors == IF format = "ubjson" THEN {"unexpected_eof", "key_expected"} ELSE {"unexpected_eof"}

\* What is read back is what was written, as far as the source goes: a source that ends
\* too soon is an error, a decimal fraction whose exponent is no int is another one, and
\* nothing else is.
RoundTrip ==
    phase = "read" =>
        /\ IsPrefix(got, Expected)
        /\ parser.done => got = Expected /\ ~cut /\ ~\E i \in DOMAIN sent : Unreadable(sent[i])
        /\ parser.ec # "none" =>
              \/ cut /\ parser.ec \in EndErrors
              \/ parser.ec = "invalid_decimal_fraction" /\ \E i \in DOMAIN sent : Unreadable(sent[i])

\* What an encoder is promised: calls in the order of the visitor protocol with
\* the announced number of items, texts that are UTF-8, containers that are not
\* too deep, and what the format can say.
OpenBefore(i) == Len(AfterAll(NoCalls, [j \in 1..(i - 1) |-> Loosely(sent[j])]).open)
Opens(c) == CASE c[1] \in {"begin_object", "begin_array"} -> 1
              [] format = "cbor" /\ c[1] = "begin_multi_dim" -> 2
              [] format = "cbor" /\ c[1] = "typed_array" -> IF options.useTypedArrays THEN 0 ELSE 1
              [] format = "cbor" /\ c[3] \in {"bigdec", "bigfloat"} -> 1
              [] OTHER -> 0
Acceptable(i) ==
    LET c == sent[i]
    IN  /\ c[1] = "string_value" \/ (c[1] = "key" /\ format # "bson") => WellFormed(c[2])
        /\ Opens(c) > 0 => OpenBefore(i) + Opens(c) <= MaxDepth
        /\ format = "msgpack" /\ c[1] \in Begin => c[2] # Unsized
        /\ format = "bson" /\ i = 1 => c[1] \in Begin
        /\ format = "bson" /\ c[1] \in {"uint64_value", "int64_value"} =>
              IF c[3] = "epoch_second" THEN FitsInt64(c[2] * 1000) ELSE FitsInt64(c[2])
        /\ format = "cbor" /\ c[3] \in {"bigdec", "bigfloat"} => FitsInt64(c[2][2][2])
Strict == AfterAll(NoCalls, IF format = "bson" THEN [j \in DOMAIN sent |-> Loosely(sent[j])] ELSE sent)

\* An encoder reports an error if and only if it was not given what it is promised.
EncoderRefuses ==
    /\ enc.ec # "none" => Strict.status = "broken" \/ \E i \in DOMAIN sent : ~Acceptable(i)
    /\ enc.ec = "none" /\ loose.status = "complete" =>
           Strict.status = "complete" /\ \A i \in DOMAIN sent : Acceptable(i)

\* The decoder ends with the value that the calls stand for.
DecoderBuildsValue == parser.done => decoder.valid /\ decoder.result = ValueOf(got)
-------------------------------------------------------------------------------
(* The instance.                                                           *)
Tri == {"t1", "t2", "t3", "t4", "t5", "t6", "t7", "t8", "t9", "t10", "t11", "t12", "t13", "t14", "t15", "t16",
        "t17", "t18", "t19", "t20", "t21", "t22", "t23", "t24"}
TriSeq == <<"t1", "t2", "t3", "t4", "t5", "t6", "t7", "t8", "t9", "t10", "t11", "t12", "t13", "t14", "t15", "t16",
            "t17", "t18", "t19", "t20", "t21", "t22", "t23", "t24">>
MCSize(s) == CASE s = "" -> 0 [] s = "a" -> 1 [] s \in {"abc", "bad", "xyz"} \cup Tri -> 3 [] s = "abcd" -> 4
               [] s = "s8" -> 8 [] s = "s16" -> 16
               [] s = "s23" -> 23 [] s = "s24" -> 24 [] s = "s31" -> 31 [] s = "s32" -> 32
               [] s = "s255" -> 255 [] s = "s256" -> 256 [] s = "s32767" -> 32767 [] s = "s32768" -> 32768
               [] s = "s65535" -> 65535 [] s = "s65536" -> 65536
MCBad == {"bad"}
C(s) == <<"chars", s>>
MCFormats == {"cbor", "msgpack", "ubjson", "bson"}

Ints == {0, 1, 23, 24, 127, 128, 255, 256, 32767, 32768, 65535, 65536, Int32Max, Int32Max + 1,
         2 * Int32Max + 1, 2 * Int32Max + 2, Int64Max,
         -1, -24, -25, -32, -33, -128, -129, -256, -257, -32768, -32769, -65536, -65537, -(Int32Max + 1),
         -(Int32Max + 2), -(Int64Max + 1)}
IntCalls(tags, ns) == {<<IF n < 0 THEN "int64_value" ELSE "uint64_value", n, t>> : n \in ns, t \in tags}
                      \cup {<<"int64_value", n, t>> : n \in ns, t \in tags}
Names == {"", "a", "abc", "bad", "s23", "s24", "s31", "s32", "s255", "s256", "s32767", "s32768", "s65535", "s65536"}

\* Decimal fractions with exponents at the limits of int and beyond those of int64_t.
Fractions == {<<"string_value", <<"decimal", <<5, e>>>>, "bigdec">> :
                 e \in {Int32Max - 1, Int32Max + 1, -Int32Max, -(Int32Max + 2), Int64Max, Int64Max + 1, -(Int64Max + 2)}}

Scalars(f) ==
    IntCalls({"none"}, Ints)
    \cup {Untagged("string_value", C(s)) : s \in Names}
    \cup {Untagged("double_value", r) : r \in {<<3, 2>>, <<1, 10>>}}
    \cup {Untagged("bool_value", b) : b \in BOOLEAN}
    \cup {<<"null_value", 0, t>> : t \in {"none", "undefined"}}
    \cup {<<"byte_string_value", C(s), "none">> : s \in IF f = "ubjson" THEN {"", "a", "abc"} ELSE Names \ {"bad"}}
    \cup {<<"string_value", <<"int", n>>, "bigint">> : n \in {0, 255, 256, -1, -257}}
    \cup {<<"string_value", <<"decimal", <<m, e>>>>, "bigdec">> : m \in {5, -27315, Int64Max + 1}, e \in {-2, 0, 3}}
    \cup CASE f = "cbor" ->
                IntCalls({"epoch_second", "epoch_milli"}, {0, 1500, -1500})
                \cup {<<"string_value", C("abc"), t>> : t \in {"datetime", "uri", "base64url", "base64", "id"}}
                \cup Fractions
                \cup {<<"string_value", <<"hexfloat", <<m, e>>>>, "bigfloat">> :
                         m \in {3, -3}, e \in {-1, 2, Int64Max, Int64Max + 1, -(Int64Max + 1)}}
                \cup {<<"byte_string_value", C("abc"), t>> : t \in {"base64", "base64url", "base16"}}
                \cup {<<"ext_byte_string", <<C(s), 100>>, "none">> : s \in {"a", "abc"}}
                \cup {<<"double_value", <<3, 2>>, t>> : t \in {"epoch_second", "epoch_milli"}}
                \cup {Untagged("typed_array", <<t, <<1, 200>>>>) : t \in {"uint8", "clamped", "uint16", "int32", "uint64"}}
                \cup {Untagged("typed_array", <<t, <<<<1, 2>>>>>>) : t \in {"half", "float", "double"}}
           [] f = "msgpack" ->
                IntCalls({"epoch_second"}, {0, 5, -5, 2 * Int32Max + 1, 2 * Int32Max + 2, Int64Max})
                \cup IntCalls({"epoch_milli", "epoch_nano"}, {0, 1500})
                \cup IntCalls({"epoch_milli"}, {-1500})
                \cup {<<"string_value", <<"int", n>>, t>> : n \in {0, 1500}, t \in {"epoch_second", "epoch_milli", "epoch_nano"}}
                \cup {<<"string_value", <<"nanos", t>>, "epoch_nano">> :
                         t \in {<<1, 500>>, <<-1, -500>>, <<Int64Max, 1>>}}
                \cup {<<"ext_byte_string", <<C(s), 100>>, "none">> : s \in {"a", "abc", "abcd", "s8", "s16", "s255", "s256", "s65536"}}
           [] f = "bson" ->
                IntCalls({"epoch_milli"}, {0, 1500, -1500})
                \cup {<<"int64_value", n, "epoch_second">> : n \in {5, -5, Int64Max \div 1000, Int64Max \div 1000 + 1}}
                \cup {<<"int64_value", n, "epoch_nano">> : n \in {0, 1500000, -1500000}}
                \cup {<<"uint64_value", Int64Max + 1, "none">>}
                \cup {<<"string_value", <<"decimal", <<5, -2>>>>, "float128">>, <<"string_value", <<"hex", "x">>, "id">>,
                      <<"string_value", <<"regex", <<C("abc"), C("a")>>>>, "regex">>, <<"string_value", C("abc"), "code">>,
                      <<"ext_byte_string", <<C("abc"), 7>>, "none">>}
           [] OTHER -> {}

\* Calls inside a container.
Inner(f, o) ==
    {Untagged("uint64_value", 1), Untagged("string_value", C("abc")), Untagged("byte_string_value", C("abc")),
     Untagged("string_value", C("bad"))}
    \cup {Untagged(b, n) : b \in {"begin_array", "begin_object"}, n \in IF f = "bson" THEN {Unsized, 1} ELSE {Unsized, 0, 1, 2}}
    \cup {Untagged("key", C(k)) : k \in {"a", "abc"}}
    \cup {Simple(e) : e \in End}
    \cup IF f = "cbor" /\ ~o.packStrings THEN {Untagged("typed_array", <<"uint16", <<7>>>>)} ELSE {}

\* Arrays of several dimensions, all of the same extent.
Shapes(o) == {<<"begin_multi_dim", x, order>> : x \in {<<2, 2>>, <<2, 2, 2>>},
                  order \in IF o.useTypedArrays THEN {"row_major", "column_major"} ELSE {"row_major"}}
ElementsOf(x) == IF Len(x) = 2 THEN <<1, 2, 3, 4>> ELSE <<1, 2, 3, 4, 5, 6, 7, 8>>

\* Long sequences of calls that are fixed by their first one.
Script(f, o, c) ==
    LET many(n, x(_)) == [i \in 1..n |-> x(i)]
    IN  CASE f \in {"msgpack", "cbor"} /\ c = Untagged("begin_array", 27) ->
               <<c>> \o many(24, LAMBDA i : Untagged("string_value", C(TriSeq[i])))
               \o <<Untagged("string_value", C("t1")), Untagged("string_value", C("abcd")),
                    Untagged("string_value", C("abcd")), Simple("end_array")>>
          [] f = "msgpack" /\ c = Untagged("begin_object", 16) ->
               <<c>> \o many(32, LAMBDA i : IF i % 2 = 1 THEN Untagged("key", C(TriSeq[(i + 1) \div 2]))
                                            ELSE Untagged("uint64_value", i)) \o <<Simple("end_object")>>
          [] OTHER -> <<>>
ScriptStarts == {Untagged("begin_array", 27), Untagged("begin_object", 16)}

MCOffers(f, o, s) ==
    LET begun == IF s = <<>> THEN <<>> ELSE Script(f, o, s[1])
        limit == IF f = "cbor" THEN 5 ELSE 6
    IN  CASE s = <<>> ->
               Scalars(f) \cup {c \in Inner(f, o) : f = "bson" => c[1] # "begin_array"}
               \cup {c \in ScriptStarts : Script(f, o, c) # <<>>} \cup IF f = "cbor" THEN Shapes(o) ELSE {}
          [] begun # <<>> -> IF Len(s) < Len(begun) THEN {begun[Len(s) + 1]} ELSE {}
          [] s[1][1] = "begin_multi_dim" ->
               IF Len(s) = 1 THEN {Untagged("typed_array", <<t, ElementsOf(s[1][2])>>) : t \in {"uint8", "int64"}}
               ELSE IF Len(s) = 2 THEN {Simple("end_multi_dim")} ELSE {}
          [] Len(s) >= limit -> {}
          [] f = "bson" /\ Len(s) = 2 /\ s[2][1] = "key" -> Scalars(f) \cup Inner(f, o)
          [] OTHER -> Inner(f, o)

Bytes(s) == <<"bytes", Len(s), <<"elements", <<"uint8", s>>>>>>
CborPieces ==
    LET T(n) == <<"tag", n, <<>>>>
        U(n) == <<"uint", n, <<>>>>
        Arr(n) == <<"array", n, <<>>>>
        Str(major, s) == <<major, MCSize(s), C(s)>>
        Chunked == <<"text", Unsized, <<>>>>
        Brk == <<"break", 0, <<>>>>
        Big(n) == <<"bytes", 1, <<"magnitude", n>>>>
    IN  {<<U(0)>>, <<Str("text", "abc")>>, <<Str("bytes", "xyz")>>, <<Brk>>, <<T(25), U(0)>>, <<T(256)>>, <<T(25)>>,
         <<Arr(2)>>, <<Arr(Unsized)>>, <<<<"map", 1, <<>>>>>>, <<<<"map", 2, <<>>>>>>, <<<<"map", Unsized, <<>>>>>>,
         <<T(2), Big(5)>>, <<T(4), Arr(2), <<"nint", 0, <<>>>>, T(3), Big(7)>>,
         <<T(4), Arr(2), U(0), T(1), Big(7)>>, <<T(4), Arr(2), U(Int32Max)>>, <<T(4), Arr(2), U(Int32Max + 1)>>,
         <<T(5), Arr(2), <<"nint", Int64Max + 1, <<>>>>, T(1)>>, <<T(5), Arr(2), U(2), T(2), Big(5)>>,
         <<T(5), Arr(2), U(2), <<"nint", UintMax(8), <<>>>>>>,
         <<T(40), Arr(2), Arr(2), U(Int32Max), U(Int32Max), Arr(1)>>,
         <<T(64), Bytes(<<1, 2>>)>>,
         <<T(40), Arr(2), Arr(2), U(2), U(2), T(64), Bytes(<<1, 2, 3, 4>>)>>,
         <<T(40), Arr(2), Arr(2), U(1), U(1), Arr(1)>>, <<T(40), Arr(2), Arr(2), U(2), U(0), Arr(1)>>,
         <<Chunked, Str("text", "a"), Str("text", "abc"), Brk>>, <<Chunked, Str("text", "bad"), Brk>>,
         <<Chunked, U(0)>>, <<<<"simple", 0, "true">>>>, <<<<"half", 0, <<1, 2>>>>>>}

MsgpackPieces ==
    {<<<<"fixint", 1, <<>>>>>>, <<<<"negative_fixint", 255, <<>>>>>>, <<<<"int16", 65535, <<>>>>>>,
     <<<<"fixstr", 3, C("abc")>>>>, <<<<"str8", 3, C("bad")>>>>, <<<<"bin8", 3, C("abc")>>>>, <<<<"fixext1", <<1, 100>>, C("a")>>>>,
     <<<<"fixarray", 0, <<>>>>>>, <<<<"fixarray", 2, <<>>>>>>, <<<<"array16", 1, <<>>>>>>,
     <<<<"fixmap", 0, <<>>>>>>, <<<<"fixmap", 1, <<>>>>>>, <<<<"fixmap", 2, <<>>>>>>,
     <<<<"fixext8", <<8, 255>>, <<"timestamp", <<1, 500>>>>>>>>, <<<<"nil", 0, <<>>>>>>, <<<<"true", 0, <<>>>>>>,
     <<<<"float64", 0, <<1, 10>>>>>>, <<<<"never_used", 0, <<>>>>>>}

UbjsonPieces(p) ==
    LET M(m) == <<"mark", m>>
        U(n) == <<"U", n>>
        D(s) == <<"data", C(s)>>
        Typed(t, n) == <<M("$"), <<"type", t>>, M("#"), U(n)>>
        values == {<<<<"Z", 0>>>>, <<<<"T", 0>>>>, <<U(7)>>, <<<<"I", 300>>>>, <<<<"L", UintMax(8)>>>>, <<<<"C", C("a")>>>>,
                   <<<<"S", 0>>, U(3), D("abc")>>, <<<<"S", 0>>, U(3), D("bad")>>, <<<<"S", 0>>, <<"i", 255>>>>,
                   <<<<"S", 0>>, <<"Z", 0>>>>, <<<<"H", 0>>, U(2), <<"data", <<"int", 12>>>>>>,
                   <<<<"H", 0>>, U(4), <<"data", <<"decimal", <<12, 3>>>>>>>>,
                   <<M("["), M("]")>>, <<M("["), U(7), U(8)>>, <<M("["), M("#"), U(2)>>, <<M("["), M("#"), U(5)>>,
                   <<M("{"), M("}")>>, <<M("{"), U(1), D("a"), U(7)>>, <<M("{"), M("#"), U(1)>>,
                   <<M("["), M("$"), <<"type", "U">>, U(7)>>, <<M("]")>>}
                  \cup {<<M("[")>> \o Typed(t, 2) : t \in {"U", "S", "[", "Z"}}
                  \cup {<<M("{")>> \o Typed(t, 1) : t \in {"U", "Z"}}
        mode == UP!Top(p).mode
        type == UP!Top(p).type
    IN  CASE mode \in {"strongly_typed_array", "strongly_typed_map_value"} ->
               CASE type = "U" -> {<<<<"untyped", 9>>>>} [] type = "S" -> {<<U(3), D("abc")>>, <<<<"l", 0>>>>}
                 [] type = "[" -> {<<M("]")>>, <<M("#"), U(1)>>} [] OTHER -> {}
          [] mode \in {"map_key", "strongly_typed_map_key"} -> {<<U(1), D("a")>>, <<U(3), D("bad")>>, <<<<"i", 255>>>>}
          [] mode = "indefinite_map_key" -> {<<U(1), D("a")>>, <<U(3), D("bad")>>, <<M("}")>>, <<<<"Z", 0>>>>}
          [] mode = "indefinite_array" -> values \cup {<<<<"N", 0>>>>, <<U(7), U(8), U(9)>>}
          [] OTHER -> values

BsonPieces(p) ==
    LET T(t) == <<"type", t>>
        N(s) == <<"name", C(s)>>
        L(n) == <<"length", n>>
        end == <<T("end")>>
        element(name) ==
            {<<T("null"), name>>, <<T("int32"), name, <<"int32", UintMax(4)>>>>, <<T("timestamp"), name, <<"uint64", UintMax(8)>>>>,
             <<T("string"), name, L(2), <<"data", C("a")>>, <<"zero", 0>>>>, <<T("string"), name, L(0)>>,
             <<T("symbol"), name, L(4), <<"data", C("bad")>>, <<"zero", 0>>>>,
             <<T("binary"), name, L(-1)>>, <<T("scope"), name>>}
            \cup {<<T(t), name, L(n)>> : t \in {"document", "array"}, n \in {5, 8}}
    IN  CASE BP!Top(p).mode = "root" -> {<<L(n)>> : n \in {-1, 5, 8, 12, 13, 16}}
          [] BP!Top(p).mode = "document" -> {end, <<T("null"), N("bad")>>} \cup element(N("a"))
          [] OTHER -> {end} \cup element(<<"name", <<"int", 0>>>>)

MCSupply(f) == CASE f \in {"cbor", "msgpack"} -> 4 [] f = "ubjson" -> 8 [] f = "bson" -> 12
MCPieces(f, p) == CASE f = "cbor" -> CborPieces [] f = "msgpack" -> MsgpackPieces
                    [] f = "ubjson" -> UbjsonPieces(p) [] f = "bson" -> BsonPieces(p)
===============================================================================
