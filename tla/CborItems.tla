------------------------------ MODULE CborItems -------------------------------
(***************************************************************************)
(* The heads of CBOR data items, which the encoder writes and the parser   *)
(* reads: <<major type, argument, content>>.  The content of a string is   *)
(* its bytes, that of a float its value.                                   *)
(***************************************************************************)
EXTENDS VisitorCalls

\* Mutant: the greatest argument of one byte is taken to be one more.
WidthOfOneMore(n) == CASE n <= 23 -> 0 [] n <= 256 -> 1 [] n <= 65535 -> 2
                       [] n <= UintMax(4) -> 4 [] OTHER -> 8

\* write_type_and_length: the shortest of five widths holds the argument.
WidthOf(n) == CASE n <= 23 -> 0 [] n <= 255 -> 1 [] n <= 65535 -> 2
                [] n <= UintMax(4) -> 4 [] OTHER -> 8
Item(major, n, content) ==
    <<major, IF WidthOf(n) = 0 THEN n ELSE ToUint(n, WidthOf(n)), content>>

TagItem(n) == Item("tag", n, <<>>)
UintItem(n) == Item("uint", n, <<>>)
IntItem(n) == IF n >= 0 THEN UintItem(n) ELSE Item("nint", -1 - n, <<>>)
TextItem(s) == Item("text", Size(s), s)
BytesItem(s) == Item("bytes", Size(s), s)
IndefiniteItem(major) == <<major, Unsized, <<>>>>
SimpleItem(name) == <<"simple", 0, name>>
FloatItem(r) == <<IF FitsFloat(r) THEN "float" ELSE "double", 0, r>>
BreakItem == <<"break", 0, <<>>>>

\* Only a string that is longer than a reference to it is worth one.
MinLengthForStringref(index) == CASE index <= 23 -> 3 [] index <= 255 -> 4 [] OTHER -> 5

TypedArrayTag(t) ==
    CASE t = "uint8" -> 64 [] t = "clamped" -> 68 [] t = "uint16" -> 69 [] t = "uint32" -> 70
      [] t = "uint64" -> 71 [] t = "int8" -> 72 [] t = "int16" -> 77 [] t = "int32" -> 78
      [] t = "int64" -> 79 [] t = "half" -> 84 [] t = "float" -> 85 [] t = "double" -> 86
===============================================================================
