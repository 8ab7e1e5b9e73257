------------------------------ MODULE BsonItems -------------------------------
(***************************************************************************)
(* What the BSON encoder writes and the BSON parser reads, <<kind, value>>:*)
(*   <<"type", t>>       the type of an element; "end" ends a document     *)
(*   <<"length", n>>     the length of a document, of a string or of bytes *)
(*   <<"name", s>>       a string that ends in a zero byte                 *)
(*   <<"data", s>>       the bytes of a string, of which there are some    *)
(*   <<"zero", 0>>       the byte that ends a string                       *)
(* and the values of a fixed size.  Here the sizes matter: a document      *)
(* begins with its length in bytes.                                        *)
(*                                                                         *)
(* Strings with a meaning: <<"hex", x>> are the digits of the object id x, *)
(* <<"regex", <<p, o>>>> is the text /p/o.                                 *)
(***************************************************************************)
EXTENDS VisitorCalls

TextSize(s) == CASE s[1] = "hex" -> 24
                 [] s[1] = "regex" -> Size(s[2][1]) + Size(s[2][2]) + 2
                 [] OTHER -> Size(s)

ItemSize(item) ==
    CASE item[1] \in {"type", "zero", "bool", "subtype"} -> 1
      [] item[1] \in {"length", "int32"} -> 4
      [] item[1] \in {"int64", "uint64", "double"} -> 8
      [] item[1] = "oid" -> 12
      [] item[1] = "decimal128" -> 16
      [] item[1] = "name" -> TextSize(item[2]) + 1
      [] item[1] = "data" -> TextSize(item[2])
Data(s) == IF TextSize(s) = 0 THEN <<>> ELSE <<<<"data", s>>>>
BytesOf(items) == FoldLeft(LAMBDA n, item : n + ItemSize(item), 0, items)
===============================================================================
