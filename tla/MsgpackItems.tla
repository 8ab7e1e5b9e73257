----------------------------- MODULE MsgpackItems -----------------------------
(***************************************************************************)
(* What the MessagePack encoder writes and the MessagePack parser reads:   *)
(* <<format, argument, content>>.  The argument is an integer, a length,   *)
(* or the length and the type of an extension; the content of a string or  *)
(* of an extension is its bytes, that of a float its value.                *)
(*                                                                         *)
(* A timestamp is <<"timestamp", <<seconds, nanoseconds>>>>, and the text  *)
(* of the nanoseconds since the epoch <<"nanos", <<s, n>>>>: s * 10^9 + n. *)
(***************************************************************************)
EXTENDS VisitorCalls

TimestampType == 255   \* 0xff, which is -1 as an int8_t
Max34 == 4 * (UintMax(4) + 1) - 1   \* the greatest integer of 34 bits

Bare(format) == <<format, 0, <<>>>>

\* The formats of an argument, by its width in bytes.
Wide(formats, n) == CASE n <= UintMax(1) -> formats[1] [] n <= UintMax(2) -> formats[2] [] OTHER -> formats[3]
WidthOf(format) ==
    CASE format \in {"str8", "bin8", "ext8", "uint8", "int8"} -> 1
      [] format \in {"str16", "bin16", "ext16", "uint16", "int16", "array16", "map16"} -> 2
      [] format \in {"str32", "bin32", "ext32", "uint32", "int32", "array32", "map32"} -> 4
      [] format \in {"uint64", "int64"} -> 8
      [] OTHER -> 1
Headed(format, n, content) == <<format, ToUint(n, WidthOf(format)), content>>
===============================================================================
