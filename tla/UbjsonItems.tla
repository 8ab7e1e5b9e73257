----------------------------- MODULE UbjsonItems ------------------------------
(***************************************************************************)
(* What the UBJSON encoder writes and the UBJSON parser reads: a type with *)
(* the value of a fixed size that follows it, <<type, value>>, or one of   *)
(*   <<"mark", m>>       [ ] { } $ #                                       *)
(*   <<"type", t>>       the type of all the values of a container         *)
(*   <<"untyped", v>>    a value of that type                              *)
(*   <<"data", s>>       the bytes of a string, of which there are some    *)
(***************************************************************************)
EXTENDS VisitorCalls

Mark(m) == <<"mark", m>>
Data(s) == IF Size(s) = 0 THEN <<>> ELSE <<<<"data", s>>>>

\* The integer types, and the number of bytes of each.
IntWidth == [i |-> 1, U |-> 1, I |-> 2, l |-> 4, L |-> 8]
IntegerItem(type, n) == <<type, ToUint(n, IntWidth[type])>>
IntegerIn(type, v) == IF type = "U" THEN v ELSE ToInt(v, IntWidth[type])

\* A byte of a string of characters.
ByteOf(s, i) == <<"byte", <<s, i>>>>
===============================================================================
