----------------------------- MODULE JsonDecoder ------------------------------
(***************************************************************************)
(* json_decoder: the visitor that builds a json value.  The items of the   *)
(* containers that are open lie one after another on item_stack_, and      *)
(* structure_stack_ says where each container begins.                      *)
(*                                                                         *)
(* A value is a call that makes a scalar, <<"array", elements, tag>>, or   *)
(* <<"object", the function from names to values, tag>>.                   *)
(***************************************************************************)
EXTENDS VisitorCalls

VARIABLES
    asked,     \* how far the calls on the decoder have come
    decoder    \* structures (structure_stack_), items (item_stack_), index (index_),
               \* name (name_), result (result_), valid (is_valid_), and failed: an
               \* assertion does not hold

NoName == <<"chars", "">>
Structure(kind, at) == [kind |-> kind, at |-> at]
DecodedItem(name, index, value) == [name |-> name, index |-> index, value |-> value]
NewDecoder == [structures |-> <<Structure("root", 0)>>, items |-> <<>>, index |-> 0, name |-> NoName,
               result |-> <<>>, valid |-> FALSE, failed |-> FALSE]

InObject(d) == Last(d.structures).kind = "object"

\* emplace_back: in an object the item takes the name, and a number of its own.
PushItem(d, value) ==
    IF InObject(d)
    THEN [d EXCEPT !.items = Append(@, DecodedItem(d.name, d.index, value)),
                   !.index = @ + 1, !.name = NoName]
    ELSE [d EXCEPT !.items = Append(@, DecodedItem(NoName, 0, value))]

\* Mutant: of the items that share a name the last one stays.
MembersByLast(items) ==
    LET at(i) == items[i]
        last(k) == CHOOSE i \in DOMAIN items :
                       /\ at(i).name = k
                       /\ \A j \in DOMAIN items : at(j).name = k => at(j).index <= at(i).index
    IN  [k \in {at(i).name : i \in DOMAIN items} |-> at(last(k)).value]

\* uninitialized_init: of the items that share a name the first one stays.
Members(items) ==
    LET at(i) == items[i]
        first(k) == CHOOSE i \in DOMAIN items :
                        /\ at(i).name = k
                        /\ \A j \in DOMAIN items : at(j).name = k => at(i).index <= at(j).index
    IN  [k \in {at(i).name : i \in DOMAIN items} |-> at(first(k)).value]

VisitBegin(d, c) ==
    LET kind == KindOf[c[1]]
    IN  [PushItem(d, <<kind, <<>>, c[3]>>) EXCEPT
            !.structures = Append(@, Structure(kind, Len(d.items) + 1))]

VisitEnd(d, c) ==
    LET n == Len(d.structures)
        top == d.structures[n]
        whole == d.items[top.at]
        inside == SubSeq(d.items, top.at + 1, Len(d.items))
        contents == IF top.kind = "object" THEN Members(inside) ELSE [i \in DOMAIN inside |-> inside[i].value]
        value == <<whole.value[1], contents, whole.value[3]>>
        popped == [d EXCEPT !.structures = SubSeq(@, 1, n - 1)]
    IN  IF n <= 1 \/ c[1] # EndOf[top.kind] \/ Len(d.items) < top.at THEN [d EXCEPT !.failed = TRUE]
        ELSE IF d.structures[n - 1].kind = "root"
        THEN [popped EXCEPT !.items = SubSeq(@, 1, top.at - 1), !.result = value, !.valid = TRUE]
        ELSE [popped EXCEPT !.items = Append(SubSeq(@, 1, top.at - 1), [whole EXCEPT !.value = value])]

VisitScalar(d, c) ==
    IF Last(d.structures).kind = "root" THEN [d EXCEPT !.result = c, !.valid = TRUE] ELSE PushItem(d, c)

Visit(d, c) ==
    IF d.failed THEN d
    ELSE CASE c[1] = "key" -> [d EXCEPT !.name = c[2]]
           [] c[1] \in Begin -> VisitBegin(d, c)
           [] c[1] \in End -> VisitEnd(d, c)
           [] c[1] \in Scalar -> VisitScalar(d, c)
           [] c[1] = "flush" -> d

DecoderInit == decoder = NewDecoder /\ asked = NoCalls

\* A caller makes these calls, one after another.
Receive(calls) == decoder' = FoldLeft(Visit, decoder, calls) /\ asked' = AfterAll(asked, calls)
===============================================================================
