--------------------------- MODULE VisitorProtocol ---------------------------
(***************************************************************************)
(* What basic_json_visitor may assume of the calls a producer makes on it  *)
(* while one JSON text is read: containers are closed in the order they    *)
(* were opened, an object receives keys and values in turn, there is one   *)
(* top-level value, flush follows it, and nothing follows a failure.       *)
(* json_decoder, json_encoder and the filters all rely on it.              *)
(***************************************************************************)
EXTENDS Integers, Sequences

VARIABLES
    calls,      \* the calls made since the text was begun, by name
    open,       \* the containers that are open, innermost last
    want        \* what the visitor is waiting for

vars == <<calls, open, want>>

ScalarCall == {"null_value", "bool_value", "string_value", "uint64_value",
               "int64_value", "double_value", "bigint_value", "bigdec_value"}

\* What is wanted once a value is complete and o are the containers open.
AfterValue(o) == IF o = <<>> THEN "flush"
                 ELSE IF o[Len(o)] = "object" THEN "key" ELSE "value"

Outer == SubSeq(open, 1, Len(open) - 1)

\* The call c is made; the visitor accepts it and then has containers o open
\* and wants w, or it refuses it by setting the error code.
Call(c, o, w) ==
    /\ calls' = Append(calls, c)
    /\ \/ open' = o /\ want' = w
       \/ open' = <<>> /\ want' = "failed"

Init == calls = <<>> /\ open = <<>> /\ want = "value"

BeginObject == want = "value" /\ Call("begin_object", Append(open, "object"), "key")

EndObject == want = "key" /\ Call("end_object", Outer, AfterValue(Outer))

BeginArray == want = "value" /\ Call("begin_array", Append(open, "array"), "value")

EndArray ==
    /\ want = "value" /\ open # <<>> /\ open[Len(open)] = "array"
    /\ Call("end_array", Outer, AfterValue(Outer))

Key == want = "key" /\ Call("key", open, "value")

Scalar == want = "value" /\ \E c \in ScalarCall : Call(c, open, AfterValue(open))

\* flush has no error code to set.
Flush ==
    /\ want = "flush" /\ want' = "none"
    /\ calls' = Append(calls, "flush")
    /\ UNCHANGED open

\* The producer finds the text malformed.
Fail == want # "failed" /\ want' = "failed" /\ open' = <<>> /\ UNCHANGED calls

\* A new text is begun, whatever became of the last one.
NewText == calls' = <<>> /\ open' = <<>> /\ want' = "value"

Next == \/ BeginObject \/ EndObject \/ BeginArray \/ EndArray
        \/ Key \/ Scalar \/ Flush \/ Fail \/ NewText

Spec == Init /\ [][Next]_vars
==============================================================================
