-------------------------- MODULE BsonParserProofs ---------------------------
(***************************************************************************)
(* basic_bson_parser calling a json_decoder, for every source: its calls   *)
(* keep the order of VisitorCalls, so that what is proved of the decoder   *)
(* under such a caller holds here.                                         *)
(***************************************************************************)
EXTENDS BsonParser, JsonDecoderProofs

bsonVars == <<source, parser, asked, decoder>>

BsonInit == Init /\ InitWithCaller

\* An iteration of the parser, and the calls it makes.
Decode == Parse /\ Receive(parser'.out)

\* The source may become anything, at any time.
SourceChanges == UNCHANGED <<parser, asked, decoder>>

BsonNext == Decode \/ SourceChanges
BsonSpec == BsonInit /\ [][BsonNext]_bsonVars

\* The calls keep the order, and when the parser is done the decoder has a value
\* and nothing else.
DecodedAlone ==
    /\ ~decoder.failed
    /\ parser.done => decoder.valid /\ decoder.items = <<>> /\ Len(decoder.structures) = 1

-------------------------------------------------------------------------------
Frames == {"mode", "length", "pos", "type"}
ParserShape(p) ==
    /\ DOMAIN p = {"pos", "stack", "more", "done", "ec", "out"}
    /\ IsSequence(p.stack) /\ Len(p.stack) > 0
    /\ \A i \in 1..Len(p.stack) : DOMAIN p.stack[i] = Frames
    /\ p.done = FALSE

\* What the caller is in when the parser has a container of this mode: between
\* two of its items, and while a value of it is read.
Between(mode, level) ==
    \/ mode = "array" /\ level = [kind |-> "array", left |-> Unsized, keyed |-> FALSE]
    \/ mode = "document" /\ level = [kind |-> "object", left |-> Unsized, keyed |-> FALSE]
    \/ mode = "value" /\ level = [kind |-> "object", left |-> Unsized, keyed |-> TRUE]
Awaiting(mode, level) ==
    \/ mode = "array" /\ level = [kind |-> "array", left |-> Unsized, keyed |-> FALSE]
    \/ mode = "document" /\ level = [kind |-> "object", left |-> Unsized, keyed |-> TRUE]

SameDepth(p, w) == ParserShape(p) /\ AskedShape(w) /\ Len(p.stack) = Len(w.open) + 1

\* A value is about to be read.
Receptive(p, w) ==
    /\ SameDepth(p, w)
    /\ p.stack[1].mode = "accept" /\ w.status = "value"
    /\ \A i \in 1..Len(w.open) : Awaiting(p.stack[i + 1].mode, w.open[i])

\* Between two iterations.
Linked(p, w) ==
    /\ SameDepth(p, w)
    /\ w.open = <<>> => \/ p.stack[1].mode = "root" /\ w.status = "value"
                        \/ p.stack[1].mode = "accept" /\ w.status = "complete"
    /\ w.open # <<>> => /\ p.stack[1].mode = "accept" /\ w.status = "value"
                        /\ Between(Top(p).mode, Last(w.open))
                        /\ \A i \in 1..(Len(w.open) - 1) : Awaiting(p.stack[i + 1].mode, w.open[i])

BInv ==
    /\ parser.done \in BOOLEAN /\ parser.more \in BOOLEAN
    /\ parser.more /\ ~parser.done => Linked(parser, asked)
    /\ parser.done => asked.status = "flushed"

\* What an iteration leads to: it stops, or makes a call that may follow.
Stops(q) == q.out = <<>> /\ q.more = FALSE /\ q.done = FALSE
Follows(q, w) ==
    \E c : /\ q.out = <<c>> /\ IsCall(c) /\ MayFollow(w, c)
           /\ q.done \in BOOLEAN /\ q.more \in BOOLEAN
           /\ q.more /\ ~q.done => Linked(q, After(w, c))
           /\ q.done => After(w, c).status = "flushed"
Leads(q, w) == Stops(q) \/ Follows(q, w)

-------------------------------------------------------------------------------
\* The containers of the parser are the same, for all that its calls depend on; and it
\* has made no call.
SameModes(q, p) ==
    /\ ParserShape(q) /\ ParserShape(p)
    /\ Len(q.stack) = Len(p.stack) /\ \A i \in 1..Len(p.stack) : q.stack[i].mode = p.stack[i].mode
Alike(q, p) == SameModes(q, p) /\ q.out = p.out

LEMMA AlikeTwice ==
    ASSUME NEW p, NEW q, NEW r, Alike(q, p), Alike(r, q)
    PROVE  Alike(r, p)
BY DEF Alike, SameModes, ParserShape

LEMMA Depth ==
    ASSUME NEW p, ParserShape(p)
    PROVE  Len(p.stack) \in Nat /\ Len(p.stack) \in 1..Len(p.stack) /\ Top(p) = p.stack[Len(p.stack)]
<1>1. IsSequence(p.stack) /\ Len(p.stack) > 0
  BY DEF ParserShape
<1>2. Len(p.stack) \in Nat
  BY <1>1, Grown
<1> QED
  BY <1>1, <1>2 DEF Top, Last

\* t is s with another i-th element.
ChangedAt(t, s, i, x) == t = [s EXCEPT ![i] = x]

LEMMA StackChanged ==
    ASSUME NEW s, IsSequence(s), NEW i, i \in 1..Len(s), NEW x, NEW t, ChangedAt(t, s, i, x)
    PROVE  IsSequence(t) /\ Len(t) = Len(s) /\ t[i] = x /\ \A j \in 1..Len(s) : j # i => t[j] = s[j]
<1>1. PICK S : s \in Seq(S)
  BY DEF IsSequence
<1>2. s \in Seq(S \cup {x}) /\ x \in S \cup {x}
  BY <1>1, SeqMonotonic
<1>3. t \in Seq(S \cup {x}) /\ Len(t) = Len(s)
  BY <1>2, ExceptSeq DEF ChangedAt
<1>4. i \in DOMAIN s /\ DOMAIN s = 1..Len(s)
  BY <1>1
<1> QED
  BY <1>3, <1>4 DEF IsSequence, ChangedAt

\* Bytes are read.
LEMMA PosAlike ==
    ASSUME NEW p, ParserShape(p)
    PROVE  Alike([p EXCEPT !.pos = @ + 1], p)
BY DEF Alike, SameModes, ParserShape

\* Bytes are counted.
LEMMA BytesAlike ==
    ASSUME NEW p, ParserShape(p), NEW n
    PROVE  Alike(AddBytes(p, n), p)
<1> DEFINE top == p.stack[Len(p.stack)]
           after == [top EXCEPT !.pos = @ + n]
           stack == [p.stack EXCEPT ![Len(p.stack)] = after]
<1>1. Len(p.stack) \in 1..Len(p.stack) /\ DOMAIN top = Frames
  BY Depth DEF ParserShape
<1>2. AddBytes(p, n) = [p EXCEPT !.stack = stack]
  BY DEF AddBytes
<1>3. DOMAIN after = Frames /\ after.mode = top.mode
  BY <1>1 DEF Frames
<1> HIDE DEF after
<1>4. /\ IsSequence(stack) /\ Len(stack) = Len(p.stack) /\ stack[Len(p.stack)] = after
      /\ \A j \in 1..Len(p.stack) : j # Len(p.stack) => stack[j] = p.stack[j]
  <2>1. ChangedAt(stack, p.stack, Len(p.stack), after)
    BY Zenon DEF ChangedAt
  <2>2. IsSequence(p.stack)
    BY DEF ParserShape
  <2> HIDE DEF stack
  <2> QED
    BY <1>1, <2>1, <2>2, StackChanged
<1> HIDE DEF stack
<1>5. \A j \in 1..Len(p.stack) : DOMAIN stack[j] = Frames /\ stack[j].mode = p.stack[j].mode
  BY <1>3, <1>4 DEF ParserShape
<1>6. /\ DOMAIN AddBytes(p, n) = DOMAIN p /\ AddBytes(p, n).stack = stack
      /\ AddBytes(p, n).out = p.out /\ AddBytes(p, n).done = p.done
  BY <1>2 DEF ParserShape
<1> QED
  BY <1>4, <1>5, <1>6 DEF Alike, SameModes, ParserShape

\* The mode of the innermost container is set.
LEMMA ModeSet ==
    ASSUME NEW p, ParserShape(p), NEW mode
    PROVE  /\ ParserShape(SetMode(p, mode)) /\ Len(SetMode(p, mode).stack) = Len(p.stack)
           /\ Top(SetMode(p, mode)).mode = mode
           /\ \A i \in 1..(Len(p.stack) - 1) : SetMode(p, mode).stack[i].mode = p.stack[i].mode
           /\ SetMode(p, mode).out = p.out /\ SetMode(p, mode).more = p.more
<1> DEFINE top == p.stack[Len(p.stack)]
           after == [top EXCEPT !.mode = mode]
           stack == [p.stack EXCEPT ![Len(p.stack)] = after]
<1>1. Len(p.stack) \in Nat /\ Len(p.stack) \in 1..Len(p.stack) /\ DOMAIN top = Frames
  BY Depth DEF ParserShape
<1>2. SetMode(p, mode) = [p EXCEPT !.stack = stack]
  BY DEF SetMode
<1>3. DOMAIN after = Frames /\ after.mode = mode
  BY <1>1 DEF Frames
<1> HIDE DEF after
<1>4. /\ IsSequence(stack) /\ Len(stack) = Len(p.stack) /\ stack[Len(p.stack)] = after
      /\ \A j \in 1..Len(p.stack) : j # Len(p.stack) => stack[j] = p.stack[j]
  <2>1. ChangedAt(stack, p.stack, Len(p.stack), after)
    BY Zenon DEF ChangedAt
  <2>2. IsSequence(p.stack)
    BY DEF ParserShape
  <2> HIDE DEF stack
  <2> QED
    BY <1>1, <2>1, <2>2, StackChanged
<1> HIDE DEF stack
<1>5. \A j \in 1..Len(p.stack) : DOMAIN stack[j] = Frames
  BY <1>3, <1>4 DEF ParserShape
<1>6. /\ DOMAIN SetMode(p, mode) = DOMAIN p /\ SetMode(p, mode).stack = stack
      /\ SetMode(p, mode).out = p.out /\ SetMode(p, mode).done = p.done /\ SetMode(p, mode).more = p.more
  BY <1>2 DEF ParserShape
<1>7. ParserShape(SetMode(p, mode))
  BY <1>4, <1>5, <1>6 DEF ParserShape
<1>8. \A i \in 1..(Len(p.stack) - 1) : stack[i].mode = p.stack[i].mode
  BY <1>1, <1>4
<1> QED
  BY <1>3, <1>4, <1>6, <1>7, <1>8, Depth

\* A container is pushed.
LEMMA StatePushed ==
    ASSUME NEW p, ParserShape(p), NEW mode, NEW length
    PROVE  /\ ParserShape(PushState(p, mode, length)) /\ Len(PushState(p, mode, length).stack) = Len(p.stack) + 1
           /\ Top(PushState(p, mode, length)).mode = mode
           /\ \A i \in 1..Len(p.stack) : PushState(p, mode, length).stack[i].mode = p.stack[i].mode
           /\ PushState(p, mode, length).out = p.out /\ PushState(p, mode, length).more = p.more
<1> DEFINE frame == [mode |-> mode, length |-> length, pos |-> 4, type |-> "none"]
           q == PushState(p, mode, length)
<1>1. DOMAIN frame = Frames /\ frame.mode = mode
  BY DEF Frames
<1>2. q = [p EXCEPT !.stack = Append(p.stack, frame)]
  BY DEF PushState
<1> HIDE DEF frame
<1>3. /\ DOMAIN q = DOMAIN p /\ q.stack = Append(p.stack, frame)
      /\ q.out = p.out /\ q.done = p.done /\ q.more = p.more
  BY <1>2 DEF ParserShape
<1>4. /\ IsSequence(q.stack) /\ Len(p.stack) \in Nat /\ Len(q.stack) = Len(p.stack) + 1
      /\ \A i \in 1..Len(p.stack) : q.stack[i] = p.stack[i]
      /\ q.stack[Len(p.stack) + 1] = frame
  BY <1>3, Grown DEF ParserShape
<1> HIDE DEF q
<1>5. \A i \in 1..Len(q.stack) : DOMAIN q.stack[i] = Frames
  BY <1>1, <1>4 DEF ParserShape
<1>6. ParserShape(q)
  BY <1>3, <1>4, <1>5 DEF ParserShape
<1>7. Top(q) = frame
  BY <1>4, <1>6, Depth
<1> QED
  BY <1>1, <1>3, <1>4, <1>6, <1>7 DEF q

\* A call is made.
LEMMA CallMade ==
    ASSUME NEW p, ParserShape(p), p.out = <<>>, NEW c
    PROVE  SameModes(Emit(p, c), p) /\ Emit(p, c).out = <<c>> /\ Emit(p, c).more = TRUE
BY DEF Emit, SameModes, ParserShape

\* The parser stops.
LEMMA Stopped ==
    ASSUME NEW p, ParserShape(p), p.out = <<>>, NEW code
    PROVE  Stops(Fail(p, code)) /\ SameModes(Fail(p, code), p)
BY DEF Fail, Stops, ParserShape, SameModes

-------------------------------------------------------------------------------
\* The caller has completed a value in a container that announces no number of items.
LEMMA ValueInUnsized ==
    ASSUME NEW w, AskedShape(w), w.open # <<>>, Last(w.open).left = Unsized
    PROVE  /\ AskedShape(ValueMade(w)) /\ ValueMade(w).status = w.status
           /\ Len(ValueMade(w).open) = Len(w.open) /\ ValueMade(w).open # <<>>
           /\ Last(ValueMade(w).open) = [kind |-> Last(w.open).kind, left |-> Unsized, keyed |-> FALSE]
           /\ \A i \in 1..(Len(w.open) - 1) : ValueMade(w).open[i] = w.open[i]
<1> DEFINE n == Len(w.open)
           top == w.open[n]
           after == [kind |-> top.kind, left |-> Unsized, keyed |-> FALSE]
<1>1. w.open \in Seq(Levels) /\ n \in Nat /\ n > 0 /\ Last(w.open) = top /\ top \in Levels
  BY DEF AskedShape, Last
<1>2. [top EXCEPT !.left = Unsized, !.keyed = FALSE] = after
  <2> HIDE DEF top
  <2>1. PICK u \in Int : u = Unsized
    BY DEF Unsized
  <2>2. PICK level : level = [top EXCEPT !.left = u, !.keyed = FALSE]
    OBVIOUS
  <2>3. level = [kind |-> top.kind, left |-> u, keyed |-> FALSE]
    BY <1>1, <2>2 DEF Levels
  <2> QED
    BY <2>1, <2>2, <2>3
<1>3. ValueMade(w) = [w EXCEPT !.open = [w.open EXCEPT ![n] = after]]
  BY <1>1, <1>2 DEF ValueMade, AskedShape
<1>4. after \in Levels
  BY <1>1 DEF Levels, Unsized
<1> HIDE DEF after
<1>5. [w.open EXCEPT ![n] = after] \in Seq(Levels) /\ Len([w.open EXCEPT ![n] = after]) = n
  BY <1>1, <1>4, ExceptSeq
<1>6. ValueMade(w).open = [w.open EXCEPT ![n] = after] /\ ValueMade(w).status = w.status
  BY <1>3 DEF AskedShape
<1>7. AskedShape(ValueMade(w))
  <2>1. w.status = "value"
    BY DEF AskedShape
  <2> QED
    BY <1>3, <1>5, <2>1 DEF AskedShape
<1>8. \A i \in 1..(n - 1) : ValueMade(w).open[i] = w.open[i]
  BY <1>1, <1>6
<1>9. ValueMade(w).open # <<>> /\ Last(ValueMade(w).open) = after
  BY <1>1, <1>5, <1>6 DEF Last
<1> QED
  BY <1>1, <1>5, <1>6, <1>7, <1>8, <1>9 DEF after

\* A value that was awaited is complete.
LEMMA ValueComplete ==
    ASSUME NEW p, NEW w, Receptive(p, w), NEW q, SameModes(q, p)
    PROVE  Linked(q, ValueMade(w))
<1>1. SameDepth(p, w) /\ AskedShape(w) /\ ParserShape(p) /\ ParserShape(q)
  BY DEF Receptive, SameDepth, SameModes
<1>2. w.open \in Seq(Levels) /\ Len(w.open) \in Nat /\ Len(q.stack) = Len(w.open) + 1
  BY <1>1 DEF AskedShape, SameDepth, SameModes
<1>3. \A i \in 1..(Len(w.open) + 1) : q.stack[i].mode = p.stack[i].mode
  BY <1>2 DEF SameModes
<1>4. q.stack[1].mode = "accept" /\ w.status = "value"
  BY <1>2, <1>3 DEF Receptive
<1>5. CASE w.open = <<>>
  <2>1. ValueMade(w) = [w EXCEPT !.status = "complete"]
    BY <1>5 DEF ValueMade
  <2>2. ValueMade(w).open = <<>> /\ ValueMade(w).status = "complete" /\ AskedShape(ValueMade(w))
    BY <1>1, <1>5, <2>1 DEF AskedShape
  <2> QED
    BY <1>1, <1>2, <1>4, <1>5, <2>2 DEF Linked, SameDepth
<1>6. CASE w.open # <<>>
  <2>1. Len(w.open) > 0 /\ Last(w.open) = w.open[Len(w.open)]
    BY <1>2, <1>6 DEF Last
  <2>2. Awaiting(p.stack[Len(w.open) + 1].mode, Last(w.open))
    BY <1>2, <2>1 DEF Receptive
  <2>3. Last(w.open).left = Unsized
    BY <2>2 DEF Awaiting
  <2>4. Top(q).mode = p.stack[Len(w.open) + 1].mode
    BY <1>1, <1>2, <1>3, Depth
  <2>5. Between(Top(q).mode, [kind |-> Last(w.open).kind, left |-> Unsized, keyed |-> FALSE])
    <3>1. CASE /\ p.stack[Len(w.open) + 1].mode = "array"
               /\ Last(w.open) = [kind |-> "array", left |-> Unsized, keyed |-> FALSE]
      BY <2>4, <3>1 DEF Between
    <3>2. CASE /\ p.stack[Len(w.open) + 1].mode = "document"
               /\ Last(w.open) = [kind |-> "object", left |-> Unsized, keyed |-> TRUE]
      BY <2>4, <3>2 DEF Between
    <3> QED
      BY <2>2, <3>1, <3>2 DEF Awaiting
  <2>6. \A i \in 1..(Len(w.open) - 1) : Awaiting(q.stack[i + 1].mode, w.open[i])
    <3> SUFFICES ASSUME NEW i \in 1..(Len(w.open) - 1) PROVE Awaiting(q.stack[i + 1].mode, w.open[i])
      OBVIOUS
    <3>1. i \in 1..Len(w.open) /\ i + 1 \in 1..(Len(w.open) + 1)
      BY <1>2
    <3> QED
      BY <1>3, <3>1 DEF Receptive
  <2> DEFINE v == ValueMade(w)
  <2>7. /\ AskedShape(v) /\ v.status = "value" /\ Len(v.open) = Len(w.open) /\ v.open # <<>>
        /\ Last(v.open) = [kind |-> Last(w.open).kind, left |-> Unsized, keyed |-> FALSE]
        /\ \A i \in 1..(Len(w.open) - 1) : v.open[i] = w.open[i]
    BY <1>1, <1>4, <1>6, <2>3, ValueInUnsized
  <2> HIDE DEF v
  <2>8. SameDepth(q, v)
    BY <1>1, <1>2, <2>7 DEF SameDepth
  <2>9. \A i \in 1..(Len(v.open) - 1) : Awaiting(q.stack[i + 1].mode, v.open[i])
    BY <2>6, <2>7
  <2>10. Between(Top(q).mode, Last(v.open))
    BY <2>5, <2>7
  <2> QED
    BY <1>4, <2>7, <2>8, <2>9, <2>10 DEF Linked, v
<1> QED
  BY <1>5, <1>6

\* Where a value is awaited the order allows one.
LEMMA ValueMayFollow ==
    ASSUME NEW p, NEW w, Receptive(p, w), NEW c, c[1] \in Begin \cup Scalar
    PROVE  MayFollow(w, c)
<1>1. CASE w.open = <<>>
  BY <1>1 DEF MayFollow, Receptive
<1>2. CASE w.open # <<>>
  <2>1. w.open \in Seq(Levels) /\ Len(w.open) \in 1..Len(w.open) /\ Last(w.open) = w.open[Len(w.open)]
    BY <1>2 DEF Receptive, SameDepth, AskedShape, Last
  <2>2. Awaiting(p.stack[Len(w.open) + 1].mode, Last(w.open))
    BY <2>1 DEF Receptive
  <2>3. Last(w.open).left # 0 /\ (Last(w.open).kind = "object" => Last(w.open).keyed)
    BY <2>2 DEF Awaiting, Unsized
  <2> QED
    BY <1>2, <2>3 DEF MayFollow, Receptive
<1> QED
  BY <1>1, <1>2

\* A scalar is read.
LEMMA ScalarLeads ==
    ASSUME NEW p, NEW w, Receptive(p, w), p.out = <<>>, NEW q, SameModes(q, p), q.out = <<>>,
           NEW o \in Scalar, NEW x, NEW tag
    PROVE  Leads(Emit(q, <<o, x, tag>>), w)
<1> DEFINE c == <<o, x, tag>>
           r == Emit(q, c)
<1>1. c[1] = o /\ IsCall(c)
  BY DEF IsCall, Operations, Begin, Scalar
<1>2. MayFollow(w, c)
  BY <1>1, ValueMayFollow
<1>3. After(w, c) = ValueMade(w)
  <2> HIDE DEF c
  <2>1. c[1] \in Scalar /\ c[1] \notin Begin /\ c[1] \notin End /\ c[1] # "key"
    BY <1>1 DEF Scalar, Begin, End
  <2> QED
    BY <1>2, <2>1 DEF After
<1>4. SameModes(r, q) /\ r.out = <<c>> /\ r.more = TRUE
  BY CallMade DEF SameModes
<1>5. SameModes(r, p)
  BY <1>4 DEF SameModes, ParserShape
<1> HIDE DEF r, c
<1>6. Linked(r, After(w, c))
  BY <1>3, <1>5, ValueComplete
<1>7. r.done = FALSE
  BY <1>4 DEF SameModes, ParserShape
<1> QED
  BY <1>1, <1>2, <1>4, <1>6, <1>7 DEF Leads, Follows, c, r

\* A container begins.
LEMMA BeginLeads ==
    ASSUME NEW p, NEW w, Receptive(p, w), NEW q, SameModes(q, p), q.out = <<>>,
           NEW mode, NEW begin, <<mode, begin>> \in {<<"document", "begin_object">>, <<"array", "begin_array">>}
    PROVE  Leads(BeginContainer(q, mode, begin), w)
<1>1. ParserShape(q)
  BY DEF SameModes
<1>2. CASE Len(q.stack) > BsonMaxParseDepth
  <2>1. BeginContainer(q, mode, begin) = Fail(q, "max_nesting_depth_exceeded")
    BY <1>2 DEF BeginContainer
  <2> QED
    BY <1>1, <2>1, Stopped DEF Leads
<1>3. CASE ~(Len(q.stack) > BsonMaxParseDepth) /\ AtEof(q)
  <2>1. BeginContainer(q, mode, begin) = Fail(q, "unexpected_eof")
    BY <1>3 DEF BeginContainer, ReadAhead
  <2> QED
    BY <1>1, <2>1, Stopped DEF Leads
<1>4. CASE ~(Len(q.stack) > BsonMaxParseDepth) /\ ~AtEof(q)
  <2> DEFINE c == Untagged(begin, Unsized)
             t == [q EXCEPT !.pos = @ + 1]
             e == Emit(t, c)
             r == PushState(e, mode, ItemAt(q)[2])
             kind == KindOf[begin]
             level == [kind |-> kind, left |-> Unsized, keyed |-> FALSE]
             v == [w EXCEPT !.open = Append(w.open, level)]
  <2>1. BeginContainer(q, mode, begin) = r
    BY <1>4 DEF BeginContainer, ReadAhead
  <2>2. Alike(t, q)
    BY <1>1, PosAlike
  <2>3. SameModes(e, t) /\ e.out = <<c>> /\ e.more = TRUE
    BY <2>2, CallMade DEF Alike, SameModes
  <2> HIDE DEF t, e
  <2>4. SameModes(e, p)
    BY <2>2, <2>3 DEF Alike, SameModes, ParserShape
  <2>5. /\ ParserShape(r) /\ Len(r.stack) = Len(e.stack) + 1 /\ Top(r).mode = mode
        /\ \A i \in 1..Len(e.stack) : r.stack[i].mode = e.stack[i].mode
        /\ r.out = <<c>> /\ r.more = TRUE
    <3>1. ParserShape(e)
      BY <2>4, Zenon DEF SameModes
    <3>2. PICK ahead : ahead = ItemAt(q)[2]
      OBVIOUS
    <3>3. r = PushState(e, mode, ahead)
      BY <3>2, Zenon
    <3> HIDE DEF r
    <3>4. /\ ParserShape(r) /\ Len(r.stack) = Len(e.stack) + 1 /\ Top(r).mode = mode
          /\ \A i \in 1..Len(e.stack) : r.stack[i].mode = e.stack[i].mode
          /\ r.out = e.out /\ r.more = e.more
      BY <3>1, <3>3, StatePushed
    <3> QED
      BY <2>3, <3>4
  <2> HIDE DEF r
  <2>6. \/ mode = "document" /\ begin = "begin_object" /\ kind = "object"
        \/ mode = "array" /\ begin = "begin_array" /\ kind = "array"
    BY DEF KindOf
  <2>7. IsCall(c) /\ c[1] = begin /\ c[2] = Unsized /\ begin \in Begin
    BY <2>6 DEF IsCall, Untagged, Operations, Begin, Unsized
  <2>8. MayFollow(w, c)
    BY <2>7, ValueMayFollow
  <2>9. After(w, c) = v
    <3>1. c[1] \in Begin /\ c[1] \notin Scalar /\ c[1] \notin End /\ c[1] # "key" /\ c[1] # "begin_multi_dim"
      BY <2>6, <2>7 DEF Scalar, Begin, End
    <3> HIDE DEF c
    <3> QED
      BY <2>7, <2>8, <3>1 DEF After, Opened
  <2>10. level \in Levels /\ Between(mode, level)
    <3>1. CASE mode = "document" /\ kind = "object"
      BY <3>1 DEF Levels, Kinds, Unsized, Between
    <3>2. CASE mode = "array" /\ kind = "array"
      BY <3>2 DEF Levels, Kinds, Unsized, Between
    <3> QED
      BY <2>6, <3>1, <3>2
  <2> HIDE DEF level
  <2>11. w.open \in Seq(Levels) /\ AskedShape(w) /\ Len(w.open) \in Nat /\ w.status = "value"
    BY DEF Receptive, SameDepth, AskedShape
  <2>12. Append(w.open, level) \in Seq(Levels) /\ v.open = Append(w.open, level) /\ v.status = "value"
    BY <2>10, <2>11 DEF AskedShape
  <2>13. AskedShape(v)
    BY <2>11, <2>12 DEF AskedShape
  <2>14. /\ Len(v.open) = Len(w.open) + 1 /\ v.open # <<>> /\ Last(v.open) = level
         /\ \A i \in 1..Len(w.open) : v.open[i] = w.open[i]
    BY <2>10, <2>11, <2>12 DEF Last
  <2> HIDE DEF v
  <2>15. Len(e.stack) = Len(w.open) + 1 /\ Len(r.stack) = Len(v.open) + 1
    BY <2>4, <2>5, <2>14 DEF SameModes, Receptive, SameDepth
  <2>16. \A i \in 1..(Len(w.open) + 1) : r.stack[i].mode = p.stack[i].mode
    BY <2>4, <2>5, <2>15 DEF SameModes
  <2>17. \A i \in 1..(Len(v.open) - 1) : Awaiting(r.stack[i + 1].mode, v.open[i])
    <3> SUFFICES ASSUME NEW i \in 1..(Len(v.open) - 1) PROVE Awaiting(r.stack[i + 1].mode, v.open[i])
      OBVIOUS
    <3>1. i \in 1..Len(w.open) /\ i + 1 \in 1..(Len(w.open) + 1)
      BY <2>11, <2>14
    <3>2. v.open[i] = w.open[i] /\ r.stack[i + 1].mode = p.stack[i + 1].mode
      BY <2>14, <2>16, <3>1
    <3> QED
      BY <3>1, <3>2 DEF Receptive
  <2>18. r.stack[1].mode = "accept"
    <3>1. 1 \in 1..(Len(w.open) + 1)
      BY <2>11
    <3> QED
      BY <2>16, <3>1 DEF Receptive
  <2>19. SameDepth(r, v)
    BY <2>5, <2>13, <2>15 DEF SameDepth
  <2>20. Linked(r, v)
    BY <2>5, <2>10, <2>12, <2>14, <2>17, <2>18, <2>19 DEF Linked, v
  <2>21. r.done = FALSE
    BY <2>5 DEF ParserShape
  <2> QED
    BY <2>1, <2>5, <2>7, <2>8, <2>9, <2>20, <2>21 DEF Leads, Follows
<1> QED
  BY <1>2, <1>3, <1>4

\* Between two items: what the innermost container is for the caller.
LEMMA InnermostLevel ==
    ASSUME NEW p, NEW w, Linked(p, w), w.open # <<>>
    PROVE  /\ AskedShape(w) /\ w.open \in Seq(Levels) /\ w.status = "value" /\ Len(w.open) \in Nat /\ Len(w.open) > 0
           /\ Last(w.open) = w.open[Len(w.open)] /\ Last(w.open).left = Unsized
           /\ Between(Top(p).mode, Last(w.open))
           /\ p.stack[1].mode = "accept"
<1>1. AskedShape(w) /\ w.open \in Seq(Levels) /\ w.status = "value" /\ p.stack[1].mode = "accept"
  BY DEF Linked, SameDepth, AskedShape
<1>2. Len(w.open) \in Nat /\ Len(w.open) > 0 /\ Last(w.open) = w.open[Len(w.open)]
  BY <1>1 DEF Last
<1>3. Between(Top(p).mode, Last(w.open))
  BY DEF Linked
<1>4. Last(w.open).left = Unsized
  BY <1>3 DEF Between
<1> QED
  BY <1>1, <1>2, <1>3, <1>4

\* A container ends.
LEMMA EndLeads ==
    ASSUME NEW p, NEW w, Linked(p, w), w.open # <<>>, NEW q, SameModes(q, p), q.out = <<>>,
           NEW call, <<Top(p).mode, call>> \in {<<"document", "end_object">>, <<"array", "end_array">>}
    PROVE  Leads(EndContainer(q, call), w)
<1> DEFINE n == Len(w.open)
           c == Simple(call)
           e == Emit(q, c)
           stack == Front(e.stack)
           t == [e EXCEPT !.stack = stack]
           r == AddBytes(t, Top(e).pos)
           v == [w EXCEPT !.open = Front(w.open)]
<1>1. /\ AskedShape(w) /\ w.open \in Seq(Levels) /\ w.status = "value" /\ n \in Nat /\ n > 0
      /\ Last(w.open) = w.open[n] /\ Last(w.open).left = Unsized
      /\ Between(Top(p).mode, Last(w.open)) /\ p.stack[1].mode = "accept"
  BY InnermostLevel
<1>2. /\ ParserShape(e) /\ e.out = <<c>> /\ e.more = TRUE /\ Len(e.stack) = n + 1
      /\ \A i \in 1..(n + 1) : e.stack[i].mode = p.stack[i].mode
  <2>1. ParserShape(q) /\ Len(q.stack) = Len(p.stack) /\ Len(p.stack) = n + 1
    BY DEF SameModes, Linked, SameDepth
  <2>2. SameModes(e, q) /\ e.out = <<c>> /\ e.more = TRUE
    BY <2>1, CallMade
  <2>3. \A i \in 1..(n + 1) : q.stack[i].mode = p.stack[i].mode /\ e.stack[i].mode = q.stack[i].mode
    BY <2>1, <2>2 DEF SameModes
  <2> QED
    BY <2>1, <2>2, <2>3 DEF SameModes
<1>3. IsCall(c) /\ c[1] = call
  <2>1. call \in Operations /\ call \notin Begin
    BY DEF Operations, Begin, End
  <2> QED
    BY <2>1 DEF IsCall, Simple
<1>4. call \in End /\ call = EndOf[Last(w.open).kind] /\ ~Last(w.open).keyed
  <2>1. CASE Top(p).mode = "document" /\ call = "end_object"
    <3>1. Last(w.open).kind = "object" /\ Last(w.open).keyed = FALSE
      BY <1>1, <2>1 DEF Between
    <3> QED
      BY <2>1, <3>1 DEF End, EndOf
  <2>2. CASE Top(p).mode = "array" /\ call = "end_array"
    <3>1. Last(w.open).kind = "array" /\ Last(w.open).keyed = FALSE
      BY <1>1, <2>2 DEF Between
    <3> QED
      BY <2>2, <3>1 DEF End, EndOf
  <2> QED
    BY <2>1, <2>2
<1>5. MayFollow(w, c)
  BY <1>1, <1>3, <1>4 DEF MayFollow
<1>6. After(w, c) = ValueMade(v)
  <2>1. c[1] \in End /\ c[1] \notin Begin /\ c[1] \notin Scalar /\ c[1] # "key"
    BY <1>3, <1>4 DEF Scalar, Begin, End
  <2> HIDE DEF c
  <2> QED
    BY <1>5, <2>1 DEF After
<1>7. e.done = FALSE /\ ParserShape(e)
  BY <1>2 DEF ParserShape
<1> HIDE DEF e, c
<1>8. CASE Top(e).pos # Top(e).length
  <2>1. EndContainer(q, call) = Fail(e, "size_mismatch")
    BY <1>8 DEF EndContainer, e, c
  <2>2. Fail(e, "size_mismatch").out = <<c>> /\ Fail(e, "size_mismatch").more = FALSE /\ Fail(e, "size_mismatch").done = FALSE
    BY <1>2, <1>7 DEF Fail, ParserShape
  <2> HIDE DEF v
  <2> QED
    BY <1>3, <1>5, <2>1, <2>2 DEF Leads, Follows
<1>9. CASE Top(e).pos = Top(e).length
  <2>1. EndContainer(q, call) = r
    BY <1>9 DEF EndContainer, e, c
  <2>2. /\ IsSequence(stack) /\ Len(stack) = n
        /\ \A i \in 1..n : stack[i] = e.stack[i]
    <3>1. IsSequence(e.stack) /\ stack = SubSeq(e.stack, 1, n) /\ n \in 0..Len(e.stack)
      BY <1>1, <1>2 DEF ParserShape, Front
    <3> QED
      BY <3>1, Shortened
  <2> HIDE DEF stack
  <2>3. ParserShape(t) /\ t.stack = stack /\ t.out = <<c>> /\ t.more = TRUE
    <3>1. /\ DOMAIN t = DOMAIN e /\ t.stack = stack /\ t.out = e.out /\ t.more = e.more /\ t.done = e.done
      BY <1>2 DEF ParserShape
    <3>2. \A i \in 1..n : DOMAIN stack[i] = Frames
      BY <1>1, <1>2, <2>2 DEF ParserShape
    <3> QED
      BY <1>1, <1>2, <2>2, <3>1, <3>2 DEF ParserShape
  <2> HIDE DEF t
  <2>4. SameModes(r, t) /\ r.out = <<c>> /\ r.more = TRUE /\ r.done = FALSE
    <3>1. Alike(r, t)
      BY <2>3, BytesAlike
    <3>2. r.more = t.more
      BY <2>3 DEF AddBytes, ParserShape
    <3> QED
      BY <2>3, <3>1, <3>2 DEF Alike, SameModes, ParserShape
  <2> HIDE DEF r
  <2>5. /\ v.open = SubSeq(w.open, 1, n - 1) /\ v.open \in Seq(Levels) /\ Len(v.open) = n - 1
        /\ v.status = "value" /\ AskedShape(v)
        /\ \A i \in 1..(n - 1) : v.open[i] = w.open[i]
    <3> DEFINE left == SubSeq(w.open, 1, n - 1)
    <3>1. left \in Seq(Levels) /\ Len(left) = n - 1 /\ \A i \in 1..(n - 1) : left[i] = w.open[i]
      BY <1>1
    <3>2. v = [w EXCEPT !.open = left]
      BY DEF Front
    <3> HIDE DEF left
    <3>3. v.open = left /\ v.status = "value" /\ AskedShape(v)
      BY <1>1, <3>1, <3>2 DEF AskedShape
    <3> QED
      BY <3>1, <3>3 DEF left
  <2> HIDE DEF v
  <2>6. \A i \in 1..n : t.stack[i].mode = p.stack[i].mode
    BY <1>1, <1>2, <2>2, <2>3
  <2>7. Receptive(t, v)
    <3>1. SameDepth(t, v)
      <4>1. Len(t.stack) = n
        BY <2>2, <2>3
      <4>2. Len(v.open) + 1 = n
        BY <1>1, <2>5
      <4>3. ParserShape(t) /\ AskedShape(v) /\ Len(t.stack) = Len(v.open) + 1
        BY <2>3, <2>5, <4>1, <4>2
      <4> QED
        BY <4>3 DEF SameDepth
    <3>2. t.stack[1].mode = "accept"
      BY <1>1, <2>6
    <3>3. ASSUME NEW i \in 1..Len(v.open) PROVE Awaiting(t.stack[i + 1].mode, v.open[i])
      <4>1. i \in 1..(n - 1) /\ i + 1 \in 1..n
        BY <1>1, <2>5
      <4>2. Awaiting(p.stack[i + 1].mode, w.open[i])
        BY <4>1 DEF Linked
      <4> QED
        BY <2>5, <2>6, <4>1, <4>2
    <3> QED
      BY <2>5, <3>1, <3>2, <3>3 DEF Receptive
  <2>8. Linked(r, After(w, c))
    BY <1>6, <2>4, <2>7, ValueComplete DEF v
  <2> QED
    BY <1>3, <1>5, <2>1, <2>4, <2>8 DEF Leads, Follows
<1> QED
  BY <1>8, <1>9

\* The name of a member is read.
LEMMA KeyLeads ==
    ASSUME NEW p, NEW w, Linked(p, w), w.open # <<>>, Top(p).mode = "document",
           NEW q, SameModes(q, p), q.out = <<>>, NEW name,
           NEW r, ParserShape(r), Len(r.stack) = Len(p.stack), Top(r).mode = "value",
           \A i \in 1..(Len(p.stack) - 1) : r.stack[i].mode = p.stack[i].mode,
           r.out = <<Untagged("key", name)>>, r.more \in BOOLEAN
    PROVE  Leads(r, w)
<1> DEFINE n == Len(w.open)
           c == Untagged("key", name)
           level == [kind |-> "object", left |-> Unsized, keyed |-> TRUE]
           v == [w EXCEPT !.open = [w.open EXCEPT ![n] = level]]
<1>1. /\ AskedShape(w) /\ w.open \in Seq(Levels) /\ w.status = "value" /\ n \in Nat /\ n > 0
      /\ Last(w.open) = w.open[n] /\ p.stack[1].mode = "accept"
      /\ Last(w.open) = [kind |-> "object", left |-> Unsized, keyed |-> FALSE]
  BY InnermostLevel DEF Between
<1>2. IsCall(c) /\ c[1] = "key"
  BY DEF IsCall, Operations, Begin, Untagged
<1>3. MayFollow(w, c)
  <2>1. Last(w.open).left # 0 /\ Last(w.open).kind = "object" /\ ~Last(w.open).keyed
    BY <1>1 DEF Unsized
  <2> HIDE DEF c
  <2> QED
    BY <1>1, <1>2, <2>1 DEF MayFollow
<1>4. After(w, c) = v
  <2>1. c[1] = "key" /\ c[1] \notin Begin /\ c[1] \notin Scalar /\ c[1] \notin End
    BY <1>2 DEF Scalar, Begin, End
  <2> HIDE DEF c
  <2>2. After(w, c) = [w EXCEPT !.open[Len(w.open)].keyed = TRUE]
    BY <1>3, <2>1 DEF After
  <2> DEFINE top == w.open[n]
  <2>3. [top EXCEPT !.keyed = TRUE] = level
    <3>1. PICK u \in Int : u = Unsized
      BY DEF Unsized
    <3>2. top = [kind |-> "object", left |-> u, keyed |-> FALSE]
      BY <1>1, <3>1
    <3> HIDE DEF top
    <3>3. PICK l : l = [top EXCEPT !.keyed = TRUE]
      OBVIOUS
    <3>4. l = [kind |-> "object", left |-> u, keyed |-> TRUE]
      BY <3>2, <3>3
    <3> QED
      BY <3>1, <3>3, <3>4
  <2> QED
    BY <1>1, <2>2, <2>3
<1>5. level \in Levels
  BY DEF Levels, Kinds, Unsized
<1>6. Between("value", level)
  BY DEF Between
<1> HIDE DEF level, c
<1>7. /\ v.open = [w.open EXCEPT ![n] = level] /\ v.status = "value"
      /\ v.open \in Seq(Levels) /\ Len(v.open) = n /\ v.open[n] = level
      /\ \A i \in 1..(n - 1) : v.open[i] = w.open[i]
      /\ AskedShape(v)
  <2>1. [w.open EXCEPT ![n] = level] \in Seq(Levels) /\ Len([w.open EXCEPT ![n] = level]) = n
    BY <1>1, <1>5, ExceptSeq
  <2>2. v.open = [w.open EXCEPT ![n] = level] /\ v.status = "value"
    BY <1>1 DEF AskedShape
  <2>3. v.open[n] = level /\ \A i \in 1..(n - 1) : v.open[i] = w.open[i]
    BY <1>1, <2>2
  <2>4. AskedShape(v)
    BY <1>1, <2>1, <2>2 DEF AskedShape
  <2> QED
    BY <2>1, <2>2, <2>3, <2>4
<1> HIDE DEF v
<1>8. v.open # <<>> /\ Last(v.open) = level
  BY <1>1, <1>7 DEF Last
<1>9. Len(p.stack) = n + 1
  BY DEF Linked, SameDepth
<1>10. SameDepth(r, v)
  BY <1>7, <1>9 DEF SameDepth
<1>11. r.stack[1].mode = "accept"
  BY <1>1, <1>9
<1>12. ASSUME NEW i \in 1..(Len(v.open) - 1) PROVE Awaiting(r.stack[i + 1].mode, v.open[i])
  <2>1. i \in 1..(n - 1) /\ i + 1 \in 1..(Len(p.stack) - 1)
    BY <1>1, <1>7, <1>9
  <2>2. Awaiting(p.stack[i + 1].mode, w.open[i])
    BY <2>1 DEF Linked
  <2> QED
    BY <1>7, <2>1, <2>2
<1>13. Linked(r, v)
  BY <1>6, <1>7, <1>8, <1>10, <1>11, <1>12 DEF Linked
<1>14. r.done = FALSE
  BY DEF ParserShape
<1> QED
  BY <1>2, <1>3, <1>4, <1>13, <1>14 DEF Leads, Follows, c

-------------------------------------------------------------------------------
\* Nothing has been called, and the containers are those of p.
Silent(q, p) == SameModes(q, p) /\ q.out = <<>>

\* An item is taken from the source; its bytes are counted, or not.
Taken(p) == [p EXCEPT !.pos = @ + 1]
Counted(p) == AddBytes(Taken(p), ItemSize(ItemAt(p)))

LEMMA StillSilent ==
    ASSUME NEW p, NEW q, Silent(q, p)
    PROVE  Silent(Taken(q), p) /\ Silent(Counted(q), p) /\ \A n : Silent(AddBytes(q, n), p)
<1>1. ParserShape(q)
  BY DEF Silent, SameModes
<1>2. Alike(Taken(q), q)
  BY <1>1, PosAlike DEF Taken
<1>3. Alike(Counted(q), Taken(q))
  BY <1>2, BytesAlike DEF Counted, Alike, SameModes
<1>4. \A n : Alike(AddBytes(q, n), q)
  BY <1>1, BytesAlike
<1>5. ASSUME NEW r, Alike(r, q) PROVE Silent(r, p)
  BY <1>5 DEF Alike, SameModes, Silent, ParserShape
<1>6. Alike(Counted(q), q)
  BY <1>2, <1>3, AlikeTwice
<1> QED
  BY <1>2, <1>4, <1>5, <1>6

LEMMA SilentStops ==
    ASSUME NEW p, NEW w, NEW q, Silent(q, p), NEW code
    PROVE  Leads(Fail(q, code), w)
BY Stopped DEF Silent, SameModes, Leads

\* A value of a fixed size.
LEMMA FixedLeads ==
    ASSUME NEW p, NEW w, Receptive(p, w), p.out = <<>>, NEW q, Silent(q, p),
           NEW type \in {"double", "bool", "int32", "int64", "timestamp", "datetime", "decimal128", "object_id",
                         "undefined", "null"}
    PROVE  Leads(ReadValue(q, type), w)
<1>1. \A o \in Scalar : \A x, tag : Leads(Emit(q, <<o, x, tag>>), w) /\ Leads(Emit(Counted(q), <<o, x, tag>>), w)
  BY StillSilent, ScalarLeads DEF Silent
<1>2. \A code : Leads(Fail(q, code), w)
  BY SilentStops
<1>3. CASE type = "double"
  <2>1. ReadValue(q, type) = IF AtEof(q) THEN Fail(q, "unexpected_eof")
                             ELSE Emit(Counted(q), Untagged("double_value", ItemAt(q)[2]))
    BY <1>3 DEF ReadValue, Read, Counted, Taken
  <2> QED
    BY <1>1, <1>2, <2>1 DEF Untagged, Scalar
<1>4. CASE type = "bool"
  <2>1. ReadValue(q, type) = IF AtEof(q) THEN Fail(q, "unexpected_eof")
                             ELSE Emit(Counted(q), Untagged("bool_value", ItemAt(q)[2]))
    BY <1>4 DEF ReadValue, Read, Counted, Taken
  <2> QED
    BY <1>1, <1>2, <2>1 DEF Untagged, Scalar
<1>5. CASE type = "int32"
  <2>1. ReadValue(q, type) = IF AtEof(q) THEN Fail(q, "unexpected_eof")
                             ELSE Emit(Counted(q), Untagged("int64_value", ToInt(ItemAt(q)[2], 4)))
    BY <1>5 DEF ReadValue, Read, Counted, Taken
  <2> QED
    BY <1>1, <1>2, <2>1 DEF Untagged, Scalar
<1>6. CASE type = "int64"
  <2>1. ReadValue(q, type) = IF AtEof(q) THEN Fail(q, "unexpected_eof")
                             ELSE Emit(Counted(q), Untagged("int64_value", ToInt(ItemAt(q)[2], 8)))
    BY <1>6 DEF ReadValue, Read, Counted, Taken
  <2> QED
    BY <1>1, <1>2, <2>1 DEF Untagged, Scalar
<1>7. CASE type = "timestamp"
  <2>1. ReadValue(q, type) = IF AtEof(q) THEN Fail(q, "unexpected_eof")
                             ELSE Emit(Counted(q), Untagged("uint64_value", ItemAt(q)[2]))
    BY <1>7 DEF ReadValue, Read, Counted, Taken
  <2> QED
    BY <1>1, <1>2, <2>1 DEF Untagged, Scalar
<1>8. CASE type = "datetime"
  <2>1. ReadValue(q, type) = IF AtEof(q) THEN Fail(q, "unexpected_eof")
                             ELSE Emit(Counted(q), <<"int64_value", ToInt(ItemAt(q)[2], 8), "epoch_milli">>)
    BY <1>8 DEF ReadValue, Read, Counted, Taken
  <2> QED
    BY <1>1, <1>2, <2>1 DEF Untagged, Scalar
<1>9. CASE type = "decimal128"
  <2>1. ReadValue(q, type) = IF AtEof(q) THEN Fail(q, "unexpected_eof")
                             ELSE Emit(Counted(q), <<"string_value", <<"decimal", ItemAt(q)[2]>>, "float128">>)
    BY <1>9 DEF ReadValue, Read, Counted, Taken
  <2> QED
    BY <1>1, <1>2, <2>1 DEF Untagged, Scalar
<1>10. CASE type = "object_id"
  <2>1. ReadValue(q, type) = IF AtEof(q) THEN Fail(q, "unexpected_eof")
                             ELSE Emit(Counted(q), <<"string_value", <<"hex", ItemAt(q)[2]>>, "id">>)
    BY <1>10 DEF ReadValue, Read, Counted, Taken
  <2> QED
    BY <1>1, <1>2, <2>1 DEF Untagged, Scalar
<1>11. CASE type = "undefined"
  <2>1. ReadValue(q, type) = Emit(q, <<"null_value", 0, "undefined">>)
    BY <1>11 DEF ReadValue
  <2> QED
    BY <1>1, <2>1 DEF Scalar
<1>12. CASE type = "null"
  <2>1. ReadValue(q, type) = Emit(q, Simple("null_value"))
    BY <1>12 DEF ReadValue
  <2> QED
    BY <1>1, <2>1 DEF Simple, Scalar
<1> QED
  BY <1>3, <1>4, <1>5, <1>6, <1>7, <1>8, <1>9, <1>10, <1>11, <1>12

\* A string is read when all of its bytes have been.
LEMMA TextLeads ==
    ASSUME NEW p, NEW w, Receptive(p, w), p.out = <<>>, NEW q, Silent(q, p), NEW tag
    PROVE  Leads(ReadText(q, tag), w)
<1> DEFINE n == ItemAt(q)[2]
           first == Taken(q)
           second == Taken(first)
           last == IF n - 1 = 0 THEN first ELSE second
           text == IF n - 1 = 0 THEN <<"chars", "">>
                   ELSE IF n - 1 = TextSize(ItemAt(first)[2]) THEN ItemAt(first)[2] ELSE <<"chars", "misread">>
           read == AddBytes(Taken(last), 4 + n)
<1>1. /\ Silent(first, p) /\ Silent(second, p) /\ Silent(last, p) /\ Silent(read, p)
  <2>1. Silent(first, p) /\ Silent(second, p)
    BY StillSilent
  <2>2. Silent(last, p)
    BY <2>1
  <2> QED
    BY <2>1, <2>2, StillSilent
<1>2. \A r, code : Silent(r, p) => Leads(Fail(r, code), w)
  BY SilentStops
<1>3. ReadText(q, tag) =
        IF AtEof(q) THEN Fail(q, "unexpected_eof")
        ELSE IF n < 1 THEN Fail(first, "string_length_is_non_positive")
        ELSE IF n - 1 # 0 /\ AtEof(first) THEN Fail(first, "unexpected_eof")
        ELSE IF AtEof(last) THEN Fail(last, "unexpected_eof")
        ELSE IF WellFormed(text) THEN Emit(read, <<"string_value", text, tag>>)
        ELSE Fail(read, "invalid_utf8_text_string")
  <2>0. CASE AtEof(q)
    BY <2>0 DEF ReadText, ReadString, ReadAhead, ReadSpan, Taken
  <2>1. CASE ~AtEof(q) /\ n < 1
    BY <2>1 DEF ReadText, ReadString, ReadAhead, ReadSpan, Taken
  <2>2. CASE ~AtEof(q) /\ ~(n < 1) /\ n - 1 = 0
    <3> HIDE DEF n, first
    <3>1. ReadText(q, tag) =
            IF AtEof(first) THEN Fail(first, "unexpected_eof")
            ELSE IF WellFormed(<<"chars", "">>)
                 THEN Emit(AddBytes(Taken(first), 4 + n), <<"string_value", <<"chars", "">>, tag>>)
                 ELSE Fail(AddBytes(Taken(first), 4 + n), "invalid_utf8_text_string")
      BY <2>2 DEF ReadText, ReadString, ReadAhead, ReadSpan, Taken, n, first
    <3>2. last = first /\ text = <<"chars", "">> /\ read = AddBytes(Taken(first), 4 + n)
      BY <2>2
    <3> HIDE DEF last, text, read
    <3> QED
      BY <2>2, <3>1, <3>2
  <2>3. CASE ~AtEof(q) /\ ~(n < 1) /\ n - 1 # 0 /\ AtEof(first)
    BY <2>3 DEF ReadText, ReadString, ReadAhead, ReadSpan, Taken
  <2>4. CASE ~AtEof(q) /\ ~(n < 1) /\ n - 1 # 0 /\ ~AtEof(first)
    BY <2>4 DEF ReadText, ReadString, ReadAhead, ReadSpan, Taken
  <2> HIDE DEF n
  <2> QED
    BY <2>0, <2>1, <2>2, <2>3, <2>4
<1> HIDE DEF first, second, last, text, read
<1>4. Leads(Emit(read, <<"string_value", text, tag>>), w)
  BY <1>1, ScalarLeads DEF Silent, Scalar
<1> QED
  BY <1>1, <1>2, <1>3, <1>4

\* A regular expression is two strings that end in a zero byte.
LEMMA RegexLeads ==
    ASSUME NEW p, NEW w, Receptive(p, w), p.out = <<>>, NEW q, Silent(q, p)
    PROVE  Leads(ReadValue(q, "regex"), w)
<1> DEFINE first == Counted(q)
           second == Counted(first)
           text == <<"regex", <<ItemAt(q)[2], ItemAt(first)[2]>>>>
<1>1. Silent(first, p) /\ Silent(second, p)
  BY StillSilent
<1>2. \A r, code : Silent(r, p) => Leads(Fail(r, code), w)
  BY SilentStops
<1>3. ReadValue(q, "regex") =
        IF AtEof(q) THEN Fail(q, "unexpected_eof")
        ELSE IF AtEof(first) THEN Fail(first, "unexpected_eof")
        ELSE Emit(second, <<"string_value", text, "regex">>)
  BY DEF ReadValue, Read, Counted, Taken
<1> HIDE DEF first, second, text
<1>4. Leads(Emit(second, <<"string_value", text, "regex">>), w)
  BY <1>1, ScalarLeads DEF Silent, Scalar
<1> QED
  BY <1>1, <1>2, <1>3, <1>4

\* Binary data.
LEMMA BinaryLeads ==
    ASSUME NEW p, NEW w, Receptive(p, w), p.out = <<>>, NEW q, Silent(q, p)
    PROVE  Leads(ReadValue(q, "binary"), w)
<1> DEFINE n == ItemAt(q)[2]
           first == Counted(q)
           subtype == ItemAt(first)[2]
           second == Counted(first)
           last == IF n = 0 THEN second ELSE Taken(second)
           bytes == IF n = 0 THEN <<"chars", "">>
                    ELSE IF n = TextSize(ItemAt(second)[2]) THEN ItemAt(second)[2] ELSE <<"chars", "misread">>
           read == AddBytes(last, n)
<1>1. Silent(first, p) /\ Silent(second, p) /\ Silent(read, p)
  <2>1. Silent(first, p) /\ Silent(second, p) /\ Silent(Taken(second), p)
    BY StillSilent
  <2>2. Silent(last, p)
    BY <2>1
  <2> QED
    BY <2>1, <2>2, StillSilent
<1>2. \A r, code : Silent(r, p) => Leads(Fail(r, code), w)
  BY SilentStops
<1>3. ReadValue(q, "binary") =
        IF AtEof(q) THEN Fail(q, "unexpected_eof")
        ELSE IF n < 0 THEN Fail(first, "length_is_negative")
        ELSE IF AtEof(first) THEN Fail(first, "unexpected_eof")
        ELSE IF n # 0 /\ AtEof(second) THEN Fail(second, "unexpected_eof")
        ELSE Emit(read, Untagged("ext_byte_string", <<bytes, subtype>>))
  BY DEF ReadValue, Read, ReadSpan, ReadAhead, Counted, Taken
<1> HIDE DEF first, second, last, bytes, subtype, read
<1>4. Leads(Emit(read, Untagged("ext_byte_string", <<bytes, subtype>>)), w)
  BY <1>1, ScalarLeads DEF Silent, Scalar, Untagged
<1> QED
  BY <1>1, <1>2, <1>3, <1>4

\* A value of any type.
LEMMA ValueLeads ==
    ASSUME NEW p, NEW w, Receptive(p, w), p.out = <<>>, NEW q, Silent(q, p), NEW type
    PROVE  Leads(ReadValue(q, type), w)
<1>1. CASE type \in {"double", "bool", "int32", "int64", "timestamp", "datetime", "decimal128", "object_id",
                     "undefined", "null"}
  BY <1>1, FixedLeads
<1>2. CASE type \in {"string", "symbol", "min_key", "max_key", "javascript"}
  <2>1. ReadValue(q, type) = ReadText(q, IF type = "javascript" THEN "code" ELSE "none")
    BY <1>2 DEF ReadValue
  <2> QED
    BY <2>1, TextLeads
<1>3. CASE type = "regex"
  BY <1>3, RegexLeads
<1>4. CASE type = "binary"
  BY <1>4, BinaryLeads
<1>5. CASE type = "document"
  <2>1. ReadValue(q, type) = BeginContainer(q, "document", "begin_object")
    BY <1>5 DEF ReadValue
  <2> QED
    BY <2>1, BeginLeads DEF Silent
<1>6. CASE type = "array"
  <2>1. ReadValue(q, type) = BeginContainer(q, "array", "begin_array")
    BY <1>6 DEF ReadValue
  <2> QED
    BY <2>1, BeginLeads DEF Silent
<1>7. CASE type \notin {"double", "bool", "int32", "int64", "timestamp", "datetime", "decimal128", "object_id",
                        "undefined", "null", "string", "symbol", "min_key", "max_key", "javascript", "regex",
                        "binary", "document", "array"}
  <2>1. ReadValue(q, type) = Fail(q, "unknown_type")
    BY <1>7 DEF ReadValue
  <2> QED
    BY <2>1, SilentStops
<1> QED
  BY <1>1, <1>2, <1>3, <1>4, <1>5, <1>6, <1>7

-------------------------------------------------------------------------------
\* What an iteration of each mode leads to.

LEMMA SilentItself ==
    ASSUME NEW p, ParserShape(p), p.out = <<>>
    PROVE  Silent(p, p)
BY DEF Silent, SameModes

\* Where no container is open the parser is before the document or after it.
LEMMA NothingOpen ==
    ASSUME NEW p, NEW w, Linked(p, w)
    PROVE  /\ ParserShape(p) /\ AskedShape(w) /\ Len(p.stack) = Len(w.open) + 1
           /\ Top(p).mode \in {"root", "accept"} => w.open = <<>>
           /\ Top(p).mode \notin {"root", "accept"} => w.open # <<>>
           /\ w.open = <<>> => Len(p.stack) = 1 /\ Top(p) = p.stack[1]
<1>1. ParserShape(p) /\ AskedShape(w) /\ Len(p.stack) = Len(w.open) + 1
  BY DEF Linked, SameDepth
<1>2. CASE w.open = <<>>
  <2>1. Len(p.stack) = 1
    BY <1>1, <1>2
  <2>2. Top(p) = p.stack[1]
    BY <1>1, <2>1, Depth
  <2>3. Top(p).mode \in {"root", "accept"}
    BY <1>2, <2>2 DEF Linked
  <2> QED
    BY <1>1, <1>2, <2>1, <2>2, <2>3
<1>3. CASE w.open # <<>>
  <2>1. Top(p).mode \notin {"root", "accept"}
    BY <1>3 DEF Linked, Between
  <2> QED
    BY <1>1, <1>3, <2>1
<1> QED
  BY <1>2, <1>3

LEMMA RootLeads ==
    ASSUME NEW p, NEW w, Linked(p, w), p.out = <<>>, Top(p).mode = "root"
    PROVE  Leads(BeginContainer(SetMode(p, "accept"), "document", "begin_object"), w)
<1> DEFINE q == SetMode(p, "accept")
<1>1. ParserShape(p) /\ AskedShape(w) /\ Len(p.stack) = 1 /\ w.open = <<>> /\ p.stack[1].mode = "root"
  BY NothingOpen
<1>2. ParserShape(q) /\ Len(q.stack) = 1 /\ Top(q).mode = "accept" /\ q.out = <<>>
  BY <1>1, ModeSet
<1> HIDE DEF q
<1>3. Top(q) = q.stack[1]
  BY <1>2, Depth
<1>4. w.status = "value"
  BY <1>1 DEF Linked
<1>5. SameDepth(q, w)
  BY <1>1, <1>2 DEF SameDepth
<1>6. Receptive(q, w)
  BY <1>1, <1>2, <1>3, <1>4, <1>5 DEF Receptive
<1>7. Leads(BeginContainer(q, "document", "begin_object"), w)
  BY <1>2, <1>6, SilentItself, BeginLeads DEF Silent
<1> QED
  BY <1>7 DEF q

\* The parser stands before the value of a member.
LEMMA MemberLeads ==
    ASSUME NEW p, NEW w, Linked(p, w), p.out = <<>>, Top(p).mode = "value", NEW type
    PROVE  Leads(ReadValue(SetMode(p, "document"), type), w)
<1> DEFINE n == Len(w.open)
           q == SetMode(p, "document")
<1>1. ParserShape(p) /\ Len(p.stack) = n + 1 /\ w.open # <<>>
  BY NothingOpen
<1>2. /\ AskedShape(w) /\ w.status = "value" /\ n \in Nat /\ n > 0
      /\ Last(w.open) = w.open[n] /\ Between(Top(p).mode, Last(w.open)) /\ p.stack[1].mode = "accept"
  BY <1>1, InnermostLevel
<1>3. /\ ParserShape(q) /\ Len(q.stack) = n + 1 /\ Top(q).mode = "document" /\ q.out = <<>>
      /\ \A i \in 1..n : q.stack[i].mode = p.stack[i].mode
  BY <1>1, <1>2, ModeSet
<1> HIDE DEF q
<1>4. Top(q) = q.stack[n + 1]
  BY <1>3, Depth
<1>5. Awaiting(q.stack[n + 1].mode, w.open[n])
  BY <1>2, <1>3, <1>4 DEF Between, Awaiting
<1>6. ASSUME NEW i \in 1..n PROVE Awaiting(q.stack[i + 1].mode, w.open[i])
  <2>1. CASE i = n
    BY <1>5, <2>1
  <2>2. CASE i # n
    <3>1. i \in 1..(n - 1) /\ i + 1 \in 1..n
      BY <1>2, <2>2
    <3>2. Awaiting(p.stack[i + 1].mode, w.open[i])
      BY <1>1, <3>1 DEF Linked
    <3> QED
      BY <1>3, <3>1, <3>2
  <2> QED
    BY <2>1, <2>2
<1>7. SameDepth(q, w)
  BY <1>2, <1>3 DEF SameDepth
<1>8. q.stack[1].mode = "accept"
  BY <1>2, <1>3
<1>9. Receptive(q, w)
  BY <1>2, <1>6, <1>7, <1>8 DEF Receptive
<1>10. Leads(ReadValue(q, type), w)
  BY <1>3, <1>9, SilentItself, ValueLeads
<1> QED
  BY <1>10 DEF q

\* The parser stands before an item of an array, or its end.
LEMMA ArrayReceptive ==
    ASSUME NEW p, NEW w, Linked(p, w), Top(p).mode = "array"
    PROVE  Receptive(p, w)
<1> DEFINE n == Len(w.open)
<1>1. ParserShape(p) /\ Len(p.stack) = n + 1 /\ w.open # <<>>
  BY NothingOpen
<1>2. /\ AskedShape(w) /\ w.status = "value" /\ n \in Nat /\ n > 0
      /\ Last(w.open) = w.open[n] /\ Between(Top(p).mode, Last(w.open)) /\ p.stack[1].mode = "accept"
  BY <1>1, InnermostLevel
<1>3. Top(p) = p.stack[n + 1]
  BY <1>1, Depth
<1>4. Awaiting(p.stack[n + 1].mode, w.open[n])
  BY <1>2, <1>3 DEF Between, Awaiting
<1>5. ASSUME NEW i \in 1..n PROVE Awaiting(p.stack[i + 1].mode, w.open[i])
  <2>1. CASE i = n
    BY <1>4, <2>1
  <2>2. CASE i # n
    <3>1. i \in 1..(n - 1)
      BY <1>2, <2>2
    <3> QED
      BY <1>1, <3>1 DEF Linked
  <2> QED
    BY <2>1, <2>2
<1>6. SameDepth(p, w)
  BY DEF Linked
<1> QED
  BY <1>2, <1>5, <1>6 DEF Receptive

LEMMA ArrayLeads ==
    ASSUME NEW p, NEW w, Linked(p, w), p.out = <<>>, Top(p).mode = "array"
    PROVE  Leads(Read(p, LAMBDA q, type :
                     IF type = "end" THEN EndContainer(q, "end_array") ELSE ReadValue(ReadIndexName(q), type)), w)
<1> DEFINE q == Counted(p)
           type == ItemAt(p)[2]
           r == ReadIndexName(q)
<1>1. Read(p, LAMBDA t, x : IF x = "end" THEN EndContainer(t, "end_array") ELSE ReadValue(ReadIndexName(t), x))
      = IF AtEof(p) THEN Fail(p, "unexpected_eof")
        ELSE IF type = "end" THEN EndContainer(q, "end_array") ELSE ReadValue(r, type)
  BY DEF Read, Counted, Taken
<1>2. Silent(p, p) /\ w.open # <<>>
  BY NothingOpen, SilentItself
<1>3. Silent(q, p)
  BY <1>2, StillSilent
<1>4. Silent(r, p)
  <2>1. CASE AtEof(q)
    <3>1. r = Fail(q, "unexpected_eof")
      BY <2>1 DEF ReadIndexName, Read
    <3> HIDE DEF r, q
    <3>2. ParserShape(q) /\ q.out = <<>>
      BY <1>3 DEF Silent, SameModes
    <3>3. SameModes(r, q) /\ Stops(r)
      BY <3>1, <3>2, Stopped
    <3>4. r.out = <<>>
      BY <3>3 DEF Stops
    <3> QED
      BY <1>3, <3>3, <3>4 DEF Silent, SameModes
  <2>2. CASE ~AtEof(q)
    <3>1. r = Counted(q)
      BY <2>2 DEF ReadIndexName, Read, Counted, Taken
    <3> QED
      BY <1>3, <3>1, StillSilent
  <2> QED
    BY <2>1, <2>2
<1> HIDE DEF q, r, type
<1>5. Leads(Fail(p, "unexpected_eof"), w)
  BY <1>2, SilentStops
<1>6. Leads(EndContainer(q, "end_array"), w)
  BY <1>2, <1>3, EndLeads DEF Silent
<1>7. Leads(ReadValue(r, type), w)
  BY <1>4, ArrayReceptive, ValueLeads
<1> QED
  BY <1>1, <1>5, <1>6, <1>7

\* The type of the member that is read is noted in its document.
Noted(p, type) == [p EXCEPT !.stack[Len(p.stack)].type = type]

LEMMA TypeNoted ==
    ASSUME NEW p, ParserShape(p), NEW type
    PROVE  /\ SameModes(Noted(p, type), p)
           /\ Noted(p, type).out = p.out /\ Noted(p, type).more = p.more
<1> DEFINE top == p.stack[Len(p.stack)]
           after == [top EXCEPT !.type = type]
           stack == [p.stack EXCEPT ![Len(p.stack)] = after]
           q == Noted(p, type)
<1>1. Len(p.stack) \in 1..Len(p.stack) /\ DOMAIN top = Frames
  BY Depth DEF ParserShape
<1>2. q = [p EXCEPT !.stack = stack]
  BY DEF Noted
<1>3. DOMAIN after = Frames /\ after.mode = top.mode
  BY <1>1 DEF Frames
<1> HIDE DEF after
<1>4. /\ IsSequence(stack) /\ Len(stack) = Len(p.stack) /\ stack[Len(p.stack)] = after
      /\ \A j \in 1..Len(p.stack) : j # Len(p.stack) => stack[j] = p.stack[j]
  <2>1. ChangedAt(stack, p.stack, Len(p.stack), after)
    BY Zenon DEF ChangedAt
  <2>2. IsSequence(p.stack)
    BY DEF ParserShape
  <2> HIDE DEF stack
  <2> QED
    BY <1>1, <2>1, <2>2, StackChanged
<1> HIDE DEF stack
<1>5. \A j \in 1..Len(p.stack) : DOMAIN stack[j] = Frames /\ stack[j].mode = p.stack[j].mode
  BY <1>3, <1>4 DEF ParserShape
<1>6. DOMAIN q = DOMAIN p /\ q.stack = stack /\ q.out = p.out /\ q.done = p.done /\ q.more = p.more
  BY <1>2 DEF ParserShape
<1> QED
  BY <1>4, <1>5, <1>6 DEF SameModes, ParserShape, q

\* A document is between two members, or at its end.
LEMMA DocumentLeads ==
    ASSUME NEW p, NEW w, Linked(p, w), p.out = <<>>, Top(p).mode = "document"
    PROVE  Leads(Read(p, LAMBDA q, type :
                     IF type = "end" THEN EndContainer(q, "end_object")
                     ELSE LET r == ReadMemberName(q)
                          IN  [SetMode(r, "value") EXCEPT !.stack[Len(r.stack)].type = type]), w)
<1> DEFINE q == Counted(p)
           type == ItemAt(p)[2]
           r == ReadMemberName(q)
           named == Counted(q)
           name == ItemAt(q)[2]
           n == Len(p.stack)
<1>1. Silent(p, p) /\ w.open # <<>> /\ ParserShape(p)
  BY NothingOpen, SilentItself
<1>2. Silent(q, p) /\ Silent(named, p)
  BY <1>1, StillSilent
<1>3. r = IF AtEof(q) THEN Fail(q, "unexpected_eof")
          ELSE IF WellFormed(name) THEN Emit(named, Untagged("key", name))
          ELSE Fail(named, "invalid_utf8_text_string")
  BY DEF ReadMemberName, Read, Counted, Taken
<1> HIDE DEF q, named, name
<1>4. \/ Stops(r) /\ SameModes(r, p)
      \/ r.out = <<Untagged("key", name)>> /\ r.more = TRUE /\ SameModes(r, p)
  <2>1. ASSUME NEW s, Silent(s, p), NEW code PROVE Stops(Fail(s, code)) /\ SameModes(Fail(s, code), p)
    <3>1. ParserShape(s) /\ s.out = <<>>
      BY <2>1 DEF Silent, SameModes
    <3>2. Stops(Fail(s, code)) /\ SameModes(Fail(s, code), s)
      BY <3>1, Stopped
    <3> QED
      BY <2>1, <3>2 DEF Silent, SameModes
  <2>2. /\ SameModes(Emit(named, Untagged("key", name)), p)
        /\ Emit(named, Untagged("key", name)).out = <<Untagged("key", name)>>
        /\ Emit(named, Untagged("key", name)).more = TRUE
    <3>1. ParserShape(named) /\ named.out = <<>>
      BY <1>2 DEF Silent, SameModes
    <3> DEFINE e == Emit(named, Untagged("key", name))
    <3>2. SameModes(e, named) /\ e.out = <<Untagged("key", name)>> /\ e.more = TRUE
      BY <3>1, CallMade
    <3> HIDE DEF e
    <3>3. SameModes(e, p)
      BY <1>2, <3>2 DEF Silent, SameModes
    <3> QED
      BY <3>2, <3>3 DEF e
  <2> HIDE DEF r
  <2> QED
    BY <1>2, <1>3, <2>1, <2>2
<1> HIDE DEF r
<1> DEFINE moved == SetMode(r, "value")
           s == Noted(moved, type)
<1>5. ParserShape(r) /\ Len(r.stack) = n /\ n \in Nat /\ r.done = FALSE
  BY <1>1, <1>4, Depth DEF SameModes, ParserShape
<1>6. /\ ParserShape(moved) /\ Len(moved.stack) = n /\ Top(moved).mode = "value"
      /\ \A i \in 1..(n - 1) : moved.stack[i].mode = r.stack[i].mode
      /\ moved.out = r.out /\ moved.more = r.more
  BY <1>5, ModeSet
<1>7. Read(p, LAMBDA t, x : IF x = "end" THEN EndContainer(t, "end_object")
                            ELSE LET u == ReadMemberName(t)
                                 IN  [SetMode(u, "value") EXCEPT !.stack[Len(u.stack)].type = x])
      = IF AtEof(p) THEN Fail(p, "unexpected_eof")
        ELSE IF type = "end" THEN EndContainer(q, "end_object") ELSE s
  <2>1. s = [moved EXCEPT !.stack[Len(r.stack)].type = type]
    BY <1>5, <1>6 DEF Noted
  <2> HIDE DEF s
  <2> QED
    BY <2>1 DEF Read, Counted, Taken, q, r
<1> HIDE DEF moved
<1>8. SameModes(s, moved) /\ s.out = r.out /\ s.more = r.more
  BY <1>6, TypeNoted
<1> HIDE DEF s
<1>9. /\ ParserShape(s) /\ Len(s.stack) = n /\ s.done = FALSE
      /\ \A i \in 1..n : s.stack[i].mode = moved.stack[i].mode
  BY <1>6, <1>8 DEF SameModes, ParserShape
<1>10. Leads(s, w)
  <2>1. CASE Stops(r)
    BY <1>8, <1>9, <2>1 DEF Stops, Leads
  <2>2. CASE r.out = <<Untagged("key", name)>> /\ r.more = TRUE /\ SameModes(r, p)
    <3>1. Top(s) = s.stack[n] /\ Top(moved) = moved.stack[n] /\ n \in 1..n
      BY <1>6, <1>9, Depth
    <3>2. Top(s).mode = "value"
      BY <1>6, <1>9, <3>1
    <3>3. \A i \in 1..(n - 1) : s.stack[i].mode = p.stack[i].mode
      BY <1>5, <1>6, <1>9, <2>2 DEF SameModes
    <3> QED
      BY <1>1, <1>8, <1>9, <2>2, <3>2, <3>3, KeyLeads DEF Silent
  <2> QED
    BY <1>4, <2>1, <2>2
<1>11. Leads(Fail(p, "unexpected_eof"), w)
  BY <1>1, SilentStops
<1>12. Leads(EndContainer(q, "end_object"), w)
  BY <1>1, <1>2, EndLeads DEF Silent
<1> QED
  BY <1>7, <1>10, <1>11, <1>12

LEMMA AcceptLeads ==
    ASSUME NEW p, NEW w, Linked(p, w), p.out = <<>>, Top(p).mode = "accept"
    PROVE  Leads([Emit(p, Simple("flush")) EXCEPT !.stack = <<>>, !.done = TRUE, !.more = FALSE], w)
<1> DEFINE c == Simple("flush")
           q == [Emit(p, c) EXCEPT !.stack = <<>>, !.done = TRUE, !.more = FALSE]
<1>1. ParserShape(p) /\ AskedShape(w) /\ w.open = <<>> /\ p.stack[1].mode = "accept"
  BY NothingOpen
<1>2. w.status = "complete"
  BY <1>1 DEF Linked
<1>3. q.out = <<c>> /\ q.done = TRUE /\ q.more = FALSE
  BY <1>1 DEF ParserShape, Emit
<1>4. c[1] = "flush" /\ IsCall(c)
  BY DEF Simple, IsCall, Operations, Begin
<1> HIDE DEF c, q
<1>5. MayFollow(w, c)
  BY <1>2, <1>4 DEF MayFollow
<1>6. After(w, c) = [w EXCEPT !.status = "flushed"]
  BY <1>4, <1>5 DEF After, Scalar, Begin, End
<1>7. After(w, c).status = "flushed"
  BY <1>1, <1>6 DEF AskedShape
<1>8. Leads(q, w)
  BY <1>3, <1>4, <1>5, <1>7 DEF Leads, Follows
<1> QED
  BY <1>8 DEF q, c

-------------------------------------------------------------------------------
\* The parser with its caller.

LEMMA Cleared ==
    ASSUME NEW p, NEW w, Linked(p, w)
    PROVE  /\ Linked([p EXCEPT !.out = <<>>], w) /\ [p EXCEPT !.out = <<>>].out = <<>>
           /\ Top([p EXCEPT !.out = <<>>]) = Top(p)
<1> DEFINE q == [p EXCEPT !.out = <<>>]
<1>1. ParserShape(p) /\ q.stack = p.stack /\ q.out = <<>> /\ ParserShape(q)
  BY DEF Linked, SameDepth, ParserShape
<1> HIDE DEF q
<1>2. Top(q) = Top(p)
  BY <1>1 DEF Top
<1>3. Linked(q, w)
  BY <1>1, <1>2 DEF Linked, SameDepth
<1> QED
  BY <1>1, <1>2, <1>3 DEF q

\* An iteration of the parser.
LEMMA ParseLeads ==
    ASSUME BInv, Parse
    PROVE  Leads(parser', asked)
<1> DEFINE p == [parser EXCEPT !.out = <<>>]
<1>1. ~parser.done /\ parser.more /\ Linked(parser, asked)
  BY DEF Parse, ParseRoot, ParseDocument, ParseValue, ParseArray, ParseAccept, Parsing, BInv
<1>2. Linked(p, asked) /\ p.out = <<>> /\ Top(p) = Top(parser)
  BY <1>1, Cleared
<1>3. CASE ParseRoot
  <2>1. Top(parser).mode = "root" /\ parser' = BeginContainer(SetMode(p, "accept"), "document", "begin_object")
    BY <1>3 DEF ParseRoot, Parsing
  <2> HIDE DEF p
  <2> QED
    BY <1>2, <2>1, RootLeads
<1>4. CASE ParseDocument
  <2>1. /\ Top(parser).mode = "document"
        /\ parser' = Read(p, LAMBDA q, type :
                         IF type = "end" THEN EndContainer(q, "end_object")
                         ELSE LET r == ReadMemberName(q)
                              IN  [SetMode(r, "value") EXCEPT !.stack[Len(r.stack)].type = type])
    BY <1>4 DEF ParseDocument, Parsing
  <2> HIDE DEF p
  <2> QED
    BY <1>2, <2>1, DocumentLeads
<1>5. CASE ParseValue
  <2>1. Top(parser).mode = "value" /\ parser' = ReadValue(SetMode(p, "document"), Top(p).type)
    BY <1>5 DEF ParseValue, Parsing
  <2> HIDE DEF p
  <2> QED
    BY <1>2, <2>1, MemberLeads
<1>6. CASE ParseArray
  <2>1. /\ Top(parser).mode = "array"
        /\ parser' = Read(p, LAMBDA q, type :
                         IF type = "end" THEN EndContainer(q, "end_array") ELSE ReadValue(ReadIndexName(q), type))
    BY <1>6 DEF ParseArray, Parsing
  <2> HIDE DEF p
  <2> QED
    BY <1>2, <2>1, ArrayLeads
<1>7. CASE ParseAccept
  <2>1. /\ Top(parser).mode = "accept"
        /\ parser' = [Emit(p, Simple("flush")) EXCEPT !.stack = <<>>, !.done = TRUE, !.more = FALSE]
    BY <1>7 DEF ParseAccept, Parsing
  <2> HIDE DEF p
  <2> QED
    BY <1>2, <2>1, AcceptLeads
<1> QED
  BY <1>3, <1>4, <1>5, <1>6, <1>7 DEF Parse

LEMMA BsonInitial ==
    ASSUME BsonInit
    PROVE  BInv /\ InitWithCaller
<1>1. parser = NewParser /\ asked = NoCalls /\ InitWithCaller
  BY DEF BsonInit, Init, InitWithCaller, DecoderInit
<1> DEFINE frame == [mode |-> "root", length |-> 0, pos |-> 0, type |-> "none"]
<1>2. parser.stack = <<frame>> /\ parser.done = FALSE /\ parser.more = TRUE
      /\ DOMAIN parser = {"pos", "stack", "more", "done", "ec", "out"}
  BY <1>1 DEF NewParser
<1>3. DOMAIN frame = Frames /\ frame.mode = "root"
  BY DEF Frames
<1> HIDE DEF frame
<1>4. IsSequence(<<frame>>) /\ Len(<<frame>>) = 1 /\ <<frame>>[1] = frame
  <2>1. <<frame>> \in Seq({frame})
    OBVIOUS
  <2> QED
    BY <2>1 DEF IsSequence
<1>5. ParserShape(parser)
  BY <1>2, <1>3, <1>4 DEF ParserShape
<1>6. asked.open = <<>> /\ asked.status = "value" /\ AskedShape(asked) /\ Len(asked.open) = 0
  BY <1>1 DEF NoCalls, AskedShape
<1>7. Linked(parser, asked)
  BY <1>2, <1>3, <1>4, <1>5, <1>6 DEF Linked, SameDepth
<1> QED
  BY <1>1, <1>2, <1>7 DEF BInv

\* An iteration of the parser keeps the invariant and is a call that may follow, or none.
LEMMA DecodeKeeps ==
    ASSUME BInv, Decode
    PROVE  BInv' /\ [NextWithCaller]_<<asked, decoder>>
<1>1. Leads(parser', asked)
  BY ParseLeads DEF Decode
<1>2. decoder' = FoldLeft(Visit, decoder, parser'.out) /\ asked' = AfterAll(asked, parser'.out)
  BY DEF Decode, Receive
<1>3. CASE Stops(parser')
  <2>1. decoder' = decoder /\ asked' = asked
    BY <1>2, <1>3, NoCallReceived DEF Stops
  <2>2. BInv'
    BY <1>3 DEF Stops, BInv
  <2> QED
    BY <2>1, <2>2
<1>4. CASE Follows(parser', asked)
  <2>1. PICK c : /\ parser'.out = <<c>> /\ IsCall(c) /\ MayFollow(asked, c)
                 /\ parser'.done \in BOOLEAN /\ parser'.more \in BOOLEAN
                 /\ parser'.more /\ ~parser'.done => Linked(parser', After(asked, c))
                 /\ parser'.done => After(asked, c).status = "flushed"
    BY <1>4 DEF Follows
  <2>2. decoder' = Visit(decoder, c) /\ asked' = After(asked, c)
    BY <1>2, <2>1, OneCallReceived
  <2>3. BInv'
    BY <2>1, <2>2 DEF BInv
  <2>4. NextWithCaller
    BY <2>1, <2>2 DEF NextWithCaller, Call
  <2> QED
    BY <2>3, <2>4
<1> QED
  BY <1>1, <1>3, <1>4 DEF Leads

LEMMA BsonStep ==
    ASSUME BInv, [BsonNext]_bsonVars
    PROVE  BInv' /\ [NextWithCaller]_<<asked, decoder>>
<1>1. CASE Decode
  BY <1>1, DecodeKeeps
<1>2. CASE UNCHANGED <<parser, asked, decoder>>
  BY <1>2 DEF BInv
<1> QED
  BY <1>1, <1>2 DEF BsonNext, SourceChanges, bsonVars

\* The parser and its loop are a caller that keeps the order of VisitorCalls, whatever
\* the source holds: basic_bson_parser on a json_decoder.
THEOREM BsonParserIsACaller == BsonSpec => SpecWithCaller
<1>1. BsonInit => BInv /\ InitWithCaller
  BY BsonInitial
<1>2. BInv /\ [BsonNext]_bsonVars => BInv' /\ [NextWithCaller]_<<asked, decoder>>
  BY BsonStep
<1> QED
  BY <1>1, <1>2, PTL DEF BsonSpec, SpecWithCaller

\* Decoding BSON never trips an assertion of the decoder, and when the parser is done the
\* decoder has one value and nothing is left on its stacks.
THEOREM BsonDecodedAlone == BsonSpec => []DecodedAlone
<1>1. BsonInit => BInv
  BY BsonInitial
<1>2. BInv /\ [BsonNext]_bsonVars => BInv'
  BY BsonStep
<1>3. BInv /\ AssertionsHold /\ ValueIsAlone => DecodedAlone
  BY DEF BInv, AssertionsHold, ValueIsAlone, DecodedAlone
<1> QED
  BY <1>1, <1>2, <1>3, BsonParserIsACaller, DecoderAssertionsHold, DecoderIsDone, PTL DEF BsonSpec
===============================================================================
