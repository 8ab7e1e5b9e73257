------------------------- MODULE UbjsonParserProofs ---------------------------
(***************************************************************************)
(* basic_ubjson_parser calling a json_decoder, for every source without a  *)
(* no-op marker in the place of a value: its calls keep the order of       *)
(* VisitorCalls and the counts that containers announce, so that what is   *)
(* proved of the decoder under such a caller holds here.                   *)
(***************************************************************************)
EXTENDS UbjsonParser, JsonDecoderProofs

ubjsonVars == <<source, parser, asked, decoder>>

\* The integers are numbers, and neither the type of an item nor what it holds, which
\* may be the type of a container's items, is a no-op.
IsSource(s) ==
    /\ IsSequence(s)
    /\ \A i \in 1..Len(s) : /\ s[i][1] \in DOMAIN IntWidth => s[i][2] \in Nat
                            /\ s[i][1] # "N" /\ s[i][2] # "N"

UbjsonInit == IsSource(source) /\ Init /\ InitWithCaller

\* An iteration of the parser, and the calls it makes.
Decode == Parse /\ Receive(parser'.out)

\* The source may become anything, at any time.
SourceChanges == IsSource(source') /\ UNCHANGED <<parser, asked, decoder>>

UbjsonNext == Decode \/ SourceChanges
UbjsonSpec == UbjsonInit /\ [][UbjsonNext]_ubjsonVars

-------------------------------------------------------------------------------
CountedArrays == {"array", "strongly_typed_array"}
CountedKeys == {"map_key", "strongly_typed_map_key"}
CountedValues == {"map_value", "strongly_typed_map_value"}
Modes == CountedArrays \cup CountedKeys \cup CountedValues
           \cup {"root", "accept", "indefinite_array", "indefinite_map_key", "indefinite_map_value"}

IsFrame(f) ==
    /\ DOMAIN f = {"mode", "length", "type", "index"}
    /\ f.mode \in Modes /\ f.length \in Nat /\ f.index \in Nat /\ f.type # "N"
ParserShape(p) ==
    /\ DOMAIN p = {"pos", "stack", "depth", "done", "ec", "out"}
    /\ IsSequence(p.stack) /\ Len(p.stack) > 0
    /\ \A i \in 1..Len(p.stack) : IsFrame(p.stack[i])
    /\ p.pos \in Nat \ {0} /\ p.done = FALSE

\* The items that a counted container has still to get, and those while one is read.
Left(f) == f.length - f.index

\* A container of the parser and what its caller is in: between two of its items, and
\* while a value of it is read.
Holds(f, l) ==
    \/ /\ f.mode \in CountedArrays /\ f.index <= f.length
       /\ l = [kind |-> "array", left |-> Left(f), keyed |-> FALSE]
    \/ /\ f.mode \in CountedKeys /\ f.index <= f.length
       /\ l = [kind |-> "object", left |-> Left(f), keyed |-> FALSE]
    \/ /\ f.mode \in CountedValues /\ f.index <= f.length
       /\ l = [kind |-> "object", left |-> Left(f) + 1, keyed |-> TRUE]
    \/ f.mode = "indefinite_array" /\ l = [kind |-> "array", left |-> Unsized, keyed |-> FALSE]
    \/ f.mode = "indefinite_map_key" /\ l = [kind |-> "object", left |-> Unsized, keyed |-> FALSE]
    \/ f.mode = "indefinite_map_value" /\ l = [kind |-> "object", left |-> Unsized, keyed |-> TRUE]
Awaits(f, l) ==
    \/ /\ f.mode \in CountedArrays /\ f.index <= f.length
       /\ l = [kind |-> "array", left |-> Left(f) + 1, keyed |-> FALSE]
    \/ /\ f.mode \in CountedKeys /\ f.index <= f.length
       /\ l = [kind |-> "object", left |-> Left(f) + 1, keyed |-> TRUE]
    \/ f.mode = "indefinite_array" /\ l = [kind |-> "array", left |-> Unsized, keyed |-> FALSE]
    \/ f.mode = "indefinite_map_key" /\ l = [kind |-> "object", left |-> Unsized, keyed |-> TRUE]

SameDepth(p, w) == ParserShape(p) /\ AskedShape(w) /\ Len(p.stack) = Len(w.open) + 1

\* A value is about to be read.
Receptive(p, w) ==
    /\ SameDepth(p, w)
    /\ p.stack[1].mode = "accept" /\ w.status = "value"
    /\ \A i \in 1..Len(w.open) : Awaits(p.stack[i + 1], w.open[i])

\* Between two iterations.
Linked(p, w) ==
    /\ SameDepth(p, w)
    /\ w.open = <<>> => \/ p.stack[1].mode = "root" /\ w.status = "value"
                        \/ p.stack[1].mode = "accept" /\ w.status = "complete"
    /\ w.open # <<>> => /\ p.stack[1].mode = "accept" /\ w.status = "value"
                        /\ Holds(Top(p), Last(w.open))
                        /\ \A i \in 1..(Len(w.open) - 1) : Awaits(p.stack[i + 1], w.open[i])

UInv ==
    /\ IsSource(source)
    /\ parser.done \in BOOLEAN
    /\ parser.ec = "none" /\ ~parser.done => Linked(parser, asked)
    /\ parser.done => asked.status = "flushed"

\* What an iteration leads to: it stops, or makes a call that may follow.
Stops(q) == q.out = <<>> /\ q.ec # "none" /\ q.done = FALSE
Follows(q, w) ==
    \E c : /\ q.out = <<c>> /\ IsCall(c) /\ MayFollow(w, c)
           /\ q.done \in BOOLEAN
           /\ q.ec = "none" /\ ~q.done => Linked(q, After(w, c))
           /\ q.done => After(w, c).status = "flushed"
Leads(q, w) == Stops(q) \/ Follows(q, w)

-------------------------------------------------------------------------------
LEMMA StackDepth ==
    ASSUME NEW p, ParserShape(p)
    PROVE  /\ IsSequence(p.stack) /\ Len(p.stack) \in Nat /\ Len(p.stack) \in 1..Len(p.stack)
           /\ Top(p) = p.stack[Len(p.stack)] /\ IsFrame(Top(p))
<1>1. IsSequence(p.stack) /\ Len(p.stack) > 0
  BY DEF ParserShape
<1>2. Len(p.stack) \in Nat
  BY <1>1, Grown
<1>3. Len(p.stack) \in 1..Len(p.stack) /\ Top(p) = p.stack[Len(p.stack)]
  BY <1>1, <1>2 DEF Top, Last
<1> QED
  BY <1>1, <1>2, <1>3 DEF ParserShape

\* t is s with another i-th element.
Replaced(t, s, i, x) == t = [s EXCEPT ![i] = x]

LEMMA FrameReplaced ==
    ASSUME NEW s, IsSequence(s), NEW i, i \in 1..Len(s), NEW x, NEW t, Replaced(t, s, i, x)
    PROVE  IsSequence(t) /\ Len(t) = Len(s) /\ t[i] = x /\ \A j \in 1..Len(s) : j # i => t[j] = s[j]
<1>1. PICK S : s \in Seq(S)
  BY DEF IsSequence
<1>2. s \in Seq(S \cup {x}) /\ x \in S \cup {x}
  BY <1>1, SeqMonotonic
<1>3. t \in Seq(S \cup {x}) /\ Len(t) = Len(s)
  BY <1>2, ExceptSeq DEF Replaced
<1>4. i \in DOMAIN s /\ DOMAIN s = 1..Len(s)
  BY <1>1
<1> QED
  BY <1>3, <1>4 DEF IsSequence, Replaced

\* The innermost frame is another.
TopSet(q, p, f) ==
    /\ ParserShape(q) /\ Len(q.stack) = Len(p.stack) /\ Top(q) = f
    /\ \A i \in 1..(Len(p.stack) - 1) : q.stack[i] = p.stack[i]
    /\ q.out = p.out /\ q.ec = p.ec /\ q.pos = p.pos

LEMMA TopChanged ==
    ASSUME NEW p, ParserShape(p), NEW f, IsFrame(f), NEW q,
           q = [p EXCEPT !.stack = [p.stack EXCEPT ![Len(p.stack)] = f]]
    PROVE  TopSet(q, p, f)
<1> DEFINE n == Len(p.stack)
<1>1. PICK s : s = [p.stack EXCEPT ![n] = f]
  OBVIOUS
<1>2. IsSequence(p.stack) /\ n \in Nat /\ n \in 1..n
  BY StackDepth
<1>3. IsSequence(s) /\ Len(s) = n /\ s[n] = f /\ \A j \in 1..n : j # n => s[j] = p.stack[j]
  <2>1. n \in 1..Len(p.stack) /\ Len(p.stack) = n
    BY <1>2
  <2>2. Replaced(s, p.stack, n, f)
    BY <1>1, Zenon DEF Replaced
  <2> HIDE DEF n
  <2> QED
    BY <1>2, <2>1, <2>2, FrameReplaced
<1>4. \A i \in 1..(n - 1) : s[i] = p.stack[i]
  BY <1>2, <1>3
<1>5. \A i \in 1..n : IsFrame(s[i])
  BY <1>2, <1>3 DEF ParserShape
<1>6. q = [p EXCEPT !.stack = s]
  BY <1>1
<1>7. /\ DOMAIN q = DOMAIN p /\ q.stack = s /\ q.out = p.out /\ q.ec = p.ec
      /\ q.pos = p.pos /\ q.done = p.done
  BY <1>6 DEF ParserShape
<1>8. ParserShape(q)
  BY <1>2, <1>3, <1>5, <1>7 DEF ParserShape
<1>9. Top(q) = f
  <2>1. Top(q) = q.stack[Len(q.stack)]
    BY <1>8, StackDepth
  <2> QED
    BY <1>3, <1>7, <2>1
<1> QED
  BY <1>3, <1>4, <1>7, <1>8, <1>9 DEF TopSet

\* The mode is set, and an item counted.
LEMMA ModeIsSet ==
    ASSUME NEW p, ParserShape(p), NEW mode \in Modes
    PROVE  \E f : /\ TopSet(SetMode(p, mode), p, f) /\ IsFrame(f)
                  /\ f.mode = mode /\ f.length = Top(p).length /\ f.index = Top(p).index /\ f.type = Top(p).type
<1>1. PICK top : top = p.stack[Len(p.stack)]
  OBVIOUS
<1>2. top = Top(p) /\ IsFrame(top)
  BY <1>1, StackDepth
<1>3. PICK f : f = [top EXCEPT !.mode = mode]
  OBVIOUS
<1>4. IsFrame(f) /\ f.mode = mode /\ f.length = top.length /\ f.index = top.index /\ f.type = top.type
  BY <1>2, <1>3 DEF IsFrame
<1>5. SetMode(p, mode) = [p EXCEPT !.stack = [p.stack EXCEPT ![Len(p.stack)] = f]]
  BY <1>1, <1>3 DEF SetMode
<1> QED
  BY <1>2, <1>4, <1>5, TopChanged

LEMMA ItemIsCounted ==
    ASSUME NEW p, ParserShape(p)
    PROVE  \E f : /\ TopSet(Counted(p), p, f) /\ IsFrame(f)
                  /\ f.mode = Top(p).mode /\ f.length = Top(p).length /\ f.index = Top(p).index + 1
                  /\ f.type = Top(p).type
<1>1. PICK top : top = p.stack[Len(p.stack)]
  OBVIOUS
<1>2. top = Top(p) /\ IsFrame(top)
  BY <1>1, StackDepth
<1>3. PICK f : f = [top EXCEPT !.index = top.index + 1]
  OBVIOUS
<1>4. IsFrame(f) /\ f.mode = top.mode /\ f.length = top.length /\ f.index = top.index + 1 /\ f.type = top.type
  BY <1>2, <1>3 DEF IsFrame
<1>5. Counted(p) = [p EXCEPT !.stack = [p.stack EXCEPT ![Len(p.stack)] = f]]
  BY <1>1, <1>3 DEF Counted
<1> QED
  BY <1>2, <1>4, <1>5, TopChanged

\* The containers are the same, and no call is made.
Quiet(q, p) ==
    /\ ParserShape(q) /\ ParserShape(p) /\ q.stack = p.stack /\ q.out = <<>> /\ q.ec = p.ec

LEMMA QuietItself ==
    ASSUME NEW p, ParserShape(p), p.out = <<>>
    PROVE  Quiet(p, p)
BY DEF Quiet

LEMMA SkipIsQuiet ==
    ASSUME NEW p, NEW q, Quiet(q, p)
    PROVE  Quiet(Skip(q), p)
BY DEF Quiet, Skip, ParserShape

LEMMA StopsAt ==
    ASSUME NEW q, ParserShape(q), q.out = <<>>, NEW w, NEW code, code # "none"
    PROVE  Stops(Fail(q, code)) /\ Leads(Fail(q, code), w) /\ ParserShape(Fail(q, code))
<1>1. Fail(q, code) = [q EXCEPT !.ec = code]
  BY DEF Fail
<1>2. Fail(q, code).out = <<>> /\ Fail(q, code).ec = code /\ Fail(q, code).done = FALSE
  BY <1>1 DEF ParserShape
<1>3. ParserShape(Fail(q, code))
  BY <1>1 DEF ParserShape
<1> QED
  BY <1>2, <1>3 DEF Leads, Stops

LEMMA CallMade ==
    ASSUME NEW q, ParserShape(q), q.out = <<>>, NEW c
    PROVE  /\ ParserShape(Emit(q, c)) /\ Emit(q, c).stack = q.stack /\ Emit(q, c).out = <<c>>
           /\ Emit(q, c).ec = q.ec /\ Emit(q, c).done = FALSE
<1>1. Emit(q, c) = [q EXCEPT !.out = Append(q.out, c)]
  BY DEF Emit
<1>2. Append(<<>>, c) = <<c>>
  OBVIOUS
<1> QED
  BY <1>1, <1>2 DEF ParserShape

-------------------------------------------------------------------------------
\* The caller has completed a value in a container.
LEMMA ValueMadeInside ==
    ASSUME NEW w, AskedShape(w), w.open # <<>>
    PROVE  /\ AskedShape(ValueMade(w)) /\ ValueMade(w).status = w.status
           /\ Len(ValueMade(w).open) = Len(w.open) /\ ValueMade(w).open # <<>>
           /\ Last(ValueMade(w).open) = [kind |-> Last(w.open).kind,
                                         left |-> IF Last(w.open).left = Unsized THEN Unsized ELSE Last(w.open).left - 1,
                                         keyed |-> FALSE]
           /\ \A i \in 1..(Len(w.open) - 1) : ValueMade(w).open[i] = w.open[i]
<1> DEFINE n == Len(w.open)
<1>1. PICK top : top = w.open[n]
  OBVIOUS
<1>2. /\ w.open \in Seq(Levels) /\ n \in Nat /\ n > 0 /\ Last(w.open) = top /\ top \in Levels
      /\ w.status = "value"
  BY <1>1 DEF AskedShape, Last
<1>3. PICK rest \in Int : rest = IF top.left = Unsized THEN Unsized ELSE top.left - 1
  BY <1>2 DEF Levels, Unsized
<1>4. PICK level : level = [top EXCEPT !.left = rest, !.keyed = FALSE]
  OBVIOUS
<1>5. level = [kind |-> top.kind, left |-> rest, keyed |-> FALSE] /\ level \in Levels
  BY <1>2, <1>4 DEF Levels
<1>6. ValueMade(w) = [w EXCEPT !.open = [w.open EXCEPT ![n] = level]]
  BY <1>2, <1>3, <1>4 DEF ValueMade
<1>7. PICK open : open = [w.open EXCEPT ![n] = level]
  OBVIOUS
<1>8. open \in Seq(Levels) /\ Len(open) = n /\ open[n] = level /\ \A i \in 1..(n - 1) : open[i] = w.open[i]
  <2>1. open \in Seq(Levels) /\ Len(open) = n
    BY <1>2, <1>5, <1>7, ExceptSeq
  <2> QED
    BY <1>2, <1>7, <2>1
<1>9. PICK v : v = ValueMade(w)
  OBVIOUS
<1>10. v.open = open /\ v.status = "value" /\ AskedShape(v)
  BY <1>2, <1>6, <1>7, <1>8, <1>9 DEF AskedShape
<1>11. v.open # <<>> /\ Last(v.open) = level
  BY <1>2, <1>8, <1>10 DEF Last
<1> QED
  BY <1>2, <1>3, <1>5, <1>8, <1>9, <1>10, <1>11

\* A frame that awaits a value holds its container when the value is complete.
LEMMA AwaitedIsHeld ==
    ASSUME NEW f, IsFrame(f), NEW l, Awaits(f, l), NEW m,
           m = [kind |-> l.kind, left |-> IF l.left = Unsized THEN Unsized ELSE l.left - 1, keyed |-> FALSE]
    PROVE  Holds(f, m)
<1>1. f.length \in Nat /\ f.index \in Nat
  BY DEF IsFrame
<1>2. CASE f.mode \in CountedArrays /\ f.index <= f.length /\ l = [kind |-> "array", left |-> Left(f) + 1, keyed |-> FALSE]
  <2>1. l.left # Unsized /\ l.left - 1 = Left(f) /\ l.kind = "array"
    BY <1>1, <1>2 DEF Left, Unsized
  <2> QED
    BY <1>2, <2>1 DEF Holds
<1>3. CASE f.mode \in CountedKeys /\ f.index <= f.length /\ l = [kind |-> "object", left |-> Left(f) + 1, keyed |-> TRUE]
  <2>1. l.left # Unsized /\ l.left - 1 = Left(f) /\ l.kind = "object"
    BY <1>1, <1>3 DEF Left, Unsized
  <2> QED
    BY <1>3, <2>1 DEF Holds
<1>4. CASE f.mode = "indefinite_array" /\ l = [kind |-> "array", left |-> Unsized, keyed |-> FALSE]
  BY <1>4 DEF Holds
<1>5. CASE f.mode = "indefinite_map_key" /\ l = [kind |-> "object", left |-> Unsized, keyed |-> TRUE]
  BY <1>5 DEF Holds
<1> QED
  BY <1>2, <1>3, <1>4, <1>5 DEF Awaits

\* A value that was awaited is complete.
LEMMA ValueComplete ==
    ASSUME NEW p, NEW w, Receptive(p, w), NEW q, ParserShape(q), q.stack = p.stack
    PROVE  Linked(q, ValueMade(w))
<1> DEFINE n == Len(w.open)
<1>1. /\ ParserShape(p) /\ AskedShape(w) /\ Len(p.stack) = n + 1 /\ p.stack[1].mode = "accept"
      /\ w.status = "value" /\ n \in Nat
  BY DEF Receptive, SameDepth, AskedShape
<1>2. Top(q) = p.stack[n + 1] /\ IsFrame(Top(q))
  BY <1>1, StackDepth
<1>3. PICK v : v = ValueMade(w)
  OBVIOUS
<1>4. CASE w.open = <<>>
  <2>1. v = [w EXCEPT !.status = "complete"]
    BY <1>3, <1>4 DEF ValueMade
  <2>2. v.open = <<>> /\ v.status = "complete" /\ AskedShape(v)
    BY <1>1, <1>4, <2>1 DEF AskedShape
  <2>3. SameDepth(q, v)
    BY <1>1, <1>4, <2>2 DEF SameDepth
  <2> QED
    BY <1>1, <1>3, <2>2, <2>3 DEF Linked
<1>5. CASE w.open # <<>>
  <2>1. n > 0 /\ Last(w.open) = w.open[n] /\ n \in 1..n
    BY <1>1, <1>5 DEF AskedShape, Last
  <2>2. Awaits(Top(q), Last(w.open))
    BY <1>2, <2>1 DEF Receptive
  <2>3. /\ AskedShape(v) /\ v.status = "value" /\ Len(v.open) = n /\ v.open # <<>>
        /\ Last(v.open) = [kind |-> Last(w.open).kind,
                           left |-> IF Last(w.open).left = Unsized THEN Unsized ELSE Last(w.open).left - 1,
                           keyed |-> FALSE]
        /\ \A i \in 1..(n - 1) : v.open[i] = w.open[i]
    BY <1>1, <1>3, <1>5, ValueMadeInside
  <2>4. Holds(Top(q), Last(v.open))
    BY <1>2, <2>2, <2>3, AwaitedIsHeld
  <2>5. ASSUME NEW i \in 1..(Len(v.open) - 1) PROVE Awaits(q.stack[i + 1], v.open[i])
    <3>1. i \in 1..(n - 1) /\ i \in 1..n
      BY <1>1, <2>3
    <3> QED
      BY <2>3, <3>1 DEF Receptive
  <2>6. SameDepth(q, v)
    BY <1>1, <2>3 DEF SameDepth
  <2> QED
    BY <1>1, <1>3, <2>3, <2>4, <2>5, <2>6 DEF Linked
<1> QED
  BY <1>4, <1>5

\* Where a value is awaited the order allows one.
LEMMA ValueMayFollow ==
    ASSUME NEW p, NEW w, Receptive(p, w), NEW c, c[1] \in Begin \cup Scalar
    PROVE  MayFollow(w, c)
<1>1. CASE w.open = <<>>
  BY <1>1 DEF MayFollow, Receptive
<1>2. CASE w.open # <<>>
  <2>1. w.open \in Seq(Levels) /\ Len(w.open) \in 1..Len(w.open) /\ Last(w.open) = w.open[Len(w.open)]
    BY <1>2 DEF Receptive, SameDepth, AskedShape, Last
  <2>2. PICK f, l : f = p.stack[Len(w.open) + 1] /\ l = Last(w.open)
    OBVIOUS
  <2>3. Awaits(f, l) /\ IsFrame(f)
    BY <2>1, <2>2 DEF Receptive, SameDepth, ParserShape
  <2>4. l.left # 0 /\ (l.kind = "object" => l.keyed)
    BY <2>3 DEF Awaits, IsFrame, Left, Unsized
  <2> QED
    BY <1>2, <2>2, <2>4 DEF MayFollow, Receptive
<1> QED
  BY <1>1, <1>2

\* A scalar is read.
LEMMA ScalarLeads ==
    ASSUME NEW p, NEW w, Receptive(p, w), NEW q, Quiet(q, p), NEW o \in Scalar, NEW x, NEW tag
    PROVE  Leads(Emit(q, <<o, x, tag>>), w)
<1>1. PICK c : c = <<o, x, tag>>
  OBVIOUS
<1>2. PICK r : r = Emit(q, c)
  OBVIOUS
<1>3. ParserShape(r) /\ r.stack = p.stack /\ r.out = <<c>> /\ r.done = FALSE
  BY <1>2, CallMade DEF Quiet
<1>4. c[1] = o /\ IsCall(c)
  BY <1>1 DEF IsCall, Operations, Begin, Scalar
<1>5. MayFollow(w, c)
  BY <1>4, ValueMayFollow
<1>6. After(w, c) = ValueMade(w)
  <2>1. c[1] \in Scalar /\ c[1] \notin Begin /\ c[1] \notin End /\ c[1] # "key"
    BY <1>4 DEF Scalar, Begin, End
  <2> QED
    BY <1>5, <2>1 DEF After
<1>7. Linked(r, After(w, c))
  BY <1>3, <1>6, ValueComplete
<1>8. Follows(r, w)
  BY <1>3, <1>4, <1>5, <1>7 DEF Follows
<1> QED
  BY <1>1, <1>2, <1>8 DEF Leads
-------------------------------------------------------------------------------
\* What the source has at the position of the parser.
LEMMA ItemThere ==
    ASSUME IsSource(source), NEW p, ParserShape(p), ~AtEof(p)
    PROVE  /\ ItemAt(p)[1] # "N" /\ ItemAt(p)[2] # "N"
           /\ ItemAt(p)[1] \in DOMAIN IntWidth => IntegerIn(ItemAt(p)[1], ItemAt(p)[2]) \in Int
<1>1. p.pos \in Nat \ {0} /\ Len(source) \in Nat
  BY Grown DEF ParserShape, IsSource
<1>2. p.pos \in 1..Len(source) /\ ItemAt(p) = source[p.pos]
  BY <1>1 DEF AtEof, ItemAt
<1>3. PICK item : item = ItemAt(p)
  OBVIOUS
<1>4. item[1] # "N" /\ item[2] # "N" /\ (item[1] \in DOMAIN IntWidth => item[2] \in Nat)
  BY <1>2, <1>3 DEF IsSource
<1>5. ASSUME item[1] \in DOMAIN IntWidth PROVE IntegerIn(item[1], item[2]) \in Int
  <2>1. PICK v \in Nat : v = item[2]
    BY <1>4, <1>5
  <2>2. IntWidth[item[1]] \in {1, 2, 4, 8}
    BY <1>5 DEF IntWidth
  <2>3. ToInt(v, IntWidth[item[1]]) \in Int
    <3>1. PICK w \in {1, 2, 4, 8} : w = IntWidth[item[1]]
      BY <2>2
    <3>2. UintMax(w) \in Nat
      BY WidthAssumption DEF UintMax
    <3>3. ToUint(v, w) \in Int
      BY <3>2 DEF ToUint
    <3> QED
      BY <3>1, <3>2, <3>3 DEF ToInt
  <2> QED
    BY <2>1, <2>3 DEF IntegerIn
<1> QED
  BY <1>3, <1>4, <1>5

\* A string is read, and a call made with it.
Reads(x, p, o) == Stops(x) \/ \E r, s, tag : Quiet(r, p) /\ x = Emit(r, <<o, s, tag>>)

LEMMA StopsReading ==
    ASSUME NEW p, NEW q, Quiet(q, p), NEW o
    PROVE  \A code : code # "none" => Reads(Fail(q, code), p, o)
BY StopsAt DEF Reads, Quiet

LEMMA EmitReads ==
    ASSUME NEW p, NEW q, Quiet(q, p), NEW o
    PROVE  \A s, tag : Reads(Emit(q, <<o, s, tag>>), p, o)
BY DEF Reads

\* Its bytes, of which there may be none.
SpanOf(q, n) == IF n = 0 THEN q ELSE Skip(q)
TextOf(q, n) == IF n = 0 THEN <<"chars", "">>
                ELSE IF ItemAt(q)[1] = "data" /\ Size(ItemAt(q)[2]) = n THEN ItemAt(q)[2] ELSE <<"chars", "misread">>

LEMMA SpanIsQuiet ==
    ASSUME NEW p, NEW q, Quiet(q, p), NEW n
    PROVE  Quiet(SpanOf(q, n), p)
BY SkipIsQuiet DEF SpanOf

LEMMA TextRead ==
    ASSUME NEW p, NEW q, Quiet(q, p), NEW o
    PROVE  Reads(ReadText(q, LAMBDA r, s : Emit(r, Untagged(o, s))), p, o)
<1>1. PICK n : n = IntegerIn(ItemAt(q)[1], ItemAt(q)[2])
  OBVIOUS
<1>2. PICK t : t = Skip(q)
  OBVIOUS
<1>3. Quiet(t, p) /\ Quiet(SpanOf(t, n), p)
  BY <1>2, SkipIsQuiet, SpanIsQuiet
<1>4. \A code : code # "none" => Reads(Fail(q, code), p, o) /\ Reads(Fail(t, code), p, o)
                                 /\ Reads(Fail(SpanOf(t, n), code), p, o)
  BY <1>3, StopsReading
<1>5. Reads(Emit(SpanOf(t, n), Untagged(o, TextOf(t, n))), p, o)
  BY <1>3, EmitReads DEF Untagged
<1>6. Reads(IF n # 0 /\ AtEof(t) THEN Fail(t, "unexpected_eof")
            ELSE IF WellFormed(TextOf(t, n)) THEN Emit(SpanOf(t, n), Untagged(o, TextOf(t, n)))
            ELSE Fail(SpanOf(t, n), "invalid_utf8_text_string"), p, o)
  BY <1>4, <1>5
<1>7. ReadSpan(t, n, LAMBDA r, s : IF WellFormed(s) THEN Emit(r, Untagged(o, s)) ELSE Fail(r, "invalid_utf8_text_string"))
      = IF n # 0 /\ AtEof(t) THEN Fail(t, "unexpected_eof")
        ELSE IF WellFormed(TextOf(t, n)) THEN Emit(SpanOf(t, n), Untagged(o, TextOf(t, n)))
        ELSE Fail(SpanOf(t, n), "invalid_utf8_text_string")
  BY DEF ReadSpan, SpanOf, TextOf
<1> DEFINE spanned == ReadSpan(t, n, LAMBDA r, s : IF WellFormed(s) THEN Emit(r, Untagged(o, s))
                                                   ELSE Fail(r, "invalid_utf8_text_string"))
<1>8. PICK x : x = spanned
  OBVIOUS
<1>9. Reads(x, p, o)
  BY <1>6, <1>7, <1>8
<1>10. ReadText(q, LAMBDA r, s : Emit(r, Untagged(o, s)))
       = CASE AtEof(q) -> Fail(q, "unexpected_eof")
           [] ItemAt(q)[1] \notin DOMAIN IntWidth -> Fail(q, "length_must_be_integer")
           [] n < 0 -> Fail(q, "length_is_negative")
           [] OTHER -> x
  BY <1>1, <1>2, <1>8 DEF ReadText, GetLength
<1> QED
  BY <1>4, <1>9, <1>10
LEMMA HighPrecisionRead ==
    ASSUME NEW p, NEW q, Quiet(q, p)
    PROVE  Reads(ReadHighPrecision(q), p, "string_value")
<1>1. PICK n : n = IntegerIn(ItemAt(q)[1], ItemAt(q)[2])
  OBVIOUS
<1>2. PICK t : t = Skip(q)
  OBVIOUS
<1>3. Quiet(t, p) /\ Quiet(SpanOf(t, n), p)
  BY <1>2, SkipIsQuiet, SpanIsQuiet
<1>4. \A code : code # "none" => Reads(Fail(q, code), p, "string_value") /\ Reads(Fail(t, code), p, "string_value")
  BY <1>3, StopsReading
<1>5. PICK tag : tag = IF TextOf(t, n)[1] = "int" THEN "bigint" ELSE "bigdec"
  OBVIOUS
<1>6. Reads(Emit(SpanOf(t, n), <<"string_value", TextOf(t, n), tag>>), p, "string_value")
  BY <1>3, EmitReads
<1>7. Reads(IF n # 0 /\ AtEof(t) THEN Fail(t, "unexpected_eof")
            ELSE Emit(SpanOf(t, n), <<"string_value", TextOf(t, n), tag>>), p, "string_value")
  BY <1>4, <1>6
<1>8. ReadSpan(t, n, LAMBDA r, s : Emit(r, <<"string_value", s, IF s[1] = "int" THEN "bigint" ELSE "bigdec">>))
      = IF n # 0 /\ AtEof(t) THEN Fail(t, "unexpected_eof")
        ELSE Emit(SpanOf(t, n), <<"string_value", TextOf(t, n), tag>>)
  BY <1>5 DEF ReadSpan, SpanOf, TextOf
<1> DEFINE spanned == ReadSpan(t, n, LAMBDA r, s :
                          Emit(r, <<"string_value", s, IF s[1] = "int" THEN "bigint" ELSE "bigdec">>))
<1>9. PICK x : x = spanned
  OBVIOUS
<1>10. Reads(x, p, "string_value")
  BY <1>7, <1>8, <1>9
<1>11. ReadHighPrecision(q)
       = CASE AtEof(q) -> Fail(q, "unexpected_eof")
           [] ItemAt(q)[1] \notin DOMAIN IntWidth -> Fail(q, "length_must_be_integer")
           [] n < 0 -> Fail(q, "length_is_negative")
           [] OTHER -> x
  BY <1>1, <1>2, <1>9 DEF ReadHighPrecision, GetLength
<1> QED
  BY <1>4, <1>10, <1>11

LEMMA KeyRead ==
    ASSUME NEW p, NEW q, Quiet(q, p)
    PROVE  Reads(ReadKey(q), p, "key")
<1>1. PICK x : x = ReadText(q, LAMBDA r, s : Emit(r, Untagged("key", s)))
  OBVIOUS
<1>2. Reads(x, p, "key") /\ Reads(Fail(q, "key_expected"), p, "key")
  BY <1>1, TextRead, StopsReading
<1>3. PICK fails : fails = (GetLength(q, LAMBDA r, n : r).ec # "none")
  OBVIOUS
<1>4. ReadKey(q) = IF fails THEN Fail(q, "key_expected") ELSE x
  BY <1>1, <1>3 DEF ReadKey
<1> QED
  BY <1>2, <1>4

LEMMA TextLeads ==
    ASSUME NEW p, NEW w, Receptive(p, w), NEW x, Reads(x, p, "string_value")
    PROVE  Leads(x, w)
<1>1. "string_value" \in Scalar
  BY DEF Scalar
<1> QED
  BY <1>1, ScalarLeads DEF Reads, Leads

-------------------------------------------------------------------------------
\* A container is pushed.
LEMMA StatePushed ==
    ASSUME NEW p, ParserShape(p), NEW mode \in Modes, NEW n \in Nat, NEW type, type # "N",
           NEW q, q = PushState(p, mode, n, type)
    PROVE  /\ ParserShape(q) /\ Len(q.stack) = Len(p.stack) + 1 /\ q.out = p.out
           /\ Top(q).mode = mode /\ Top(q).length = n /\ Top(q).index = 0
           /\ \A i \in 1..Len(p.stack) : q.stack[i] = p.stack[i]
<1>1. PICK f : f = [mode |-> mode, length |-> n, type |-> type, index |-> 0]
  OBVIOUS
<1>2. IsFrame(f) /\ f.mode = mode /\ f.length = n /\ f.index = 0
  BY <1>1 DEF IsFrame
<1>3. IsSequence(p.stack) /\ Len(p.stack) \in Nat
  BY StackDepth
<1>4. PICK s : s = Append(p.stack, f)
  OBVIOUS
<1>5. /\ IsSequence(s) /\ Len(s) = Len(p.stack) + 1 /\ s[Len(p.stack) + 1] = f
      /\ \A i \in 1..Len(p.stack) : s[i] = p.stack[i]
  BY <1>3, <1>4, Grown
<1>6. \A i \in 1..Len(s) : IsFrame(s[i])
  BY <1>2, <1>3, <1>5 DEF ParserShape
<1>7. q = [p EXCEPT !.stack = s]
  BY <1>1, <1>4 DEF PushState
<1>8. ParserShape(q) /\ q.stack = s /\ q.out = p.out
  BY <1>3, <1>5, <1>6, <1>7 DEF ParserShape
<1>9. Top(q) = f
  BY <1>5, <1>8, StackDepth
<1> QED
  BY <1>2, <1>5, <1>8, <1>9

\* A container begins: what it announces is what its frame has to read.
LEMMA PushLeads ==
    ASSUME NEW p, NEW w, Receptive(p, w), NEW q, Quiet(q, p), NEW mode, NEW begin, NEW n \in Nat, NEW count,
           NEW type, type # "N",
           \/ mode \in CountedArrays /\ begin = "begin_array" /\ count = n
           \/ mode \in CountedKeys /\ begin = "begin_object" /\ count = n
           \/ mode = "indefinite_array" /\ begin = "begin_array" /\ count = Unsized
           \/ mode = "indefinite_map_key" /\ begin = "begin_object" /\ count = Unsized
    PROVE  Leads(Emit(PushState(q, mode, n, type), Untagged(begin, count)), w)
<1> DEFINE d == Len(w.open)
<1>1. PICK c : c = Untagged(begin, count)
  OBVIOUS
<1>2. PICK pushed : pushed = PushState(q, mode, n, type)
  OBVIOUS
<1>3. PICK r : r = Emit(pushed, c)
  OBVIOUS
<1>4. PICK kind \in {"object", "array"} :
          \/ mode \in CountedArrays \cup {"indefinite_array"} /\ begin = "begin_array" /\ kind = "array"
          \/ mode \in CountedKeys \cup {"indefinite_map_key"} /\ begin = "begin_object" /\ kind = "object"
  OBVIOUS
<1>5. mode \in Modes /\ begin \in Begin /\ KindOf[begin] = kind /\ begin # "begin_multi_dim" /\ count \in Int
  BY <1>4 DEF Modes, Begin, KindOf, Unsized
<1>6. c = <<begin, count, "none">> /\ c[1] = begin /\ c[2] = count
  BY <1>1 DEF Untagged
<1>7. IsCall(c)
  BY <1>5, <1>6 DEF IsCall, Operations
<1>8. MayFollow(w, c)
  BY <1>5, <1>6, ValueMayFollow
<1>9. /\ ParserShape(pushed) /\ Len(pushed.stack) = Len(p.stack) + 1 /\ pushed.out = <<>>
      /\ Top(pushed).mode = mode /\ Top(pushed).length = n /\ Top(pushed).index = 0
      /\ \A i \in 1..Len(p.stack) : pushed.stack[i] = p.stack[i]
  <2>1. ParserShape(q) /\ q.stack = p.stack /\ q.out = <<>>
    BY DEF Quiet
  <2>2. /\ ParserShape(pushed) /\ Len(pushed.stack) = Len(q.stack) + 1 /\ pushed.out = q.out
        /\ Top(pushed).mode = mode /\ Top(pushed).length = n /\ Top(pushed).index = 0
        /\ \A i \in 1..Len(q.stack) : pushed.stack[i] = q.stack[i]
    BY <1>2, <1>5, <2>1, StatePushed, SMTT(30)
  <2> QED
    BY <2>1, <2>2
<1>10. /\ ParserShape(r) /\ r.stack = pushed.stack /\ r.out = <<c>> /\ r.done = FALSE
       /\ Top(r) = Top(pushed)
  BY <1>3, <1>9, CallMade DEF Top
<1>11. AskedShape(w) /\ w.status = "value" /\ d \in Nat /\ Len(p.stack) = d + 1 /\ p.stack[1].mode = "accept"
       /\ w.open \in Seq(Levels)
  BY DEF Receptive, SameDepth, AskedShape
<1>12. PICK l : l = Opened(kind, count)
  OBVIOUS
<1>13. l = [kind |-> kind, left |-> count, keyed |-> FALSE] /\ l \in Levels
  BY <1>5, <1>12 DEF Opened, Levels, Kinds
<1>14. PICK v : v = After(w, c)
  OBVIOUS
<1>15. v = [w EXCEPT !.open = Append(w.open, l)]
  <2>1. c[1] \in Begin /\ c[1] \notin Scalar /\ c[1] \notin End /\ c[1] # "key" /\ c[1] # "begin_multi_dim"
    BY <1>5, <1>6 DEF Scalar, Begin, End
  <2> QED
    BY <1>5, <1>6, <1>8, <1>12, <1>14, <2>1 DEF After
<1>16. /\ v.open = Append(w.open, l) /\ v.status = "value" /\ AskedShape(v)
       /\ Len(v.open) = d + 1 /\ v.open # <<>> /\ Last(v.open) = l
       /\ \A i \in 1..d : v.open[i] = w.open[i]
  <2>1. PICK open : open = Append(w.open, l)
    OBVIOUS
  <2>2. /\ open \in Seq(Levels) /\ Len(open) = d + 1 /\ open # <<>> /\ open[d + 1] = l
        /\ \A i \in 1..d : open[i] = w.open[i]
    BY <1>11, <1>13, <2>1
  <2>3. v.open = open /\ v.status = "value" /\ AskedShape(v)
    BY <1>11, <1>15, <2>1, <2>2 DEF AskedShape
  <2> QED
    BY <2>1, <2>2, <2>3 DEF Last
<1>17. Holds(Top(r), l)
  <2>1. PICK f : f = Top(r)
    OBVIOUS
  <2>2. f.mode = mode /\ f.length = n /\ f.index = 0 /\ Left(f) = n /\ f.index <= f.length
    BY <1>9, <1>10, <2>1 DEF Left
  <2>3. Holds(f, l)
    <3>1. CASE mode \in CountedArrays /\ begin = "begin_array" /\ count = n
      <4>1. kind = "array"
        BY <1>4, <3>1
      <4> QED
        BY <1>13, <2>2, <3>1, <4>1 DEF Holds
    <3>2. CASE mode \in CountedKeys /\ begin = "begin_object" /\ count = n
      <4>1. kind = "object"
        BY <1>4, <3>2
      <4> QED
        BY <1>13, <2>2, <3>2, <4>1 DEF Holds
    <3>3. CASE mode = "indefinite_array" /\ begin = "begin_array" /\ count = Unsized
      <4>1. kind = "array"
        BY <1>4, <3>3
      <4> QED
        BY <1>13, <2>2, <3>3, <4>1 DEF Holds
    <3>4. CASE mode = "indefinite_map_key" /\ begin = "begin_object" /\ count = Unsized
      <4>1. kind = "object"
        BY <1>4, <3>4
      <4> QED
        BY <1>13, <2>2, <3>4, <4>1 DEF Holds
    <3> QED
      BY <3>1, <3>2, <3>3, <3>4
  <2> QED
    BY <2>1, <2>3
<1>18. ASSUME NEW i \in 1..(Len(v.open) - 1) PROVE Awaits(r.stack[i + 1], v.open[i])
  <2>1. i \in 1..d /\ i + 1 \in 1..Len(p.stack)
    BY <1>11, <1>16
  <2>2. r.stack[i + 1] = p.stack[i + 1] /\ v.open[i] = w.open[i]
    BY <1>9, <1>10, <1>16, <2>1
  <2> QED
    BY <2>1, <2>2 DEF Receptive
<1>19. r.stack[1].mode = "accept"
  <2>1. 1 \in 1..Len(p.stack)
    BY <1>11
  <2> QED
    BY <1>9, <1>10, <1>11, <2>1
<1>20. SameDepth(r, v)
  BY <1>9, <1>10, <1>11, <1>16 DEF SameDepth
<1>21. Linked(r, v)
  BY <1>16, <1>17, <1>18, <1>19, <1>20 DEF Linked
<1>22. Follows(r, w)
  BY <1>7, <1>8, <1>10, <1>14, <1>21 DEF Follows
<1> QED
  BY <1>1, <1>2, <1>3, <1>22 DEF Leads

\* A container that says how many items it has.
CountedBegin(mode, begin) ==
    \/ mode \in CountedArrays /\ begin = "begin_array"
    \/ mode \in CountedKeys /\ begin = "begin_object"
Sized(q, begin, mode, type) ==
    GetLength(q, LAMBDA r, n : IF n > UbjsonMaxItems THEN Fail(r, "max_items_exceeded")
                               ELSE Emit(PushState(r, mode, n, type), Untagged(begin, n)))

LEMMA SizedLeads ==
    ASSUME IsSource(source), NEW p, NEW w, Receptive(p, w), NEW q, Quiet(q, p),
           NEW mode, NEW begin, CountedBegin(mode, begin), NEW type, type # "N"
    PROVE  Leads(Sized(q, begin, mode, type), w)
<1>1. PICK n : n = IntegerIn(ItemAt(q)[1], ItemAt(q)[2])
  OBVIOUS
<1>2. PICK t : t = Skip(q)
  OBVIOUS
<1>3. Quiet(t, p) /\ ParserShape(q) /\ ParserShape(t) /\ q.out = <<>> /\ t.out = <<>>
  BY <1>2, SkipIsQuiet DEF Quiet
<1>4. \A code : code # "none" => Leads(Fail(q, code), w) /\ Leads(Fail(t, code), w)
  BY <1>3, StopsAt
<1>5. PICK x : x = IF n > UbjsonMaxItems THEN Fail(t, "max_items_exceeded")
                   ELSE Emit(PushState(t, mode, n, type), Untagged(begin, n))
  OBVIOUS
<1>6. Sized(q, begin, mode, type)
       = CASE AtEof(q) -> Fail(q, "unexpected_eof")
           [] ItemAt(q)[1] \notin DOMAIN IntWidth -> Fail(q, "length_must_be_integer")
           [] n < 0 -> Fail(q, "length_is_negative")
           [] OTHER -> x
  BY <1>1, <1>2, <1>5 DEF Sized, GetLength
<1>7. ASSUME ~AtEof(q), ItemAt(q)[1] \in DOMAIN IntWidth, ~(n < 0) PROVE Leads(x, w)
  <2>1. n \in Int
    BY <1>1, <1>3, <1>7, ItemThere
  <2>2. n \in Nat
    BY <1>7, <2>1
  <2>3. Leads(Emit(PushState(t, mode, n, type), Untagged(begin, n)), w)
    BY <1>3, <2>2, PushLeads DEF CountedBegin
  <2> QED
    BY <1>4, <1>5, <2>3
<1> QED
  BY <1>4, <1>6, <1>7

LEMMA BeginLeads ==
    ASSUME IsSource(source), NEW p, NEW w, Receptive(p, w), NEW q, Quiet(q, p),
           NEW begin, NEW plain, NEW strong, NEW indefinite,
           CountedBegin(plain, begin), CountedBegin(strong, begin),
           \/ indefinite = "indefinite_array" /\ begin = "begin_array"
           \/ indefinite = "indefinite_map_key" /\ begin = "begin_object"
    PROVE  Leads(BeginContainer(q, begin, plain, strong, indefinite), w)
<1>1. PICK deeper : deeper = [q EXCEPT !.depth = @ + 1]
  OBVIOUS
<1>2. PICK third : third = [deeper EXCEPT !.pos = @ + 3]
  OBVIOUS
<1>3. Quiet(deeper, p) /\ Quiet(third, p) /\ Quiet(Skip(deeper), p) /\ Quiet(Skip(q), p)
  <2>1. Quiet(deeper, p)
    BY <1>1 DEF Quiet, ParserShape
  <2>2. Quiet(third, p)
    BY <1>2, <2>1 DEF Quiet, ParserShape
  <2> QED
    BY <2>1, <2>2, SkipIsQuiet
<1>4. \A code : code # "none" => Leads(Fail(deeper, code), w)
  BY <1>3, StopsAt DEF Quiet
<1>5. PICK type : type = ItemAt(Skip(q))
  OBVIOUS
<1>6. ASSUME type # EofItem PROVE type[2] # "N"
  BY <1>3, <1>5, <1>6, ItemThere DEF Quiet, AtEof
<1>7. ASSUME type # EofItem PROVE Leads(Sized(third, begin, strong, type[2]), w)
  BY <1>3, <1>6, <1>7, SizedLeads
<1>8. Leads(Sized(Skip(deeper), begin, plain, "none"), w)
  BY <1>3, SizedLeads
<1>9. Leads(Emit(PushState(deeper, indefinite, 0, "none"), Untagged(begin, Unsized)), w)
  BY <1>3, PushLeads
<1>10. PICK x, y, z : /\ x = Sized(third, begin, strong, type[2])
                      /\ y = Sized(Skip(deeper), begin, plain, "none")
                      /\ z = Emit(PushState(deeper, indefinite, 0, "none"), Untagged(begin, Unsized))
  OBVIOUS
<1>11. BeginContainer(q, begin, plain, strong, indefinite)
       = CASE deeper.depth > UbjsonMaxParseDepth -> Fail(deeper, "max_nesting_depth_exceeded")
           [] AtEof(q) -> Fail(deeper, "unexpected_eof")
           [] ItemAt(q) = Mark("$") ->
                CASE type = EofItem \/ ItemAt(Skip(Skip(q))) = EofItem -> Fail(deeper, "unexpected_eof")
                  [] ItemAt(Skip(Skip(q))) # Mark("#") -> Fail(deeper, "count_required_after_type")
                  [] OTHER -> x
           [] ItemAt(q) = Mark("#") -> y
           [] OTHER -> z
  BY <1>1, <1>2, <1>5, <1>10 DEF BeginContainer, Sized, GetLength
<1>12. PICK u : u = CASE type = EofItem \/ ItemAt(Skip(Skip(q))) = EofItem -> Fail(deeper, "unexpected_eof")
                      [] ItemAt(Skip(Skip(q))) # Mark("#") -> Fail(deeper, "count_required_after_type")
                      [] OTHER -> x
  OBVIOUS
<1>13. Leads(u, w)
  BY <1>4, <1>7, <1>10, <1>12
<1> QED
  BY <1>4, <1>8, <1>9, <1>10, <1>11, <1>12, <1>13
-------------------------------------------------------------------------------
\* A value of any type but the no-op.
LEMMA ValueLeads ==
    ASSUME IsSource(source), NEW p, NEW w, Receptive(p, w), NEW q, Quiet(q, p), NEW type, type # "N", NEW v
    PROVE  Leads(ReadValue(q, type, v), w)
<1>1. \A o \in Scalar : \A x, tag : Leads(Emit(q, <<o, x, tag>>), w)
  BY ScalarLeads
<1>2. \A code : code # "none" => Leads(Fail(q, code), w)
  BY StopsAt DEF Quiet
<1>3. /\ Leads(Emit(q, Simple("null_value")), w)
      /\ Leads(Emit(q, Untagged("bool_value", type = "T")), w)
      /\ Leads(Emit(q, Untagged("uint64_value", IntegerIn(type, v))), w)
      /\ Leads(Emit(q, Untagged("int64_value", IntegerIn(type, v))), w)
      /\ Leads(Emit(q, Untagged("double_value", v)), w)
      /\ Leads(Emit(q, Untagged("string_value", v)), w)
  BY <1>1 DEF Simple, Untagged, Scalar
<1>4. PICK text : text = ReadText(q, LAMBDA r, s : Emit(r, Untagged("string_value", s)))
  OBVIOUS
<1>5. Leads(text, w) /\ Leads(ReadHighPrecision(q), w)
  BY <1>4, TextRead, HighPrecisionRead, TextLeads
<1>6. Leads(BeginArray(q), w) /\ Leads(BeginObject(q), w)
  <2>1. /\ CountedBegin("array", "begin_array") /\ CountedBegin("strongly_typed_array", "begin_array")
        /\ CountedBegin("map_key", "begin_object") /\ CountedBegin("strongly_typed_map_key", "begin_object")
    BY DEF CountedBegin, CountedArrays, CountedKeys
  <2> QED
    BY <2>1, BeginLeads DEF BeginArray, BeginObject
<1>7. Leads(Fail(q, "invalid_utf8_text_string"), w) /\ Leads(Fail(q, "unknown_type"), w)
  BY <1>2
<1>8. PICK char : char = IF WellFormed(v) THEN Emit(q, Untagged("string_value", v))
                         ELSE Fail(q, "invalid_utf8_text_string")
  OBVIOUS
<1>9. Leads(char, w)
  BY <1>3, <1>7, <1>8
<1>10. ReadValue(q, type, v)
       = CASE type = "Z" -> Emit(q, Simple("null_value"))
           [] type = "N" -> q
           [] type \in {"T", "F"} -> Emit(q, Untagged("bool_value", type = "T"))
           [] type = "U" -> Emit(q, Untagged("uint64_value", IntegerIn(type, v)))
           [] type \in {"i", "I", "l", "L"} -> Emit(q, Untagged("int64_value", IntegerIn(type, v)))
           [] type \in {"d", "D"} -> Emit(q, Untagged("double_value", v))
           [] type = "C" -> char
           [] type = "S" -> text
           [] type = "H" -> ReadHighPrecision(q)
           [] <<type, v>> = Mark("[") \/ type = "[" -> BeginArray(q)
           [] <<type, v>> = Mark("{") \/ type = "{" -> BeginObject(q)
           [] OTHER -> Fail(q, "unknown_type")
  BY <1>4, <1>8 DEF ReadValue
<1> QED
  BY <1>3, <1>5, <1>6, <1>7, <1>9, <1>10

LEMMA TypedLeads ==
    ASSUME IsSource(source), NEW p, NEW w, Receptive(p, w), p.out = <<>>
    PROVE  Leads(ReadTypeAndValue(p), w)
<1>1. ParserShape(p) /\ Quiet(p, p) /\ Quiet(Skip(p), p)
  BY QuietItself, SkipIsQuiet DEF Receptive, SameDepth
<1>2. CASE AtEof(p)
  BY <1>1, <1>2, StopsAt DEF ReadTypeAndValue
<1>3. CASE ~AtEof(p)
  BY <1>1, <1>3, ItemThere, ValueLeads DEF ReadTypeAndValue
<1> QED
  BY <1>2, <1>3

LEMMA UntypedLeads ==
    ASSUME IsSource(source), NEW p, NEW w, Receptive(p, w), p.out = <<>>
    PROVE  Leads(ReadUntyped(p), w)
<1>1. ParserShape(p) /\ Quiet(p, p) /\ Quiet(Skip(p), p)
  BY QuietItself, SkipIsQuiet DEF Receptive, SameDepth
<1>2. PICK type : type = Top(p).type
  OBVIOUS
<1>3. type # "N"
  BY <1>1, <1>2, StackDepth DEF IsFrame
<1>4. /\ Leads(ReadValue(p, type, 0), w) /\ Leads(ReadValue(Skip(p), type, ItemAt(p)[2]), w)
      /\ Leads(Fail(p, "unexpected_eof"), w)
  BY <1>1, <1>3, ValueLeads, StopsAt
<1> QED
  BY <1>2, <1>4 DEF ReadUntyped

-------------------------------------------------------------------------------
\* Between two items: what the innermost container is for the caller.
LEMMA InnermostLevel ==
    ASSUME NEW p, NEW w, Linked(p, w)
    PROVE  /\ ParserShape(p) /\ AskedShape(w) /\ w.open \in Seq(Levels) /\ Len(w.open) \in Nat
           /\ Len(p.stack) = Len(w.open) + 1 /\ IsFrame(Top(p)) /\ Top(p) = p.stack[Len(w.open) + 1]
           /\ Top(p).mode \in {"root", "accept"} => w.open = <<>> /\ Top(p) = p.stack[1]
           /\ Top(p).mode \notin {"root", "accept"} =>
                 /\ w.open # <<>> /\ w.status = "value" /\ Len(w.open) > 0
                 /\ Last(w.open) = w.open[Len(w.open)] /\ Holds(Top(p), Last(w.open))
                 /\ p.stack[1].mode = "accept"
<1>1. ParserShape(p) /\ AskedShape(w) /\ w.open \in Seq(Levels) /\ Len(w.open) \in Nat /\ Len(p.stack) = Len(w.open) + 1
  BY DEF Linked, SameDepth, AskedShape
<1>2. IsFrame(Top(p)) /\ Top(p) = p.stack[Len(w.open) + 1]
  BY <1>1, StackDepth
<1>3. CASE w.open = <<>>
  <2>1. Top(p) = p.stack[1]
    BY <1>1, <1>2, <1>3
  <2>2. Top(p).mode \in {"root", "accept"}
    BY <1>3, <2>1 DEF Linked
  <2> QED
    BY <1>1, <1>2, <1>3, <2>1, <2>2
<1>4. CASE w.open # <<>>
  <2>1. /\ w.status = "value" /\ Len(w.open) > 0 /\ Last(w.open) = w.open[Len(w.open)]
        /\ Holds(Top(p), Last(w.open)) /\ p.stack[1].mode = "accept"
    BY <1>1, <1>4 DEF Linked, Last
  <2>2. Top(p).mode \notin {"root", "accept"}
    BY <2>1 DEF Holds, CountedArrays, CountedKeys, CountedValues
  <2> QED
    BY <1>1, <1>2, <1>4, <2>1, <2>2
<1> QED
  BY <1>3, <1>4

\* A container ends: all its items have been read, or it did not say how many.
LEMMA EndLeads ==
    ASSUME NEW p, NEW w, Linked(p, w), NEW q, Quiet(q, p), NEW call,
           \/ Top(p).mode \in CountedArrays /\ ~(Top(p).index < Top(p).length) /\ call = "end_array"
           \/ Top(p).mode \in CountedKeys /\ ~(Top(p).index < Top(p).length) /\ call = "end_object"
           \/ Top(p).mode = "indefinite_array" /\ call = "end_array"
           \/ Top(p).mode = "indefinite_map_key" /\ call = "end_object"
    PROVE  Leads(EndContainer(q, call), w)
<1> DEFINE n == Len(w.open)
<1>1. PICK f, l : f = Top(p) /\ l = Last(w.open)
  OBVIOUS
<1>2. f.mode \notin {"root", "accept"}
  BY <1>1 DEF CountedArrays, CountedKeys
<1>3. /\ AskedShape(w) /\ w.open \in Seq(Levels) /\ w.status = "value" /\ n \in Nat /\ n > 0 /\ w.open # <<>>
      /\ IsFrame(f) /\ Holds(f, l) /\ p.stack[1].mode = "accept" /\ Len(p.stack) = n + 1 /\ ParserShape(p)
  BY <1>1, <1>2, InnermostLevel
<1>4. l.left \in {0, Unsized} /\ ~l.keyed /\ call = EndOf[l.kind] /\ call \in End
  <2>1. CASE f.mode \in CountedArrays /\ ~(f.index < f.length) /\ call = "end_array"
    <3>1. l = [kind |-> "array", left |-> Left(f), keyed |-> FALSE] /\ f.index <= f.length
      BY <1>3, <2>1 DEF Holds, CountedArrays, CountedKeys, CountedValues
    <3>2. Left(f) = 0
      BY <1>3, <2>1, <3>1 DEF Left, IsFrame
    <3> QED
      BY <2>1, <3>1, <3>2 DEF EndOf, End
  <2>2. CASE f.mode \in CountedKeys /\ ~(f.index < f.length) /\ call = "end_object"
    <3>1. l = [kind |-> "object", left |-> Left(f), keyed |-> FALSE] /\ f.index <= f.length
      BY <1>3, <2>2 DEF Holds, CountedArrays, CountedKeys, CountedValues
    <3>2. Left(f) = 0
      BY <1>3, <2>2, <3>1 DEF Left, IsFrame
    <3> QED
      BY <2>2, <3>1, <3>2 DEF EndOf, End
  <2>3. CASE f.mode = "indefinite_array" /\ call = "end_array"
    <3>1. l = [kind |-> "array", left |-> Unsized, keyed |-> FALSE]
      BY <1>3, <2>3 DEF Holds, CountedArrays, CountedKeys, CountedValues
    <3> QED
      BY <2>3, <3>1 DEF EndOf, End
  <2>4. CASE f.mode = "indefinite_map_key" /\ call = "end_object"
    <3>1. l = [kind |-> "object", left |-> Unsized, keyed |-> FALSE]
      BY <1>3, <2>4 DEF Holds, CountedArrays, CountedKeys, CountedValues
    <3> QED
      BY <2>4, <3>1 DEF EndOf, End
  <2> QED
    BY <1>1, <2>1, <2>2, <2>3, <2>4
<1>5. PICK c : c = Simple(call)
  OBVIOUS
<1>6. c[1] = call /\ IsCall(c)
  <2>1. call \in Operations /\ call \notin Begin
    BY <1>4 DEF Operations, Begin, End
  <2> QED
    BY <1>5, <2>1 DEF IsCall, Simple
<1>7. MayFollow(w, c)
  BY <1>1, <1>3, <1>4, <1>6 DEF MayFollow
<1>8. PICK e : e = Emit(q, c)
  OBVIOUS
<1>9. ParserShape(e) /\ e.stack = p.stack /\ e.out = <<c>>
  BY <1>8, CallMade DEF Quiet
<1>10. PICK stack : stack = Front(p.stack)
  OBVIOUS
<1>11. IsSequence(stack) /\ Len(stack) = n /\ \A i \in 1..n : stack[i] = p.stack[i]
  <2>1. IsSequence(p.stack) /\ stack = SubSeq(p.stack, 1, n) /\ n \in 0..Len(p.stack)
    BY <1>3, <1>10 DEF ParserShape, Front
  <2> QED
    BY <2>1, Shortened
<1>12. PICK r : r = EndContainer(q, call)
  OBVIOUS
<1>13. r = [e EXCEPT !.depth = @ - 1, !.stack = stack]
  BY <1>5, <1>8, <1>9, <1>10, <1>12 DEF EndContainer
<1>14. ParserShape(r) /\ r.stack = stack /\ r.out = <<c>> /\ r.done = FALSE
  <2>1. \A i \in 1..n : IsFrame(stack[i])
    BY <1>3, <1>11 DEF ParserShape
  <2> QED
    BY <1>3, <1>9, <1>11, <1>13, <2>1 DEF ParserShape
<1>15. PICK v : v = [w EXCEPT !.open = Front(w.open)]
  OBVIOUS
<1>16. v.open \in Seq(Levels) /\ Len(v.open) = n - 1 /\ v.status = "value" /\ AskedShape(v)
       /\ \A i \in 1..(n - 1) : v.open[i] = w.open[i]
  <2>1. PICK left : left = SubSeq(w.open, 1, n - 1)
    OBVIOUS
  <2>2. left \in Seq(Levels) /\ Len(left) = n - 1 /\ \A i \in 1..(n - 1) : left[i] = w.open[i]
    BY <1>3, <2>1
  <2>3. v = [w EXCEPT !.open = left]
    BY <1>15, <2>1 DEF Front
  <2>4. v.open = left /\ v.status = "value" /\ AskedShape(v)
    BY <1>3, <2>2, <2>3 DEF AskedShape
  <2> QED
    BY <2>2, <2>4
<1>17. After(w, c) = ValueMade(v)
  <2>1. c[1] \in End /\ c[1] \notin Begin /\ c[1] \notin Scalar /\ c[1] # "key"
    BY <1>4, <1>6 DEF Scalar, Begin, End
  <2> QED
    BY <1>7, <1>15, <2>1 DEF After
<1>18. Receptive(r, v)
  <2>1. SameDepth(r, v)
    BY <1>3, <1>11, <1>14, <1>16 DEF SameDepth
  <2>2. r.stack[1].mode = "accept"
    BY <1>3, <1>11, <1>14
  <2>3. ASSUME NEW i \in 1..Len(v.open) PROVE Awaits(r.stack[i + 1], v.open[i])
    <3>1. i \in 1..(n - 1) /\ i + 1 \in 1..n
      BY <1>3, <1>16
    <3>2. Awaits(p.stack[i + 1], w.open[i])
      BY <1>3, <3>1 DEF Linked
    <3> QED
      BY <1>11, <1>14, <1>16, <3>1, <3>2
  <2> QED
    BY <1>16, <2>1, <2>2, <2>3 DEF Receptive
<1>19. Linked(r, After(w, c))
  BY <1>14, <1>17, <1>18, ValueComplete
<1>20. Follows(r, w)
  BY <1>6, <1>7, <1>14, <1>19 DEF Follows
<1> QED
  BY <1>12, <1>20 DEF Leads
-------------------------------------------------------------------------------
\* The parser with another innermost frame stands before a value.
LEMMA FrameAwaits ==
    ASSUME NEW p, NEW w, Linked(p, w), w.open # <<>>, NEW q, NEW f, TopSet(q, p, f), Awaits(f, Last(w.open))
    PROVE  Receptive(q, w)
<1> DEFINE n == Len(w.open)
<1>1. /\ AskedShape(w) /\ w.open \in Seq(Levels) /\ n \in Nat /\ Len(p.stack) = n + 1
  BY InnermostLevel
<1>2. n > 0 /\ Last(w.open) = w.open[n] /\ w.status = "value" /\ p.stack[1].mode = "accept"
  BY <1>1 DEF Linked, Last
<1>3. /\ ParserShape(q) /\ Len(q.stack) = n + 1 /\ Top(q) = f /\ \A i \in 1..n : q.stack[i] = p.stack[i]
  BY <1>1 DEF TopSet
<1>4. q.stack[n + 1] = f
  BY <1>3, StackDepth
<1>5. ASSUME NEW i \in 1..n PROVE Awaits(q.stack[i + 1], w.open[i])
  <2>1. CASE i = n
    BY <1>2, <1>4, <2>1
  <2>2. CASE i # n
    <3>1. i \in 1..(n - 1) /\ i + 1 \in 1..n
      BY <1>1, <2>2
    <3>2. Awaits(p.stack[i + 1], w.open[i])
      BY <1>1, <1>2, <3>1 DEF Linked
    <3> QED
      BY <1>3, <3>1, <3>2
  <2> QED
    BY <2>1, <2>2
<1>6. SameDepth(q, w)
  BY <1>1, <1>3 DEF SameDepth
<1>7. q.stack[1].mode = "accept"
  BY <1>1, <1>2, <1>3
<1> QED
  BY <1>2, <1>5, <1>6, <1>7 DEF Receptive

\* The next item of an array.
LEMMA ItemAwaited ==
    ASSUME NEW p, NEW w, Linked(p, w), p.out = <<>>,
           \/ Top(p).mode \in CountedArrays /\ Top(p).index < Top(p).length
           \/ Top(p).mode = "indefinite_array"
    PROVE  Receptive(Counted(p), w) /\ Counted(p).out = <<>>
<1>1. PICK g, l : g = Top(p) /\ l = Last(w.open)
  OBVIOUS
<1>2. g.mode \notin {"root", "accept"}
  BY <1>1 DEF CountedArrays
<1>3. w.open # <<>> /\ Holds(g, l) /\ IsFrame(g) /\ ParserShape(p)
  BY <1>1, <1>2, InnermostLevel
<1>4. PICK f : /\ TopSet(Counted(p), p, f) /\ IsFrame(f)
               /\ f.mode = g.mode /\ f.length = g.length /\ f.index = g.index + 1
  BY <1>1, <1>3, ItemIsCounted
<1>5. Awaits(f, l)
  <2>1. CASE g.mode \in CountedArrays /\ g.index < g.length
    <3>1. l = [kind |-> "array", left |-> Left(g), keyed |-> FALSE]
      BY <1>3, <2>1 DEF Holds, CountedArrays, CountedKeys, CountedValues
    <3>2. Left(g) = Left(f) + 1 /\ f.index <= f.length
      BY <1>3, <1>4, <2>1 DEF Left, IsFrame
    <3> QED
      BY <1>4, <2>1, <3>1, <3>2 DEF Awaits
  <2>2. CASE g.mode = "indefinite_array"
    <3>1. l = [kind |-> "array", left |-> Unsized, keyed |-> FALSE]
      BY <1>3, <2>2 DEF Holds, CountedArrays, CountedKeys, CountedValues
    <3> QED
      BY <1>4, <2>2, <3>1 DEF Awaits
  <2> QED
    BY <1>1, <2>1, <2>2
<1>6. Counted(p).out = <<>>
  BY <1>4 DEF TopSet
<1> QED
  BY <1>1, <1>3, <1>4, <1>5, <1>6, FrameAwaits

\* The modes of a map before a key and before its value.
MapModes(key, value) ==
    \/ key = "map_key" /\ value = "map_value"
    \/ key = "strongly_typed_map_key" /\ value = "strongly_typed_map_value"
    \/ key = "indefinite_map_key" /\ value = "indefinite_map_value"

\* The value of a member.
LEMMA MemberAwaited ==
    ASSUME NEW p, NEW w, Linked(p, w), p.out = <<>>, NEW key, MapModes(key, Top(p).mode)
    PROVE  Receptive(SetMode(p, key), w) /\ SetMode(p, key).out = <<>>
<1>1. PICK g, l : g = Top(p) /\ l = Last(w.open)
  OBVIOUS
<1>2. g.mode \notin {"root", "accept"} /\ key \in Modes
  BY <1>1 DEF MapModes, Modes, CountedKeys
<1>3. w.open # <<>> /\ Holds(g, l) /\ IsFrame(g) /\ ParserShape(p)
  BY <1>1, <1>2, InnermostLevel
<1>4. PICK f : /\ TopSet(SetMode(p, key), p, f) /\ IsFrame(f)
               /\ f.mode = key /\ f.length = g.length /\ f.index = g.index
  BY <1>1, <1>2, <1>3, ModeIsSet
<1>5. Awaits(f, l)
  <2>1. CASE g.mode \in CountedValues
    <3>1. l = [kind |-> "object", left |-> Left(g) + 1, keyed |-> TRUE] /\ g.index <= g.length
      BY <1>3, <2>1 DEF Holds, CountedArrays, CountedKeys, CountedValues
    <3>2. Left(g) = Left(f) /\ f.index <= f.length
      BY <1>4, <3>1 DEF Left
    <3>3. f.mode \in CountedKeys
      BY <1>1, <1>4, <2>1 DEF MapModes, CountedValues, CountedKeys
    <3> QED
      BY <3>1, <3>2, <3>3 DEF Awaits
  <2>2. CASE g.mode = "indefinite_map_value"
    <3>1. l = [kind |-> "object", left |-> Unsized, keyed |-> TRUE]
      BY <1>3, <2>2 DEF Holds, CountedArrays, CountedKeys, CountedValues
    <3>2. f.mode = "indefinite_map_key"
      BY <1>1, <1>4, <2>2 DEF MapModes
    <3> QED
      BY <3>1, <3>2 DEF Awaits
  <2> QED
    BY <1>1, <2>1, <2>2 DEF MapModes, CountedValues
<1>6. SetMode(p, key).out = <<>>
  BY <1>4 DEF TopSet
<1> QED
  BY <1>1, <1>3, <1>4, <1>5, <1>6, FrameAwaits

\* The parser with another innermost frame and the caller with another innermost container.
LEMMA FrameHolds ==
    ASSUME NEW p, NEW w, Linked(p, w), w.open # <<>>, NEW q, ParserShape(q), Len(q.stack) = Len(p.stack),
           \A i \in 1..(Len(p.stack) - 1) : q.stack[i] = p.stack[i],
           NEW l \in Levels, Holds(Top(q), l), NEW v, v = [w EXCEPT !.open = [w.open EXCEPT ![Len(w.open)] = l]]
    PROVE  Linked(q, v)
<1> DEFINE n == Len(w.open)
<1>1. /\ AskedShape(w) /\ w.open \in Seq(Levels) /\ n \in Nat /\ Len(p.stack) = n + 1
  BY InnermostLevel
<1>2. n > 0 /\ w.status = "value" /\ p.stack[1].mode = "accept"
  BY <1>1 DEF Linked
<1>3. PICK open : open = [w.open EXCEPT ![n] = l]
  OBVIOUS
<1>4. open \in Seq(Levels) /\ Len(open) = n /\ open[n] = l /\ \A i \in 1..(n - 1) : open[i] = w.open[i]
  <2>1. open \in Seq(Levels) /\ Len(open) = n
    BY <1>1, <1>3, ExceptSeq
  <2> QED
    BY <1>1, <1>2, <1>3, <2>1
<1>5. v.open = open /\ v.status = "value" /\ AskedShape(v)
  BY <1>1, <1>2, <1>3, <1>4 DEF AskedShape
<1>6. v.open # <<>> /\ Last(v.open) = l
  BY <1>2, <1>4, <1>5 DEF Last
<1>7. SameDepth(q, v)
  BY <1>1, <1>4, <1>5 DEF SameDepth
<1>8. q.stack[1].mode = "accept"
  BY <1>1, <1>2
<1>9. ASSUME NEW i \in 1..(Len(v.open) - 1) PROVE Awaits(q.stack[i + 1], v.open[i])
  <2>1. i \in 1..(n - 1) /\ i + 1 \in 1..n
    BY <1>1, <1>4, <1>5
  <2>2. Awaits(p.stack[i + 1], w.open[i])
    BY <1>1, <1>2, <2>1 DEF Linked
  <2> QED
    BY <1>1, <1>4, <1>5, <2>1, <2>2
<1> QED
  BY <1>5, <1>6, <1>7, <1>8, <1>9 DEF Linked

\* The key of the next member.
LEMMA KeyLeads ==
    ASSUME NEW p, NEW w, Linked(p, w), p.out = <<>>, NEW value, MapModes(Top(p).mode, value),
           Top(p).mode # "indefinite_map_key" => Top(p).index < Top(p).length
    PROVE  Leads(KeyThen(Counted(p), value), w)
<1> DEFINE n == Len(w.open)
<1>1. PICK g, l : g = Top(p) /\ l = Last(w.open)
  OBVIOUS
<1>2. g.mode \notin {"root", "accept"} /\ value \in Modes
  BY <1>1 DEF MapModes, Modes, CountedValues
<1>3. /\ AskedShape(w) /\ w.open \in Seq(Levels) /\ w.status = "value" /\ n \in Nat /\ n > 0
      /\ w.open # <<>> /\ Last(w.open) = w.open[n] /\ Holds(g, l) /\ IsFrame(g) /\ ParserShape(p)
  BY <1>1, <1>2, InnermostLevel
<1>4. PICK t : t = Counted(p)
  OBVIOUS
<1>5. PICK f : /\ TopSet(t, p, f) /\ IsFrame(f)
               /\ f.mode = g.mode /\ f.length = g.length /\ f.index = g.index + 1
  BY <1>1, <1>3, <1>4, ItemIsCounted
<1>6. Quiet(t, t) /\ t.ec = p.ec
  BY <1>5, QuietItself DEF TopSet
<1>7. PICK x : x = ReadKey(t)
  OBVIOUS
<1>8. Reads(x, t, "key")
  BY <1>6, <1>7, KeyRead
<1>9. KeyThen(t, value) = IF x.ec = "none" THEN SetMode(x, value) ELSE x
  BY <1>7 DEF KeyThen, Then
<1>10. CASE Stops(x)
  <2>1. KeyThen(t, value) = x
    BY <1>9, <1>10 DEF Stops
  <2> QED
    BY <1>4, <1>10, <2>1 DEF Leads
<1>11. ASSUME NEW r, NEW s, NEW tag, Quiet(r, t), x = Emit(r, <<"key", s, tag>>) PROVE Leads(KeyThen(t, value), w)
  <2>1. PICK c : c = <<"key", s, tag>>
    OBVIOUS
  <2>2. c[1] = "key" /\ IsCall(c)
    BY <2>1 DEF IsCall, Operations, Begin
  <2>3. /\ ParserShape(x) /\ x.stack = t.stack /\ x.out = <<c>> /\ x.done = FALSE
    BY <1>11, <2>1, CallMade DEF Quiet
  <2>4. Top(x) = f
    BY <1>5, <2>3 DEF TopSet, Top
  <2>5. PICK m : m = [kind |-> "object", left |-> l.left, keyed |-> TRUE]
    OBVIOUS
  <2>6. /\ l = [kind |-> "object", left |-> l.left, keyed |-> FALSE] /\ l.left # 0 /\ l.left \in Int
        /\ \A h : h.mode = value /\ h.length = f.length /\ h.index = f.index => Holds(h, m)
    <3>1. CASE g.mode \in CountedKeys /\ g.index < g.length
      <4>1. l = [kind |-> "object", left |-> Left(g), keyed |-> FALSE]
        BY <1>3, <3>1 DEF Holds, CountedArrays, CountedKeys, CountedValues
      <4>2. Left(g) # 0 /\ Left(g) \in Int /\ f.index <= f.length /\ Left(g) = Left(f) + 1
        <5>1. PICK at, len : at = g.index /\ len = g.length
          OBVIOUS
        <5>2. at \in Nat /\ len \in Nat /\ at < len /\ f.index = at + 1 /\ f.length = len
          BY <1>3, <1>5, <3>1, <5>1 DEF IsFrame
        <5> QED
          BY <5>1, <5>2 DEF Left
      <4>3. value \in CountedValues
        BY <1>1, <3>1 DEF MapModes, CountedKeys, CountedValues
      <4>4. ASSUME NEW h, h.mode = value, h.length = f.length, h.index = f.index PROVE Holds(h, m)
        <5>1. Left(h) = Left(f) /\ h.index <= h.length
          BY <4>2, <4>4 DEF Left
        <5>2. m = [kind |-> "object", left |-> Left(h) + 1, keyed |-> TRUE]
          BY <2>5, <4>1, <4>2, <5>1
        <5> QED
          BY <4>3, <4>4, <5>1, <5>2 DEF Holds
      <4> QED
        BY <4>1, <4>2, <4>4
    <3>2. CASE g.mode = "indefinite_map_key"
      <4>1. l = [kind |-> "object", left |-> Unsized, keyed |-> FALSE]
        BY <1>3, <3>2 DEF Holds, CountedArrays, CountedKeys, CountedValues
      <4>2. value = "indefinite_map_value"
        BY <1>1, <3>2 DEF MapModes
      <4>3. m = [kind |-> "object", left |-> Unsized, keyed |-> TRUE]
        BY <2>5, <4>1
      <4>4. l.left # 0 /\ l.left \in Int /\ l.left = Unsized
        BY <4>1 DEF Unsized
      <4> QED
        BY <4>1, <4>2, <4>3, <4>4 DEF Holds
    <3> QED
      BY <1>1, <3>1, <3>2 DEF MapModes, CountedKeys
  <2>7. l.kind = "object" /\ l.keyed = FALSE /\ m \in Levels
    BY <2>5, <2>6 DEF Levels, Kinds
  <2>8. MayFollow(w, c)
    BY <1>1, <1>3, <2>2, <2>6, <2>7 DEF MayFollow
  <2>9. PICK v : v = After(w, c)
    OBVIOUS
  <2>10. v = [w EXCEPT !.open = [w.open EXCEPT ![n] = m]]
    <3>1. c[1] = "key" /\ c[1] \notin Begin /\ c[1] \notin Scalar /\ c[1] \notin End
      BY <2>2 DEF Scalar, Begin, End
    <3>2. v = [w EXCEPT !.open[n].keyed = TRUE]
      BY <2>8, <2>9, <3>1 DEF After
    <3>3. l \in Levels
      BY <1>1, <1>3
    <3>4. PICK u : u = [l EXCEPT !.keyed = TRUE]
      OBVIOUS
    <3>5. u = [kind |-> l.kind, left |-> l.left, keyed |-> TRUE]
      BY <3>3, <3>4 DEF Levels
    <3>6. u = m
      BY <2>5, <2>7, <3>5
    <3>7. [w.open[n] EXCEPT !.keyed = TRUE] = m
      BY <1>1, <1>3, <3>4, <3>6
    <3> QED
      BY <1>3, <3>2, <3>7
  <2>11. CASE x.ec # "none"
    <3>1. KeyThen(t, value) = x
      BY <1>9, <2>11
    <3>2. Follows(x, w)
      BY <2>2, <2>3, <2>8, <2>11 DEF Follows
    <3> QED
      BY <3>1, <3>2 DEF Leads
  <2>12. CASE x.ec = "none"
    <3>1. PICK z : z = SetMode(x, value)
      OBVIOUS
    <3>2. PICK h : /\ TopSet(z, x, h) /\ IsFrame(h)
                   /\ h.mode = value /\ h.length = f.length /\ h.index = f.index
      BY <1>2, <2>3, <2>4, <3>1, ModeIsSet
    <3>3. /\ ParserShape(z) /\ Len(z.stack) = Len(p.stack) /\ Top(z) = h /\ z.out = <<c>> /\ z.done = FALSE
          /\ \A i \in 1..(Len(p.stack) - 1) : z.stack[i] = p.stack[i]
      <4>1. Len(t.stack) = Len(p.stack) /\ \A i \in 1..(Len(p.stack) - 1) : t.stack[i] = p.stack[i]
        BY <1>5 DEF TopSet
      <4> QED
        BY <2>3, <3>2, <4>1 DEF TopSet, ParserShape
    <3>4. Holds(h, m)
      BY <2>6, <3>2
    <3>5. Linked(z, v)
      BY <1>3, <2>7, <2>10, <3>3, <3>4, FrameHolds
    <3>6. Follows(z, w)
      BY <2>2, <2>8, <2>9, <3>3, <3>5 DEF Follows
    <3>7. KeyThen(t, value) = z
      BY <1>9, <2>12, <3>1
    <3> QED
      BY <3>6, <3>7 DEF Leads
  <2> QED
    BY <2>11, <2>12
<1> QED
  BY <1>4, <1>8, <1>10, <1>11 DEF Reads
-------------------------------------------------------------------------------
\* What an iteration of each mode leads to.

\* A container that says how many items it has, and one that ends with a mark.
LEMMA CountedLeads ==
    ASSUME NEW p, NEW w, Linked(p, w), p.out = <<>>, NEW call, NEW x,
           \/ Top(p).mode \in CountedArrays /\ call = "end_array"
           \/ Top(p).mode \in CountedKeys /\ call = "end_object",
           Top(p).index < Top(p).length => Leads(x, w), NEW y,
           y = IF Top(p).index < Top(p).length THEN x ELSE EndContainer(p, call)
    PROVE  Leads(y, w)
<1>1. Quiet(p, p)
  BY InnermostLevel, QuietItself
<1>2. ASSUME ~(Top(p).index < Top(p).length) PROVE Leads(EndContainer(p, call), w)
  BY <1>1, <1>2, EndLeads
<1> QED
  BY <1>2

LEMMA MarkedLeads ==
    ASSUME NEW p, NEW w, Linked(p, w), p.out = <<>>, NEW call, NEW x, NEW close, NEW y,
           \/ Top(p).mode = "indefinite_array" /\ call = "end_array"
           \/ Top(p).mode = "indefinite_map_key" /\ call = "end_object",
           Leads(x, w),
           y = CASE AtEof(p) -> Fail(p, "unexpected_eof")
                 [] ItemAt(p) = Mark(close) -> EndContainer(Skip(p), call)
                 [] Counted(p).stack[Len(p.stack)].index > UbjsonMaxItems -> Fail(Counted(p), "max_items_exceeded")
                 [] OTHER -> x
    PROVE  Leads(y, w)
<1>1. ParserShape(p) /\ Quiet(p, p) /\ Quiet(Skip(p), p)
  BY InnermostLevel, QuietItself, SkipIsQuiet
<1>2. Leads(EndContainer(Skip(p), call), w)
  BY <1>1, EndLeads
<1>3. ParserShape(Counted(p)) /\ Counted(p).out = <<>>
  BY <1>1, ItemIsCounted DEF TopSet
<1>4. Leads(Fail(p, "unexpected_eof"), w) /\ Leads(Fail(Counted(p), "max_items_exceeded"), w)
  BY <1>1, <1>3, StopsAt
<1> QED
  BY <1>2, <1>4

LEMMA RootLeads ==
    ASSUME IsSource(source), NEW p, NEW w, Linked(p, w), p.out = <<>>, Top(p).mode = "root"
    PROVE  Leads(ReadTypeAndValue(SetMode(p, "accept")), w)
<1>1. PICK q : q = SetMode(p, "accept")
  OBVIOUS
<1>2. ParserShape(p) /\ AskedShape(w) /\ w.open = <<>> /\ p.stack[1].mode = "root" /\ Len(p.stack) = 1 /\ Len(w.open) = 0
  <2>1. /\ ParserShape(p) /\ AskedShape(w) /\ w.open = <<>> /\ Top(p) = p.stack[1]
        /\ Len(p.stack) = Len(w.open) + 1
    BY InnermostLevel
  <2>2. Len(w.open) = 0
    BY <2>1
  <2> QED
    BY <2>1, <2>2
<1>3. PICK f : TopSet(q, p, f) /\ f.mode = "accept"
  <2>1. "accept" \in Modes
    BY DEF Modes
  <2> QED
    BY <1>1, <1>2, <2>1, ModeIsSet
<1>4. ParserShape(q) /\ Len(q.stack) = 1 /\ Top(q).mode = "accept" /\ q.out = <<>>
  BY <1>2, <1>3 DEF TopSet
<1>5. Top(q) = q.stack[1]
  BY <1>4, StackDepth
<1>6. w.status = "value"
  BY <1>2 DEF Linked
<1>7. SameDepth(q, w)
  BY <1>2, <1>4 DEF SameDepth
<1>8. Receptive(q, w)
  BY <1>2, <1>4, <1>5, <1>6, <1>7 DEF Receptive
<1> QED
  BY <1>1, <1>4, <1>8, TypedLeads

LEMMA AcceptLeads ==
    ASSUME NEW p, NEW w, Linked(p, w), p.out = <<>>, Top(p).mode = "accept"
    PROVE  Leads([Emit(p, Simple("flush")) EXCEPT !.stack = <<>>, !.done = TRUE], w)
<1>1. PICK c : c = Simple("flush")
  OBVIOUS
<1>2. PICK q : q = [Emit(p, c) EXCEPT !.stack = <<>>, !.done = TRUE]
  OBVIOUS
<1>3. ParserShape(p) /\ AskedShape(w) /\ w.open = <<>> /\ p.stack[1].mode = "accept"
  BY InnermostLevel
<1>4. w.status = "complete"
  BY <1>3 DEF Linked
<1>5. q.out = <<c>> /\ q.done = TRUE
  <2>1. PICK e : e = Emit(p, c)
    OBVIOUS
  <2>2. ParserShape(e) /\ e.out = <<c>>
    BY <1>3, <2>1, CallMade
  <2>3. q = [e EXCEPT !.stack = <<>>, !.done = TRUE]
    BY <1>2, <2>1
  <2> QED
    BY <2>2, <2>3 DEF ParserShape
<1>6. c[1] = "flush" /\ IsCall(c)
  BY <1>1 DEF Simple, IsCall, Operations, Begin
<1>7. MayFollow(w, c)
  BY <1>4, <1>6 DEF MayFollow
<1>8. After(w, c) = [w EXCEPT !.status = "flushed"]
  BY <1>6, <1>7 DEF After, Scalar, Begin, End
<1>9. After(w, c).status = "flushed"
  BY <1>3, <1>8 DEF AskedShape
<1>10. Follows(q, w)
  BY <1>5, <1>6, <1>7, <1>9 DEF Follows
<1> QED
  BY <1>1, <1>2, <1>10 DEF Leads

\* The items of the containers.
LEMMA ArrayLeads ==
    ASSUME IsSource(source), NEW p, NEW w, Linked(p, w), p.out = <<>>
    PROVE  /\ Top(p).mode = "array" => Leads(ItemOrEnd(p, ReadTypeAndValue, "end_array"), w)
           /\ Top(p).mode = "strongly_typed_array" => Leads(ItemOrEnd(p, ReadUntyped, "end_array"), w)
           /\ Top(p).mode = "indefinite_array" => Leads(ItemOrMark(p, ReadTypeAndValue, "]", "end_array"), w)
<1>1. CASE Top(p).mode = "array"
  <2>1. Top(p).index < Top(p).length => Leads(ReadTypeAndValue(Counted(p)), w)
    BY <1>1, ItemAwaited, TypedLeads DEF CountedArrays
  <2>2. PICK x : x = ReadTypeAndValue(Counted(p))
    OBVIOUS
  <2>3. PICK y : y = ItemOrEnd(p, ReadTypeAndValue, "end_array")
    OBVIOUS
  <2>4. y = IF Top(p).index < Top(p).length THEN x ELSE EndContainer(p, "end_array")
    BY <2>2, <2>3 DEF ItemOrEnd
  <2>5. Leads(y, w)
    BY <1>1, <2>1, <2>2, <2>4, CountedLeads DEF CountedArrays
  <2> QED
    BY <1>1, <2>3, <2>5
<1>2. CASE Top(p).mode = "strongly_typed_array"
  <2>1. Top(p).index < Top(p).length => Leads(ReadUntyped(Counted(p)), w)
    BY <1>2, ItemAwaited, UntypedLeads DEF CountedArrays
  <2>2. PICK x : x = ReadUntyped(Counted(p))
    OBVIOUS
  <2>3. PICK y : y = ItemOrEnd(p, ReadUntyped, "end_array")
    OBVIOUS
  <2>4. y = IF Top(p).index < Top(p).length THEN x ELSE EndContainer(p, "end_array")
    BY <2>2, <2>3 DEF ItemOrEnd
  <2>5. Leads(y, w)
    BY <1>2, <2>1, <2>2, <2>4, CountedLeads DEF CountedArrays
  <2> QED
    BY <1>2, <2>3, <2>5
<1>3. CASE Top(p).mode = "indefinite_array"
  <2>1. PICK x : x = ReadTypeAndValue(Counted(p))
    OBVIOUS
  <2>2. Leads(x, w)
    BY <1>3, <2>1, ItemAwaited, TypedLeads
  <2>3. PICK y : y = ItemOrMark(p, ReadTypeAndValue, "]", "end_array")
    OBVIOUS
  <2>4. y = CASE AtEof(p) -> Fail(p, "unexpected_eof")
              [] ItemAt(p) = Mark("]") -> EndContainer(Skip(p), "end_array")
              [] Counted(p).stack[Len(p.stack)].index > UbjsonMaxItems -> Fail(Counted(p), "max_items_exceeded")
              [] OTHER -> x
    BY <2>1, <2>3 DEF ItemOrMark
  <2>5. Leads(y, w)
    BY <1>3, <2>2, <2>4, MarkedLeads
  <2> QED
    BY <1>3, <2>3, <2>5
<1> QED
  BY <1>1, <1>2, <1>3

LEMMA MapLeads ==
    ASSUME IsSource(source), NEW p, NEW w, Linked(p, w), p.out = <<>>
    PROVE  /\ Top(p).mode = "map_key" =>
                 Leads(ItemOrEnd(p, LAMBDA q : KeyThen(q, "map_value"), "end_object"), w)
           /\ Top(p).mode = "strongly_typed_map_key" =>
                 Leads(ItemOrEnd(p, LAMBDA q : KeyThen(q, "strongly_typed_map_value"), "end_object"), w)
           /\ Top(p).mode = "indefinite_map_key" =>
                 Leads(ItemOrMark(p, LAMBDA q : KeyThen(q, "indefinite_map_value"), "}", "end_object"), w)
<1>1. CASE Top(p).mode = "map_key"
  <2>1. PICK x : x = KeyThen(Counted(p), "map_value")
    OBVIOUS
  <2>2. Top(p).index < Top(p).length => Leads(x, w)
    BY <1>1, <2>1, KeyLeads DEF MapModes
  <2>3. PICK y : y = ItemOrEnd(p, LAMBDA q : KeyThen(q, "map_value"), "end_object")
    OBVIOUS
  <2>4. y = IF Top(p).index < Top(p).length THEN x ELSE EndContainer(p, "end_object")
    BY <2>1, <2>3 DEF ItemOrEnd
  <2>5. Leads(y, w)
    BY <1>1, <2>2, <2>4, CountedLeads DEF CountedKeys
  <2> QED
    BY <1>1, <2>3, <2>5
<1>2. CASE Top(p).mode = "strongly_typed_map_key"
  <2>1. PICK x : x = KeyThen(Counted(p), "strongly_typed_map_value")
    OBVIOUS
  <2>2. Top(p).index < Top(p).length => Leads(x, w)
    BY <1>2, <2>1, KeyLeads DEF MapModes
  <2>3. PICK y : y = ItemOrEnd(p, LAMBDA q : KeyThen(q, "strongly_typed_map_value"), "end_object")
    OBVIOUS
  <2>4. y = IF Top(p).index < Top(p).length THEN x ELSE EndContainer(p, "end_object")
    BY <2>1, <2>3 DEF ItemOrEnd
  <2>5. Leads(y, w)
    BY <1>2, <2>2, <2>4, CountedLeads DEF CountedKeys
  <2> QED
    BY <1>2, <2>3, <2>5
<1>3. CASE Top(p).mode = "indefinite_map_key"
  <2>1. PICK x : x = KeyThen(Counted(p), "indefinite_map_value")
    OBVIOUS
  <2>2. Leads(x, w)
    BY <1>3, <2>1, KeyLeads DEF MapModes
  <2>3. PICK y : y = ItemOrMark(p, LAMBDA q : KeyThen(q, "indefinite_map_value"), "}", "end_object")
    OBVIOUS
  <2>4. y = CASE AtEof(p) -> Fail(p, "unexpected_eof")
              [] ItemAt(p) = Mark("}") -> EndContainer(Skip(p), "end_object")
              [] Counted(p).stack[Len(p.stack)].index > UbjsonMaxItems -> Fail(Counted(p), "max_items_exceeded")
              [] OTHER -> x
    BY <2>1, <2>3 DEF ItemOrMark
  <2>5. Leads(y, w)
    BY <1>3, <2>2, <2>4, MarkedLeads
  <2> QED
    BY <1>3, <2>3, <2>5
<1> QED
  BY <1>1, <1>2, <1>3
LEMMA MemberLeads ==
    ASSUME IsSource(source), NEW p, NEW w, Linked(p, w), p.out = <<>>
    PROVE  /\ Top(p).mode = "map_value" => Leads(ReadTypeAndValue(SetMode(p, "map_key")), w)
           /\ Top(p).mode = "strongly_typed_map_value" => Leads(ReadUntyped(SetMode(p, "strongly_typed_map_key")), w)
           /\ Top(p).mode = "indefinite_map_value" => Leads(ReadTypeAndValue(SetMode(p, "indefinite_map_key")), w)
<1>1. CASE Top(p).mode = "map_value"
  <2>1. PICK q : q = SetMode(p, "map_key")
    OBVIOUS
  <2>2. Receptive(q, w) /\ q.out = <<>>
    BY <1>1, <2>1, MemberAwaited DEF MapModes
  <2> QED
    BY <1>1, <2>1, <2>2, TypedLeads
<1>2. CASE Top(p).mode = "strongly_typed_map_value"
  <2>1. PICK q : q = SetMode(p, "strongly_typed_map_key")
    OBVIOUS
  <2>2. Receptive(q, w) /\ q.out = <<>>
    BY <1>2, <2>1, MemberAwaited DEF MapModes
  <2> QED
    BY <1>2, <2>1, <2>2, UntypedLeads
<1>3. CASE Top(p).mode = "indefinite_map_value"
  <2>1. PICK q : q = SetMode(p, "indefinite_map_key")
    OBVIOUS
  <2>2. Receptive(q, w) /\ q.out = <<>>
    BY <1>3, <2>1, MemberAwaited DEF MapModes
  <2> QED
    BY <1>3, <2>1, <2>2, TypedLeads
<1> QED
  BY <1>1, <1>2, <1>3

-------------------------------------------------------------------------------
\* The parser with its callee.

LEMMA Cleared ==
    ASSUME NEW p, NEW w, Linked(p, w), NEW q, q = [p EXCEPT !.out = <<>>]
    PROVE  Linked(q, w) /\ q.out = <<>> /\ Top(q) = Top(p)
<1>1. ParserShape(p) /\ q.stack = p.stack /\ q.out = <<>> /\ ParserShape(q)
  BY DEF Linked, SameDepth, ParserShape
<1>2. Top(q) = Top(p)
  BY <1>1 DEF Top
<1>3. Linked(q, w)
  BY <1>1, <1>2 DEF Linked, SameDepth
<1> QED
  BY <1>1, <1>2, <1>3

\* An iteration of the parser, in a container that announces its items and in another.
LEMMA ParseCountedLeads ==
    ASSUME IsSource(source), Linked(parser, asked),
           ParseArray \/ ParseTypedArray \/ ParseMapKey \/ ParseMapValue \/ ParseTypedMapKey \/ ParseTypedMapValue
    PROVE  Leads(parser', asked)
<1>1. PICK p : p = [parser EXCEPT !.out = <<>>]
  OBVIOUS
<1>2. Linked(p, asked) /\ p.out = <<>> /\ Top(p) = Top(parser)
  BY <1>1, Cleared
<1>3. CASE ParseArray
  <2>1. Top(parser).mode = "array" /\ parser' = ItemOrEnd(p, ReadTypeAndValue, "end_array")
    BY <1>1, <1>3 DEF ParseArray, Parsing
  <2> QED
    BY <1>2, <2>1, ArrayLeads
<1>4. CASE ParseTypedArray
  <2>1. Top(parser).mode = "strongly_typed_array" /\ parser' = ItemOrEnd(p, ReadUntyped, "end_array")
    BY <1>1, <1>4 DEF ParseTypedArray, Parsing
  <2> QED
    BY <1>2, <2>1, ArrayLeads
<1>5. CASE ParseMapKey
  <2>1. Top(parser).mode = "map_key" /\ parser' = ItemOrEnd(p, LAMBDA q : KeyThen(q, "map_value"), "end_object")
    BY <1>1, <1>5 DEF ParseMapKey, Parsing
  <2> QED
    BY <1>2, <2>1, MapLeads
<1>6. CASE ParseMapValue
  <2>1. Top(parser).mode = "map_value" /\ parser' = ReadTypeAndValue(SetMode(p, "map_key"))
    BY <1>1, <1>6 DEF ParseMapValue, Parsing
  <2> QED
    BY <1>2, <2>1, MemberLeads
<1>7. CASE ParseTypedMapKey
  <2>1. /\ Top(parser).mode = "strongly_typed_map_key"
        /\ parser' = ItemOrEnd(p, LAMBDA q : KeyThen(q, "strongly_typed_map_value"), "end_object")
    BY <1>1, <1>7 DEF ParseTypedMapKey, Parsing
  <2> QED
    BY <1>2, <2>1, MapLeads
<1>8. CASE ParseTypedMapValue
  <2>1. /\ Top(parser).mode = "strongly_typed_map_value"
        /\ parser' = ReadUntyped(SetMode(p, "strongly_typed_map_key"))
    BY <1>1, <1>8 DEF ParseTypedMapValue, Parsing
  <2> QED
    BY <1>2, <2>1, MemberLeads
<1> QED
  BY <1>3, <1>4, <1>5, <1>6, <1>7, <1>8

LEMMA ParseMarkedLeads ==
    ASSUME IsSource(source), Linked(parser, asked),
           ParseIndefiniteArray \/ ParseIndefiniteMapKey \/ ParseIndefiniteMapValue \/ ParseRoot \/ ParseAccept
    PROVE  Leads(parser', asked)
<1>1. PICK p : p = [parser EXCEPT !.out = <<>>]
  OBVIOUS
<1>2. Linked(p, asked) /\ p.out = <<>> /\ Top(p) = Top(parser)
  BY <1>1, Cleared
<1>3. CASE ParseIndefiniteArray
  <2>1. /\ Top(parser).mode = "indefinite_array"
        /\ parser' = ItemOrMark(p, ReadTypeAndValue, "]", "end_array")
    BY <1>1, <1>3 DEF ParseIndefiniteArray, Parsing
  <2> QED
    BY <1>2, <2>1, ArrayLeads
<1>4. CASE ParseIndefiniteMapKey
  <2>1. /\ Top(parser).mode = "indefinite_map_key"
        /\ parser' = ItemOrMark(p, LAMBDA q : KeyThen(q, "indefinite_map_value"), "}", "end_object")
    BY <1>1, <1>4 DEF ParseIndefiniteMapKey, Parsing
  <2> QED
    BY <1>2, <2>1, MapLeads
<1>5. CASE ParseIndefiniteMapValue
  <2>1. /\ Top(parser).mode = "indefinite_map_value"
        /\ parser' = ReadTypeAndValue(SetMode(p, "indefinite_map_key"))
    BY <1>1, <1>5 DEF ParseIndefiniteMapValue, Parsing
  <2> QED
    BY <1>2, <2>1, MemberLeads
<1>6. CASE ParseRoot
  <2>1. Top(parser).mode = "root" /\ parser' = ReadTypeAndValue(SetMode(p, "accept"))
    BY <1>1, <1>6 DEF ParseRoot, Parsing
  <2> QED
    BY <1>2, <2>1, RootLeads
<1>7. CASE ParseAccept
  <2>1. Top(parser).mode = "accept" /\ parser' = [Emit(p, Simple("flush")) EXCEPT !.stack = <<>>, !.done = TRUE]
    BY <1>1, <1>7 DEF ParseAccept, Parsing
  <2> QED
    BY <1>2, <2>1, AcceptLeads
<1> QED
  BY <1>3, <1>4, <1>5, <1>6, <1>7

LEMMA ParseLeads ==
    ASSUME UInv, Parse
    PROVE  Leads(parser', asked) /\ source' = source
<1>1. ~parser.done /\ parser.ec = "none" /\ source' = source
  BY DEF Parse, ParseArray, ParseTypedArray, ParseIndefiniteArray, ParseMapKey, ParseMapValue,
         ParseTypedMapKey, ParseTypedMapValue, ParseIndefiniteMapKey, ParseIndefiniteMapValue,
         ParseRoot, ParseAccept, Parsing
<1>2. IsSource(source) /\ Linked(parser, asked)
  BY <1>1 DEF UInv
<1> QED
  BY <1>1, <1>2, ParseCountedLeads, ParseMarkedLeads DEF Parse

LEMMA UbjsonInitial ==
    ASSUME UbjsonInit
    PROVE  UInv /\ InitWithCaller
<1>1. parser = NewParser /\ asked = NoCalls /\ InitWithCaller /\ IsSource(source)
  BY DEF UbjsonInit, Init, InitWithCaller, DecoderInit
<1>2. PICK frame : frame = [mode |-> "root", length |-> 0, type |-> "none", index |-> 0]
  OBVIOUS
<1>3. IsFrame(frame) /\ frame.mode = "root"
  BY <1>2 DEF IsFrame, Modes
<1>4. /\ parser.stack = <<frame>> /\ parser.done = FALSE /\ parser.pos = 1
      /\ DOMAIN parser = {"pos", "stack", "depth", "done", "ec", "out"}
  BY <1>1, <1>2 DEF NewParser
<1>5. IsSequence(<<frame>>) /\ Len(<<frame>>) = 1 /\ <<frame>>[1] = frame
  <2>1. <<frame>> \in Seq({frame})
    OBVIOUS
  <2> QED
    BY <2>1 DEF IsSequence
<1>6. ParserShape(parser)
  BY <1>3, <1>4, <1>5 DEF ParserShape
<1>7. asked.open = <<>> /\ asked.status = "value" /\ AskedShape(asked) /\ Len(asked.open) = 0
  BY <1>1 DEF NoCalls, AskedShape
<1>8. Linked(parser, asked)
  BY <1>3, <1>4, <1>5, <1>6, <1>7 DEF Linked, SameDepth
<1> QED
  BY <1>1, <1>4, <1>8 DEF UInv

\* An iteration of the parser keeps the invariant and is a call that may follow, or none.
LEMMA DecodeKeeps ==
    ASSUME UInv, Decode
    PROVE  UInv' /\ [NextWithCaller]_<<asked, decoder>>
<1>1. Leads(parser', asked) /\ IsSource(source')
  BY ParseLeads DEF Decode, UInv
<1>2. decoder' = FoldLeft(Visit, decoder, parser'.out) /\ asked' = AfterAll(asked, parser'.out)
  BY DEF Decode, Receive
<1>3. CASE Stops(parser')
  <2>1. decoder' = decoder /\ asked' = asked
    BY <1>2, <1>3, NoCallReceived DEF Stops
  <2>2. UInv'
    BY <1>1, <1>3 DEF Stops, UInv
  <2> QED
    BY <2>1, <2>2
<1>4. CASE Follows(parser', asked)
  <2>1. PICK c : /\ parser'.out = <<c>> /\ IsCall(c) /\ MayFollow(asked, c)
                 /\ parser'.done \in BOOLEAN
                 /\ parser'.ec = "none" /\ ~parser'.done => Linked(parser', After(asked, c))
                 /\ parser'.done => After(asked, c).status = "flushed"
    BY <1>4 DEF Follows
  <2>2. decoder' = Visit(decoder, c) /\ asked' = After(asked, c)
    BY <1>2, <2>1, OneCallReceived
  <2>3. UInv'
    BY <1>1, <2>1, <2>2 DEF UInv
  <2>4. NextWithCaller
    BY <2>1, <2>2 DEF NextWithCaller, Call
  <2> QED
    BY <2>3, <2>4
<1> QED
  BY <1>1, <1>3, <1>4 DEF Leads

LEMMA UbjsonStep ==
    ASSUME UInv, [UbjsonNext]_ubjsonVars
    PROVE  UInv' /\ [NextWithCaller]_<<asked, decoder>>
<1>1. CASE Decode
  BY <1>1, DecodeKeeps
<1>2. CASE SourceChanges
  BY <1>2 DEF SourceChanges, UInv
<1>3. CASE UNCHANGED ubjsonVars
  BY <1>3 DEF ubjsonVars, UInv
<1> QED
  BY <1>1, <1>2, <1>3 DEF UbjsonNext

\* The parser and its loop are a caller that keeps the order of VisitorCalls and gives
\* every container the items that it announces, typed or not, whatever else the source
\* holds: basic_ubjson_parser on a json_decoder.
THEOREM UbjsonParserIsACaller == UbjsonSpec => SpecWithCaller
<1>1. UbjsonInit => UInv /\ InitWithCaller
  BY UbjsonInitial
<1>2. UInv /\ [UbjsonNext]_ubjsonVars => UInv' /\ [NextWithCaller]_<<asked, decoder>>
  BY UbjsonStep
<1> QED
  BY <1>1, <1>2, PTL DEF UbjsonSpec, SpecWithCaller

\* No call was out of order, and none was one too many or too few for a container that
\* announced its items; when the parser is done the decoder has one value and nothing
\* is left on its stacks.
CallsKept == asked.status # "broken"
DecodedAlone ==
    parser.done => decoder.valid /\ decoder.items = <<>> /\ Len(decoder.structures) = 1

\* Decoding UBJSON never trips an assertion of the decoder, keeps the counts of its
\* containers, and leaves one value when the parser is done.
THEOREM UbjsonDecodes == UbjsonSpec => [](CallsKept /\ AssertionsHold /\ DecodedAlone)
<1>1. UbjsonInit => UInv
  BY UbjsonInitial
<1>2. UInv /\ [UbjsonNext]_ubjsonVars => UInv'
  BY UbjsonStep
<1>3. IInv => CallsKept
  BY DEF IInv, Agree, AskedShape, CallsKept
<1>4. UInv /\ ValueIsAlone => DecodedAlone
  BY DEF UInv, ValueIsAlone, DecodedAlone
<1> QED
  BY <1>1, <1>2, <1>3, <1>4, UbjsonParserIsACaller, AgreementHolds, DecoderAssertionsHold,
     DecoderIsDone, PTL DEF UbjsonSpec
===============================================================================
