-------------------------- MODULE MsgpackParserProofs -------------------------
(***************************************************************************)
(* basic_msgpack_parser calling a json_decoder through the adaptor, for    *)
(* every source: its calls keep the order of a generic_visitor, so that    *)
(* what is proved of the adaptor under such a caller holds here.           *)
(***************************************************************************)
EXTENDS MsgpackParser, GenericToJsonProofs

msgpackVars == <<source, parser, given, adaptor, asked, decoder>>

\* The lengths of containers are numbers.  (The mark of a text that is joined from
\* lexemes is the adaptor's.)
Containers == {"fixmap", "map16", "map32", "fixarray", "array16", "array32"}
IsSource(s) ==
    /\ IsSequence(s)
    /\ \A i \in 1..Len(s) : /\ s[i][1] \in Containers => s[i][2] \in Nat
                            /\ s[i][1] \in Texts => s[i][3][1] # "joined"

MsgpackInit == IsSource(source) /\ Init /\ AdaptorInit

\* An iteration of the parser, and the calls it makes.
Decode == Parse /\ ReceiveGeneric(parser'.out)

\* The source may become anything, at any time.
SourceChanges == IsSource(source') /\ UNCHANGED <<parser, given, adaptor, asked, decoder>>

MsgpackNext == Decode \/ SourceChanges
MsgpackSpec == MsgpackInit /\ [][MsgpackNext]_msgpackVars

-------------------------------------------------------------------------------
Modes == {"root", "accept", "array", "map_key", "map_value"}
Frames == [mode : Modes, length : Nat, index : Nat]
ParserShape(p) ==
    /\ DOMAIN p = {"pos", "stack", "depth", "done", "ec", "out"}
    /\ p.stack \in Seq(Frames) /\ Len(p.stack) > 0
    /\ p.pos \in Nat \ {0} /\ p.done = FALSE

\* A container of the parser and what its caller knows of it: between two of its
\* items, and while one of them is read.
Holds(f, l) ==
    /\ f.index <= f.length
    /\ \/ f.mode = "array" /\ l.kind = "array" /\ l.key = FALSE /\ l.left = f.length - f.index
       \/ f.mode = "map_key" /\ l.kind = "object" /\ l.key = TRUE /\ l.left = f.length - f.index
       \/ f.mode = "map_value" /\ l.kind = "object" /\ l.key = FALSE /\ l.left = f.length - f.index + 1
Awaits(f, l) ==
    /\ f.index <= f.length /\ l.left = f.length - f.index + 1
    /\ \/ f.mode = "array" /\ l.kind = "array" /\ l.key = FALSE
       \/ f.mode = "map_value" /\ l.kind = "object" /\ l.key = TRUE
       \/ f.mode = "map_key" /\ l.kind = "object" /\ l.key = FALSE

SameDepth(p, g) == ParserShape(p) /\ GivenShape(g) /\ Len(p.stack) = Len(g.open) + 1

\* An item is about to be read.
Receptive(p, g) ==
    /\ SameDepth(p, g)
    /\ p.stack[1].mode = "accept" /\ g.status = "value"
    /\ \A i \in 1..Len(g.open) : Awaits(p.stack[i + 1], g.open[i])

\* Between two iterations.
Linked(p, g) ==
    /\ SameDepth(p, g)
    /\ g.open = <<>> => \/ p.stack[1].mode = "root" /\ g.status = "value"
                        \/ p.stack[1].mode = "accept" /\ g.status = "complete"
    /\ g.open # <<>> => /\ p.stack[1].mode = "accept" /\ g.status = "value"
                        /\ Holds(Top(p), Last(g.open))
                        /\ \A i \in 1..(Len(g.open) - 1) : Awaits(p.stack[i + 1], g.open[i])

MInv ==
    /\ IsSource(source)
    /\ parser.done \in BOOLEAN
    /\ parser.ec = "none" /\ ~parser.done => Linked(parser, given)
    /\ parser.done => given.status = "flushed"

\* What an iteration leads to: it stops, or makes a call that may follow.
Stops(q) == q.out = <<>> /\ q.ec # "none" /\ q.done = FALSE
Follows(q, g) ==
    \E c : /\ q.out = <<c>> /\ IsItem(c) /\ MayBeGiven(g, c)
           /\ q.done \in BOOLEAN
           /\ q.ec = "none" /\ ~q.done => Linked(q, AfterGiven(g, c))
           /\ q.done => AfterGiven(g, c).status = "flushed"
Leads(q, g) == Stops(q) \/ Follows(q, g)
-------------------------------------------------------------------------------
LEMMA StackDepth ==
    ASSUME NEW p, ParserShape(p)
    PROVE  /\ p.stack \in Seq(Frames) /\ Len(p.stack) \in Nat /\ Len(p.stack) \in 1..Len(p.stack)
           /\ Top(p) = p.stack[Len(p.stack)] /\ Top(p) \in Frames
BY DEF ParserShape, Top, Last

\* The innermost frame is another.
TopSet(q, p, f) ==
    /\ ParserShape(q) /\ Len(q.stack) = Len(p.stack) /\ Top(q) = f
    /\ \A i \in 1..(Len(p.stack) - 1) : q.stack[i] = p.stack[i]
    /\ q.out = p.out /\ q.ec = p.ec

LEMMA TopChanged ==
    ASSUME NEW p, ParserShape(p), NEW f \in Frames, NEW q,
           q = [p EXCEPT !.stack = [p.stack EXCEPT ![Len(p.stack)] = f]]
    PROVE  TopSet(q, p, f)
<1> DEFINE n == Len(p.stack)
<1>1. PICK s : s = [p.stack EXCEPT ![n] = f]
  OBVIOUS
<1>2. p.stack \in Seq(Frames) /\ n \in Nat /\ n \in 1..n
  BY StackDepth
<1>3. s \in Seq(Frames) /\ Len(s) = n
  BY <1>1, <1>2, ExceptSeq
<1>4. s[n] = f /\ \A i \in 1..(n - 1) : s[i] = p.stack[i]
  BY <1>1, <1>2
<1>5. q = [p EXCEPT !.stack = s]
  BY <1>1
<1>6. /\ DOMAIN q = DOMAIN p /\ q.stack = s /\ q.out = p.out /\ q.ec = p.ec
      /\ q.pos = p.pos /\ q.done = p.done
  BY <1>5 DEF ParserShape
<1>7. ParserShape(q)
  BY <1>2, <1>3, <1>6 DEF ParserShape
<1>8. Top(q) = f
  BY <1>3, <1>4, <1>6, <1>7, StackDepth
<1> QED
  BY <1>3, <1>4, <1>6, <1>7, <1>8 DEF TopSet

\* The mode is set, and an item counted.
LEMMA ModeIsSet ==
    ASSUME NEW p, ParserShape(p), NEW mode \in Modes
    PROVE  TopSet(SetMode(p, mode), p, [mode |-> mode, length |-> Top(p).length, index |-> Top(p).index])
<1>1. PICK top : top = p.stack[Len(p.stack)]
  OBVIOUS
<1>2. top = Top(p) /\ top \in Frames
  BY <1>1, StackDepth
<1>3. PICK f : f = [top EXCEPT !.mode = mode]
  OBVIOUS
<1>4. f = [mode |-> mode, length |-> top.length, index |-> top.index] /\ f \in Frames
  BY <1>2, <1>3 DEF Frames
<1>5. SetMode(p, mode) = [p EXCEPT !.stack = [p.stack EXCEPT ![Len(p.stack)] = f]]
  BY <1>1, <1>3 DEF SetMode
<1> QED
  BY <1>2, <1>4, <1>5, TopChanged

LEMMA ItemIsCounted ==
    ASSUME NEW p, ParserShape(p)
    PROVE  TopSet(Counted(p), p, [mode |-> Top(p).mode, length |-> Top(p).length, index |-> Top(p).index + 1])
<1>1. PICK top : top = p.stack[Len(p.stack)]
  OBVIOUS
<1>2. top = Top(p) /\ top \in Frames
  BY <1>1, StackDepth
<1>3. PICK f : f = [top EXCEPT !.index = top.index + 1]
  OBVIOUS
<1>4. f = [mode |-> top.mode, length |-> top.length, index |-> top.index + 1] /\ f \in Frames
  BY <1>2, <1>3 DEF Frames
<1>5. Counted(p) = [p EXCEPT !.stack = [p.stack EXCEPT ![Len(p.stack)] = f]]
  BY <1>1, <1>3 DEF Counted
<1> QED
  BY <1>2, <1>4, <1>5, TopChanged

\* The containers are the same, and no call is made.
Quiet(q, p) ==
    /\ ParserShape(q) /\ ParserShape(p) /\ q.stack = p.stack /\ q.out = <<>>

LEMMA StopsAt ==
    ASSUME NEW q, ParserShape(q), q.out = <<>>, NEW g, NEW code, code # "none"
    PROVE  Leads(Fail(q, code), g)
<1>1. Fail(q, code) = [q EXCEPT !.ec = code]
  BY DEF Fail
<1>2. Fail(q, code).out = <<>> /\ Fail(q, code).ec = code /\ Fail(q, code).done = FALSE
  BY <1>1 DEF ParserShape
<1> QED
  BY <1>2 DEF Leads, Stops

LEMMA CallMade ==
    ASSUME NEW q, ParserShape(q), q.out = <<>>, NEW c
    PROVE  /\ ParserShape(Emit(q, c)) /\ Emit(q, c).stack = q.stack /\ Emit(q, c).out = <<c>>
           /\ Emit(q, c).ec = q.ec
<1>1. Emit(q, c) = [q EXCEPT !.out = Append(q.out, c)]
  BY DEF Emit
<1>2. Append(<<>>, c) = <<c>>
  OBVIOUS
<1> QED
  BY <1>1, <1>2 DEF ParserShape

-------------------------------------------------------------------------------
\* An item is complete: the parser is between two of them.
LEMMA ItemDone ==
    ASSUME NEW p, NEW g, Receptive(p, g), NEW q, ParserShape(q), q.stack = p.stack
    PROVE  Linked(q, ItemGiven(g))
<1> DEFINE n == Len(g.open)
           h == ItemGiven(g)
<1>1. /\ ParserShape(p) /\ GivenShape(g) /\ Len(p.stack) = n + 1 /\ p.stack[1].mode = "accept"
      /\ g.status = "value" /\ n \in Nat
  BY DEF Receptive, SameDepth, GivenShape
<1>2. Top(q) = p.stack[n + 1]
  BY <1>1, StackDepth
<1>3. CASE g.open = <<>>
  <2>1. h = [g EXCEPT !.status = "complete"]
    BY <1>3 DEF ItemGiven
  <2>2. GivenShape(h) /\ h.open = <<>> /\ h.status = "complete"
    BY <1>1, <1>3, <2>1 DEF GivenShape
  <2> HIDE DEF h
  <2>3. SameDepth(q, h)
    BY <1>1, <1>3, <2>2 DEF SameDepth
  <2> QED
    BY <1>1, <2>2, <2>3 DEF Linked, h
<1>4. CASE g.open # <<>>
  <2> DEFINE top == g.open[n]
             frame == p.stack[n + 1]
  <2>1. /\ n > 0 /\ top \in GivenLevels /\ GivenShape(h) /\ h.status = "value"
        /\ Len(h.open) = n /\ \A i \in 1..(n - 1) : h.open[i] = g.open[i]
        /\ Turned(top, h.open[n])
        /\ top.key = TRUE \/ top.left = Unsized => h.open[n].left = top.left
        /\ top.key = FALSE /\ top.left # Unsized => h.open[n].left = top.left - 1
    BY <1>1, <1>4, ItemComplete
  <2> HIDE DEF h
  <2>2. h.open \in Seq(GivenLevels) /\ Last(h.open) = h.open[n] /\ h.open # <<>>
    BY <1>1, <2>1 DEF GivenShape, Last
  <2>3. Awaits(frame, top) /\ frame \in Frames
    <3>1. n \in 1..n /\ n + 1 \in 1..(n + 1)
      BY <1>1, <2>1
    <3>2. Awaits(p.stack[n + 1], g.open[n])
      BY <3>1, Zenon DEF Receptive
    <3>3. p.stack \in Seq(Frames) /\ n + 1 \in 1..Len(p.stack)
      BY <1>1, <3>1 DEF ParserShape
    <3>4. p.stack[n + 1] \in Frames
      BY <3>3, LenProperties
    <3> QED
      BY <3>2, <3>4
  <2>4. frame.index \in Nat /\ frame.length \in Nat /\ top.left = frame.length - frame.index + 1
        /\ frame.index <= frame.length /\ top.left # Unsized
    BY <2>3 DEF Awaits, Frames, Unsized
  <2> HIDE DEF top, frame
  <2>5. Holds(frame, h.open[n])
    <3>1. CASE frame.mode = "array" /\ top.kind = "array" /\ top.key = FALSE
      <4>1. h.open[n].left = frame.length - frame.index
        BY <2>1, <2>4, <3>1
      <4>2. h.open[n].kind = "array" /\ h.open[n].key = FALSE
        BY <2>1, <3>1 DEF Turned
      <4> QED
        BY <2>4, <3>1, <4>1, <4>2 DEF Holds
    <3>2. CASE frame.mode = "map_value" /\ top.kind = "object" /\ top.key = TRUE
      <4>1. h.open[n].left = frame.length - frame.index + 1
        BY <2>1, <2>4, <3>2
      <4>2. h.open[n].kind = "object" /\ h.open[n].key = FALSE
        BY <2>1, <3>2 DEF Turned
      <4> QED
        BY <2>4, <3>2, <4>1, <4>2 DEF Holds
    <3>3. CASE frame.mode = "map_key" /\ top.kind = "object" /\ top.key = FALSE
      <4>1. h.open[n].left = frame.length - frame.index
        BY <2>1, <2>4, <3>3
      <4>2. h.open[n].kind = "object" /\ h.open[n].key = TRUE
        BY <2>1, <3>3 DEF Turned
      <4> QED
        BY <2>4, <3>3, <4>1, <4>2 DEF Holds
    <3> QED
      BY <2>3, <3>1, <3>2, <3>3 DEF Awaits
  <2>6. \A i \in 1..(Len(h.open) - 1) : Awaits(q.stack[i + 1], h.open[i])
    <3> SUFFICES ASSUME NEW i \in 1..(n - 1) PROVE Awaits(q.stack[i + 1], h.open[i])
      BY <2>1
    <3>1. i \in 1..n
      BY <1>1
    <3> QED
      BY <2>1, <3>1 DEF Receptive
  <2>7. SameDepth(q, h)
    BY <1>1, <2>1 DEF SameDepth
  <2>8. Holds(Top(q), Last(h.open))
    BY <1>2, <2>2, <2>5 DEF frame
  <2> QED
    BY <1>1, <2>1, <2>2, <2>6, <2>7, <2>8 DEF Linked, h
<1> QED
  BY <1>3, <1>4

\* Where an item is awaited the order allows one.
LEMMA ItemMayBeGiven ==
    ASSUME NEW p, NEW g, Receptive(p, g), NEW c, c[1] \in Begin \cup Scalar
    PROVE  MayBeGiven(g, c)
<1>1. g.status = "value" /\ GivenShape(g) /\ ParserShape(p) /\ Len(p.stack) = Len(g.open) + 1
  BY DEF Receptive, SameDepth
<1>2. ASSUME g.open # <<>> PROVE Last(g.open).left # 0
  <2>1. Len(g.open) \in 1..Len(g.open) /\ Last(g.open) = g.open[Len(g.open)]
    BY <1>1, <1>2 DEF GivenShape, Last
  <2>2. Awaits(p.stack[Len(g.open) + 1], Last(g.open)) /\ p.stack[Len(g.open) + 1] \in Frames
    BY <1>1, <2>1 DEF Receptive, ParserShape
  <2> QED
    BY <2>2 DEF Awaits, Frames
<1> QED
  BY <1>1, <1>2 DEF MayBeGiven

\* A scalar is read.
LEMMA ScalarLeads ==
    ASSUME NEW p, NEW g, Receptive(p, g), NEW q, Quiet(q, p), NEW c, IsItem(c), c[1] \in Scalar
    PROVE  Leads(Emit(q, c), g)
<1>1. PICK r : r = Emit(q, c)
  OBVIOUS
<1>2. ParserShape(r) /\ r.stack = p.stack /\ r.out = <<c>> /\ r.done = FALSE
  BY <1>1, CallMade DEF Quiet, ParserShape
<1>3. MayBeGiven(g, c)
  BY ItemMayBeGiven
<1>4. c[1] \notin Begin /\ c[1] \notin End /\ c[1] # "flush"
  BY ItemKinds
<1>5. AfterGiven(g, c) = ItemGiven(g)
  BY <1>3, <1>4 DEF AfterGiven
<1>6. Linked(r, AfterGiven(g, c))
  BY <1>2, <1>5, ItemDone
<1>7. Follows(r, g)
  BY <1>2, <1>3, <1>6 DEF Follows
<1> QED
  BY <1>1, <1>7 DEF Leads

\* A container is pushed.
LEMMA StatePushed ==
    ASSUME NEW p, ParserShape(p), NEW mode \in Modes, NEW n \in Nat, NEW q, q = PushState(p, mode, n)
    PROVE  /\ ParserShape(q) /\ Len(q.stack) = Len(p.stack) + 1 /\ q.out = p.out
           /\ Top(q) = [mode |-> mode, length |-> n, index |-> 0]
           /\ \A i \in 1..Len(p.stack) : q.stack[i] = p.stack[i]
<1>1. PICK f : f = [mode |-> mode, length |-> n, index |-> 0]
  OBVIOUS
<1>2. f \in Frames
  BY <1>1 DEF Frames
<1>3. p.stack \in Seq(Frames) /\ Len(p.stack) \in Nat
  BY StackDepth
<1>4. PICK s : s = Append(p.stack, f)
  OBVIOUS
<1>5. /\ s \in Seq(Frames) /\ Len(s) = Len(p.stack) + 1 /\ s[Len(p.stack) + 1] = f
      /\ \A i \in 1..Len(p.stack) : s[i] = p.stack[i]
  BY <1>2, <1>3, <1>4
<1>6. q = [p EXCEPT !.stack = s]
  BY <1>1, <1>4 DEF PushState
<1>7. ParserShape(q) /\ q.stack = s /\ q.out = p.out
  BY <1>3, <1>5, <1>6 DEF ParserShape
<1>8. Top(q) = f
  BY <1>5, <1>7, StackDepth
<1> QED
  BY <1>1, <1>5, <1>7, <1>8

\* A container begins.
LEMMA BeginLeads ==
    ASSUME NEW p, NEW g, Receptive(p, g), NEW q, Quiet(q, p), NEW item, item[2] \in Nat,
           NEW mode, NEW begin,
           \/ mode = "map_key" /\ begin = "begin_object"
           \/ mode = "array" /\ begin = "begin_array"
    PROVE  Leads(BeginContainer(q, item, mode, begin), g)
<1> DEFINE n == Len(g.open)
           k == item[2]
<1>1. PICK deeper : deeper = [q EXCEPT !.depth = @ + 1]
  OBVIOUS
<1>2. ParserShape(deeper) /\ deeper.stack = p.stack /\ deeper.out = <<>>
  BY <1>1 DEF Quiet, ParserShape
<1>3. CASE deeper.depth > MsgpackMaxParseDepth
  <2>1. BeginContainer(q, item, mode, begin) = Fail(deeper, "max_nesting_depth_exceeded")
    BY <1>1, <1>3 DEF BeginContainer
  <2> QED
    BY <1>2, <2>1, StopsAt
<1>4. CASE ~(deeper.depth > MsgpackMaxParseDepth)
  <2>1. PICK c : c = Untagged(begin, k)
    OBVIOUS
  <2>2. PICK pushed : pushed = PushState(deeper, mode, k)
    OBVIOUS
  <2>3. PICK r : r = Emit(pushed, c)
    OBVIOUS
  <2>4. BeginContainer(q, item, mode, begin) = r
    BY <1>1, <1>4, <2>1, <2>2, <2>3 DEF BeginContainer
  <2>5. PICK kind \in {"object", "array"} :
            \/ mode = "map_key" /\ begin = "begin_object" /\ kind = "object"
            \/ mode = "array" /\ begin = "begin_array" /\ kind = "array"
    OBVIOUS
  <2>6. mode \in Modes /\ begin \in Begin /\ begin \in Items /\ KindOf[begin] = kind /\ begin # "string_value"
    BY <2>5 DEF Modes, Begin, Items, KindOf
  <2>7. c = <<begin, k, "none">> /\ c[1] = begin /\ c[2] = k
    BY <2>1 DEF Untagged
  <2>8. IsItem(c)
    <3>1. k \in Int
      OBVIOUS
    <3> QED
      BY <2>6, <2>7, <3>1 DEF IsItem
  <2>9. MayBeGiven(g, c)
    BY <2>6, <2>7, ItemMayBeGiven
  <2>10. /\ ParserShape(pushed) /\ Len(pushed.stack) = Len(p.stack) + 1 /\ pushed.out = <<>>
         /\ Top(pushed) = [mode |-> mode, length |-> k, index |-> 0]
         /\ \A i \in 1..Len(p.stack) : pushed.stack[i] = p.stack[i]
    <3>1. k \in Nat
      OBVIOUS
    <3> HIDE DEF k
    <3>2. /\ ParserShape(pushed) /\ Len(pushed.stack) = Len(deeper.stack) + 1 /\ pushed.out = deeper.out
          /\ Top(pushed) = [mode |-> mode, length |-> k, index |-> 0]
          /\ \A i \in 1..Len(deeper.stack) : pushed.stack[i] = deeper.stack[i]
      BY <1>2, <2>2, <2>6, <3>1, StatePushed
    <3> QED
      BY <1>2, <3>2, Zenon
  <2>11. /\ ParserShape(r) /\ r.stack = pushed.stack /\ r.out = <<c>> /\ r.done = FALSE
         /\ Top(r) = Top(pushed)
    BY <2>3, <2>10, CallMade DEF ParserShape, Top
  <2>12. GivenShape(g) /\ g.status = "value" /\ n \in Nat /\ Len(p.stack) = n + 1 /\ p.stack[1].mode = "accept"
    BY DEF Receptive, SameDepth, GivenShape
  <2>13. PICK h : h = AfterGiven(g, c)
    OBVIOUS
  <2>14. Begun(g, h, kind, k)
    <3>1. h = [g EXCEPT !.open = Append(@, GivenLevel(KindOf[c[1]], c[2])), !.counted = @ /\ c[2] # Unsized]
      <4>1. c[1] \in Begin /\ c[1] \notin End /\ c[1] # "flush"
        BY <2>6, <2>7, <2>8, ItemKinds
      <4> QED
        BY <2>9, <2>13, <4>1 DEF AfterGiven
    <3>2. PICK counted \in BOOLEAN : counted = (g.counted /\ c[2] # Unsized)
      BY <2>12 DEF GivenShape
    <3>3. h = [g EXCEPT !.open = Append(g.open, GivenLevel(kind, k)), !.counted = counted]
      BY <2>6, <2>7, <3>1, <3>2
    <3>4. k \in Int
      OBVIOUS
    <3> QED
      BY <2>12, <3>3, <3>4, GivenPushed
  <2>15. /\ GivenShape(h) /\ h.status = "value" /\ Len(h.open) = n + 1 /\ h.open # <<>>
         /\ \A i \in 1..n : h.open[i] = g.open[i]
         /\ Last(h.open) = h.open[n + 1]
    BY <2>12, <2>14 DEF Begun, Last
  <2>16. /\ h.open[n + 1].kind = kind /\ h.open[n + 1].left = k
         /\ kind = "object" => h.open[n + 1].key = TRUE
         /\ kind = "array" => h.open[n + 1].key = FALSE
    BY <2>12, <2>14 DEF Begun
  <2>17. Holds(Top(r), Last(h.open))
    <3>1. PICK f : f = Top(r)
      OBVIOUS
    <3>2. f.mode = mode /\ f.length = k /\ f.index = 0 /\ f.length - f.index = k /\ f.index <= f.length
      BY <2>10, <2>11, <3>1
    <3> HIDE DEF k
    <3>3. Holds(f, h.open[n + 1])
      BY <2>5, <2>16, <3>2 DEF Holds
    <3> QED
      BY <2>15, <3>1, <3>3
  <2>18. ASSUME NEW i \in 1..(Len(h.open) - 1) PROVE Awaits(r.stack[i + 1], h.open[i])
    <3>1. i \in 1..n /\ i + 1 \in 1..Len(p.stack)
      BY <2>12, <2>15
    <3>2. r.stack[i + 1] = p.stack[i + 1] /\ h.open[i] = g.open[i]
      BY <2>10, <2>11, <2>15, <3>1
    <3> QED
      BY <3>1, <3>2 DEF Receptive
  <2>19. r.stack[1].mode = "accept"
    <3>1. 1 \in 1..Len(p.stack)
      BY <2>12
    <3> QED
      BY <2>10, <2>11, <2>12, <3>1
  <2>20. SameDepth(r, h)
    BY <2>10, <2>11, <2>12, <2>15 DEF SameDepth
  <2>21. Linked(r, h)
    BY <2>15, <2>17, <2>18, <2>19, <2>20 DEF Linked
  <2>22. Follows(r, g)
    BY <2>8, <2>9, <2>11, <2>13, <2>21 DEF Follows
  <2> QED
    BY <2>4, <2>22 DEF Leads
<1> QED
  BY <1>3, <1>4

\* Between two items: what the innermost container is for the caller.
LEMMA InnermostHeld ==
    ASSUME NEW p, NEW g, Linked(p, g), g.open # <<>>
    PROVE  /\ ParserShape(p) /\ GivenShape(g) /\ g.status = "value" /\ p.stack[1].mode = "accept"
           /\ Len(g.open) \in Nat /\ Len(g.open) > 0 /\ Len(p.stack) = Len(g.open) + 1
           /\ Last(g.open) = g.open[Len(g.open)] /\ Last(g.open) \in GivenLevels
           /\ Top(p) = p.stack[Len(g.open) + 1] /\ Top(p) \in Frames
           /\ Holds(Top(p), Last(g.open))
<1>1. ParserShape(p) /\ GivenShape(g) /\ Len(p.stack) = Len(g.open) + 1
  BY DEF Linked, SameDepth
<1>2. Len(g.open) \in Nat /\ Len(g.open) > 0 /\ Last(g.open) = g.open[Len(g.open)] /\ Last(g.open) \in GivenLevels
  BY <1>1 DEF GivenShape, Last
<1>3. Top(p) = p.stack[Len(g.open) + 1] /\ Top(p) \in Frames
  BY <1>1, StackDepth
<1> QED
  BY <1>1, <1>2, <1>3 DEF Linked

LEMMA Alone ==
    ASSUME NEW p, NEW g, Linked(p, g)
    PROVE  /\ ParserShape(p) /\ GivenShape(g) /\ Len(p.stack) = Len(g.open) + 1
           /\ Top(p).mode \in {"array", "map_key", "map_value"} => g.open # <<>>
           /\ Top(p).mode \in {"root", "accept"} => g.open = <<>> /\ Top(p) = p.stack[1] /\ Len(p.stack) = 1
<1>1. ParserShape(p) /\ GivenShape(g) /\ Len(p.stack) = Len(g.open) + 1
  BY DEF Linked, SameDepth
<1>2. CASE g.open = <<>>
  <2>1. Len(p.stack) = 1 /\ Top(p) = p.stack[1]
    BY <1>1, <1>2, StackDepth
  <2>2. p.stack[1].mode \in {"root", "accept"}
    BY <1>2 DEF Linked
  <2> QED
    BY <1>1, <1>2, <2>1, <2>2
<1>3. CASE g.open # <<>>
  <2>1. Top(p).mode \in {"array", "map_key", "map_value"}
    BY <1>3, InnermostHeld DEF Holds
  <2> QED
    BY <1>1, <1>3, <2>1
<1> QED
  BY <1>2, <1>3

\* A container ends.
LEMMA EndLeads ==
    ASSUME NEW p, NEW g, Linked(p, g), p.out = <<>>, ~More(p),
           NEW call, \/ Top(p).mode = "array" /\ call = "end_array"
                     \/ Top(p).mode = "map_key" /\ call = "end_object"
    PROVE  Leads(EndContainer(p, call), g)
<1> DEFINE n == Len(g.open)
<1>1. g.open # <<>>
  BY Alone
<1>2. /\ ParserShape(p) /\ GivenShape(g) /\ g.status = "value" /\ p.stack[1].mode = "accept"
      /\ n \in Nat /\ n > 0 /\ Len(p.stack) = n + 1
      /\ Last(g.open) = g.open[n] /\ Last(g.open) \in GivenLevels
      /\ Top(p) \in Frames /\ Holds(Top(p), Last(g.open))
  BY <1>1, InnermostHeld
<1>3. PICK c : c = Simple(call)
  OBVIOUS
<1>4. c = <<call, 0, "none">> /\ c[1] = call
  BY <1>3 DEF Simple
<1>5. call \in End /\ call \in Items /\ call \notin Begin /\ call # "string_value" /\ call # "flush"
  BY DEF End, Items, Begin
<1>6. IsItem(c)
  BY <1>4, <1>5 DEF IsItem
<1>7. /\ call = EndOf[Last(g.open).kind] /\ Last(g.open).left = 0
      /\ Last(g.open).kind = "object" => Last(g.open).key = TRUE
  <2>1. PICK f : f = Top(p)
    OBVIOUS
  <2>2. PICK l : l = Last(g.open)
    OBVIOUS
  <2>3. f.index \in Nat /\ f.length \in Nat /\ Holds(f, l) /\ ~(f.index < f.length)
    BY <1>2, <2>1, <2>2 DEF Frames, More
  <2>4. f.length - f.index = 0
    BY <2>3 DEF Holds
  <2>5. \/ call = "end_array" /\ l.kind = "array" /\ l.left = 0
        \/ call = "end_object" /\ l.kind = "object" /\ l.key = TRUE /\ l.left = 0
    <3>1. CASE f.mode = "array" /\ call = "end_array"
      BY <2>3, <2>4, <3>1 DEF Holds
    <3>2. CASE f.mode = "map_key" /\ call = "end_object"
      BY <2>3, <2>4, <3>2 DEF Holds
    <3> QED
      BY <2>1, <3>1, <3>2
  <2> QED
    BY <2>2, <2>5 DEF EndOf
<1>8. MayBeGiven(g, c)
  BY <1>1, <1>2, <1>4, <1>5, <1>7 DEF MayBeGiven
<1>9. PICK v : v = [g EXCEPT !.open = Front(g.open)]
  OBVIOUS
<1>10. AfterGiven(g, c) = ItemGiven(v)
  BY <1>4, <1>5, <1>8, <1>9 DEF AfterGiven
<1>11. Ended(g, v)
  BY <1>1, <1>2, <1>9, GivenPopped
<1>12. PICK s : s = Front(p.stack)
  OBVIOUS
<1>13. s \in Seq(Frames) /\ Len(s) = n /\ \A i \in 1..n : s[i] = p.stack[i]
  <2>1. s = SubSeq(p.stack, 1, n) /\ p.stack \in Seq(Frames)
    BY <1>2, <1>12, StackDepth DEF Front
  <2> QED
    BY <1>2, <2>1
<1>14. PICK e : e = Emit(p, c)
  OBVIOUS
<1>15. ParserShape(e) /\ e.stack = p.stack /\ e.out = <<c>>
  BY <1>2, <1>14, CallMade
<1>16. PICK depth : depth = e.depth - 1
  OBVIOUS
<1>17. PICK r : r = [e EXCEPT !.depth = depth, !.stack = s]
  OBVIOUS
<1>18. EndContainer(p, call) = r
  BY <1>3, <1>12, <1>14, <1>15, <1>16, <1>17 DEF EndContainer
<1>19. ParserShape(r) /\ r.stack = s /\ r.out = <<c>> /\ r.done = FALSE
  BY <1>2, <1>13, <1>15, <1>17 DEF ParserShape
<1>20. GivenShape(v) /\ v.status = "value" /\ Len(v.open) = n - 1 /\ \A i \in 1..(n - 1) : v.open[i] = g.open[i]
  BY <1>11 DEF Ended
<1>21. Receptive(r, v)
  <2>1. SameDepth(r, v)
    BY <1>2, <1>13, <1>19, <1>20 DEF SameDepth
  <2>2. r.stack[1].mode = "accept"
    BY <1>2, <1>13, <1>19
  <2>3. ASSUME NEW i \in 1..Len(v.open) PROVE Awaits(r.stack[i + 1], v.open[i])
    <3>1. i \in 1..(n - 1) /\ i + 1 \in 1..n
      BY <1>2, <1>20
    <3>2. Awaits(p.stack[i + 1], g.open[i])
      BY <1>1, <3>1 DEF Linked
    <3> QED
      BY <1>13, <1>19, <1>20, <3>1, <3>2
  <2> QED
    BY <1>20, <2>1, <2>2, <2>3 DEF Receptive
<1>22. Linked(r, AfterGiven(g, c))
  BY <1>10, <1>19, <1>21, ItemDone
<1>23. Follows(r, g)
  BY <1>6, <1>8, <1>19, <1>22 DEF Follows
<1> QED
  BY <1>18, <1>23 DEF Leads

\* The end of the source's value.
LEMMA AcceptLeads ==
    ASSUME NEW p, NEW g, Linked(p, g), p.out = <<>>, Top(p).mode = "accept"
    PROVE  Leads([Emit(p, Simple("flush")) EXCEPT !.stack = <<>>, !.done = TRUE], g)
<1>1. PICK c : c = Simple("flush")
  OBVIOUS
<1>2. c = <<"flush", 0, "none">> /\ c[1] = "flush"
  BY <1>1 DEF Simple
<1>3. IsItem(c)
  <2>1. "flush" \in Items /\ "flush" \notin Begin /\ "flush" # "string_value"
    BY DEF Items, Begin
  <2> QED
    BY <1>2, <2>1 DEF IsItem
<1>4. ParserShape(p) /\ GivenShape(g) /\ g.open = <<>> /\ p.stack[1].mode = "accept"
  BY Alone
<1>5. g.status = "complete"
  BY <1>4 DEF Linked
<1>6. MayBeGiven(g, c)
  BY <1>2, <1>5 DEF MayBeGiven
<1>7. AfterGiven(g, c) = [g EXCEPT !.status = "flushed"]
  BY <1>2, <1>3, <1>6, ItemKinds DEF AfterGiven
<1>8. AfterGiven(g, c).status = "flushed"
  BY <1>4, <1>7 DEF GivenShape
<1>9. PICK e : e = Emit(p, c)
  OBVIOUS
<1>10. ParserShape(e) /\ e.out = <<c>>
  BY <1>4, <1>9, CallMade
<1>11. PICK r : r = [e EXCEPT !.stack = <<>>, !.done = TRUE]
  OBVIOUS
<1>12. r.out = <<c>> /\ r.done = TRUE
  BY <1>10, <1>11 DEF ParserShape
<1>13. Follows(r, g)
  BY <1>3, <1>6, <1>8, <1>12 DEF Follows
<1> QED
  BY <1>1, <1>9, <1>11, <1>13 DEF Leads

-------------------------------------------------------------------------------
\* An item is read.

LEMMA CallOfScalar ==
    ASSUME NEW o \in Scalar, o # "typed_array", NEW x, NEW tag, o = "string_value" => x[1] # "joined"
    PROVE  IsItem(<<o, x, tag>>) /\ <<o, x, tag>>[1] \in Scalar
<1>1. o \in Items /\ o \notin Begin
  BY DEF Items, Begin, Scalar
<1> QED
  BY <1>1 DEF IsItem

LEMMA TextLeads ==
    ASSUME NEW p, NEW g, Receptive(p, g), NEW q, Quiet(q, p), NEW item, item[3][1] # "joined"
    PROVE  Leads(ReadText(q, item), g)
<1>1. PICK s : s = Taken(item[3], item[2])
  OBVIOUS
<1>2. s[1] # "joined"
  BY <1>1 DEF Taken
<1>3. PICK c : c = Untagged("string_value", s)
  OBVIOUS
<1>4. IsItem(c) /\ c[1] \in Scalar
  BY <1>2, <1>3, CallOfScalar DEF Untagged, Scalar
<1>5. Leads(Emit(q, c), g)
  BY <1>4, ScalarLeads
<1>6. Leads(Fail(q, "invalid_utf8_text_string"), g)
  BY StopsAt DEF Quiet
<1> QED
  BY <1>1, <1>3, <1>5, <1>6 DEF ReadText

LEMMA ExtensionLeads ==
    ASSUME NEW p, NEW g, Receptive(p, g), NEW q, Quiet(q, p), NEW length, NEW type, NEW content
    PROVE  Leads(ReadExtension(q, length, type, content), g)
<1> DEFINE r == ReadExtension(q, length, type, content)
<1>1. \E c : r = Emit(q, c) /\ IsItem(c) /\ c[1] \in Scalar
  <2> DEFINE seconds == content[2][1]
             nanoseconds == content[2][2]
  <2>1. PICK text : text = <<"nanos", <<seconds, IF seconds < 0 THEN -nanoseconds ELSE nanoseconds>>>>
    OBVIOUS
  <2>2. text[1] # "joined"
    BY <2>1
  <2>3. PICK bytes : bytes = <<Taken(content, length), type>>
    OBVIOUS
  <2>4. PICK four : four = <<"uint64_value", seconds, "epoch_second">>
    OBVIOUS
  <2>5. PICK eight : eight = <<"string_value", text, "epoch_nano">>
    OBVIOUS
  <2>6. PICK other : other = Untagged("ext_byte_string", bytes)
    OBVIOUS
  <2>7. r \in {Emit(q, four), Emit(q, eight), Emit(q, other)}
    BY <2>1, <2>3, <2>4, <2>5, <2>6 DEF ReadExtension
  <2>8. /\ IsItem(four) /\ four[1] \in Scalar
        /\ IsItem(eight) /\ eight[1] \in Scalar
        /\ IsItem(other) /\ other[1] \in Scalar
    BY <2>2, <2>4, <2>5, <2>6, CallOfScalar DEF Untagged, Scalar
  <2> QED
    BY <2>7, <2>8
<1> QED
  BY <1>1, ScalarLeads

LEMMA FormatLeads ==
    ASSUME NEW p, NEW g, Receptive(p, g), NEW q, Quiet(q, p), NEW item,
           item[1] \in Containers => item[2] \in Nat,
           item[1] \in Texts => item[3][1] # "joined"
    PROVE  Leads(ReadFormat(q, item), g)
<1> DEFINE format == item[1]
<1>1. ASSUME NEW o \in Scalar, o # "typed_array", o # "string_value", NEW x PROVE Leads(Emit(q, Untagged(o, x)), g)
  <2>1. PICK c : c = <<o, x, "none">>
    OBVIOUS
  <2>2. IsItem(c) /\ c[1] \in Scalar
    BY <1>1, <2>1, CallOfScalar
  <2>3. Leads(Emit(q, c), g)
    BY <2>2, ScalarLeads
  <2> QED
    BY <2>1, <2>3 DEF Untagged
<1>2. Leads(Emit(q, Simple("null_value")), g)
  <2>1. Leads(Emit(q, Untagged("null_value", 0)), g)
    BY <1>1 DEF Scalar
  <2> QED
    BY <2>1 DEF Simple, Untagged
<1>3. Leads(Emit(q, Untagged("uint64_value", item[2])), g)
  BY <1>1 DEF Scalar
<1>4. Leads(Emit(q, Untagged("int64_value", ToInt(item[2], WidthOf(format)))), g)
  BY <1>1 DEF Scalar
<1>5. Leads(Emit(q, Untagged("byte_string_value", Taken(item[3], item[2]))), g)
  BY <1>1 DEF Scalar
<1>6. Leads(Emit(q, Untagged("bool_value", format = "true")), g)
  BY <1>1 DEF Scalar
<1>7. Leads(Emit(q, Untagged("double_value", item[3])), g)
  BY <1>1 DEF Scalar
<1>8. Leads(Fail(q, "unknown_type"), g)
  BY StopsAt DEF Quiet
<1>9. Leads(ReadExtension(q, item[2][1], item[2][2], item[3]), g)
  BY ExtensionLeads
<1>10. ASSUME format \in Texts PROVE Leads(ReadText(q, item), g)
  BY <1>10, TextLeads
<1>11. ASSUME format \in {"fixmap", "map16", "map32"} PROVE Leads(BeginContainer(q, item, "map_key", "begin_object"), g)
  BY <1>11, BeginLeads DEF Containers
<1>12. ASSUME format \in {"fixarray", "array16", "array32"} PROVE Leads(BeginContainer(q, item, "array", "begin_array"), g)
  BY <1>12, BeginLeads DEF Containers
<1> QED
  BY <1>2, <1>3, <1>4, <1>5, <1>6, <1>7, <1>8, <1>9, <1>10, <1>11, <1>12 DEF ReadFormat

LEMMA ItemLeads ==
    ASSUME NEW p, NEW g, Receptive(p, g), p.out = <<>>, IsSource(source)
    PROVE  Leads(ReadItem(p), g)
<1>1. ParserShape(p) /\ p.pos \in Nat \ {0}
  BY DEF Receptive, SameDepth, ParserShape
<1>2. CASE p.pos > Len(source)
  BY <1>1, <1>2, StopsAt DEF ReadItem
<1>3. CASE ~(p.pos > Len(source))
  <2>1. Len(source) \in Nat
    BY Grown DEF IsSource
  <2>2. p.pos \in 1..Len(source)
    BY <1>1, <1>3, <2>1
  <2>3. PICK item : item = source[p.pos]
    OBVIOUS
  <2>4. (item[1] \in Containers => item[2] \in Nat) /\ (item[1] \in Texts => item[3][1] # "joined")
    BY <2>2, <2>3 DEF IsSource
  <2>5. PICK q : q = Skip(p)
    OBVIOUS
  <2>6. Quiet(q, p)
    BY <1>1, <2>5 DEF Skip, Quiet, ParserShape
  <2>7. Leads(ReadFormat(q, item), g)
    BY <2>4, <2>6, FormatLeads
  <2> QED
    BY <1>3, <2>3, <2>5, <2>7 DEF ReadItem
<1> QED
  BY <1>2, <1>3

\* The innermost container awaits the item that is read next.
LEMMA Awaited ==
    ASSUME NEW p, NEW g, Linked(p, g), p.out = <<>>, g.open # <<>>,
           NEW f, Awaits(f, Last(g.open)), NEW q, TopSet(q, p, f)
    PROVE  Receptive(q, g) /\ q.out = <<>>
<1> DEFINE n == Len(g.open)
<1>1. /\ GivenShape(g) /\ g.status = "value" /\ p.stack[1].mode = "accept"
      /\ n \in Nat /\ n > 0 /\ Len(p.stack) = n + 1 /\ Last(g.open) = g.open[n]
  BY InnermostHeld
<1>2. /\ ParserShape(q) /\ Len(q.stack) = n + 1 /\ q.out = <<>>
      /\ \A i \in 1..n : q.stack[i] = p.stack[i]
  BY <1>1 DEF TopSet
<1>3. q.stack[n + 1] = f
  <2>1. Top(q) = q.stack[n + 1]
    BY <1>2, StackDepth
  <2> QED
    BY <2>1 DEF TopSet
<1>4. ASSUME NEW i \in 1..n PROVE Awaits(q.stack[i + 1], g.open[i])
  <2>1. CASE i = n
    BY <1>1, <1>3, <2>1
  <2>2. CASE i # n
    <3>1. i \in 1..(n - 1) /\ i + 1 \in 1..n
      BY <1>1, <2>2
    <3>2. Awaits(p.stack[i + 1], g.open[i])
      BY <3>1 DEF Linked
    <3> QED
      BY <1>2, <3>1, <3>2
  <2> QED
    BY <2>1, <2>2
<1>5. q.stack[1].mode = "accept"
  <2>1. 1 \in 1..n
    BY <1>1
  <2> QED
    BY <1>1, <1>2, <2>1
<1>6. SameDepth(q, g)
  BY <1>1, <1>2 DEF SameDepth
<1> QED
  BY <1>1, <1>2, <1>4, <1>5, <1>6 DEF Receptive

\* An item of an array, and its end.
LEMMA ArrayLeads ==
    ASSUME NEW p, NEW g, Linked(p, g), p.out = <<>>, Top(p).mode = "array", IsSource(source)
    PROVE  Leads(IF More(p) THEN ReadItem(Counted(p)) ELSE EndContainer(p, "end_array"), g)
<1>1. CASE More(p)
  <2>1. g.open # <<>> /\ ParserShape(p)
    BY Alone
  <2>2. PICK top : top = Top(p)
    OBVIOUS
  <2>3. PICK l : l = Last(g.open)
    OBVIOUS
  <2>4. top \in Frames /\ Holds(top, l) /\ top.index < top.length /\ top.mode = "array"
    BY <1>1, <2>1, <2>2, <2>3, InnermostHeld DEF More
  <2>5. PICK f : f = [mode |-> top.mode, length |-> top.length, index |-> top.index + 1]
    OBVIOUS
  <2>6. f.mode = "array" /\ f.length = top.length /\ f.index = top.index + 1
    BY <2>4, <2>5
  <2>7. l.kind = "array" /\ l.key = FALSE /\ l.left = top.length - top.index
    BY <2>4 DEF Holds
  <2>8. top.length \in Nat /\ top.index \in Nat
    BY <2>4 DEF Frames
  <2>9. f.index <= f.length /\ l.left = f.length - f.index + 1
    BY <2>4, <2>6, <2>7, <2>8
  <2>10. Awaits(f, l)
    BY <2>6, <2>7, <2>9 DEF Awaits
  <2>11. TopSet(Counted(p), p, f)
    BY <2>1, <2>2, <2>5, ItemIsCounted
  <2>12. Leads(ReadItem(Counted(p)), g)
    BY <2>1, <2>3, <2>10, <2>11, Awaited, ItemLeads
  <2> QED
    BY <1>1, <2>12
<1>2. CASE ~More(p)
  BY <1>2, EndLeads
<1> QED
  BY <1>1, <1>2

\* A key of a map, and its end.
LEMMA MapKeyLeads ==
    ASSUME NEW p, NEW g, Linked(p, g), p.out = <<>>, Top(p).mode = "map_key", IsSource(source)
    PROVE  Leads(IF More(p) THEN ReadItem(SetMode(Counted(p), "map_value")) ELSE EndContainer(p, "end_object"), g)
<1>1. CASE More(p)
  <2>1. g.open # <<>> /\ ParserShape(p)
    BY Alone
  <2>2. PICK top : top = Top(p)
    OBVIOUS
  <2>3. PICK l : l = Last(g.open)
    OBVIOUS
  <2>4. top \in Frames /\ Holds(top, l) /\ top.index < top.length /\ top.mode = "map_key"
    BY <1>1, <2>1, <2>2, <2>3, InnermostHeld DEF More
  <2>5. PICK f : f = [mode |-> "map_value", length |-> top.length, index |-> top.index + 1]
    OBVIOUS
  <2>6. f.mode = "map_value" /\ f.length = top.length /\ f.index = top.index + 1
    BY <2>5
  <2>7. l.kind = "object" /\ l.key = TRUE /\ l.left = top.length - top.index
    BY <2>4 DEF Holds
  <2>8. top.length \in Nat /\ top.index \in Nat
    BY <2>4 DEF Frames
  <2>9. f.index <= f.length /\ l.left = f.length - f.index + 1
    BY <2>4, <2>6, <2>7, <2>8
  <2>10. Awaits(f, l)
    BY <2>6, <2>7, <2>9 DEF Awaits
  <2>11. PICK q : q = Counted(p)
    OBVIOUS
  <2>12. PICK counted : counted = [mode |-> top.mode, length |-> top.length, index |-> top.index + 1]
    OBVIOUS
  <2>13. TopSet(q, p, counted)
    BY <2>1, <2>2, <2>11, <2>12, ItemIsCounted
  <2>14. ParserShape(q) /\ Top(q) = counted /\ "map_value" \in Modes
    BY <2>13 DEF TopSet, Modes
  <2>15. counted.length = top.length /\ counted.index = top.index + 1
    BY <2>12
  <2>16. TopSet(SetMode(q, "map_value"), q, f)
    <3>1. TopSet(SetMode(q, "map_value"), q, [mode |-> "map_value", length |-> counted.length, index |-> counted.index])
      BY <2>14, ModeIsSet
    <3> QED
      BY <2>5, <2>15, <3>1
  <2>17. TopSet(SetMode(q, "map_value"), p, f)
    BY <2>13, <2>16 DEF TopSet
  <2>18. Leads(ReadItem(SetMode(q, "map_value")), g)
    BY <2>1, <2>3, <2>10, <2>17, Awaited, ItemLeads
  <2> QED
    BY <1>1, <2>11, <2>18
<1>2. CASE ~More(p)
  BY <1>2, EndLeads
<1> QED
  BY <1>1, <1>2

LEMMA MapValueLeads ==
    ASSUME NEW p, NEW g, Linked(p, g), p.out = <<>>, Top(p).mode = "map_value", IsSource(source)
    PROVE  Leads(ReadItem(SetMode(p, "map_key")), g)
<1>1. g.open # <<>> /\ ParserShape(p)
  BY Alone
<1>2. PICK top : top = Top(p)
  OBVIOUS
<1>3. PICK l : l = Last(g.open)
  OBVIOUS
<1>4. Holds(top, l) /\ top.mode = "map_value"
  BY <1>1, <1>2, <1>3, InnermostHeld
<1>5. PICK f : f = [mode |-> "map_key", length |-> top.length, index |-> top.index]
  OBVIOUS
<1>6. f.mode = "map_key" /\ f.length = top.length /\ f.index = top.index
  BY <1>5
<1>7. l.kind = "object" /\ l.key = FALSE /\ l.left = top.length - top.index + 1 /\ top.index <= top.length
  BY <1>4 DEF Holds
<1>8. Awaits(f, l)
  BY <1>6, <1>7 DEF Awaits
<1>9. TopSet(SetMode(p, "map_key"), p, f)
  BY <1>1, <1>2, <1>5, ModeIsSet DEF Modes
<1> QED
  BY <1>1, <1>3, <1>8, <1>9, Awaited, ItemLeads

LEMMA RootLeads ==
    ASSUME NEW p, NEW g, Linked(p, g), p.out = <<>>, Top(p).mode = "root", IsSource(source)
    PROVE  Leads(ReadItem(SetMode(p, "accept")), g)
<1>1. ParserShape(p) /\ GivenShape(g) /\ g.open = <<>> /\ Len(p.stack) = 1 /\ Top(p) = p.stack[1]
  BY Alone
<1>2. g.status = "value"
  BY <1>1 DEF Linked
<1>3. PICK q : q = SetMode(p, "accept")
  OBVIOUS
<1>4. TopSet(q, p, [mode |-> "accept", length |-> Top(p).length, index |-> Top(p).index])
  BY <1>1, <1>3, ModeIsSet DEF Modes
<1>5. ParserShape(q) /\ Len(q.stack) = 1 /\ q.out = <<>> /\ Top(q).mode = "accept"
  BY <1>1, <1>4 DEF TopSet
<1>6. q.stack[1].mode = "accept"
  BY <1>5, StackDepth
<1>7. Len(g.open) = 0
  BY <1>1
<1>8. SameDepth(q, g)
  BY <1>1, <1>5, <1>7 DEF SameDepth
<1>9. Receptive(q, g)
  BY <1>2, <1>6, <1>7, <1>8 DEF Receptive
<1> QED
  BY <1>3, <1>5, <1>9, ItemLeads

-------------------------------------------------------------------------------
\* The parser with its callee.

LEMMA Cleared ==
    ASSUME NEW p, NEW g, Linked(p, g), NEW q, q = [p EXCEPT !.out = <<>>]
    PROVE  Linked(q, g) /\ q.out = <<>> /\ Top(q) = Top(p)
<1>1. ParserShape(p) /\ q.stack = p.stack /\ q.out = <<>> /\ ParserShape(q)
  BY DEF Linked, SameDepth, ParserShape
<1>2. Top(q) = Top(p)
  BY <1>1 DEF Top
<1>3. Linked(q, g)
  BY <1>1, <1>2 DEF Linked, SameDepth
<1> QED
  BY <1>1, <1>2, <1>3

\* An iteration of the parser.
LEMMA ParseLeads ==
    ASSUME MInv, Parse
    PROVE  Leads(parser', given)
<1>1. PICK p : p = [parser EXCEPT !.out = <<>>]
  OBVIOUS
<1>2. ~parser.done /\ parser.ec = "none" /\ Linked(parser, given) /\ IsSource(source)
  BY DEF Parse, ParseRoot, ParseMapKey, ParseMapValue, ParseArray, ParseAccept, Parsing, MInv
<1>3. Linked(p, given) /\ p.out = <<>> /\ Top(p) = Top(parser)
  BY <1>1, <1>2, Cleared
<1>4. CASE ParseRoot
  <2>1. Top(parser).mode = "root" /\ parser' = ReadItem(SetMode(p, "accept"))
    BY <1>1, <1>4 DEF ParseRoot, Parsing
  <2> QED
    BY <1>2, <1>3, <2>1, RootLeads
<1>5. CASE ParseArray
  <2>1. /\ Top(parser).mode = "array"
        /\ parser' = IF More(p) THEN ReadItem(Counted(p)) ELSE EndContainer(p, "end_array")
    BY <1>1, <1>5 DEF ParseArray, Parsing
  <2> QED
    BY <1>2, <1>3, <2>1, ArrayLeads
<1>6. CASE ParseMapKey
  <2>1. /\ Top(parser).mode = "map_key"
        /\ parser' = IF More(p) THEN ReadItem(SetMode(Counted(p), "map_value")) ELSE EndContainer(p, "end_object")
    BY <1>1, <1>6 DEF ParseMapKey, Parsing
  <2> QED
    BY <1>2, <1>3, <2>1, MapKeyLeads
<1>7. CASE ParseMapValue
  <2>1. Top(parser).mode = "map_value" /\ parser' = ReadItem(SetMode(p, "map_key"))
    BY <1>1, <1>7 DEF ParseMapValue, Parsing
  <2> QED
    BY <1>2, <1>3, <2>1, MapValueLeads
<1>8. CASE ParseAccept
  <2>1. Top(parser).mode = "accept" /\ parser' = [Emit(p, Simple("flush")) EXCEPT !.stack = <<>>, !.done = TRUE]
    BY <1>1, <1>8 DEF ParseAccept, Parsing
  <2> QED
    BY <1>3, <2>1, AcceptLeads
<1> QED
  BY <1>4, <1>5, <1>6, <1>7, <1>8 DEF Parse

LEMMA MsgpackInitial ==
    ASSUME MsgpackInit
    PROVE  MInv
<1>1. parser = NewParser /\ given = NothingGiven /\ IsSource(source)
  BY DEF MsgpackInit, Init, AdaptorInit
<1>2. PICK frame : frame = [mode |-> "root", length |-> 0, index |-> 0]
  OBVIOUS
<1>3. frame \in Frames /\ frame.mode = "root"
  BY <1>2 DEF Frames, Modes
<1>4. /\ parser.stack = <<frame>> /\ parser.done = FALSE /\ parser.pos = 1
      /\ DOMAIN parser = {"pos", "stack", "depth", "done", "ec", "out"}
  BY <1>1, <1>2 DEF NewParser
<1>5. <<frame>> \in Seq(Frames) /\ Len(<<frame>>) = 1 /\ <<frame>>[1] = frame
  BY <1>3
<1>6. ParserShape(parser)
  BY <1>4, <1>5 DEF ParserShape
<1>7. given.open = <<>> /\ given.status = "value" /\ GivenShape(given) /\ Len(given.open) = 0
  BY <1>1 DEF NothingGiven, GivenShape
<1>8. SameDepth(parser, given)
  BY <1>4, <1>5, <1>6, <1>7 DEF SameDepth
<1>9. Linked(parser, given)
  BY <1>3, <1>4, <1>5, <1>7, <1>8 DEF Linked
<1> QED
  BY <1>1, <1>4, <1>9 DEF MInv

\* An iteration of the parser keeps the invariant and is a call that may follow, or none.
LEMMA DecodeKeeps ==
    ASSUME MInv, ChainInv, Decode
    PROVE  MInv' /\ GiveNext
<1>1. Leads(parser', given) /\ IsSource(source')
  <2>1. source' = source
    BY DEF Decode, Parse, ParseRoot, ParseMapKey, ParseMapValue, ParseArray, ParseAccept, Parsing
  <2> QED
    BY <2>1, ParseLeads DEF Decode, MInv
<1>2. CASE Stops(parser')
  <2>1. GiveNothing
    BY <1>2, GivesNothing DEF Decode, Stops
  <2>2. MInv'
    BY <1>1, <1>2 DEF Stops, MInv
  <2> QED
    BY <2>1, <2>2 DEF GiveNext
<1>3. CASE Follows(parser', given)
  <2>1. PICK c : /\ parser'.out = <<c>> /\ IsItem(c) /\ MayBeGiven(given, c)
                 /\ parser'.done \in BOOLEAN
                 /\ parser'.ec = "none" /\ ~parser'.done => Linked(parser', AfterGiven(given, c))
                 /\ parser'.done => AfterGiven(given, c).status = "flushed"
    BY <1>3 DEF Follows
  <2>2. Give(c)
    BY <2>1, GivesItem DEF Decode
  <2>3. given' = AfterGiven(given, c)
    BY <2>2 DEF Give
  <2>4. MInv'
    BY <1>1, <2>1, <2>3 DEF MInv
  <2> QED
    BY <2>1, <2>2, <2>4 DEF GiveNext
<1> QED
  BY <1>1, <1>2, <1>3 DEF Leads

LEMMA MsgpackStep ==
    ASSUME MInv, ChainInv, [MsgpackNext]_msgpackVars
    PROVE  MInv' /\ [GiveNext]_chainVars
<1>1. CASE Decode
  BY <1>1, DecodeKeeps
<1>2. CASE SourceChanges
  BY <1>2 DEF SourceChanges, MInv, chainVars
<1>3. CASE UNCHANGED msgpackVars
  BY <1>3 DEF msgpackVars, MInv, chainVars
<1> QED
  BY <1>1, <1>2, <1>3 DEF MsgpackNext

LEMMA MsgpackInvariant == MsgpackSpec => [](MInv /\ ChainInv)
<1>1. MsgpackInit => MInv /\ ChainInv
  BY MsgpackInitial, ChainReady DEF MsgpackInit
<1>2. MInv /\ ChainInv /\ [MsgpackNext]_msgpackVars => MInv' /\ ChainInv'
  BY MsgpackStep, StepGiven
<1> QED
  BY <1>1, <1>2, PTL DEF MsgpackSpec

\* The parser and its loop are a caller that keeps the order of generic_visitor, whatever
\* the source holds, and gives every container the items that it announces:
\* basic_msgpack_parser on a basic_generic_to_json_visitor.
THEOREM MsgpackParserIsACaller == MsgpackSpec => GiveSpec
<1>1. MsgpackInit => AdaptorInit
  BY DEF MsgpackInit
<1>2. MInv /\ ChainInv /\ [MsgpackNext]_msgpackVars => [GiveNext]_chainVars
  BY MsgpackStep
<1> QED
  BY <1>1, <1>2, MsgpackInvariant, PTL DEF MsgpackSpec, GiveSpec

\* When the parser is done the decoder has one value and nothing is left on its stacks.
DecodedAlone ==
    parser.done => decoder.valid /\ decoder.items = <<>> /\ Len(decoder.structures) = 1

\* Decoding MessagePack never trips an assertion of the adaptor or of the decoder, keeps
\* the counts of its containers, and leaves one value when the parser is done.
THEOREM MsgpackDecodes ==
    MsgpackSpec => [](CountsKept /\ NoAssertionFails /\ KeysSeparated /\ DecodedAlone)
<1>1. MInv /\ ChainInv /\ ValueIsAlone => DecodedAlone
  BY DEF MInv, ChainInv, Adapted, Outer, ValueIsAlone, DecodedAlone
<1> QED
  BY <1>1, MsgpackInvariant, MsgpackParserIsACaller, AdaptorIsACaller, DecoderIsDone,
     ChainKeepsCounts, ChainAssertionsHold, KeysAreSeparated, PTL
===============================================================================
