-------------------------- MODULE JsonDecoderProofs ---------------------------
(***************************************************************************)
(* json_decoder under any caller that keeps the order of VisitorCalls: its *)
(* assertions hold, and when the top-level value is complete it has it and *)
(* nothing else.                                                           *)
(***************************************************************************)
EXTENDS JsonDecoder, SequenceTheorems, TLAPS

Operations == Begin \cup End \cup Scalar \cup {"key", "flush"}

\* What a caller may call: containers may announce any number of items.
IsCall(c) == \E o \in Operations : \E x, tag : c = <<o, x, tag>> /\ (o \in Begin => x \in Int)

InitWithCaller == DecoderInit

Call(c) == MayFollow(asked, c) /\ asked' = After(asked, c) /\ decoder' = Visit(decoder, c)

\* The decoder with its caller.
NextWithCaller == \E c : IsCall(c) /\ Call(c)
SpecWithCaller == InitWithCaller /\ [][NextWithCaller]_<<asked, decoder>>

\* Neither an assertion of the functions that end a container, nor the one
\* that there is a container to end, fails.
AssertionsHold == ~decoder.failed

\* When the top-level value is complete the decoder has a value, and neither
\* containers nor items are left on its stacks.
ValueIsAlone ==
    asked.status \in {"complete", "flushed"} =>
        decoder.valid /\ decoder.items = <<>> /\ Len(decoder.structures) = 1

-------------------------------------------------------------------------------

Kinds == {"object", "array", "multi_dim"}
Levels == [kind : Kinds, left : Int, keyed : BOOLEAN]
Structures == [kind : Kinds \cup {"root"}, at : Nat]
IsSequence(s) == \E S : s \in Seq(S)

\* The members of the decoder that the assertions are about.
DecoderShape(d) ==
    /\ DOMAIN d = {"structures", "items", "index", "name", "result", "valid", "failed"}
    /\ d.structures \in Seq(Structures) /\ Len(d.structures) > 0
    /\ IsSequence(d.items)
    /\ d.failed = FALSE

AskedShape(w) ==
    /\ w \in [open : Seq(Levels), status : {"value", "complete", "flushed"}]
    /\ w.status # "value" => w.open = <<>>

\* The open containers of the caller are the structures above the root.
SameContainers(d, w) ==
    /\ Len(d.structures) = Len(w.open) + 1
    /\ d.structures[1].kind = "root"
    /\ \A i \in 1..Len(w.open) : d.structures[i + 1].kind = w.open[i].kind

\* Each container begins on an item of its own, the outermost on the first.
ItemsBegin(d) ==
    /\ \A i \in 2..Len(d.structures) : d.structures[i].at \in 1..Len(d.items)
    /\ \A i, j \in 2..Len(d.structures) : i < j => d.structures[i].at < d.structures[j].at
    /\ Len(d.structures) > 1 => d.structures[2].at = 1
    /\ Len(d.structures) = 1 => d.items = <<>>

Agree(d, w) ==
    /\ DecoderShape(d) /\ AskedShape(w)
    /\ SameContainers(d, w) /\ ItemsBegin(d)
    /\ w.status # "value" => d.valid = TRUE

IInv == Agree(decoder, asked)

\* A sequence of anything grows at its end.
LEMMA Grown ==
    ASSUME NEW s, IsSequence(s), NEW x
    PROVE  /\ IsSequence(Append(s, x)) /\ Len(s) \in Nat /\ Len(Append(s, x)) = Len(s) + 1
           /\ \A i \in 1..Len(s) : Append(s, x)[i] = s[i]
           /\ Append(s, x)[Len(s) + 1] = x
<1>1. PICK S : s \in Seq(S)
  BY DEF IsSequence
<1>2. s \in Seq(S \cup {x}) /\ x \in S \cup {x}
  BY <1>1, SeqMonotonic
<1>3. Append(s, x) \in Seq(S \cup {x})
  BY <1>2
<1> QED
  BY <1>2, <1>3 DEF IsSequence

\* The first elements of a sequence of anything.
LEMMA Shortened ==
    ASSUME NEW s, IsSequence(s), NEW n \in 0..Len(s)
    PROVE  /\ IsSequence(SubSeq(s, 1, n)) /\ Len(SubSeq(s, 1, n)) = n
           /\ \A i \in 1..n : SubSeq(s, 1, n)[i] = s[i]
<1>1. PICK S : s \in Seq(S)
  BY DEF IsSequence
<1>2. SubSeq(s, 1, n) \in Seq(S) /\ Len(SubSeq(s, 1, n)) = n /\ \A i \in 1..n : SubSeq(s, 1, n)[i] = s[i]
  BY <1>1, SMTT(30)
<1> QED
  BY <1>2 DEF IsSequence

\* The sequence without its last element.
LEMMA WithoutLast ==
    ASSUME NEW S, NEW s \in Seq(S), s # <<>>
    PROVE  /\ Len(s) \in Nat /\ Len(s) > 0
           /\ SubSeq(s, 1, Len(s) - 1) \in Seq(S) /\ Len(SubSeq(s, 1, Len(s) - 1)) = Len(s) - 1
           /\ \A i \in 1..(Len(s) - 1) : SubSeq(s, 1, Len(s) - 1)[i] = s[i]
<1>1. PICK n \in Nat : n = Len(s)
  BY LenProperties
<1>2. n > 0
  BY <1>1, EmptySeq
<1>3. \A i \in 1..(n - 1) : s[i] \in S
  BY <1>1, ElementOfSeq
<1>4. PICK t : t = SubSeq(s, 1, n - 1)
  OBVIOUS
<1>5. t \in Seq(S) /\ (Len(t) = IF 1 <= n - 1 THEN n - 1 - 1 + 1 ELSE 0) /\ \A i \in 1..(n - 1 - 1 + 1) : t[i] = s[1 + i - 1]
  <2>1. 1 \in Int /\ n - 1 \in Int
    OBVIOUS
  <2> QED
    BY <1>3, <1>4, <2>1, SubSeqProperties
<1>6. n - 1 - 1 + 1 = n - 1 /\ (IF 1 <= n - 1 THEN n - 1 - 1 + 1 ELSE 0) = n - 1
  BY <1>2
<1>7. Len(t) = n - 1
  BY <1>5, <1>6, Zenon
<1>8. \A i \in 1..(n - 1) : t[i] = s[i]
  <2> SUFFICES ASSUME NEW i \in 1..(n - 1) PROVE t[i] = s[i]
    OBVIOUS
  <2>1. t[i] = s[1 + i - 1]
    BY <1>5, <1>6
  <2>2. 1 + i - 1 = i
    OBVIOUS
  <2> QED
    BY <2>1, <2>2
<1> QED
  BY <1>1, <1>2, <1>4, <1>5, <1>7, <1>8, Zenon

\* The innermost structure is of the kind of the innermost container, or the root.
LEMMA InnermostKind ==
    ASSUME NEW d, NEW w, Agree(d, w)
    PROVE  /\ Last(d.structures) = d.structures[Len(d.structures)]
           /\ w.open = <<>> => Last(d.structures).kind = "root" /\ Len(d.structures) = 1
           /\ w.open # <<>> => /\ Last(d.structures).kind = Last(w.open).kind
                               /\ Last(d.structures).kind \in Kinds
                               /\ Last(w.open) = w.open[Len(w.open)] /\ Len(w.open) > 0
                               /\ Len(d.structures) > 1
<1>1. w.open \in Seq(Levels) /\ d.structures \in Seq(Structures) /\ Len(d.structures) = Len(w.open) + 1
  BY DEF Agree, AskedShape, DecoderShape, SameContainers
<1>2. CASE w.open = <<>>
  BY <1>1, <1>2 DEF Agree, SameContainers, Last
<1>3. CASE w.open # <<>>
  <2>1. Len(w.open) \in Nat /\ Len(w.open) > 0
    BY <1>1, <1>3
  <2>2. d.structures[Len(w.open) + 1].kind = w.open[Len(w.open)].kind
    BY <2>1 DEF Agree, SameContainers
  <2>3. w.open[Len(w.open)] \in Levels
    BY <1>1, <2>1
  <2> QED
    BY <1>1, <1>3, <2>1, <2>2, <2>3 DEF Last, Levels
<1> QED
  BY <1>2, <1>3

\* A value in a container: one more item, and the containers are as they were.
LEMMA ItemPushed ==
    ASSUME NEW d, NEW w, Agree(d, w), w.open # <<>>, NEW value
    PROVE  /\ DecoderShape(PushItem(d, value))
           /\ PushItem(d, value).structures = d.structures
           /\ Len(d.items) \in Nat /\ Len(PushItem(d, value).items) = Len(d.items) + 1
           /\ \A i \in 1..Len(d.items) : PushItem(d, value).items[i] = d.items[i]
           /\ ItemsBegin(PushItem(d, value))
<1>1. DecoderShape(d) /\ ItemsBegin(d) /\ Len(d.structures) > 1
  BY InnermostKind DEF Agree
<1>2. PICK item : PushItem(d, value).items = Append(d.items, item)
  BY <1>1 DEF PushItem, DecoderShape
<1>3. /\ DOMAIN PushItem(d, value) = DOMAIN d /\ PushItem(d, value).structures = d.structures
      /\ PushItem(d, value).failed = d.failed
  BY <1>1 DEF PushItem, DecoderShape
<1>4. /\ IsSequence(PushItem(d, value).items) /\ Len(d.items) \in Nat
      /\ Len(PushItem(d, value).items) = Len(d.items) + 1
      /\ \A i \in 1..Len(d.items) : PushItem(d, value).items[i] = d.items[i]
  BY <1>1, <1>2, Grown DEF DecoderShape
<1>5. DecoderShape(PushItem(d, value))
  BY <1>1, <1>3, <1>4 DEF DecoderShape
<1>6. \A i \in 2..Len(d.structures) : d.structures[i].at \in 1..(Len(d.items) + 1)
  BY <1>1, <1>4 DEF ItemsBegin
<1>7. ItemsBegin(PushItem(d, value))
  <2> DEFINE after == PushItem(d, value)
  <2>1. after.structures = d.structures /\ Len(after.items) = Len(d.items) + 1
    BY <1>3, <1>4
  <2> HIDE DEF after
  <2>2. \A i \in 2..Len(after.structures) : after.structures[i].at \in 1..Len(after.items)
    BY <1>6, <2>1
  <2>3. /\ \A i, j \in 2..Len(after.structures) : i < j => after.structures[i].at < after.structures[j].at
        /\ Len(after.structures) > 1 => after.structures[2].at = 1
        /\ Len(after.structures) # 1
    BY <1>1, <2>1 DEF ItemsBegin
  <2> QED
    BY <2>2, <2>3 DEF after, ItemsBegin
<1> QED
  BY <1>3, <1>4, <1>5, <1>7

\* A value is complete for the caller.
LEMMA LevelsKept ==
    ASSUME NEW w, AskedShape(w), w.open # <<>>
    PROVE  /\ AskedShape(ValueMade(w)) /\ ValueMade(w).status = w.status
           /\ Len(ValueMade(w).open) = Len(w.open)
           /\ \A i \in 1..Len(w.open) : ValueMade(w).open[i].kind = w.open[i].kind
<1>1. w.open \in Seq(Levels) /\ Len(w.open) \in Nat /\ Len(w.open) > 0
  BY DEF AskedShape
<1> DEFINE top == w.open[Len(w.open)]
           after == [top EXCEPT !.left = IF top.left = Unsized THEN Unsized ELSE top.left - 1,
                                !.keyed = FALSE]
<1>2. top \in Levels
  BY <1>1
<1>3. after \in Levels /\ after.kind = top.kind
  <2>1. PICK n \in Int : n = IF top.left = Unsized THEN Unsized ELSE top.left - 1
    BY <1>2 DEF Levels, Unsized
  <2>2. after = [top EXCEPT !.left = n, !.keyed = FALSE]
    BY <2>1
  <2> HIDE DEF top, after
  <2>3. after = [kind |-> top.kind, left |-> n, keyed |-> FALSE]
    BY <1>2, <2>2 DEF Levels
  <2> QED
    BY <1>2, <2>1, <2>3 DEF Levels
<1>4. ValueMade(w) = [w EXCEPT !.open = [w.open EXCEPT ![Len(w.open)] = after]]
  BY <1>1 DEF ValueMade, Last, AskedShape
<1> HIDE DEF after
<1>5. /\ [w.open EXCEPT ![Len(w.open)] = after] \in Seq(Levels)
      /\ Len([w.open EXCEPT ![Len(w.open)] = after]) = Len(w.open)
  BY <1>1, <1>3, ExceptSeq
<1>6. \A i \in 1..Len(w.open) : [w.open EXCEPT ![Len(w.open)] = after][i].kind = w.open[i].kind
  BY <1>1, <1>3
<1>7. w.status = "value"
  BY DEF AskedShape
<1> QED
  BY <1>4, <1>5, <1>6, <1>7 DEF AskedShape

\* Ending a value in a container keeps the containers.
LEMMA ValueInside ==
    ASSUME NEW d, NEW w, NEW e, Agree(d, w), w.open # <<>>,
           DecoderShape(e), ItemsBegin(e), e.structures = d.structures
    PROVE  Agree(e, ValueMade(w))
<1>1. AskedShape(w) /\ SameContainers(d, w)
  BY DEF Agree
<1>2. w.status = "value"
  BY <1>1 DEF AskedShape
<1> QED
  BY <1>1, <1>2, LevelsKept DEF Agree, SameContainers

\* A scalar.
LEMMA ScalarSeen ==
    ASSUME NEW d, NEW w, Agree(d, w), NEW c, IsCall(c), c[1] \in Scalar, MayFollow(w, c)
    PROVE  Agree(Visit(d, c), After(w, c))
<1>1. Visit(d, c) = VisitScalar(d, c) /\ After(w, c) = ValueMade(w)
  BY DEF Visit, After, Scalar, Begin, End, Agree, DecoderShape
<1>2. CASE w.open = <<>>
  <2>1. Last(d.structures).kind = "root"
    BY <1>2, InnermostKind
  <2>2. Visit(d, c) = [d EXCEPT !.result = c, !.valid = TRUE]
    BY <1>1, <2>1 DEF VisitScalar
  <2>3. After(w, c) = [w EXCEPT !.status = "complete"]
    BY <1>1, <1>2 DEF ValueMade
  <2> QED
    BY <1>2, <2>2, <2>3 DEF Agree, DecoderShape, AskedShape, SameContainers, ItemsBegin
<1>3. CASE w.open # <<>>
  <2>1. Visit(d, c) = PushItem(d, c)
    BY <1>1, <1>3, InnermostKind DEF VisitScalar, Kinds
  <2> QED
    BY <1>1, <1>3, <2>1, ItemPushed, ValueInside
<1> QED
  BY <1>2, <1>3

\* The key of a member.
LEMMA KeySeen ==
    ASSUME NEW d, NEW w, Agree(d, w), NEW c, IsCall(c), c[1] = "key", MayFollow(w, c)
    PROVE  Agree(Visit(d, c), After(w, c))
<1>1. Visit(d, c) = [d EXCEPT !.name = c[2]] /\ After(w, c) = [w EXCEPT !.open[Len(w.open)].keyed = TRUE]
  BY DEF Visit, After, Scalar, Begin, End, Agree, DecoderShape
<1>2. w.status = "value" /\ w.open # <<>>
  <2>1. w.status = "value"
    BY DEF MayFollow
  <2> QED
    BY <2>1 DEF MayFollow, Scalar, Begin, End
<1>3. w.open \in Seq(Levels) /\ Len(w.open) \in Nat /\ Len(w.open) > 0
  BY <1>2 DEF Agree, AskedShape
<1>4. PICK l \in Levels : l = [w.open[Len(w.open)] EXCEPT !.keyed = TRUE] /\ l.kind = w.open[Len(w.open)].kind
  <2> DEFINE top == w.open[Len(w.open)]
  <2>1. top \in Levels
    BY <1>3
  <2> HIDE DEF top
  <2>2. \A b \in BOOLEAN : [top EXCEPT !.keyed = b] \in Levels /\ [top EXCEPT !.keyed = b].kind = top.kind
    BY <2>1 DEF Levels
  <2> QED
    BY <2>2 DEF top
<1>5. After(w, c) = [w EXCEPT !.open = [w.open EXCEPT ![Len(w.open)] = l]]
  BY <1>1, <1>4 DEF Agree, AskedShape
<1>6. [w.open EXCEPT ![Len(w.open)] = l] \in Seq(Levels) /\ Len([w.open EXCEPT ![Len(w.open)] = l]) = Len(w.open)
  BY <1>3, <1>4, ExceptSeq
<1>7. \A i \in 1..Len(w.open) : [w.open EXCEPT ![Len(w.open)] = l][i].kind = w.open[i].kind
  BY <1>3, <1>4
<1>8. AskedShape(After(w, c)) /\ SameContainers(Visit(d, c), After(w, c)) /\ After(w, c).status = "value"
  <2> DEFINE open == [w.open EXCEPT ![Len(w.open)] = l]
  <2>1. After(w, c).open = open /\ After(w, c).status = "value" /\ AskedShape(After(w, c))
    <3> HIDE DEF open
    <3> QED
      BY <1>2, <1>5, <1>6 DEF Agree, AskedShape, open
  <2>2. Visit(d, c).structures = d.structures
    BY <1>1 DEF Agree, DecoderShape
  <2> QED
    BY <1>6, <1>7, <2>1, <2>2 DEF Agree, SameContainers
<1>9. DecoderShape(Visit(d, c)) /\ ItemsBegin(Visit(d, c))
  BY <1>1 DEF Agree, DecoderShape, ItemsBegin
<1> QED
  BY <1>8, <1>9 DEF Agree

\* The end of the text.
LEMMA FlushSeen ==
    ASSUME NEW d, NEW w, Agree(d, w), NEW c, IsCall(c), c[1] = "flush", MayFollow(w, c)
    PROVE  Agree(Visit(d, c), After(w, c))
<1>1. Visit(d, c) = d /\ After(w, c) = [w EXCEPT !.status = "flushed"] /\ w.status = "complete"
  BY DEF Visit, After, MayFollow, Scalar, Begin, End, Agree, DecoderShape
<1> QED
  BY <1>1 DEF Agree, AskedShape, SameContainers

\* A container begins with an item of its own.
LEMMA BeginSeen ==
    ASSUME NEW d, NEW w, Agree(d, w), NEW c, IsCall(c), c[1] \in Begin, MayFollow(w, c)
    PROVE  Agree(Visit(d, c), After(w, c))
<1> DEFINE kind == KindOf[c[1]]
           n == IF c[1] = "begin_multi_dim" THEN 1 ELSE c[2]
           pushed == PushItem(d, <<kind, <<>>, c[3]>>)
           structure == Structure(kind, Len(d.items) + 1)
<1>1. /\ Visit(d, c) = [pushed EXCEPT !.structures = Append(@, structure)]
      /\ After(w, c) = [w EXCEPT !.open = Append(@, Opened(kind, n))]
  BY DEF Visit, After, Scalar, Begin, End, Agree, DecoderShape, VisitBegin
<1>2. kind \in Kinds /\ n \in Int /\ w.status = "value"
  BY DEF KindOf, Kinds, Begin, IsCall, MayFollow, Scalar, End
<1>3. Opened(kind, n) \in Levels /\ Opened(kind, n).kind = kind
  BY <1>2 DEF Opened, Levels
<1>4. w.open \in Seq(Levels) /\ d.structures \in Seq(Structures) /\ Len(d.structures) = Len(w.open) + 1
  BY DEF Agree, AskedShape, DecoderShape, SameContainers
<1>5. /\ DecoderShape(pushed) /\ pushed.structures = d.structures
      /\ Len(d.items) \in Nat /\ Len(pushed.items) = Len(d.items) + 1
      /\ w.open = <<>> => d.items = <<>>
  <2>1. CASE w.open # <<>>
    BY <2>1, ItemPushed
  <2>2. CASE w.open = <<>>
    <3>1. DecoderShape(d) /\ d.items = <<>> /\ Last(d.structures).kind = "root"
      BY <2>2, InnermostKind DEF Agree, ItemsBegin
    <3> DEFINE item == DecodedItem(NoName, 0, <<kind, <<>>, c[3]>>)
    <3>2. pushed = [d EXCEPT !.items = Append(@, item)]
      BY <3>1 DEF PushItem, InObject
    <3> HIDE DEF item, pushed
    <3>3. IsSequence(d.items) /\ Len(d.items) = 0
      BY <3>1 DEF DecoderShape
    <3>4. IsSequence(Append(d.items, item)) /\ Len(Append(d.items, item)) = 1
      BY <3>3, Grown
    <3> QED
      BY <3>1, <3>2, <3>3, <3>4 DEF DecoderShape
  <2> QED
    BY <2>1, <2>2
<1>6. structure \in Structures /\ structure.kind = kind /\ structure.at = Len(d.items) + 1
  BY <1>2, <1>5 DEF Structure, Structures
<1> HIDE DEF pushed, structure, kind, n
<1>7. /\ DecoderShape(Visit(d, c)) /\ Visit(d, c).structures = Append(d.structures, structure)
      /\ Visit(d, c).items = pushed.items
  BY <1>1, <1>4, <1>5, <1>6 DEF DecoderShape
<1>8. AskedShape(After(w, c)) /\ After(w, c).open = Append(w.open, Opened(kind, n)) /\ After(w, c).status = "value"
  <2>1. Append(w.open, Opened(kind, n)) \in Seq(Levels)
    BY <1>3, <1>4
  <2>2. w \in [open : Seq(Levels), status : {"value", "complete", "flushed"}]
    BY DEF Agree, AskedShape
  <2> QED
    BY <1>1, <1>2, <2>1, <2>2 DEF AskedShape
<1>9. SameContainers(Visit(d, c), After(w, c))
  <2>1. d.structures[1].kind = "root" /\ \A i \in 1..Len(w.open) : d.structures[i + 1].kind = w.open[i].kind
    BY DEF Agree, SameContainers
  <2>2. Append(d.structures, structure)[Len(w.open) + 2] = structure
    BY <1>4, <1>6
  <2>3. Append(w.open, Opened(kind, n))[Len(w.open) + 1] = Opened(kind, n)
    BY <1>3, <1>4
  <2>4. \A i \in 1..Len(w.open) : Append(w.open, Opened(kind, n))[i] = w.open[i]
    BY <1>3, <1>4
  <2>5. \A i \in 1..(Len(w.open) + 1) : Append(d.structures, structure)[i] = d.structures[i]
    BY <1>4, <1>6
  <2>6. \A i \in 1..(Len(w.open) + 1) : Append(d.structures, structure)[i + 1].kind = Append(w.open, Opened(kind, n))[i].kind
    <3>1. PICK m \in Nat : m = Len(w.open)
      BY <1>4, LenProperties
    <3>2. PICK s, o : s = Append(d.structures, structure) /\ o = Append(w.open, Opened(kind, n))
      OBVIOUS
    <3>3. ASSUME NEW i \in 1..m PROVE s[i + 1].kind = o[i].kind
      <4>1. i + 1 \in 1..(m + 1)
        OBVIOUS
      <4>2. s[i + 1] = d.structures[i + 1]
        BY <2>5, <3>1, <3>2, <4>1
      <4>3. o[i] = w.open[i] /\ d.structures[i + 1].kind = w.open[i].kind
        BY <2>1, <2>4, <3>1, <3>2
      <4> QED
        BY <4>2, <4>3
    <3>4. s[m + 2].kind = kind /\ o[m + 1].kind = kind
      BY <1>3, <1>6, <2>2, <2>3, <3>1, <3>2
    <3>5. ASSUME NEW i \in 1..(m + 1) PROVE s[i + 1].kind = o[i].kind
      <4>1. CASE i = m + 1
        <5>1. i + 1 = m + 2
          BY <4>1
        <5> QED
          BY <3>4, <4>1, <5>1
      <4>2. CASE i # m + 1
        <5>1. i \in 1..m
          BY <4>2
        <5> QED
          BY <3>3, <5>1
      <4> QED
        BY <4>1, <4>2
    <3> QED
      BY <3>1, <3>2, <3>5
  <2>7. Len(Append(d.structures, structure)) = Len(w.open) + 2 /\ Len(Append(w.open, Opened(kind, n))) = Len(w.open) + 1
    BY <1>3, <1>4, <1>6
  <2> QED
    BY <1>4, <1>7, <1>8, <2>1, <2>5, <2>6, <2>7 DEF SameContainers
<1>10. ItemsBegin(Visit(d, c))
  <2>1. \A i \in 2..Len(d.structures) : Append(d.structures, structure)[i] = d.structures[i]
    BY <1>4, <1>6
  <2>2. /\ Len(Append(d.structures, structure)) = Len(d.structures) + 1
        /\ Append(d.structures, structure)[Len(d.structures) + 1] = structure
        /\ Len(d.structures) \in Nat /\ Len(d.structures) > 0
    BY <1>4, <1>6 DEF Agree, DecoderShape
  <2>3. /\ \A i \in 2..Len(d.structures) : d.structures[i].at \in 1..Len(d.items)
        /\ \A i, j \in 2..Len(d.structures) : i < j => d.structures[i].at < d.structures[j].at
        /\ Len(d.structures) > 1 => d.structures[2].at = 1
        /\ Len(d.structures) = 1 => Len(d.items) = 0
    BY DEF Agree, ItemsBegin
  <2> DEFINE grown == Append(d.structures, structure)
  <2> HIDE DEF grown
  <2>4. \A i \in 2..Len(grown) : grown[i].at \in 1..(Len(d.items) + 1)
    BY <1>5, <1>6, <2>1, <2>2, <2>3 DEF grown
  <2>5. ASSUME NEW i \in 2..Len(grown), NEW j \in 2..Len(grown), i < j PROVE grown[i].at < grown[j].at
    <3>1. i \in 2..Len(d.structures) /\ grown[i] = d.structures[i] /\ grown[i].at \in 1..Len(d.items)
      BY <2>1, <2>2, <2>3, <2>5 DEF grown
    <3>2. CASE j \in 2..Len(d.structures)
      BY <2>1, <2>3, <2>5, <3>1, <3>2 DEF grown
    <3>3. CASE j \notin 2..Len(d.structures)
      <4>1. grown[j] = structure
        BY <2>2, <3>3 DEF grown
      <4> QED
        BY <1>5, <1>6, <3>1, <4>1
    <3> QED
      BY <3>2, <3>3
  <2>6. Len(grown) > 1 /\ grown[2].at = 1
    <3>1. CASE Len(d.structures) = 1
      BY <1>6, <2>2, <2>3, <3>1 DEF grown
    <3>2. CASE Len(d.structures) > 1
      BY <2>1, <2>2, <2>3, <3>2 DEF grown
    <3>3. Len(d.structures) = 1 \/ Len(d.structures) > 1
      <4>1. Len(d.structures) \in Nat
        BY <1>4
      <4>2. Len(d.structures) > 0
        BY DEF Agree, DecoderShape
      <4>3. \A k \in Nat : k > 0 => k = 1 \/ k > 1
        OBVIOUS
      <4> QED
        BY <4>1, <4>2, <4>3
    <3> QED
      BY <3>1, <3>2, <3>3
  <2> QED
    BY <1>5, <1>7, <2>4, <2>5, <2>6 DEF ItemsBegin, grown
<1> QED
  BY <1>7, <1>8, <1>9, <1>10 DEF Agree

\* The place before a place of a sequence.
LEMMA PlaceBefore ==
    ASSUME NEW len \in Nat, NEW at \in 1..len
    PROVE  at \in Nat /\ at - 1 \in 0..len /\ at - 1 + 1 = at
OBVIOUS

\* A container ends, and leaves one item.
LEMMA EndSeen ==
    ASSUME NEW d, NEW w, Agree(d, w), NEW c, IsCall(c), c[1] \in End, MayFollow(w, c)
    PROVE  Agree(Visit(d, c), After(w, c))
<1> DEFINE n == Len(d.structures)
           top == d.structures[n]
           left == SubSeq(d.structures, 1, n - 1)
           outer == [w EXCEPT !.open = Front(@)]
<1>1. /\ Visit(d, c) = VisitEnd(d, c) /\ After(w, c) = ValueMade(outer)
      /\ w.status = "value" /\ w.open # <<>> /\ c[1] = EndOf[Last(w.open).kind]
  BY DEF Visit, After, MayFollow, Scalar, Begin, End, Agree, DecoderShape
<1>2. /\ w.open \in Seq(Levels) /\ d.structures \in Seq(Structures) /\ n = Len(w.open) + 1 /\ n \in Nat /\ n > 1
      /\ top.kind = Last(w.open).kind /\ IsSequence(d.items) /\ Len(d.items) \in Nat
  <2>1. w.open \in Seq(Levels) /\ d.structures \in Seq(Structures) /\ n = Len(w.open) + 1 /\ IsSequence(d.items)
    BY DEF Agree, AskedShape, DecoderShape, SameContainers
  <2>2. n > 1 /\ top.kind = Last(w.open).kind
    BY <1>1, InnermostKind
  <2> QED
    BY <2>1, <2>2 DEF IsSequence
<1>3. top.at \in 1..Len(d.items)
  BY <1>2 DEF Agree, ItemsBegin
<1> DEFINE items == SubSeq(d.items, 1, top.at - 1)
<1>4. PICK value, item :
          Visit(d, c) =
              IF d.structures[n - 1].kind = "root"
              THEN [d EXCEPT !.structures = left, !.items = items, !.result = value, !.valid = TRUE]
              ELSE [d EXCEPT !.structures = left, !.items = Append(items, item)]
  <2> DEFINE whole == d.items[top.at]
             inside == SubSeq(d.items, top.at + 1, Len(d.items))
             contents == IF top.kind = "object" THEN Members(inside) ELSE [i \in DOMAIN inside |-> inside[i].value]
             value == <<whole.value[1], contents, whole.value[3]>>
  <2>1. ~(n <= 1 \/ c[1] # EndOf[top.kind] \/ Len(d.items) < top.at)
    BY <1>1, <1>2, <1>3
  <2>2. Visit(d, c) =
            IF d.structures[n - 1].kind = "root"
            THEN [[d EXCEPT !.structures = left]
                     EXCEPT !.items = SubSeq([d EXCEPT !.structures = left].items, 1, top.at - 1), !.result = value, !.valid = TRUE]
            ELSE [[d EXCEPT !.structures = left]
                     EXCEPT !.items = Append(SubSeq([d EXCEPT !.structures = left].items, 1, top.at - 1),
                                             [whole EXCEPT !.value = value])]
    BY <1>1, <2>1, Zenon DEF VisitEnd
  <2> HIDE DEF whole, value, left, top, n
  <2>3. [d EXCEPT !.structures = left].items = d.items /\ DOMAIN d = DOMAIN NewDecoder
    BY DEF Agree, DecoderShape, NewDecoder
  <2> QED
    BY <2>2, <2>3
<1>5. left \in Seq(Structures) /\ Len(left) = n - 1 /\ \A i \in 1..(n - 1) : left[i] = d.structures[i]
  <2>1. d.structures \in Seq(Structures) /\ d.structures # <<>>
    BY <1>2
  <2> QED
    BY <2>1, WithoutLast, Zenon
<1>6. /\ IsSequence(items) /\ Len(items) = top.at - 1
      /\ IsSequence(Append(items, item)) /\ Len(Append(items, item)) = top.at
  <2>1. PICK at : at = top.at
    OBVIOUS
  <2>2. at \in Nat /\ at - 1 \in 0..Len(d.items) /\ at - 1 + 1 = at
    <3>1. Len(d.items) \in Nat /\ at \in 1..Len(d.items)
      BY <1>2, <1>3, <2>1, Zenon
    <3> QED
      BY <3>1, PlaceBefore, Zenon
  <2>3. IsSequence(SubSeq(d.items, 1, at - 1)) /\ Len(SubSeq(d.items, 1, at - 1)) = at - 1
    <3>1. IsSequence(d.items)
      BY <1>2
    <3> QED
      BY <2>2, <3>1, Shortened, Zenon
  <2>4. IsSequence(items) /\ Len(items) = at - 1
    BY <2>1, <2>3
  <2> HIDE DEF items
  <2>5. IsSequence(Append(items, item)) /\ Len(Append(items, item)) = Len(items) + 1
    BY <2>4, Grown
  <2> QED
    BY <2>1, <2>2, <2>4, <2>5
<1>7. outer.open = Front(w.open) /\ outer.status = "value" /\ AskedShape(outer) /\ outer.open \in Seq(Levels)
      /\ Len(outer.open) = n - 2 /\ \A i \in 1..(n - 2) : outer.open[i] = w.open[i]
  <2>1. Front(w.open) = SubSeq(w.open, 1, Len(w.open) - 1)
    BY DEF Front
  <2>2. /\ Front(w.open) \in Seq(Levels) /\ Len(Front(w.open)) = n - 2
        /\ \A i \in 1..(n - 2) : Front(w.open)[i] = w.open[i]
    BY <1>2, <2>1
  <2>3. w \in [open : Seq(Levels), status : {"value", "complete", "flushed"}]
    BY DEF Agree, AskedShape
  <2> QED
    BY <1>1, <2>2, <2>3 DEF AskedShape
<1> HIDE DEF n, top, left, outer, items
<1>8. \A i \in 1..(n - 2) : d.structures[i + 1].kind = w.open[i].kind
  BY <1>2 DEF Agree, SameContainers
<1>9. d.structures[1].kind = "root" /\ DecoderShape(d)
  BY DEF Agree, SameContainers
<1>10. CASE n = 2
  <2>1. Visit(d, c) = [d EXCEPT !.structures = left, !.items = items, !.result = Visit(d, c).result, !.valid = TRUE]
    BY <1>4, <1>9, <1>10 DEF DecoderShape
  <2>2. After(w, c) = [outer EXCEPT !.status = "complete"] /\ outer.open = <<>>
    BY <1>1, <1>7, <1>10 DEF ValueMade
  <2>3. Visit(d, c).structures = left /\ Visit(d, c).items = items /\ DecoderShape(Visit(d, c)) /\ Visit(d, c).valid = TRUE
    <3>1. /\ Visit(d, c).structures = left /\ Visit(d, c).items = items /\ Visit(d, c).valid = TRUE
          /\ Visit(d, c).failed = d.failed /\ DOMAIN Visit(d, c) = DOMAIN d
      BY <1>9, <2>1 DEF DecoderShape
    <3>2. left \in Seq(Structures) /\ Len(left) > 0 /\ IsSequence(items)
      BY <1>5, <1>6, <1>10
    <3> QED
      BY <1>9, <3>1, <3>2 DEF DecoderShape
  <2>4. items = <<>>
    <3>1. top.at = 1
      BY <1>2, <1>10 DEF Agree, ItemsBegin, n, top
    <3> QED
      BY <3>1, <1>6 DEF IsSequence
  <2>5. AskedShape(After(w, c)) /\ After(w, c).open = <<>>
    BY <1>7, <2>2 DEF AskedShape
  <2>6. Len(left) = 1 /\ left[1].kind = "root"
    BY <1>5, <1>9, <1>10
  <2>7. SameContainers(Visit(d, c), After(w, c)) /\ ItemsBegin(Visit(d, c))
    BY <2>3, <2>4, <2>5, <2>6 DEF SameContainers, ItemsBegin
  <2> QED
    BY <2>3, <2>5, <2>7 DEF Agree
<1>11. CASE n # 2
  <2>1. d.structures[n - 1].kind # "root"
    <3>1. n - 2 \in 1..(n - 2) /\ n - 2 \in 1..Len(w.open) /\ n - 2 + 1 = n - 1
      BY <1>2, <1>11
    <3>2. w.open[n - 2] \in Levels
      <4>1. w.open \in Seq(Levels)
        BY <1>2
      <4> QED
        BY <3>1, <4>1
    <3>3. d.structures[n - 1].kind = w.open[n - 2].kind
      BY <1>8, <3>1
    <3> QED
      BY <3>2, <3>3 DEF Levels, Kinds
  <2>2. Visit(d, c) = [d EXCEPT !.structures = left, !.items = Append(items, item)]
    BY <1>4, <2>1
  <2>3. /\ Visit(d, c).structures = left /\ Visit(d, c).items = Append(items, item)
        /\ DecoderShape(Visit(d, c))
    BY <1>2, <1>5, <1>6, <1>9, <2>2 DEF DecoderShape
  <2>4. ItemsBegin(Visit(d, c))
    <3>1. /\ \A i \in 2..n : d.structures[i].at \in 1..Len(d.items)
          /\ \A i, j \in 2..n : i < j => d.structures[i].at < d.structures[j].at
          /\ d.structures[2].at = 1
      BY <1>2 DEF Agree, ItemsBegin, n
    <3>2. n \in Nat /\ n > 2 /\ n \in 2..n /\ Len(left) = n - 1
      BY <1>2, <1>5, <1>11
    <3>3. ASSUME NEW i \in 2..(n - 1)
          PROVE  /\ left[i] = d.structures[i] /\ left[i].at < top.at
                 /\ left[i].at \in 1..Len(d.items)
      <4>1. i \in 2..n /\ i \in 1..(n - 1) /\ i < n
        BY <3>2
      <4>2. left[i] = d.structures[i]
        BY <1>5, <4>1
      <4>3. d.structures[i].at < d.structures[n].at /\ d.structures[i].at \in 1..Len(d.items)
        BY <3>1, <3>2, <4>1
      <4> QED
        BY <4>2, <4>3 DEF top
    <3>4. \A i \in 2..Len(left) : left[i].at \in 1..top.at
      <4>1. ASSUME NEW i \in 2..(n - 1) PROVE left[i].at \in 1..top.at
        <5>1. PICK x \in 1..Len(d.items) : x = left[i].at /\ x < top.at
          BY <3>3
        <5> QED
          BY <1>2, <1>3, <5>1
      <4> QED
        BY <3>2, <4>1
    <3>5. \A i, j \in 2..Len(left) : i < j => left[i].at < left[j].at
      <4>1. ASSUME NEW i \in 2..(n - 1), NEW j \in 2..(n - 1), i < j PROVE left[i].at < left[j].at
        <5>1. i \in 2..n /\ j \in 2..n
          BY <3>2
        <5>2. d.structures[i].at < d.structures[j].at
          BY <3>1, <4>1, <5>1
        <5> QED
          BY <3>3, <5>2
      <4> QED
        BY <3>2, <4>1
    <3>6. Len(left) > 1 /\ left[2].at = 1
      <4>1. 2 \in 2..(n - 1)
        BY <3>2
      <4>2. left[2] = d.structures[2]
        BY <3>3, <4>1
      <4> QED
        BY <3>1, <3>2, <4>2
    <3> QED
      BY <1>6, <2>3, <3>4, <3>5, <3>6 DEF ItemsBegin
  <2>5. SameContainers(Visit(d, c), outer) /\ outer.open # <<>>
    <3>1. ASSUME NEW i \in 1..(n - 2) PROVE left[i + 1].kind = outer.open[i].kind
      <4>1. i + 1 \in 1..(n - 1)
        BY <1>2
      <4> QED
        BY <1>5, <1>7, <1>8, <4>1
    <3>2. left[1].kind = "root" /\ Len(left) = Len(outer.open) + 1 /\ Len(outer.open) > 0
      <4>1. n \in Nat /\ n - 2 > 0 /\ 1 \in 1..(n - 1)
        BY <1>2, <1>11
      <4>2. left[1] = d.structures[1]
        BY <1>5, <4>1
      <4>3. Len(left) = n - 1 /\ Len(outer.open) = n - 2
        BY <1>5, <1>7
      <4> QED
        BY <1>9, <4>1, <4>2, <4>3
    <3> QED
      BY <1>7, <2>3, <3>1, <3>2 DEF SameContainers
  <2>6. Agree(Visit(d, c), outer)
    BY <1>7, <2>3, <2>4, <2>5 DEF Agree
  <2> QED
    BY <1>1, <2>3, <2>4, <2>5, <2>6, ValueInside
<1> QED
  BY <1>10, <1>11

\* Every call that the order allows keeps the decoder in agreement with its caller.
LEMMA CallSeen ==
    ASSUME NEW d, NEW w, Agree(d, w), NEW c, IsCall(c), MayFollow(w, c)
    PROVE  Agree(Visit(d, c), After(w, c))
<1>1. c[1] \in Begin \/ c[1] \in End \/ c[1] \in Scalar \/ c[1] = "key" \/ c[1] = "flush"
  BY DEF IsCall, Operations
<1> QED
  BY <1>1, BeginSeen, EndSeen, ScalarSeen, KeySeen, FlushSeen

\* A decoder is ready for its first call.
LEMMA NewDecoderAgrees == Agree(NewDecoder, NoCalls)
<1>1. /\ Structure("root", 0) \in Structures /\ <<Structure("root", 0)>> \in Seq(Structures)
      /\ Len(<<Structure("root", 0)>>) = 1 /\ <<Structure("root", 0)>>[1].kind = "root"
  BY DEF Structure, Structures
<1>2. IsSequence(<<>>) /\ <<>> \in Seq(Levels)
  BY DEF IsSequence
<1>3. NewDecoder.structures = <<Structure("root", 0)>> /\ NewDecoder.items = <<>> /\ DecoderShape(NewDecoder)
  BY <1>1, <1>2 DEF NewDecoder, DecoderShape
<1>4. AskedShape(NoCalls) /\ NoCalls.open = <<>> /\ NoCalls.status = "value"
  BY <1>2 DEF NoCalls, AskedShape
<1> QED
  BY <1>1, <1>3, <1>4 DEF Agree, SameContainers, ItemsBegin

\* The invariant that the theorems below follow from.
LEMMA AgreementHolds == SpecWithCaller => []IInv
<1>1. InitWithCaller => IInv
  BY NewDecoderAgrees DEF InitWithCaller, DecoderInit, IInv
<1>2. IInv /\ [NextWithCaller]_<<asked, decoder>> => IInv'
  <2> SUFFICES ASSUME IInv, [NextWithCaller]_<<asked, decoder>> PROVE IInv'
    OBVIOUS
  <2>1. ASSUME NEW c, IsCall(c), Call(c) PROVE IInv'
    BY <2>1, CallSeen DEF IInv, Call
  <2>2. CASE UNCHANGED <<asked, decoder>>
    BY <2>2 DEF IInv
  <2> QED
    BY <2>1, <2>2 DEF NextWithCaller
<1> QED
  BY <1>1, <1>2, PTL DEF SpecWithCaller

\* json_decoder asserts, when a container ends, that one of that kind is open
\* and that the item it began with is on the stack: under a caller that keeps
\* the order of calls these assertions hold, however deep and long the value.
THEOREM DecoderAssertionsHold == SpecWithCaller => []AssertionsHold
<1>1. IInv => AssertionsHold
  BY DEF IInv, Agree, DecoderShape, AssertionsHold
<1> QED
  BY <1>1, AgreementHolds, PTL

\* When the caller has completed the top-level value is_valid() is true, and
\* nothing is left of the stacks of the decoder.
THEOREM DecoderIsDone == SpecWithCaller => []ValueIsAlone
<1>1. IInv => ValueIsAlone
  BY DEF IInv, Agree, AskedShape, SameContainers, ItemsBegin, DecoderShape, ValueIsAlone
<1> QED
  BY <1>1, AgreementHolds, PTL
-------------------------------------------------------------------------------
\* A parser makes at most one call at a time, which the decoder and its caller see.
\* (The library's folds are recursive functions: here the one for so many calls is given.)
LEMMA NoCallReceived ==
    ASSUME NEW d, NEW w
    PROVE  FoldLeft(Visit, d, <<>>) = d /\ AfterAll(w, <<>>) = w
<1>1. DOMAIN <<>> = {} /\ {} \in SUBSET {} /\ \A s \in SUBSET {} : s = {}
  OBVIOUS
<1>2. FoldLeft(Visit, d, <<>>) = d
  <2> DEFINE Iter(f) == f = [s \in SUBSET {} |-> IF s = {} THEN d ELSE Visit(f[s \ {Max(s)}], <<>>[Max(s)])]
  <2>1. FoldLeft(Visit, d, <<>>) = (CHOOSE f : Iter(f))[{}]
    BY <1>1, Zenon DEF FoldLeft, MapThenFoldSet
  <2>2. \E f : Iter(f)
    <3> DEFINE g == [s \in SUBSET {} |-> d]
    <3>1. g = [s \in SUBSET {} |-> IF s = {} THEN d ELSE Visit(g[s \ {Max(s)}], <<>>[Max(s)])]
      BY <1>1
    <3> QED
      BY <3>1
  <2>3. PICK f : Iter(f) /\ (CHOOSE h : Iter(h)) = f
    BY <2>2
  <2>4. f[{}] = d
    BY <1>1, <2>3
  <2> QED
    BY <2>1, <2>3, <2>4
<1>3. AfterAll(w, <<>>) = w
  <2> DEFINE Iter(f) == f = [s \in SUBSET {} |-> IF s = {} THEN w ELSE After(f[s \ {Max(s)}], <<>>[Max(s)])]
  <2>1. AfterAll(w, <<>>) = (CHOOSE f : Iter(f))[{}]
    BY <1>1, Zenon DEF AfterAll, FoldLeft, MapThenFoldSet
  <2>2. \E f : Iter(f)
    <3> DEFINE g == [s \in SUBSET {} |-> w]
    <3>1. g = [s \in SUBSET {} |-> IF s = {} THEN w ELSE After(g[s \ {Max(s)}], <<>>[Max(s)])]
      BY <1>1
    <3> QED
      BY <3>1
  <2>3. PICK f : Iter(f) /\ (CHOOSE h : Iter(h)) = f
    BY <2>2
  <2>4. f[{}] = w
    BY <1>1, <2>3
  <2> QED
    BY <2>1, <2>3, <2>4
<1> QED
  BY <1>2, <1>3

LEMMA OneCallReceived ==
    ASSUME NEW d, NEW w, NEW c
    PROVE  FoldLeft(Visit, d, <<c>>) = Visit(d, c) /\ AfterAll(w, <<c>>) = After(w, c)
<1>1. /\ DOMAIN <<c>> = {1} /\ SUBSET {1} = {{}, {1}} /\ {1} \ {1} = {} /\ {1} # {}
      /\ <<c>>[1] = c
  OBVIOUS
<1>2. Max({1}) = 1
  BY DEF Max
<1>3. FoldLeft(Visit, d, <<c>>) = Visit(d, c)
  <2> DEFINE Iter(f) == f = [s \in SUBSET {1} |-> IF s = {} THEN d ELSE Visit(f[s \ {Max(s)}], <<c>>[Max(s)])]
  <2>1. FoldLeft(Visit, d, <<c>>) = (CHOOSE f : Iter(f))[{1}]
    BY <1>1, Zenon DEF FoldLeft, MapThenFoldSet
  <2>2. \E f : Iter(f)
    <3> DEFINE g == [s \in SUBSET {1} |-> IF s = {} THEN d ELSE Visit(d, c)]
    <3>1. g = [s \in SUBSET {1} |-> IF s = {} THEN d ELSE Visit(g[s \ {Max(s)}], <<c>>[Max(s)])]
      BY <1>1, <1>2
    <3> QED
      BY <3>1
  <2>3. PICK f : Iter(f) /\ (CHOOSE h : Iter(h)) = f
    BY <2>2
  <2>4. f[{}] = d
    BY <1>1, <2>3
  <2>5. f[{1}] = IF {1} = {} THEN d ELSE Visit(f[{1} \ {Max({1})}], <<c>>[Max({1})])
    <3>1. {1} \in SUBSET {1}
      OBVIOUS
    <3> QED
      BY <2>3, <3>1, Zenon
  <2>6. f[{1}] = Visit(d, c)
    BY <1>1, <1>2, <2>4, <2>5
  <2> QED
    BY <2>1, <2>3, <2>6
<1>4. AfterAll(w, <<c>>) = After(w, c)
  <2> DEFINE Iter(f) == f = [s \in SUBSET {1} |-> IF s = {} THEN w ELSE After(f[s \ {Max(s)}], <<c>>[Max(s)])]
  <2>1. AfterAll(w, <<c>>) = (CHOOSE f : Iter(f))[{1}]
    BY <1>1, Zenon DEF AfterAll, FoldLeft, MapThenFoldSet
  <2>2. \E f : Iter(f)
    <3> DEFINE g == [s \in SUBSET {1} |-> IF s = {} THEN w ELSE After(w, c)]
    <3>1. g = [s \in SUBSET {1} |-> IF s = {} THEN w ELSE After(g[s \ {Max(s)}], <<c>>[Max(s)])]
      BY <1>1, <1>2
    <3> QED
      BY <3>1
  <2>3. PICK f : Iter(f) /\ (CHOOSE h : Iter(h)) = f
    BY <2>2
  <2>4. f[{}] = w
    BY <1>1, <2>3
  <2>5. f[{1}] = IF {1} = {} THEN w ELSE After(f[{1} \ {Max({1})}], <<c>>[Max({1})])
    <3>1. {1} \in SUBSET {1}
      OBVIOUS
    <3> QED
      BY <2>3, <3>1, Zenon
  <2>6. f[{1}] = After(w, c)
    BY <1>1, <1>2, <2>4, <2>5
  <2> QED
    BY <2>1, <2>3, <2>6
<1> QED
  BY <1>3, <1>4
===============================================================================
