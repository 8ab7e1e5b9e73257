------------------------- MODULE GenericToJsonProofs --------------------------
(***************************************************************************)
(* basic_generic_to_json_visitor under any caller that keeps the order of  *)
(* the calls on a generic_visitor: it is a caller of the json_decoder that *)
(* keeps the order of VisitorCalls, and the texts of its keys are readable.*)
(***************************************************************************)
EXTENDS GenericToJson, JsonDecoderProofs

\* What may be called: items, among them the containers that stand for keys and values.
\* (The mark of a text that is joined from lexemes is the adaptor's.)
Items == {"begin_object", "begin_array", "end_object", "end_array", "flush"} \cup (Scalar \ {"typed_array"})
IsItem(c) ==
    \E o \in Items : \E x, tag :
        c = <<o, x, tag>> /\ (o \in Begin => x \in Int) /\ (o = "string_value" => x[1] # "joined")

chainVars == <<given, adaptor, asked, decoder>>

\* A call in its turn, and no call.
Give(c) ==
    /\ MayBeGiven(given, c) /\ given' = AfterGiven(given, c)
    /\ adaptor' = Adapt([adaptor EXCEPT !.made = <<>>], c)
    /\ Receive(adaptor'.made)
GiveNothing == adaptor' = [adaptor EXCEPT !.made = <<>>] /\ UNCHANGED <<given, asked, decoder>>

GiveNext == (\E c : IsItem(c) /\ Give(c)) \/ GiveNothing
GiveSpec == AdaptorInit /\ [][GiveNext]_chainVars

-------------------------------------------------------------------------------
GivenLevels == [kind : {"object", "array"}, left : Int, key : BOOLEAN]
GivenShape(g) ==
    /\ g \in [open : Seq(GivenLevels), status : {"value", "complete", "flushed"}, counted : BOOLEAN]
    /\ g.status # "value" => g.open = <<>>
    /\ \A i \in 1..Len(g.open) : g.open[i].kind = "array" => g.open[i].key = FALSE

AdaptorLevels == [target : {"destination", "buffer"}, kind : {"root", "object", "array"}, key : BOOLEAN, count : Nat]
AdaptorShape(a) ==
    /\ DOMAIN a = {"levels", "buffer", "failed", "made"}
    /\ a.levels \in Seq(AdaptorLevels) /\ Len(a.levels) > 0
    /\ IsSequence(a.buffer) /\ a.failed = FALSE

\* The levels above the root are the containers of the caller.
Paired(a, g) ==
    /\ AdaptorShape(a) /\ GivenShape(g)
    /\ Len(a.levels) = Len(g.open) + 1
    /\ a.levels[1].kind = "root" /\ a.levels[1].key = FALSE
    /\ \A i \in 1..Len(g.open) : a.levels[i + 1].kind = g.open[i].kind /\ a.levels[i + 1].key = g.open[i].key

\* The outer m containers are those of the decoder, the others are part of a key.
Divided(a, m) ==
    \A i \in 1..Len(a.levels) : a.levels[i].target = IF i <= m + 1 THEN "destination" ELSE "buffer"

\* What an open container is to the caller of the decoder.
Matches(l, x) == l.kind = x.kind /\ l.left = x.left /\ (l.keyed = TRUE <=> x.kind = "object" /\ x.key = FALSE)

\* The containers of the decoder are the outer ones.  Each container is an item of
\* the one around it: of those of the decoder a value, the next one a key.
Outer(g, w) ==
    /\ GivenShape(g) /\ AskedShape(w)
    /\ w.status = g.status
    /\ Len(w.open) <= Len(g.open)
    /\ \A i \in 1..Len(w.open) : Matches(w.open[i], g.open[i])
    /\ \A i \in 1..(Len(w.open) - 1) : g.open[i].key = FALSE
    /\ Len(w.open) < Len(g.open) => Len(w.open) > 0 /\ g.open[Len(w.open)].key = TRUE
    /\ \A i \in 1..(Len(g.open) - 1) : g.open[i].left # 0

Adapted(a, g, w) == Paired(a, g) /\ Divided(a, Len(w.open)) /\ Outer(g, w)

-------------------------------------------------------------------------------
\* One item further: an object turns from a key to its value, and back.
Turned(x, y) ==
    /\ y.kind = x.kind
    /\ x.kind = "object" /\ x.key = TRUE => y.key = FALSE
    /\ x.kind = "object" /\ x.key = FALSE => y.key = TRUE
    /\ x.kind # "object" => y.key = x.key

\* An item is complete: the innermost container for the caller of the adaptor.
LEMMA ItemComplete ==
    ASSUME NEW g, GivenShape(g), g.open # <<>>
    PROVE  LET n == Len(g.open)
               top == g.open[n]
               h == ItemGiven(g)
           IN  /\ n \in Nat /\ n > 0 /\ top \in GivenLevels /\ GivenShape(h)
               /\ h.status = g.status /\ h.counted = g.counted
               /\ Len(h.open) = n /\ \A i \in 1..(n - 1) : h.open[i] = g.open[i]
               /\ Turned(top, h.open[n])
               /\ top.key = TRUE \/ top.left = Unsized => h.open[n].left = top.left
               /\ top.key = FALSE /\ top.left # Unsized => h.open[n].left = top.left - 1
<1> DEFINE n == Len(g.open)
           top == g.open[n]
           h == ItemGiven(g)
<1>1. g.open \in Seq(GivenLevels) /\ n \in Nat /\ n > 0 /\ Last(g.open) = top /\ top \in GivenLevels
  BY DEF GivenShape, Last
<1>2. PICK left \in Int : left = IF top.left = Unsized \/ top.key THEN top.left ELSE top.left - 1
  BY <1>1 DEF GivenLevels, Unsized
<1>3. PICK key \in BOOLEAN : key = IF top.kind = "object" THEN ~top.key ELSE top.key
  BY <1>1 DEF GivenLevels
<1> DEFINE after == [kind |-> top.kind, left |-> left, key |-> key]
<1>4. [top EXCEPT !.left = IF top.left = Unsized \/ top.key THEN top.left ELSE top.left - 1,
                  !.key = IF top.kind = "object" THEN ~top.key ELSE top.key] = after
  <2> HIDE DEF top
  <2>1. PICK level : level = [top EXCEPT !.left = left, !.key = key]
    OBVIOUS
  <2>2. level = [kind |-> top.kind, left |-> left, key |-> key]
    BY <1>1, <2>1 DEF GivenLevels
  <2> QED
    BY <1>2, <1>3, <2>1, <2>2
<1>5. h = [g EXCEPT !.open = [g.open EXCEPT ![n] = after]]
  BY <1>1, <1>4 DEF ItemGiven, GivenShape
<1>6. after \in GivenLevels /\ Turned(top, after)
  <2>1. top.key \in BOOLEAN /\ top.kind \in {"object", "array"}
    BY <1>1 DEF GivenLevels
  <2>2. after.kind = top.kind /\ after.key = key /\ after.left = left
    OBVIOUS
  <2>3. Turned(top, after)
    <3> HIDE DEF top, after
    <3> QED
      BY <1>3, <2>1, <2>2 DEF Turned
  <2> QED
    BY <1>2, <1>3, <2>1, <2>3 DEF GivenLevels
<1>7. /\ top.key = TRUE \/ top.left = Unsized => after.left = top.left
      /\ top.key = FALSE /\ top.left # Unsized => after.left = top.left - 1
  <2>1. after.left = left
    OBVIOUS
  <2> HIDE DEF top, after
  <2> QED
    BY <1>2, <2>1
<1> HIDE DEF after
<1>8. [g.open EXCEPT ![n] = after] \in Seq(GivenLevels) /\ Len([g.open EXCEPT ![n] = after]) = n
  BY <1>1, <1>6, ExceptSeq
<1>9. h.open = [g.open EXCEPT ![n] = after] /\ h.status = g.status /\ h.counted = g.counted
  BY <1>5 DEF GivenShape
<1>10. h.open[n] = after /\ \A i \in 1..(n - 1) : h.open[i] = g.open[i]
  BY <1>1, <1>9
<1>11. GivenShape(h)
  <2>1. g.status = "value"
    BY DEF GivenShape
  <2>2. ASSUME NEW i \in 1..n, h.open[i].kind = "array" PROVE h.open[i].key = FALSE
    <3>1. CASE i = n
      <4>1. after.kind = "array" /\ top.kind = "array" /\ after.key = top.key
        BY <1>6, <1>10, <2>2, <3>1 DEF Turned
      <4>2. top.key = FALSE
        BY <1>1, <4>1 DEF GivenShape
      <4> QED
        BY <1>10, <3>1, <4>1, <4>2
    <3>2. CASE i # n
      <4>1. h.open[i] = g.open[i]
        BY <1>1, <1>10, <3>2
      <4> QED
        BY <2>2, <4>1 DEF GivenShape
    <3> QED
      BY <3>1, <3>2
  <2>3. Len(h.open) = n
    BY <1>8, <1>9
  <2>4. h \in [open : Seq(GivenLevels), status : {"value", "complete", "flushed"}, counted : BOOLEAN]
    BY <1>5, <1>8 DEF GivenShape
  <2> QED
    BY <1>9, <2>1, <2>2, <2>3, <2>4 DEF GivenShape
<1> QED
  BY <1>1, <1>6, <1>7, <1>8, <1>9, <1>10, <1>11

\* The innermost level of the adaptor has come one further.
LEMMA LevelAdvanced ==
    ASSUME NEW a, AdaptorShape(a)
    PROVE  LET n == Len(a.levels)
               top == a.levels[n]
               b == Advanced(a)
           IN  /\ n \in Nat /\ n > 0 /\ top \in AdaptorLevels /\ Innermost(a) = top
               /\ AdaptorShape(b) /\ b.buffer = a.buffer /\ b.made = a.made
               /\ Len(b.levels) = n /\ \A i \in 1..(n - 1) : b.levels[i] = a.levels[i]
               /\ Turned(top, b.levels[n]) /\ b.levels[n].target = top.target
               /\ top.key = TRUE => b.levels[n].count = top.count
               /\ top.key = FALSE => b.levels[n].count = top.count + 1
<1> DEFINE n == Len(a.levels)
           top == a.levels[n]
           b == Advanced(a)
<1>1. a.levels \in Seq(AdaptorLevels) /\ n \in Nat /\ n > 0 /\ Innermost(a) = top /\ top \in AdaptorLevels
  BY DEF AdaptorShape, Innermost, Last
<1>2. PICK count \in Nat : count = IF top.key THEN top.count ELSE top.count + 1
  BY <1>1 DEF AdaptorLevels
<1>3. PICK key \in BOOLEAN : key = IF top.kind = "object" THEN ~top.key ELSE top.key
  BY <1>1 DEF AdaptorLevels
<1> DEFINE after == [target |-> top.target, kind |-> top.kind, key |-> key, count |-> count]
           levels == [a.levels EXCEPT ![n] = after]
<1>4. [top EXCEPT !.count = IF top.key THEN top.count ELSE top.count + 1,
                  !.key = IF top.kind = "object" THEN ~top.key ELSE top.key] = after
  <2> HIDE DEF top
  <2>1. PICK level : level = [top EXCEPT !.count = count, !.key = key]
    OBVIOUS
  <2>2. level = [target |-> top.target, kind |-> top.kind, key |-> key, count |-> count]
    BY <1>1, <2>1 DEF AdaptorLevels
  <2> QED
    BY <1>2, <1>3, <2>1, <2>2
<1>5. b = [a EXCEPT !.levels = levels]
  BY <1>1, <1>4 DEF Advanced
<1>6. after \in AdaptorLevels /\ Turned(top, after) /\ after.target = top.target
  <2>1. top.key \in BOOLEAN /\ top.kind \in {"root", "object", "array"} /\ top.target \in {"destination", "buffer"}
    BY <1>1 DEF AdaptorLevels
  <2>2. after.kind = top.kind /\ after.key = key /\ after.target = top.target
    OBVIOUS
  <2>3. Turned(top, after)
    <3> HIDE DEF top, after
    <3> QED
      BY <1>3, <2>1, <2>2 DEF Turned
  <2> QED
    BY <1>2, <1>3, <2>1, <2>3 DEF AdaptorLevels
<1>7. /\ top.key = TRUE => after.count = top.count
      /\ top.key = FALSE => after.count = top.count + 1
  <2>1. after.count = count
    OBVIOUS
  <2> HIDE DEF top, after
  <2> QED
    BY <1>2, <2>1
<1> HIDE DEF after
<1>8. levels \in Seq(AdaptorLevels) /\ Len(levels) = n
  BY <1>1, <1>6, ExceptSeq
<1>9. levels[n] = after /\ \A i \in 1..(n - 1) : levels[i] = a.levels[i]
  BY <1>1
<1> HIDE DEF levels
<1>10. /\ DOMAIN b = DOMAIN a /\ b.levels = levels /\ b.buffer = a.buffer /\ b.made = a.made /\ b.failed = a.failed
  BY <1>5 DEF AdaptorShape
<1>11. AdaptorShape(b)
  BY <1>1, <1>8, <1>10 DEF AdaptorShape
<1> QED
  BY <1>1, <1>6, <1>7, <1>8, <1>9, <1>10, <1>11

LEMMA PairAdvanced ==
    ASSUME NEW a, NEW g, Paired(a, g), g.status = "value"
    PROVE  /\ Paired(Advanced(a), ItemGiven(g))
           /\ \A m \in Nat : Divided(a, m) => Divided(Advanced(a), m)
<1> DEFINE n == Len(a.levels)
           b == Advanced(a)
           h == ItemGiven(g)
<1>1. /\ n \in Nat /\ n > 0 /\ AdaptorShape(b) /\ Len(b.levels) = n
      /\ \A i \in 1..(n - 1) : b.levels[i] = a.levels[i]
      /\ Turned(a.levels[n], b.levels[n]) /\ b.levels[n].target = a.levels[n].target
  BY LevelAdvanced DEF Paired
<1> HIDE DEF b
<1>2. ASSUME NEW m \in Nat, Divided(a, m) PROVE Divided(b, m)
  <2>1. ASSUME NEW i \in 1..n PROVE b.levels[i].target = a.levels[i].target
    <3>1. CASE i = n
      BY <1>1, <3>1
    <3>2. CASE i # n
      <4>1. i \in 1..(n - 1)
        BY <1>1, <3>2
      <4> QED
        BY <1>1, <4>1
    <3> QED
      BY <3>1, <3>2
  <2> QED
    BY <1>1, <1>2, <2>1 DEF Divided
<1>3. CASE g.open = <<>>
  <2>1. h = [g EXCEPT !.status = "complete"] /\ GivenShape(g)
    BY <1>3 DEF ItemGiven, Paired
  <2>2. GivenShape(h) /\ h.open = <<>>
    BY <1>3, <2>1 DEF GivenShape
  <2>3. n = 1 /\ a.levels[1].kind = "root" /\ a.levels[1].key = FALSE
    BY <1>3 DEF Paired
  <2>4. b.levels[1].kind = "root" /\ b.levels[1].key = FALSE
    BY <1>1, <2>3 DEF Turned
  <2> HIDE DEF h
  <2>5. Paired(b, h)
    BY <1>1, <2>2, <2>3, <2>4 DEF Paired
  <2> QED
    BY <1>2, <2>5 DEF b, h
<1>4. CASE g.open # <<>>
  <2> DEFINE k == Len(g.open)
  <2>1. /\ k \in Nat /\ k > 0 /\ GivenShape(h) /\ Len(h.open) = k
        /\ \A i \in 1..(k - 1) : h.open[i] = g.open[i]
        /\ Turned(g.open[k], h.open[k])
    BY <1>4, ItemComplete DEF Paired
  <2> HIDE DEF h
  <2>2. n = k + 1 /\ a.levels[n].kind = g.open[k].kind /\ a.levels[n].key = g.open[k].key
        /\ g.open[k] \in GivenLevels /\ (g.open[k].kind = "array" => g.open[k].key = FALSE)
    BY <2>1 DEF Paired, GivenShape
  <2>3. b.levels[n].kind = h.open[k].kind /\ b.levels[n].key = h.open[k].key
    <3>1. g.open[k].kind \in {"object", "array"} /\ g.open[k].key \in BOOLEAN
      BY <2>2 DEF GivenLevels
    <3> QED
      BY <1>1, <2>1, <2>2, <3>1 DEF Turned
  <2>4. ASSUME NEW i \in 1..k PROVE b.levels[i + 1].kind = h.open[i].kind /\ b.levels[i + 1].key = h.open[i].key
    <3>1. CASE i = k
      BY <2>2, <2>3, <3>1
    <3>2. CASE i # k
      <4>1. i \in 1..(k - 1) /\ i + 1 \in 1..(n - 1)
        BY <2>1, <2>2, <3>2
      <4>2. b.levels[i + 1] = a.levels[i + 1] /\ h.open[i] = g.open[i]
        BY <1>1, <2>1, <4>1
      <4> QED
        BY <4>2 DEF Paired
    <3> QED
      BY <3>1, <3>2
  <2>5. b.levels[1].kind = "root" /\ b.levels[1].key = FALSE
    <3>1. 1 \in 1..(n - 1)
      BY <2>1, <2>2
    <3> QED
      BY <1>1, <3>1 DEF Paired
  <2>6. Paired(b, h)
    BY <1>1, <2>1, <2>2, <2>4, <2>5 DEF Paired
  <2> QED
    BY <1>2, <2>6 DEF b, h
<1> QED
  BY <1>3, <1>4

\* A key is made, for the decoder as well.
LEMMA OuterKey ==
    ASSUME NEW g, NEW w, Outer(g, w), Len(w.open) = Len(g.open), g.open # <<>>, g.status = "value",
           Last(g.open).key = TRUE, Last(g.open).left # 0, NEW c, c[1] = "key"
    PROVE  MayFollow(w, c) /\ Outer(ItemGiven(g), After(w, c)) /\ Len(After(w, c).open) = Len(w.open)
<1> DEFINE n == Len(g.open)
           h == ItemGiven(g)
           top == w.open[n]
<1>1. /\ w.open \in Seq(Levels) /\ n \in Nat /\ n > 0 /\ n = Len(w.open) /\ w.open # <<>>
      /\ Last(w.open) = top /\ Last(g.open) = g.open[n] /\ top \in Levels
  BY DEF Outer, AskedShape, GivenShape, Last
<1>2. g.open[n] \in GivenLevels /\ g.open[n].kind = "object" /\ Matches(top, g.open[n]) /\ w.status = "value"
  <2>1. n \in 1..n
    BY <1>1
  <2>2. g.open[n] \in GivenLevels /\ w.status = "value"
    BY <1>1, <2>1 DEF Outer, GivenShape
  <2>3. g.open[n].kind = "array" => g.open[n].key = FALSE
    BY <2>1 DEF Outer, GivenShape
  <2>4. g.open[n].kind \in {"object", "array"}
    BY <2>2 DEF GivenLevels
  <2>5. Matches(top, g.open[n])
    BY <1>1, <2>1 DEF Outer
  <2> QED
    BY <1>1, <2>2, <2>3, <2>4, <2>5
<1>3. top.kind = "object" /\ top.left # 0 /\ top.left = g.open[n].left /\ top.keyed = FALSE /\ top.left \in Int
  BY <1>1, <1>2 DEF Matches, Levels
<1>4. MayFollow(w, c)
  BY <1>1, <1>2, <1>3 DEF MayFollow
<1> DEFINE level == [kind |-> "object", left |-> top.left, keyed |-> TRUE]
           v == [w EXCEPT !.open = [w.open EXCEPT ![n] = level]]
<1>5. [top EXCEPT !.keyed = TRUE] = level
  <2> HIDE DEF top
  <2>1. PICK l : l = [top EXCEPT !.keyed = TRUE]
    OBVIOUS
  <2>2. l = [kind |-> top.kind, left |-> top.left, keyed |-> TRUE]
    BY <1>1, <2>1 DEF Levels
  <2> QED
    BY <1>3, <2>1, <2>2
<1>6. After(w, c) = v
  <2>1. c[1] \notin Begin /\ c[1] \notin Scalar /\ c[1] \notin End
    BY DEF Scalar, Begin, End
  <2>2. After(w, c) = [w EXCEPT !.open[Len(w.open)].keyed = TRUE]
    BY <1>4, <2>1 DEF After
  <2> QED
    BY <1>1, <1>5, <2>2
<1>7. level \in Levels
  BY <1>3 DEF Levels, Kinds
<1>8. /\ n > 0 /\ GivenShape(h) /\ Len(h.open) = n /\ h.status = g.status
      /\ \A i \in 1..(n - 1) : h.open[i] = g.open[i]
      /\ Turned(g.open[n], h.open[n]) /\ h.open[n].left = g.open[n].left
  BY <1>1, ItemComplete DEF Outer
<1> HIDE DEF h
<1>9. Matches(level, h.open[n]) /\ h.open[n].key = FALSE
  BY <1>1, <1>2, <1>3, <1>8 DEF Matches, Turned
<1> HIDE DEF level
<1>10. /\ v.open = [w.open EXCEPT ![n] = level] /\ v.status = "value"
       /\ v.open \in Seq(Levels) /\ Len(v.open) = n /\ v.open[n] = level
       /\ \A i \in 1..(n - 1) : v.open[i] = w.open[i]
       /\ AskedShape(v)
  <2>1. [w.open EXCEPT ![n] = level] \in Seq(Levels) /\ Len([w.open EXCEPT ![n] = level]) = n
    BY <1>1, <1>7, ExceptSeq
  <2>2. v.open = [w.open EXCEPT ![n] = level] /\ v.status = "value"
    BY <1>2 DEF AskedShape, Outer
  <2>3. v.open[n] = level /\ \A i \in 1..(n - 1) : v.open[i] = w.open[i]
    BY <1>1, <2>2
  <2>4. AskedShape(v)
    BY <1>2, <2>1, <2>2 DEF AskedShape, Outer
  <2> QED
    BY <2>1, <2>2, <2>3, <2>4
<1> HIDE DEF v
<1>11. ASSUME NEW i \in 1..n PROVE Matches(v.open[i], h.open[i])
  <2>1. CASE i = n
    BY <1>9, <1>10, <2>1
  <2>2. CASE i # n
    <3>1. v.open[i] = w.open[i] /\ h.open[i] = g.open[i]
      BY <1>1, <1>8, <1>10, <2>2
    <3> QED
      BY <1>1, <3>1 DEF Outer
  <2> QED
    BY <2>1, <2>2
<1>12. \A i \in 1..(n - 1) : h.open[i].key = FALSE /\ h.open[i].left # 0
  BY <1>1, <1>8 DEF Outer
<1>13. Outer(h, v)
  BY <1>1, <1>8, <1>10, <1>11, <1>12 DEF Outer
<1> QED
  BY <1>1, <1>4, <1>6, <1>10, <1>13 DEF h

\* A value is made, for the decoder as well.
LEMMA OuterValue ==
    ASSUME NEW g, NEW w, Outer(g, w), Len(w.open) = Len(g.open), g.status = "value",
           g.open # <<>> => Last(g.open).key = FALSE /\ Last(g.open).left # 0
    PROVE  /\ \A c : c[1] \in Begin \cup Scalar => MayFollow(w, c)
           /\ Outer(ItemGiven(g), ValueMade(w)) /\ Len(ValueMade(w).open) = Len(w.open)
<1> DEFINE n == Len(g.open)
           h == ItemGiven(g)
           v == ValueMade(w)
           top == w.open[n]
<1>1. GivenShape(g) /\ AskedShape(w) /\ w.status = "value" /\ n \in Nat /\ w.open \in Seq(Levels) /\ Len(w.open) = n
  BY DEF Outer, AskedShape, GivenShape
<1>2. CASE g.open = <<>>
  <2>1. w.open = <<>>
    BY <1>1, <1>2
  <2>2. h = [g EXCEPT !.status = "complete"] /\ v = [w EXCEPT !.status = "complete"]
    BY <1>2, <2>1 DEF ItemGiven, ValueMade
  <2>3. GivenShape(h) /\ h.open = <<>> /\ h.status = "complete"
    BY <1>1, <1>2, <2>2 DEF GivenShape
  <2>4. AskedShape(v) /\ v.open = <<>> /\ v.status = "complete"
    BY <1>1, <2>1, <2>2 DEF AskedShape
  <2>5. \A c : c[1] \in Begin \cup Scalar => MayFollow(w, c)
    BY <1>1, <2>1 DEF MayFollow
  <2> HIDE DEF h, v
  <2>6. Outer(h, v)
    BY <2>3, <2>4 DEF Outer
  <2> QED
    BY <2>1, <2>4, <2>5, <2>6 DEF h, v
<1>3. CASE g.open # <<>>
  <2>1. /\ n > 0 /\ w.open # <<>> /\ Last(w.open) = top /\ Last(g.open) = g.open[n] /\ top \in Levels
        /\ g.open[n] \in GivenLevels
    BY <1>1, <1>3 DEF GivenShape, Last
  <2>2. Matches(top, g.open[n])
    BY <1>1, <2>1 DEF Outer
  <2>3. /\ top.kind = g.open[n].kind /\ top.left = g.open[n].left /\ top.left # 0 /\ top.left \in Int
        /\ g.open[n].key = FALSE /\ (top.keyed = TRUE <=> top.kind = "object")
    BY <1>3, <2>1, <2>2 DEF Matches, Levels, GivenLevels
  <2>4. \A c : c[1] \in Begin \cup Scalar => MayFollow(w, c)
    BY <1>1, <2>1, <2>3 DEF MayFollow
  <2>5. PICK left \in Int : left = IF top.left = Unsized THEN Unsized ELSE top.left - 1
    BY <2>3 DEF Unsized
  <2> DEFINE level == [kind |-> top.kind, left |-> left, keyed |-> FALSE]
  <2>6. [top EXCEPT !.left = left, !.keyed = FALSE] = level
    <3> HIDE DEF top
    <3>1. PICK l : l = [top EXCEPT !.left = left, !.keyed = FALSE]
      OBVIOUS
    <3>2. l = [kind |-> top.kind, left |-> left, keyed |-> FALSE]
      BY <2>1, <3>1 DEF Levels
    <3> QED
      BY <3>1, <3>2
  <2>7. v = [w EXCEPT !.open = [w.open EXCEPT ![n] = level]]
    BY <1>1, <2>1, <2>5, <2>6 DEF ValueMade
  <2>8. level \in Levels
    BY <2>1, <2>5 DEF Levels
  <2>9. /\ GivenShape(h) /\ Len(h.open) = n /\ h.status = g.status
        /\ \A i \in 1..(n - 1) : h.open[i] = g.open[i]
        /\ Turned(g.open[n], h.open[n])
        /\ g.open[n].left = Unsized => h.open[n].left = g.open[n].left
        /\ g.open[n].key = FALSE /\ g.open[n].left # Unsized => h.open[n].left = g.open[n].left - 1
    BY <1>1, <1>3, ItemComplete
  <2> HIDE DEF h
  <2>10. Matches(level, h.open[n])
    <3>1. h.open[n].kind = top.kind
      BY <2>3, <2>9 DEF Turned
    <3>2. h.open[n].left = left
      BY <2>3, <2>5, <2>9
    <3>3. ~(h.open[n].kind = "object" /\ h.open[n].key = FALSE)
      BY <2>3, <2>9 DEF Turned
    <3> QED
      BY <3>1, <3>2, <3>3 DEF Matches
  <2> HIDE DEF level
  <2>11. /\ v.open = [w.open EXCEPT ![n] = level] /\ v.status = "value"
         /\ v.open \in Seq(Levels) /\ Len(v.open) = n /\ v.open[n] = level
         /\ \A i \in 1..(n - 1) : v.open[i] = w.open[i]
         /\ AskedShape(v)
    <3>1. [w.open EXCEPT ![n] = level] \in Seq(Levels) /\ Len([w.open EXCEPT ![n] = level]) = n
      BY <1>1, <2>1, <2>8, ExceptSeq
    <3>2. v.open = [w.open EXCEPT ![n] = level] /\ v.status = "value"
      BY <1>1, <2>7 DEF AskedShape
    <3>3. v.open[n] = level /\ \A i \in 1..(n - 1) : v.open[i] = w.open[i]
      BY <1>1, <2>1, <3>2
    <3>4. AskedShape(v)
      BY <1>1, <2>7, <3>1, <3>2 DEF AskedShape
    <3> QED
      BY <3>1, <3>2, <3>3, <3>4
  <2> HIDE DEF v
  <2>12. ASSUME NEW i \in 1..n PROVE Matches(v.open[i], h.open[i])
    <3>1. CASE i = n
      BY <2>10, <2>11, <3>1
    <3>2. CASE i # n
      <4>1. v.open[i] = w.open[i] /\ h.open[i] = g.open[i]
        BY <1>1, <2>9, <2>11, <3>2
      <4> QED
        BY <1>1, <4>1 DEF Outer
    <3> QED
      BY <3>1, <3>2
  <2>13. \A i \in 1..(n - 1) : h.open[i].key = FALSE /\ h.open[i].left # 0
    BY <1>1, <2>9 DEF Outer
  <2>14. Outer(h, v)
    BY <1>1, <2>9, <2>11, <2>12, <2>13 DEF Outer
  <2> QED
    BY <1>1, <2>4, <2>11, <2>14 DEF h, v
<1> QED
  BY <1>2, <1>3

\* An item of a key is made, of which the decoder knows nothing.
LEMMA OuterPart ==
    ASSUME NEW g, NEW w, Outer(g, w), Len(w.open) < Len(g.open), g.status = "value"
    PROVE  Outer(ItemGiven(g), w)
<1> DEFINE n == Len(g.open)
           h == ItemGiven(g)
<1>1. GivenShape(g) /\ AskedShape(w) /\ n \in Nat /\ Len(w.open) \in Nat
  BY DEF Outer, AskedShape, GivenShape
<1>2. g.open # <<>>
  BY <1>1
<1>3. /\ n > 0 /\ GivenShape(h) /\ Len(h.open) = n /\ h.status = g.status
      /\ \A i \in 1..(n - 1) : h.open[i] = g.open[i]
  BY <1>1, <1>2, ItemComplete
<1> HIDE DEF h
<1>4. \A i \in 1..Len(w.open) : h.open[i] = g.open[i]
  BY <1>1, <1>3
<1>5. \A i \in 1..Len(w.open) : Matches(w.open[i], h.open[i])
  BY <1>4 DEF Outer
<1>6. \A i \in 1..(Len(w.open) - 1) : h.open[i].key = FALSE
  <2>1. \A i \in 1..(Len(w.open) - 1) : i \in 1..Len(w.open)
    BY <1>1
  <2>2. \A i \in 1..(Len(w.open) - 1) : g.open[i].key = FALSE
    BY Zenon DEF Outer
  <2> QED
    BY <1>4, <2>1, <2>2, Zenon
<1>7. Len(w.open) > 0 /\ h.open[Len(w.open)].key = TRUE
  BY <1>1, <1>4 DEF Outer
<1>8. \A i \in 1..(n - 1) : h.open[i].left # 0
  BY <1>3 DEF Outer
<1>9. Outer(h, w)
  BY <1>1, <1>3, <1>5, <1>6, <1>7, <1>8 DEF Outer
<1> QED
  BY <1>9 DEF h

-------------------------------------------------------------------------------
\* A container begins, and ends, for the caller of the adaptor.
Begun(g, h, kind, n) ==
    /\ GivenShape(h) /\ h.status = "value" /\ Len(h.open) = Len(g.open) + 1
    /\ \A i \in 1..Len(g.open) : h.open[i] = g.open[i]
    /\ h.open[Len(g.open) + 1].kind = kind /\ h.open[Len(g.open) + 1].left = n
    /\ kind = "object" => h.open[Len(g.open) + 1].key = TRUE
    /\ kind = "array" => h.open[Len(g.open) + 1].key = FALSE
Ended(g, h) ==
    /\ GivenShape(h) /\ g.status = "value" /\ h.status = "value" /\ Len(h.open) = Len(g.open) - 1
    /\ \A i \in 1..(Len(g.open) - 1) : h.open[i] = g.open[i]

\* The same for the caller of the decoder.
Opens(w, v, kind, n) == v = [w EXCEPT !.open = Append(w.open, Opened(kind, n))]
Closes(w, v) == v = [w EXCEPT !.open = Front(w.open)]

\* The adaptor, but for its levels and its calls.
Alike(b, a) == DOMAIN b = DOMAIN a /\ b.failed = a.failed /\ IsSequence(b.buffer)

LEMMA GivenPushed ==
    ASSUME NEW g, GivenShape(g), g.status = "value", NEW kind \in {"object", "array"}, NEW n \in Int,
           NEW counted \in BOOLEAN, NEW h,
           h = [g EXCEPT !.open = Append(g.open, GivenLevel(kind, n)), !.counted = counted]
    PROVE  Begun(g, h, kind, n)
<1>1. PICK key \in BOOLEAN : key = (kind = "object")
  OBVIOUS
<1> DEFINE level == [kind |-> kind, left |-> n, key |-> key]
<1>2. GivenLevel(kind, n) = level
  BY <1>1 DEF GivenLevel
<1>3. level \in GivenLevels /\ level.kind = kind /\ level.left = n /\ level.key = key
  BY DEF GivenLevels
<1> HIDE DEF level
<1>4. g.open \in Seq(GivenLevels) /\ Len(g.open) \in Nat
  BY DEF GivenShape
<1>5. h.open = Append(g.open, level) /\ h.status = "value"
  BY <1>2 DEF GivenShape
<1>6. /\ h.open \in Seq(GivenLevels) /\ Len(h.open) = Len(g.open) + 1
      /\ h.open[Len(g.open) + 1] = level /\ \A i \in 1..Len(g.open) : h.open[i] = g.open[i]
  BY <1>3, <1>4, <1>5
<1>7. h \in [open : Seq(GivenLevels), status : {"value", "complete", "flushed"}, counted : BOOLEAN]
  BY <1>2, <1>5, <1>6 DEF GivenShape
<1>8. \A i \in 1..Len(h.open) : h.open[i].kind = "array" => h.open[i].key = FALSE
  <2> SUFFICES ASSUME NEW i \in 1..Len(h.open), h.open[i].kind = "array" PROVE h.open[i].key = FALSE
    OBVIOUS
  <2>1. CASE i = Len(g.open) + 1
    BY <1>1, <1>3, <1>6, <2>1
  <2>2. CASE i # Len(g.open) + 1
    <3>1. i \in 1..Len(g.open)
      BY <1>4, <1>6, <2>2
    <3> QED
      BY <1>6, <3>1 DEF GivenShape
  <2> QED
    BY <2>1, <2>2
<1>9. GivenShape(h)
  BY <1>5, <1>7, <1>8 DEF GivenShape
<1> QED
  BY <1>1, <1>3, <1>5, <1>6, <1>9 DEF Begun

LEMMA GivenPopped ==
    ASSUME NEW g, GivenShape(g), g.open # <<>>, NEW h, h = [g EXCEPT !.open = Front(g.open)]
    PROVE  Ended(g, h)
<1>1. g.open \in Seq(GivenLevels) /\ Len(g.open) \in Nat /\ Len(g.open) > 0 /\ g.status = "value"
  BY DEF GivenShape
<1>2. h.open = SubSeq(g.open, 1, Len(g.open) - 1) /\ h.status = "value" /\ h.counted = g.counted
  BY <1>1 DEF Front, GivenShape
<1>3. /\ h.open \in Seq(GivenLevels) /\ Len(h.open) = Len(g.open) - 1
      /\ \A i \in 1..(Len(g.open) - 1) : h.open[i] = g.open[i]
  BY <1>1, <1>2, WithoutLast, Zenon
<1>4. h \in [open : Seq(GivenLevels), status : {"value", "complete", "flushed"}, counted : BOOLEAN]
  BY <1>2, <1>3 DEF GivenShape
<1>5. \A i \in 1..Len(h.open) : h.open[i].kind = "array" => h.open[i].key = FALSE
  BY <1>1, <1>3 DEF GivenShape
<1>6. GivenShape(h)
  BY <1>2, <1>4, <1>5 DEF GivenShape
<1> QED
  BY <1>1, <1>2, <1>3, <1>6 DEF Ended

\* Text, or a call, is made of an item.
LEMMA LevelsSame ==
    ASSUME NEW a, NEW g, Paired(a, g), NEW b, Alike(b, a), b.levels = a.levels
    PROVE  Paired(b, g) /\ \A m \in Nat : Divided(a, m) => Divided(b, m)
<1>1. AdaptorShape(b)
  BY DEF Paired, AdaptorShape, Alike
<1> QED
  BY <1>1 DEF Paired, Divided

\* A container begins, for the adaptor.
LEMMA PairPushed ==
    ASSUME NEW a, NEW g, Paired(a, g), NEW target \in {"destination", "buffer"}, NEW kind \in {"object", "array"},
           NEW b, Alike(b, a), b.levels = Append(a.levels, Level(target, kind)),
           NEW h, NEW left, Begun(g, h, kind, left)
    PROVE  /\ Paired(b, h)
           /\ target = "destination" /\ Divided(a, Len(g.open)) => Divided(b, Len(h.open))
           /\ \A m \in 0..Len(g.open) : target = "buffer" /\ Divided(a, m) => Divided(b, m)
<1> DEFINE n == Len(a.levels)
<1>1. /\ GivenShape(h) /\ Len(h.open) = Len(g.open) + 1 /\ \A i \in 1..Len(g.open) : h.open[i] = g.open[i]
      /\ h.open[Len(g.open) + 1].kind = kind
      /\ kind = "object" => h.open[Len(g.open) + 1].key = TRUE
      /\ kind = "array" => h.open[Len(g.open) + 1].key = FALSE
  BY DEF Begun
<1>2. PICK key \in BOOLEAN : key = (kind = "object")
  OBVIOUS
<1> DEFINE level == [target |-> target, kind |-> kind, key |-> key, count |-> 0]
<1>3. Level(target, kind) = level
  BY <1>2 DEF Level
<1>4. level \in AdaptorLevels /\ level.kind = kind /\ level.key = key /\ level.target = target
  BY DEF AdaptorLevels
<1> HIDE DEF level
<1>5. /\ a.levels \in Seq(AdaptorLevels) /\ n \in Nat /\ n > 0 /\ n = Len(g.open) + 1 /\ Len(g.open) \in Nat
      /\ AdaptorShape(a)
  BY DEF Paired, AdaptorShape, GivenShape
<1>6. /\ b.levels \in Seq(AdaptorLevels) /\ Len(b.levels) = n + 1
      /\ b.levels[n + 1] = level /\ \A i \in 1..n : b.levels[i] = a.levels[i]
  <2>1. b.levels = Append(a.levels, level)
    BY <1>3
  <2>2. /\ Append(a.levels, level) \in Seq(AdaptorLevels) /\ Len(Append(a.levels, level)) = n + 1
        /\ Append(a.levels, level)[n + 1] = level /\ \A i \in 1..n : Append(a.levels, level)[i] = a.levels[i]
    BY <1>4, <1>5, AppendProperties
  <2> QED
    BY <2>1, <2>2
<1>7. AdaptorShape(b)
  BY <1>5, <1>6 DEF AdaptorShape, Alike
<1>8. ASSUME NEW i \in 1..Len(h.open)
      PROVE  b.levels[i + 1].kind = h.open[i].kind /\ b.levels[i + 1].key = h.open[i].key
  <2>1. CASE i = Len(g.open) + 1
    BY <1>2, <1>4, <1>5, <1>6, <1>1, <2>1
  <2>2. CASE i # Len(g.open) + 1
    <3>1. i \in 1..Len(g.open) /\ i + 1 \in 1..n
      BY <1>5, <1>1, <2>2
    <3>2. b.levels[i + 1] = a.levels[i + 1] /\ h.open[i] = g.open[i]
      BY <1>6, <1>1, <3>1
    <3> QED
      BY <3>1, <3>2 DEF Paired
  <2> QED
    BY <2>1, <2>2
<1>9. b.levels[1].kind = "root" /\ b.levels[1].key = FALSE
  <2>1. 1 \in 1..n
    BY <1>5
  <2> QED
    BY <1>6, <2>1 DEF Paired
<1>10. Paired(b, h)
  BY <1>5, <1>6, <1>7, <1>8, <1>9, <1>1 DEF Paired
<1>11. ASSUME NEW m \in Nat, Divided(a, m), NEW i \in 1..n
       PROVE  b.levels[i].target = IF i <= m + 1 THEN "destination" ELSE "buffer"
  BY <1>6, <1>11 DEF Divided
<1>12. ASSUME target = "destination", Divided(a, Len(g.open)) PROVE Divided(b, Len(h.open))
  <2> SUFFICES ASSUME NEW i \in 1..(n + 1) PROVE b.levels[i].target = "destination" /\ i <= Len(h.open) + 1
    BY <1>6 DEF Divided
  <2>1. CASE i = n + 1
    BY <1>4, <1>5, <1>6, <1>12, <1>1, <2>1
  <2>2. CASE i # n + 1
    <3>1. i \in 1..n /\ i <= Len(g.open) + 1
      BY <1>5, <2>2
    <3> QED
      BY <1>5, <1>11, <1>12, <1>1, <3>1
  <2> QED
    BY <2>1, <2>2
<1>13. ASSUME NEW m \in 0..Len(g.open), target = "buffer", Divided(a, m) PROVE Divided(b, m)
  <2> SUFFICES ASSUME NEW i \in 1..(n + 1) PROVE b.levels[i].target = IF i <= m + 1 THEN "destination" ELSE "buffer"
    BY <1>6 DEF Divided
  <2>1. CASE i = n + 1
    BY <1>4, <1>5, <1>6, <1>13, <2>1
  <2>2. CASE i # n + 1
    <3>1. i \in 1..n /\ m \in Nat
      BY <1>5, <2>2
    <3> QED
      BY <1>11, <1>13, <3>1
  <2> QED
    BY <2>1, <2>2
<1> QED
  BY <1>10, <1>12, <1>13

\* A container ends, for the adaptor.
LEMMA PairPopped ==
    ASSUME NEW a, NEW g, Paired(a, g), g.open # <<>>,
           NEW b, Alike(b, a), b.levels = Front(a.levels), NEW h, Ended(g, h)
    PROVE  /\ Paired(b, h)
           /\ Divided(a, Len(g.open)) => Divided(b, Len(h.open))
           /\ \A m \in 0..(Len(g.open) - 1) : Divided(a, m) => Divided(b, m)
<1> DEFINE n == Len(a.levels)
<1>1. GivenShape(h) /\ Len(h.open) = Len(g.open) - 1 /\ \A i \in 1..(Len(g.open) - 1) : h.open[i] = g.open[i]
  BY DEF Ended
<1>2. /\ a.levels \in Seq(AdaptorLevels) /\ n \in Nat /\ n > 1 /\ n = Len(g.open) + 1 /\ Len(g.open) \in Nat
      /\ AdaptorShape(a)
  BY DEF Paired, AdaptorShape, GivenShape
<1>3. b.levels = SubSeq(a.levels, 1, n - 1)
  BY DEF Front
<1>4. b.levels \in Seq(AdaptorLevels) /\ Len(b.levels) = n - 1 /\ \A i \in 1..(n - 1) : b.levels[i] = a.levels[i]
  BY <1>2, <1>3
<1>5. AdaptorShape(b)
  BY <1>2, <1>4 DEF AdaptorShape, Alike
<1>6. ASSUME NEW i \in 1..Len(h.open)
      PROVE  b.levels[i + 1].kind = h.open[i].kind /\ b.levels[i + 1].key = h.open[i].key
  <2>1. i \in 1..(Len(g.open) - 1) /\ i \in 1..Len(g.open) /\ i + 1 \in 1..(n - 1)
    BY <1>2, <1>1
  <2>2. b.levels[i + 1] = a.levels[i + 1] /\ h.open[i] = g.open[i]
    BY <1>4, <1>1, <2>1
  <2> QED
    BY <2>1, <2>2 DEF Paired
<1>7. b.levels[1].kind = "root" /\ b.levels[1].key = FALSE
  <2>1. 1 \in 1..(n - 1)
    BY <1>2
  <2> QED
    BY <1>4, <2>1 DEF Paired
<1>8. Paired(b, h)
  BY <1>2, <1>4, <1>5, <1>6, <1>7, <1>1 DEF Paired
<1>9. ASSUME NEW m \in Nat, Divided(a, m), NEW i \in 1..(n - 1)
      PROVE  b.levels[i].target = IF i <= m + 1 THEN "destination" ELSE "buffer"
  <2>1. i \in 1..n
    BY <1>2
  <2> QED
    BY <1>4, <1>9, <2>1 DEF Divided
<1>10. ASSUME Divided(a, Len(g.open)) PROVE Divided(b, Len(h.open))
  <2> SUFFICES ASSUME NEW i \in 1..(n - 1) PROVE b.levels[i].target = "destination" /\ i <= Len(h.open) + 1
    BY <1>4 DEF Divided
  <2>1. i <= Len(g.open) + 1 /\ i <= Len(h.open) + 1
    BY <1>2, <1>1
  <2> QED
    BY <1>2, <1>9, <1>10, <2>1
<1>11. ASSUME NEW m \in 0..(Len(g.open) - 1), Divided(a, m) PROVE Divided(b, m)
  BY <1>4, <1>9, <1>11 DEF Divided
<1> QED
  BY <1>8, <1>10, <1>11

\* The decoder's containers when the adaptor's caller begins one of the decoder, ...
LEMMA OuterPushed ==
    ASSUME NEW g, NEW w, Outer(g, w), Len(w.open) = Len(g.open), g.status = "value",
           g.open # <<>> => Last(g.open).key = FALSE /\ Last(g.open).left # 0,
           NEW kind \in {"object", "array"}, NEW n \in Int,
           NEW h, Begun(g, h, kind, n), NEW v, Opens(w, v, kind, n)
    PROVE  Outer(h, v) /\ Len(v.open) = Len(h.open)
<1> DEFINE k == Len(g.open)
           level == Opened(kind, n)
<1>1. /\ GivenShape(h) /\ h.status = "value" /\ Len(h.open) = Len(g.open) + 1
      /\ \A i \in 1..Len(g.open) : h.open[i] = g.open[i]
      /\ h.open[Len(g.open) + 1].kind = kind /\ h.open[Len(g.open) + 1].left = n
      /\ kind = "object" => h.open[Len(g.open) + 1].key = TRUE
  BY DEF Begun
<1>2. GivenShape(g) /\ AskedShape(w) /\ w.status = "value" /\ k \in Nat /\ w.open \in Seq(Levels) /\ Len(w.open) = k
  BY DEF Outer, AskedShape, GivenShape
<1>3. level \in Levels /\ level.kind = kind /\ level.left = n /\ level.keyed = FALSE
  BY DEF Opened, Levels, Kinds
<1> HIDE DEF level
<1>4. v.open = Append(w.open, level) /\ v.status = "value"
  BY <1>1, <1>2 DEF AskedShape, level, Opens
<1>5. /\ v.open \in Seq(Levels) /\ Len(v.open) = k + 1 /\ v.open[k + 1] = level
      /\ \A i \in 1..k : v.open[i] = w.open[i]
  BY <1>1, <1>2, <1>3, <1>4
<1>6. AskedShape(v)
  BY <1>1, <1>2, <1>4, <1>5 DEF AskedShape, Opens
<1>7. Matches(level, h.open[k + 1])
  BY <1>1, <1>3 DEF Matches
<1>8. ASSUME NEW i \in 1..(k + 1) PROVE Matches(v.open[i], h.open[i])
  <2>1. CASE i = k + 1
    BY <1>1, <1>5, <1>7, <2>1
  <2>2. CASE i # k + 1
    <3>1. i \in 1..k
      BY <1>1, <1>2, <2>2
    <3> QED
      BY <1>1, <1>2, <1>5, <3>1 DEF Outer
  <2> QED
    BY <1>1, <2>1, <2>2
<1>9. ASSUME NEW i \in 1..k PROVE h.open[i].key = FALSE /\ h.open[i].left # 0
  <2>1. h.open[i] = g.open[i]
    BY <1>1
  <2>2. CASE i = k
    <3>1. g.open # <<>> /\ Last(g.open) = g.open[k]
      BY <1>1, <1>2, <2>2 DEF GivenShape, Last
    <3> QED
      BY <1>1, <2>1, <2>2, <3>1
  <2>3. CASE i # k
    <3>1. i \in 1..(k - 1)
      BY <1>1, <1>2, <2>3
    <3> QED
      BY <1>1, <1>2, <2>1, <3>1 DEF Outer
  <2> QED
    BY <1>1, <2>2, <2>3
<1>10. Len(v.open) = k + 1 /\ v.status = h.status
  BY <1>1, <1>4, <1>5
<1> HIDE DEF k
<1>11. \A i \in 1..Len(v.open) : Matches(v.open[i], h.open[i])
  BY <1>1, <1>8, <1>10
<1>12. Len(v.open) - 1 = k /\ Len(h.open) - 1 = k /\ Len(v.open) = Len(h.open)
  BY <1>1, <1>2, <1>10 DEF k
<1>13. \A i \in 1..(Len(v.open) - 1) : h.open[i].key = FALSE
  BY <1>1, <1>9, <1>12, Zenon
<1>14. \A i \in 1..(Len(h.open) - 1) : h.open[i].left # 0
  BY <1>1, <1>9, <1>12, Zenon
<1>15. ~(Len(v.open) < Len(h.open)) /\ Len(v.open) <= Len(h.open)
  BY <1>1, <1>2, <1>12
<1>16. Outer(h, v)
  BY <1>1, <1>6, <1>10, <1>11, <1>13, <1>14, <1>15 DEF Outer
<1> QED
  BY <1>1, <1>12, <1>16

\* ... and when it begins one in a key.
LEMMA OuterPartPushed ==
    ASSUME NEW g, NEW w, Outer(g, w), g.status = "value", g.open # <<>>, Last(g.open).left # 0,
           Len(w.open) = Len(g.open) => Last(g.open).key = TRUE,
           NEW h, NEW kind, NEW n, Begun(g, h, kind, n)
    PROVE  Outer(h, w) /\ Len(w.open) < Len(h.open)
<1> DEFINE k == Len(g.open)
           m == Len(w.open)
<1>1. /\ GivenShape(h) /\ h.status = "value" /\ Len(h.open) = Len(g.open) + 1
      /\ \A i \in 1..Len(g.open) : h.open[i] = g.open[i]
  BY DEF Begun
<1>2. /\ GivenShape(g) /\ AskedShape(w) /\ w.status = "value" /\ k \in Nat /\ k > 0 /\ m \in Nat /\ m <= k
      /\ Last(g.open) = g.open[k]
  BY DEF Outer, AskedShape, GivenShape, Last
<1>3. \A i \in 1..m : h.open[i] = g.open[i] /\ Matches(w.open[i], h.open[i])
  <2>1. \A i \in 1..m : h.open[i] = g.open[i]
    BY <1>1, <1>2
  <2> QED
    BY <1>1, <2>1 DEF Outer
<1>4. ASSUME NEW i \in 1..(m - 1) PROVE h.open[i].key = FALSE
  <2>1. i \in 1..m
    BY <1>1, <1>2
  <2> QED
    BY <1>1, <1>3, <2>1 DEF Outer
<1>5. m > 0 /\ h.open[m].key = TRUE
  <2>1. CASE m = k
    BY <1>1, <1>2, <2>1
  <2>2. CASE m # k
    <3>1. m < k
      BY <1>1, <1>2, <2>2
    <3>2. m > 0 /\ g.open[m].key = TRUE
      BY <1>1, <3>1 DEF Outer
    <3> QED
      BY <1>1, <1>2, <3>2
  <2> QED
    BY <1>1, <2>1, <2>2
<1>6. ASSUME NEW i \in 1..k PROVE h.open[i].left # 0
  <2>1. h.open[i] = g.open[i]
    BY <1>1
  <2>2. CASE i = k
    BY <1>1, <1>2, <2>1, <2>2
  <2>3. CASE i # k
    <3>1. i \in 1..(k - 1)
      BY <1>1, <1>2, <2>3
    <3> QED
      BY <1>1, <2>1, <3>1 DEF Outer
  <2> QED
    BY <1>1, <2>2, <2>3
<1>7. Len(h.open) - 1 = k /\ m < Len(h.open) /\ m <= Len(h.open)
  BY <1>1, <1>2
<1>8. \A i \in 1..(Len(h.open) - 1) : h.open[i].left # 0
  BY <1>1, <1>6, <1>7, Zenon
<1>9. \A i \in 1..m : Matches(w.open[i], h.open[i])
  BY <1>1, <1>3
<1> QED
  BY <1>1, <1>2, <1>4, <1>5, <1>7, <1>8, <1>9 DEF Outer

\* A container of the decoder ends: the one around it wants a value.
LEMMA OuterPopped ==
    ASSUME NEW g, NEW w, Outer(g, w), Len(w.open) = Len(g.open), g.open # <<>>,
           NEW h, Ended(g, h), NEW v, Closes(w, v)
    PROVE  /\ Outer(h, v) /\ Len(v.open) = Len(h.open)
           /\ h.open # <<>> => Last(h.open).key = FALSE /\ Last(h.open).left # 0
<1> DEFINE k == Len(g.open)
<1>1. /\ GivenShape(h) /\ h.status = "value" /\ Len(h.open) = Len(g.open) - 1
      /\ \A i \in 1..(Len(g.open) - 1) : h.open[i] = g.open[i]
  BY DEF Ended
<1>2. /\ GivenShape(g) /\ AskedShape(w) /\ k \in Nat /\ k > 0 /\ w.open \in Seq(Levels) /\ Len(w.open) = k
      /\ w.status = "value"
  BY DEF Outer, AskedShape, GivenShape
<1>3. PICK open : open = SubSeq(w.open, 1, k - 1)
  OBVIOUS
<1>4. v.open = open /\ v.status = "value"
  BY <1>1, <1>2, <1>3 DEF Front, AskedShape, Closes
<1>5. open \in Seq(Levels) /\ Len(open) = k - 1 /\ \A i \in 1..(k - 1) : open[i] = w.open[i]
  BY <1>1, <1>2, <1>3
<1>6. AskedShape(v)
  BY <1>1, <1>2, <1>4, <1>5 DEF AskedShape, Closes
<1>7. \A i \in 1..(k - 1) : Matches(v.open[i], h.open[i])
  BY <1>1, <1>2, <1>4, <1>5 DEF Outer
<1>8. \A i \in 1..(k - 1) : h.open[i].key = FALSE /\ h.open[i].left # 0
  BY <1>1, <1>2 DEF Outer
<1>9. h.open # <<>> => Last(h.open) = h.open[k - 1] /\ k - 1 \in 1..(k - 1)
  BY <1>1, <1>2 DEF GivenShape, Last
<1>10. Outer(h, v)
  BY <1>1, <1>2, <1>4, <1>5, <1>6, <1>7, <1>8 DEF Outer
<1> QED
  BY <1>1, <1>4, <1>5, <1>8, <1>9, <1>10

\* A container in a key ends; it may be the key.
LEMMA OuterPartPopped ==
    ASSUME NEW g, NEW w, Outer(g, w), Len(w.open) < Len(g.open),
           NEW h, Ended(g, h)
    PROVE  /\ Outer(h, w) /\ h.open # <<>> /\ Last(h.open).left # 0
           /\ Len(w.open) = Len(h.open) => Last(h.open).key = TRUE
<1> DEFINE k == Len(g.open)
           m == Len(w.open)
<1>1. /\ GivenShape(h) /\ h.status = "value" /\ Len(h.open) = Len(g.open) - 1
      /\ \A i \in 1..(Len(g.open) - 1) : h.open[i] = g.open[i]
  BY DEF Ended
<1>2. GivenShape(g) /\ AskedShape(w) /\ k \in Nat /\ m \in Nat /\ m < k /\ m > 0 /\ g.open[m].key = TRUE
  BY DEF Outer, AskedShape, GivenShape
<1>3. w.status = "value"
  BY <1>1, <1>2 DEF AskedShape
<1>4. \A i \in 1..m : h.open[i] = g.open[i]
  BY <1>1, <1>2
<1>5. \A i \in 1..m : Matches(w.open[i], h.open[i])
  BY <1>1, <1>4 DEF Outer
<1>6. \A i \in 1..(m - 1) : h.open[i].key = FALSE
  <2>1. \A i \in 1..(m - 1) : g.open[i].key = FALSE
    BY <1>2 DEF Outer
  <2>2. \A i \in 1..(m - 1) : i \in 1..m
    BY <1>2
  <2> QED
    BY <1>4, <2>1, <2>2, Zenon
<1>7. h.open[m].key = TRUE
  BY <1>1, <1>2, <1>4
<1>8. \A i \in 1..(k - 1) : h.open[i].left # 0
  BY <1>1 DEF Outer
<1>9. h.open # <<>> /\ Last(h.open) = h.open[k - 1] /\ k - 1 \in 1..(k - 1)
  BY <1>1, <1>2 DEF GivenShape, Last
<1>10. Outer(h, w)
  BY <1>1, <1>2, <1>3, <1>5, <1>6, <1>7, <1>8 DEF Outer
<1> QED
  BY <1>1, <1>2, <1>7, <1>8, <1>9, <1>10

-------------------------------------------------------------------------------
\* What a call on the adaptor leads to: no call on the decoder, or one that may follow.
Passes(b, h, w) ==
    \/ b.made = <<>> /\ Adapted(b, h, w)
    \/ \E d : b.made = <<d>> /\ IsCall(d) /\ MayFollow(w, d) /\ Adapted(b, h, After(w, d))

\* The innermost level is the caller's innermost container, if one is open.
LEMMA InnermostPaired ==
    ASSUME NEW a, NEW g, NEW w, Adapted(a, g, w)
    PROVE  /\ AdaptorShape(a) /\ GivenShape(g) /\ AskedShape(w) /\ w.status = g.status
           /\ Innermost(a) \in AdaptorLevels /\ Len(a.levels) = Len(g.open) + 1
           /\ Innermost(a) = a.levels[Len(a.levels)]
           /\ Len(w.open) \in Nat /\ Len(g.open) \in Nat /\ Len(w.open) <= Len(g.open)
           /\ g.open = <<>> => Innermost(a).key = FALSE /\ Innermost(a).kind = "root"
           /\ g.open # <<>> => /\ Innermost(a).key = Last(g.open).key /\ Innermost(a).kind = Last(g.open).kind
                               /\ Last(g.open) \in GivenLevels /\ Len(g.open) > 0
                               /\ Last(g.open) = g.open[Len(g.open)]
<1> DEFINE n == Len(a.levels)
<1>1. /\ AdaptorShape(a) /\ GivenShape(g) /\ AskedShape(w) /\ w.status = g.status /\ n = Len(g.open) + 1
      /\ Len(w.open) <= Len(g.open)
  BY DEF Adapted, Paired, Outer
<1>2. /\ a.levels \in Seq(AdaptorLevels) /\ n \in Nat /\ n > 0 /\ Innermost(a) = a.levels[n]
      /\ Innermost(a) \in AdaptorLevels /\ g.open \in Seq(GivenLevels) /\ Len(g.open) \in Nat /\ Len(w.open) \in Nat
  BY <1>1 DEF AdaptorShape, Innermost, Last, GivenShape, AskedShape
<1>3. ASSUME g.open = <<>> PROVE Innermost(a).key = FALSE /\ Innermost(a).kind = "root"
  <2>1. n = 1
    BY <1>1, <1>3
  <2> QED
    BY <1>2, <2>1 DEF Adapted, Paired
<1>4. ASSUME g.open # <<>>
      PROVE  /\ Innermost(a).key = Last(g.open).key /\ Innermost(a).kind = Last(g.open).kind
             /\ Last(g.open) \in GivenLevels /\ Len(g.open) > 0 /\ Last(g.open) = g.open[Len(g.open)]
  <2>1. Len(g.open) \in 1..Len(g.open) /\ Last(g.open) = g.open[Len(g.open)] /\ Last(g.open) \in GivenLevels
    BY <1>2, <1>4 DEF Last
  <2> QED
    BY <1>1, <1>2, <2>1 DEF Adapted, Paired
<1> QED
  BY <1>1, <1>2, <1>3, <1>4

\* It is of the decoder if all the open containers are.
LEMMA InnermostTarget ==
    ASSUME NEW a, NEW g, NEW w, Adapted(a, g, w)
    PROVE  \/ Innermost(a).target = "destination" /\ Len(w.open) = Len(g.open)
           \/ Innermost(a).target = "buffer" /\ Len(w.open) < Len(g.open)
<1> DEFINE n == Len(a.levels)
<1>1. n = Len(g.open) + 1 /\ Innermost(a) = a.levels[n]
  BY InnermostPaired
<1>2. Len(w.open) \in Nat /\ Len(g.open) \in Nat /\ Len(w.open) <= Len(g.open)
  BY InnermostPaired
<1>3. n \in 1..n
  BY <1>1, <1>2
<1>4. Innermost(a).target = IF n <= Len(w.open) + 1 THEN "destination" ELSE "buffer"
  BY <1>1, <1>3 DEF Adapted, Divided
<1> QED
  BY <1>1, <1>2, <1>4

\* An item is complete: what that is for the decoder.
LEMMA ItemPasses ==
    ASSUME NEW a, NEW g, NEW w, Adapted(a, g, w), g.status = "value", g.open # <<>> => Last(g.open).left # 0,
           NEW b, Alike(b, a), b.levels = a.levels
    PROVE  /\ Advanced(b).made = b.made
           /\ Innermost(a).target = "buffer" => Adapted(Advanced(b), ItemGiven(g), w)
           /\ Innermost(a).target = "destination" /\ Innermost(a).key = TRUE =>
                  \A d : d[1] = "key" => MayFollow(w, d) /\ Adapted(Advanced(b), ItemGiven(g), After(w, d))
           /\ Innermost(a).target = "destination" /\ Innermost(a).key = FALSE =>
                  /\ \A d : d[1] \in Begin \cup Scalar => MayFollow(w, d)
                  /\ Adapted(Advanced(b), ItemGiven(g), ValueMade(w))
<1>1. /\ Innermost(a) \in AdaptorLevels /\ Len(w.open) \in Nat
      /\ g.open = <<>> => Innermost(a).key = FALSE
      /\ g.open # <<>> => Innermost(a).key = Last(g.open).key
      /\ \/ Innermost(a).target = "destination" /\ Len(w.open) = Len(g.open)
         \/ Innermost(a).target = "buffer" /\ Len(w.open) < Len(g.open)
  <2>1. Innermost(a) \in AdaptorLevels /\ Len(w.open) \in Nat
    BY InnermostPaired
  <2>2. g.open = <<>> => Innermost(a).key = FALSE
    BY InnermostPaired
  <2>3. g.open # <<>> => Innermost(a).key = Last(g.open).key
    BY InnermostPaired
  <2> QED
    BY <2>1, <2>2, <2>3, InnermostTarget
<1>2. Paired(b, g) /\ Divided(b, Len(w.open))
  BY <1>1, LevelsSame DEF Adapted
<1>3. Paired(Advanced(b), ItemGiven(g)) /\ Divided(Advanced(b), Len(w.open))
  BY <1>1, <1>2, PairAdvanced
<1>4. Advanced(b).made = b.made
  <2>1. AdaptorShape(b)
    BY <1>2 DEF Paired
  <2> QED
    BY <2>1, LevelAdvanced
<1>5. Outer(g, w)
  BY DEF Adapted
<1>6. ASSUME Innermost(a).target = "buffer" PROVE Adapted(Advanced(b), ItemGiven(g), w)
  <2>1. Len(w.open) < Len(g.open)
    BY <1>1, <1>6
  <2> QED
    BY <1>3, <1>5, <2>1, OuterPart DEF Adapted
<1>7. ASSUME Innermost(a).target = "destination" PROVE Len(w.open) = Len(g.open)
  BY <1>1, <1>7
<1>8. ASSUME Innermost(a).target = "destination", Innermost(a).key = TRUE, NEW d, d[1] = "key"
      PROVE  MayFollow(w, d) /\ Adapted(Advanced(b), ItemGiven(g), After(w, d))
  <2>1. g.open # <<>> /\ Last(g.open).key = TRUE
    BY <1>1, <1>8
  <2>2. MayFollow(w, d) /\ Outer(ItemGiven(g), After(w, d)) /\ Len(After(w, d).open) = Len(w.open)
    BY <1>5, <1>7, <1>8, <2>1, OuterKey
  <2> QED
    BY <1>3, <2>2 DEF Adapted
<1>9. ASSUME Innermost(a).target = "destination", Innermost(a).key = FALSE
      PROVE  /\ \A d : d[1] \in Begin \cup Scalar => MayFollow(w, d)
             /\ Adapted(Advanced(b), ItemGiven(g), ValueMade(w))
  <2>1. g.open # <<>> => Last(g.open).key = FALSE /\ Last(g.open).left # 0
    BY <1>1, <1>9
  <2>2. /\ \A d : d[1] \in Begin \cup Scalar => MayFollow(w, d)
        /\ Outer(ItemGiven(g), ValueMade(w)) /\ Len(ValueMade(w).open) = Len(w.open)
    BY <1>5, <1>7, <1>9, <2>1, OuterValue
  <2> QED
    BY <1>3, <2>2 DEF Adapted
<1> QED
  BY <1>4, <1>6, <1>8, <1>9

\* Text is written, or a call is made, and what that leaves as it was.
LEMMA TextWritten ==
    ASSUME NEW a, AdaptorShape(a), NEW S, NEW text \in Seq(S)
    PROVE  LET b == Written(a, text)
           IN  Alike(b, a) /\ b.levels = a.levels /\ b.made = a.made /\ b.buffer = a.buffer \o text
<1>1. PICK T : a.buffer \in Seq(T)
  BY DEF AdaptorShape, IsSequence
<1>2. a.buffer \in Seq(T \cup S) /\ text \in Seq(T \cup S)
  BY <1>1, SeqMonotonic
<1>3. a.buffer \o text \in Seq(T \cup S)
  BY <1>2
<1>4. IsSequence(a.buffer \o text)
  BY <1>3 DEF IsSequence
<1>5. PICK buffer : buffer = a.buffer \o text
  OBVIOUS
<1> QED
  BY <1>4, <1>5 DEF Written, AdaptorShape, Alike

LEMMA CallPassed ==
    ASSUME NEW a, AdaptorShape(a), a.made = <<>>, NEW c
    PROVE  LET b == Made(a, c)
           IN  Alike(b, a) /\ b.levels = a.levels /\ b.buffer = a.buffer /\ b.made = <<c>>
BY DEF Made, AdaptorShape, Alike

LEMMA PunctuatedText ==
    ASSUME NEW needed, NEW y, NEW z
    PROVE  \E S : /\ CommaIf(needed) \in Seq(S)
                  /\ Append(CommaIf(needed), y) \in Seq(S) /\ Append(Append(CommaIf(needed), y), z) \in Seq(S)
<1>1. PICK x : x = Punctuation(",")
  OBVIOUS
<1>2. CommaIf(needed) = <<>> \/ CommaIf(needed) = <<x>>
  BY <1>1 DEF CommaIf
<1>3. PICK comma : comma = CommaIf(needed)
  OBVIOUS
<1>4. comma \in Seq({x, y, z})
  <2>1. <<>> \in Seq({x, y, z}) /\ <<x>> \in Seq({x, y, z})
    OBVIOUS
  <2> QED
    BY <1>2, <1>3, <2>1
<1>5. Append(comma, y) \in Seq({x, y, z})
  BY <1>4
<1>6. Append(Append(comma, y), z) \in Seq({x, y, z})
  BY <1>5
<1> QED
  BY <1>3, <1>4, <1>5, <1>6

\* Which call is which.
LEMMA ItemKinds ==
    ASSUME NEW c, IsItem(c)
    PROVE  /\ IsCall(c)
           /\ c[1] \in Scalar => c[1] \notin Begin /\ c[1] \notin End /\ c[1] # "flush" /\ c[1] # "key"
           /\ c[1] \in Begin => /\ c[1] \in {"begin_object", "begin_array"} /\ c[1] \notin End /\ c[1] # "flush"
                                /\ c[1] \notin Scalar /\ c[1] # "key" /\ c[2] \in Int
           /\ c[1] \in End => /\ c[1] \in {"end_object", "end_array"} /\ c[1] \notin Begin /\ c[1] # "flush"
                              /\ c[1] \notin Scalar /\ c[1] # "key"
           /\ c[1] = "flush" => c[1] \notin Begin /\ c[1] \notin End /\ c[1] \notin Scalar /\ c[1] # "key"
           /\ c[1] \in Scalar \/ c[1] \in Begin \/ c[1] \in End \/ c[1] = "flush"
<1>1. PICK o \in Items : \E x, tag : c = <<o, x, tag>> /\ (o \in Begin => x \in Int)
  BY DEF IsItem
<1>2. PICK x, tag : c = <<o, x, tag>> /\ (o \in Begin => x \in Int)
  BY <1>1
<1>3. c[1] = o /\ c[2] = x
  BY <1>2
<1>4. o \in Operations
  BY DEF Items, Operations, Begin, End
<1>5. IsCall(c)
  BY <1>2, <1>4 DEF IsCall
<1>6. o \in Scalar => o \notin Begin /\ o \notin End /\ o # "flush" /\ o # "key"
  BY DEF Scalar, Begin, End
<1>7. o \in Begin => o \in {"begin_object", "begin_array"} /\ o \notin End /\ o # "flush" /\ o \notin Scalar /\ o # "key"
  BY DEF Items, Scalar, Begin, End
<1>8. o \in End => o \in {"end_object", "end_array"} /\ o \notin Begin /\ o # "flush" /\ o \notin Scalar /\ o # "key"
  BY DEF Items, Scalar, Begin, End
<1>9. o = "flush" => o \notin Begin /\ o \notin End /\ o \notin Scalar /\ o # "key"
  BY DEF Scalar, Begin, End
<1>10. o \in Scalar \/ o \in Begin \/ o \in End \/ o = "flush"
  BY DEF Items, Begin, End
<1> QED
  BY <1>2, <1>3, <1>5, <1>6, <1>7, <1>8, <1>9, <1>10

\* A scalar.
LEMMA AdaptedScalar ==
    ASSUME NEW a, NEW g, NEW w, Adapted(a, g, w), a.made = <<>>, NEW c, IsItem(c), c[1] \in Scalar,
           MayBeGiven(g, c)
    PROVE  Passes(Adapt(a, c), AfterGiven(g, c), w)
<1> DEFINE top == Innermost(a)
           comma == CommaIf(top.count > 0 /\ (top.key \/ top.kind # "object"))
           text == Append(comma, Lexeme(c))
           whole == Append(text, Punctuation(":"))
           key == Untagged("key", KeyText(c))
           h == ItemGiven(g)
<1>1. AdaptorShape(a) /\ top \in AdaptorLevels /\ a.failed = FALSE
  BY InnermostPaired DEF AdaptorShape
<1>2. c[1] \notin Begin /\ c[1] \notin End /\ c[1] # "flush" /\ c[1] # "key" /\ IsCall(c)
  BY ItemKinds
<1>3. AfterGiven(g, c) = h
  BY <1>2 DEF AfterGiven
<1>4. g.status = "value" /\ (g.open # <<>> => Last(g.open).left # 0)
  BY <1>2 DEF MayBeGiven
<1>5. Adapt(a, c) = Advanced(IF top.target = "buffer" THEN Written(a, IF top.key THEN whole ELSE text)
                             ELSE Made(a, IF top.key THEN key ELSE c))
  <2>1. Adapt(a, c) = AdaptScalar(a, c)
    BY <1>1, <1>2 DEF Adapt
  <2> QED
    BY <2>1, Zenon DEF AdaptScalar
<1>6. PICK S : text \in Seq(S) /\ whole \in Seq(S)
  BY PunctuatedText, Zenon
<1>7. key[1] = "key" /\ IsCall(key)
  BY DEF Untagged, IsCall, Operations, Begin
<1>8. top.target \in {"buffer", "destination"} /\ top.key \in BOOLEAN
  BY <1>1 DEF AdaptorLevels
<1> HIDE DEF top, text, whole, h, key
<1>9. CASE top.target = "buffer"
  <2>1. PICK t \in Seq(S) : t = IF top.key THEN whole ELSE text
    BY <1>6
  <2>2. PICK b : b = Written(a, t)
    OBVIOUS
  <2>3. Adapt(a, c) = Advanced(b)
    BY <1>5, <1>9, <2>1, <2>2
  <2>4. Alike(b, a) /\ b.levels = a.levels /\ b.made = a.made
    BY <1>1, <2>2, TextWritten
  <2>5. Advanced(b).made = b.made /\ Adapted(Advanced(b), h, w)
    BY <1>4, <1>9, <2>4, ItemPasses DEF top, h
  <2> QED
    BY <1>3, <2>3, <2>4, <2>5 DEF Passes
<1>10. CASE top.target = "destination" /\ top.key = TRUE
  <2>1. PICK b : b = Made(a, key)
    OBVIOUS
  <2>2. Adapt(a, c) = Advanced(b)
    BY <1>5, <1>10, <2>1
  <2>3. Alike(b, a) /\ b.levels = a.levels /\ b.made = <<key>>
    BY <1>1, <2>1, CallPassed
  <2>4. Advanced(b).made = b.made /\ MayFollow(w, key) /\ Adapted(Advanced(b), h, After(w, key))
    BY <1>4, <1>7, <1>10, <2>3, ItemPasses DEF top, h
  <2> QED
    BY <1>3, <1>7, <2>2, <2>3, <2>4 DEF Passes
<1>11. CASE top.target = "destination" /\ top.key = FALSE
  <2>1. PICK b : b = Made(a, c)
    OBVIOUS
  <2>2. Adapt(a, c) = Advanced(b)
    BY <1>5, <1>11, <2>1
  <2>3. Alike(b, a) /\ b.levels = a.levels /\ b.made = <<c>>
    BY <1>1, <2>1, CallPassed
  <2>4. Advanced(b).made = b.made /\ MayFollow(w, c) /\ Adapted(Advanced(b), h, ValueMade(w))
    BY <1>4, <1>11, <2>3, ItemPasses DEF top, h
  <2>5. After(w, c) = ValueMade(w)
    BY <1>2, <2>4, Zenon DEF After
  <2> QED
    BY <1>2, <1>3, <2>2, <2>3, <2>4, <2>5 DEF Passes
<1> QED
  BY <1>8, <1>9, <1>10, <1>11

\* The end of the text.
LEMMA AdaptedFlush ==
    ASSUME NEW a, NEW g, NEW w, Adapted(a, g, w), a.made = <<>>, NEW c, IsItem(c), c[1] = "flush",
           MayBeGiven(g, c)
    PROVE  Passes(Adapt(a, c), AfterGiven(g, c), w)
<1> DEFINE h == [g EXCEPT !.status = "flushed"]
           v == [w EXCEPT !.status = "flushed"]
<1>1. c[1] \notin Begin /\ c[1] \notin End /\ c[1] \notin Scalar /\ c[1] # "key" /\ IsCall(c)
  BY ItemKinds
<1>2. AdaptorShape(a) /\ GivenShape(g) /\ AskedShape(w) /\ w.status = g.status
  BY DEF Adapted, Paired, Outer
<1>3. Len(w.open) \in Nat
  BY InnermostPaired
<1>4. g.status = "complete"
  BY <1>1 DEF MayBeGiven
<1>5. g.open = <<>> /\ w.open = <<>>
  BY <1>2, <1>4 DEF GivenShape, AskedShape
<1>6. AfterGiven(g, c) = h
  BY <1>1 DEF AfterGiven
<1>7. MayFollow(w, c)
  BY <1>2, <1>4 DEF MayFollow
<1>8. After(w, c) = v
  BY <1>1, <1>7 DEF After
<1>9. GivenShape(h) /\ h.open = <<>> /\ h.status = "flushed"
  BY <1>2, <1>5 DEF GivenShape
<1>10. AskedShape(v) /\ v.open = <<>> /\ v.status = "flushed"
  BY <1>2, <1>5 DEF AskedShape
<1>11. PICK b : b = Made(a, c)
  OBVIOUS
<1>12. Adapt(a, c) = b
  BY <1>1, <1>2, <1>11 DEF Adapt, AdaptorShape
<1>13. Alike(b, a) /\ b.levels = a.levels /\ b.made = <<c>>
  BY <1>2, <1>11, CallPassed
<1>14. Paired(b, g) /\ Divided(b, Len(w.open))
  BY <1>3, <1>13, LevelsSame DEF Adapted
<1> HIDE DEF h, v
<1>15. Paired(b, h)
  BY <1>5, <1>9, <1>14 DEF Paired
<1>16. Outer(h, v)
  BY <1>9, <1>10 DEF Outer
<1>17. Adapted(b, h, v)
  BY <1>5, <1>10, <1>14, <1>15, <1>16 DEF Adapted
<1> QED
  BY <1>1, <1>6, <1>7, <1>8, <1>12, <1>13, <1>17 DEF Passes

\* A container begins.
LEMMA AdaptedBegin ==
    ASSUME NEW a, NEW g, NEW w, Adapted(a, g, w), a.made = <<>>, NEW c, IsItem(c), c[1] \in Begin,
           MayBeGiven(g, c)
    PROVE  Passes(Adapt(a, c), AfterGiven(g, c), w)
<1> DEFINE top == Innermost(a)
           kind == KindOf[c[1]]
           open == Punctuation(IF kind = "object" THEN "{" ELSE "[")
           text == Append(CommaIf(CommaBefore(top, c)), open)
           deeper(target) == [a EXCEPT !.levels = Append(@, Level(target, kind))]
           h == AfterGiven(g, c)
<1>1. /\ AdaptorShape(a) /\ top \in AdaptorLevels /\ a.failed = FALSE /\ GivenShape(g)
      /\ Paired(a, g) /\ Divided(a, Len(w.open)) /\ Outer(g, w)
  BY InnermostPaired DEF AdaptorShape, Adapted
<1>2. /\ c[1] \in {"begin_object", "begin_array"} /\ c[1] \notin End /\ c[1] # "flush" /\ c[1] \notin Scalar
      /\ c[1] # "key" /\ c[2] \in Int /\ IsCall(c)
  BY ItemKinds
<1>3. kind \in {"object", "array"}
  BY <1>2 DEF KindOf
<1>4. g.status = "value" /\ (g.open # <<>> => Last(g.open).left # 0)
  BY <1>2 DEF MayBeGiven
<1>5. Begun(g, h, kind, c[2])
  <2>1. PICK counted \in BOOLEAN : counted = (g.counted /\ c[2] # Unsized)
    OBVIOUS
  <2>2. h = [g EXCEPT !.open = Append(@, GivenLevel(kind, c[2])), !.counted = @ /\ c[2] # Unsized]
    BY <1>2 DEF AfterGiven
  <2>3. h = [g EXCEPT !.open = Append(g.open, GivenLevel(kind, c[2])), !.counted = counted]
    <3>1. [g EXCEPT !.open = Append(@, GivenLevel(kind, c[2])), !.counted = @ /\ c[2] # Unsized]
          = [g EXCEPT !.open = Append(g.open, GivenLevel(kind, c[2])), !.counted = (g.counted /\ c[2] # Unsized)]
      OBVIOUS
    <3> QED
      BY <2>1, <2>2, <3>1, Zenon
  <2> HIDE DEF h, kind
  <2> QED
    BY <1>1, <1>2, <1>3, <1>4, <2>3, GivenPushed
<1>6. Len(g.open) \in Nat /\ Len(h.open) = Len(g.open) + 1
  BY <1>1, <1>5 DEF Begun, GivenShape
<1>7. PICK S : text \in Seq(S)
  BY PunctuatedText, Zenon
<1>8. Adapt(a, c) = IF top.key \/ top.target = "buffer"
                    THEN Written(deeper("buffer"), text) ELSE Made(deeper("destination"), c)
  <2>1. Adapt(a, c) = AdaptBegin(a, c)
    BY <1>1, <1>2 DEF Adapt
  <2>2. AdaptBegin(a, c) = IF top.key \/ top.target = "buffer"
                           THEN Written(deeper("buffer"), text) ELSE Made(deeper("destination"), c)
    BY Zenon DEF AdaptBegin
  <2> QED
    BY <2>1, <2>2, Zenon
<1> HIDE DEF top, kind, text, h
<1>9. ASSUME NEW target
      PROVE  /\ Alike(deeper(target), a) /\ deeper(target).levels = Append(a.levels, Level(target, kind))
             /\ deeper(target).made = <<>> /\ deeper(target).buffer = a.buffer
  BY <1>1 DEF AdaptorShape, Alike
<1>10. top.target \in {"buffer", "destination"} /\ top.key \in BOOLEAN
  BY <1>1 DEF AdaptorLevels
<1>11. /\ Len(w.open) \in Nat /\ Len(w.open) <= Len(g.open)
       /\ g.open = <<>> => top.key = FALSE
       /\ g.open # <<>> => top.key = Last(g.open).key
  <2>1. Len(w.open) \in Nat /\ Len(w.open) <= Len(g.open)
    BY InnermostPaired
  <2>2. g.open = <<>> => top.key = FALSE
    BY InnermostPaired DEF top
  <2>3. g.open # <<>> => top.key = Last(g.open).key
    BY InnermostPaired DEF top
  <2> QED
    BY <2>1, <2>2, <2>3
<1>12. \/ top.target = "destination" /\ Len(w.open) = Len(g.open)
       \/ top.target = "buffer" /\ Len(w.open) < Len(g.open)
  BY InnermostTarget DEF top
<1>13. CASE top.key = TRUE \/ top.target = "buffer"
  <2>1. PICK e : e = deeper("buffer")
    OBVIOUS
  <2>2. Alike(e, a) /\ e.levels = Append(a.levels, Level("buffer", kind)) /\ e.made = <<>> /\ e.buffer = a.buffer
    BY <1>9, <2>1
  <2>3. PICK buffer : buffer = e.buffer \o text /\ IsSequence(buffer)
    <3>1. PICK T : e.buffer \in Seq(T)
      BY <2>2 DEF Alike, IsSequence
    <3>2. e.buffer \in Seq(T \cup S) /\ text \in Seq(T \cup S)
      BY <1>7, <3>1, SeqMonotonic
    <3>3. e.buffer \o text \in Seq(T \cup S)
      BY <3>2
    <3> QED
      BY <3>3 DEF IsSequence
  <2>4. PICK b : b = [e EXCEPT !.buffer = buffer]
    OBVIOUS
  <2>5. Adapt(a, c) = b
    <3>1. top.key \/ top.target = "buffer"
      BY <1>13
    <3> HIDE DEF deeper
    <3> QED
      BY <1>8, <2>1, <2>3, <2>4, <3>1 DEF Written
  <2>6. Alike(b, a) /\ b.levels = e.levels /\ b.made = e.made
    BY <1>1, <2>2, <2>3, <2>4 DEF Alike, AdaptorShape
  <2>7. Paired(b, h)
    BY <1>1, <1>3, <1>5, <2>2, <2>6, PairPushed
  <2>8. Divided(b, Len(w.open))
    <3>1. Len(w.open) \in 0..Len(g.open)
      BY <1>6, <1>11
    <3>2. \A m \in 0..Len(g.open) : "buffer" = "buffer" /\ Divided(a, m) => Divided(b, m)
      BY <1>1, <1>3, <1>5, <2>2, <2>6, PairPushed
    <3> QED
      BY <1>1, <3>1, <3>2
  <2>9. g.open # <<>> /\ (Len(w.open) = Len(g.open) => Last(g.open).key = TRUE)
    <3>1. CASE Len(w.open) < Len(g.open)
      BY <1>6, <1>11, <3>1
    <3>2. CASE Len(w.open) = Len(g.open)
      <4>1. top.key = TRUE
        BY <1>6, <1>11, <1>12, <1>13, <3>2
      <4> QED
        BY <1>11, <4>1
    <3> QED
      BY <1>12, <3>1, <3>2
  <2>10. Outer(h, w)
    BY <1>1, <1>4, <1>5, <2>9, OuterPartPushed
  <2>11. Adapted(b, h, w)
    BY <2>7, <2>8, <2>10 DEF Adapted
  <2> QED
    BY <2>2, <2>5, <2>6, <2>11 DEF Passes, h
<1>14. CASE top.key = FALSE /\ top.target = "destination"
  <2>1. PICK e : e = deeper("destination")
    OBVIOUS
  <2>2. Alike(e, a) /\ e.levels = Append(a.levels, Level("destination", kind)) /\ e.made = <<>>
    BY <1>9, <2>1
  <2>3. PICK b : b = Made(e, c)
    OBVIOUS
  <2>4. Adapt(a, c) = b
    <3>1. ~(top.key \/ top.target = "buffer")
      BY <1>14
    <3> HIDE DEF deeper
    <3> QED
      BY <1>8, <2>1, <2>3, <3>1
  <2>5. Alike(b, a) /\ b.levels = e.levels /\ b.made = <<c>>
    BY <1>1, <2>2, <2>3 DEF Made, Alike, AdaptorShape
  <2>6. Len(w.open) = Len(g.open)
    BY <1>12, <1>14
  <2>7. Paired(b, h) /\ Divided(b, Len(h.open))
    <3>1. Divided(a, Len(g.open))
      BY <1>1, <2>6
    <3>2. Paired(b, h)
      BY <1>1, <1>3, <1>5, <2>2, <2>5, PairPushed
    <3>3. "destination" = "destination" /\ Divided(a, Len(g.open)) => Divided(b, Len(h.open))
      BY <1>1, <1>3, <1>5, <2>2, <2>5, PairPushed
    <3> QED
      BY <3>1, <3>2, <3>3
  <2>8. g.open # <<>> => Last(g.open).key = FALSE /\ Last(g.open).left # 0
    BY <1>4, <1>11, <1>14
  <2>9. PICK v : v = [w EXCEPT !.open = Append(w.open, Opened(kind, c[2]))]
    OBVIOUS
  <2>10. Outer(h, v) /\ Len(v.open) = Len(h.open)
    <3>1. PICK n \in Int : n = c[2]
      BY <1>2
    <3>2. PICK x, y : x = h /\ y = kind
      OBVIOUS
    <3>3. Begun(g, x, y, n) /\ Opens(w, v, y, n) /\ y \in {"object", "array"}
      BY <1>3, <1>5, <2>9, <3>1, <3>2 DEF Opens
    <3>4. Outer(g, w) /\ Len(w.open) = Len(g.open) /\ g.status = "value"
      BY <1>1, <1>4, <2>6
    <3>5. Outer(x, v)
      BY <2>8, <3>3, <3>4, OuterPushed
    <3>6. Len(v.open) = Len(w.open) + 1
      <4>1. v.open = Append(w.open, Opened(y, n)) /\ w.open \in Seq(Levels)
        BY <3>3, <3>4 DEF Opens, Outer, AskedShape
      <4> QED
        BY <4>1
    <3>7. Len(x.open) = Len(g.open) + 1
      BY <3>3 DEF Begun
    <3> QED
      BY <3>1, <3>2, <3>4, <3>5, <3>6, <3>7
  <2>11. MayFollow(w, c)
    BY <1>1, <1>4, <2>6, <2>8, OuterValue
  <2>12. After(w, c) = v
    <3>1. c[1] # "begin_multi_dim"
      BY <1>2
    <3>2. After(w, c) = [w EXCEPT !.open = Append(w.open, Opened(KindOf[c[1]],
                                                                 IF c[1] = "begin_multi_dim" THEN 1 ELSE c[2]))]
      BY <1>2, <2>11 DEF After
    <3> QED
      BY <2>9, <3>1, <3>2 DEF kind
  <2>13. Adapted(b, h, v)
    BY <2>7, <2>10 DEF Adapted
  <2> QED
    BY <1>2, <2>4, <2>5, <2>11, <2>12, <2>13 DEF Passes, h
<1> QED
  BY <1>10, <1>13, <1>14

\* What the decoder knows of a container lets it end.
LEMMA EndMayFollow ==
    ASSUME NEW g, NEW w, Outer(g, w), Len(w.open) = Len(g.open), NEW c, IsItem(c), c[1] \in End, MayBeGiven(g, c)
    PROVE  /\ MayFollow(w, c)
           /\ \A v : Closes(w, v) => After(w, c) = ValueMade(v)
<1> DEFINE n == Len(g.open)
           top == w.open[n]
<1>1. /\ c[1] \in {"end_object", "end_array"} /\ c[1] \notin Begin /\ c[1] # "flush"
      /\ c[1] \notin Scalar /\ c[1] # "key"
  BY ItemKinds
<1>2. /\ g.open # <<>> /\ c[1] = EndOf[Last(g.open).kind] /\ Last(g.open).left \in {0, Unsized}
      /\ Last(g.open).kind = "object" => Last(g.open).key
  BY <1>1 DEF MayBeGiven
<1>3. /\ g.open \in Seq(GivenLevels) /\ w.open \in Seq(Levels) /\ n \in Nat /\ n > 0 /\ Len(w.open) = n
      /\ GivenShape(g) /\ AskedShape(w) /\ w.status = g.status
  BY <1>2 DEF Outer, GivenShape, AskedShape
<1>4. w.status = "value" /\ w.open # <<>> /\ Last(w.open) = top /\ Last(g.open) = g.open[n] /\ top \in Levels
      /\ g.open[n] \in GivenLevels
  BY <1>2, <1>3 DEF GivenShape, Last
<1>5. Matches(top, g.open[n])
  BY <1>3 DEF Outer
<1>6. top.kind = g.open[n].kind /\ top.left \in {0, Unsized} /\ top.keyed # TRUE
  BY <1>2, <1>4, <1>5 DEF Matches, GivenLevels
<1>7. top.keyed = FALSE
  BY <1>4, <1>6 DEF Levels
<1>8. MayFollow(w, c)
  BY <1>2, <1>4, <1>6, <1>7 DEF MayFollow
<1>9. ASSUME NEW v, Closes(w, v) PROVE After(w, c) = ValueMade(v)
  <2>1. v = [w EXCEPT !.open = Front(@)]
    BY <1>9 DEF Closes
  <2>2. After(w, c) = ValueMade([w EXCEPT !.open = Front(@)])
    BY <1>1, <1>8 DEF After
  <2> QED
    BY <2>1, <2>2, Zenon
<1> QED
  BY <1>8, <1>9

\* A container ends.
LEMMA AdaptedEnd ==
    ASSUME NEW a, NEW g, NEW w, Adapted(a, g, w), a.made = <<>>, NEW c, IsItem(c), c[1] \in End,
           MayBeGiven(g, c)
    PROVE  Passes(Adapt(a, c), AfterGiven(g, c), w)
<1> DEFINE close == Punctuation(IF c[1] = "end_object" THEN "}" ELSE "]")
           key == Untagged("key", <<"joined", Append(a.buffer, close)>>)
<1>1. AdaptorShape(a) /\ a.failed = FALSE /\ GivenShape(g) /\ Paired(a, g) /\ Divided(a, Len(w.open)) /\ Outer(g, w)
  BY DEF AdaptorShape, Adapted, Paired
<1>2. /\ c[1] \in {"end_object", "end_array"} /\ c[1] \notin Begin /\ c[1] # "flush"
      /\ c[1] \notin Scalar /\ c[1] # "key" /\ IsCall(c)
  BY ItemKinds
<1>3. g.open # <<>>
  BY <1>2 DEF MayBeGiven
<1>4. PICK f : f = [g EXCEPT !.open = Front(g.open)]
  OBVIOUS
<1>5. AfterGiven(g, c) = ItemGiven(f)
  BY <1>2, <1>4 DEF AfterGiven
<1>6. Ended(g, f)
  BY <1>1, <1>3, <1>4, GivenPopped
<1>7. PICK popped : popped = [a EXCEPT !.levels = Front(a.levels)]
  OBVIOUS
<1>8. /\ Alike(popped, a) /\ popped.levels = Front(a.levels) /\ popped.made = <<>> /\ popped.buffer = a.buffer
  BY <1>1, <1>7 DEF AdaptorShape, Alike
<1>9. Paired(popped, f)
  BY <1>1, <1>3, <1>6, <1>8, PairPopped
<1>10. AdaptorShape(popped)
  BY <1>9 DEF Paired
<1>11. Len(a.levels) # 1
  BY <1>1, <1>3 DEF Paired, GivenShape
<1> DEFINE outer == Innermost(popped)
<1>12. Adapt(a, c) =
           IF Innermost(a).target = "destination" THEN Made(Advanced(popped), c)
           ELSE IF outer.target = "destination" THEN Advanced([Made(popped, key) EXCEPT !.buffer = <<>>])
           ELSE Advanced(Written(popped, <<close>> \o IF outer.key THEN <<Punctuation(":")>> ELSE <<>>))
  <2>1. Adapt(a, c) = AdaptEnd(a, c)
    BY <1>1, <1>2 DEF Adapt
  <2> QED
    BY <1>7, <1>11, <2>1, Zenon DEF AdaptEnd
<1>13. key[1] = "key" /\ IsCall(key)
  <2>1. PICK x : x = <<"joined", Append(a.buffer, close)>>
    OBVIOUS
  <2>2. key = <<"key", x, "none">>
    BY <2>1, Zenon DEF Untagged
  <2> HIDE DEF key
  <2>3. key[1] = "key"
    BY <2>2
  <2>4. IsCall(key)
    BY <2>2, <2>3 DEF IsCall, Operations, Begin
  <2> QED
    BY <2>3, <2>4
<1> HIDE DEF close, key
<1>14. f.status = "value" /\ Len(w.open) \in Nat /\ Len(g.open) \in Nat /\ Len(f.open) = Len(g.open) - 1
  <2>1. Len(w.open) \in Nat /\ Len(g.open) \in Nat
    BY InnermostPaired
  <2> QED
    BY <1>6, <2>1 DEF Ended
<1>15. CASE Innermost(a).target = "destination"
  <2>1. Len(w.open) = Len(g.open)
    BY <1>15, InnermostTarget
  <2>2. PICK v : Closes(w, v)
    BY DEF Closes
  <2>3. Outer(f, v) /\ Len(v.open) = Len(f.open) /\ (f.open # <<>> => Last(f.open).key = FALSE /\ Last(f.open).left # 0)
    BY <1>1, <1>3, <1>6, <2>1, <2>2, OuterPopped
  <2>4. Divided(popped, Len(f.open))
    <3>1. Divided(a, Len(g.open)) => Divided(popped, Len(f.open))
      BY <1>1, <1>3, <1>6, <1>8, PairPopped
    <3> QED
      BY <1>1, <2>1, <3>1
  <2>5. Adapted(popped, f, v)
    BY <1>9, <2>3, <2>4 DEF Adapted
  <2>6. outer.target = "destination"
    BY <1>14, <2>3, <2>5, InnermostTarget
  <2>7. outer.key = FALSE
    <3>1. f.open = <<>> => outer.key = FALSE
      BY <2>5, InnermostPaired
    <3>2. f.open # <<>> => outer.key = Last(f.open).key
      BY <2>5, InnermostPaired
    <3> QED
      BY <2>3, <3>1, <3>2
  <2>8. Alike(popped, popped)
    BY <1>8 DEF Alike
  <2> DEFINE e == Advanced(popped)
  <2>9. e.made = popped.made /\ Adapted(e, ItemGiven(f), ValueMade(v))
    BY <1>14, <2>3, <2>5, <2>6, <2>7, <2>8, ItemPasses
  <2> HIDE DEF e
  <2>10. AdaptorShape(e) /\ e.made = <<>> /\ Paired(e, ItemGiven(f)) /\ Divided(e, Len(ValueMade(v).open))
         /\ Outer(ItemGiven(f), ValueMade(v)) /\ Len(ValueMade(v).open) \in Nat
    <3>1. Len(ValueMade(v).open) \in Nat
      BY <2>9, InnermostPaired
    <3> QED
      BY <1>8, <2>9, <3>1 DEF Adapted, Paired
  <2>11. PICK b : b = Made(e, c)
    OBVIOUS
  <2>12. Alike(b, e) /\ b.levels = e.levels /\ b.made = <<c>>
    BY <2>10, <2>11, CallPassed
  <2>13. Adapted(b, ItemGiven(f), ValueMade(v))
    BY <2>10, <2>12, LevelsSame DEF Adapted
  <2>14. MayFollow(w, c) /\ After(w, c) = ValueMade(v)
    BY <1>1, <2>1, <2>2, EndMayFollow
  <2>15. Adapt(a, c) = b
    BY <1>12, <1>15, <2>11 DEF e
  <2> QED
    BY <1>2, <1>5, <2>12, <2>13, <2>14, <2>15 DEF Passes
<1>16. CASE Innermost(a).target = "buffer"
  <2>1. Len(w.open) < Len(g.open)
    BY <1>16, InnermostTarget
  <2>2. /\ Outer(f, w) /\ f.open # <<>> /\ Last(f.open).left # 0
        /\ Len(w.open) = Len(f.open) => Last(f.open).key = TRUE
    BY <1>1, <1>6, <2>1, OuterPartPopped
  <2>3. Divided(popped, Len(w.open))
    <3>1. Len(w.open) \in 0..(Len(g.open) - 1)
      BY <1>14, <2>1
    <3>2. \A m \in 0..(Len(g.open) - 1) : Divided(a, m) => Divided(popped, m)
      BY <1>1, <1>3, <1>6, <1>8, PairPopped
    <3> QED
      BY <1>1, <3>1, <3>2
  <2>4. Adapted(popped, f, w)
    BY <1>9, <2>2, <2>3 DEF Adapted
  <2>5. outer.key = Last(f.open).key
    BY <2>2, <2>4, InnermostPaired
  <2>6. \/ outer.target = "destination" /\ outer.key = TRUE
        \/ outer.target = "buffer"
    <3>1. \/ outer.target = "destination" /\ Len(w.open) = Len(f.open)
          \/ outer.target = "buffer" /\ Len(w.open) < Len(f.open)
      BY <2>4, InnermostTarget
    <3> QED
      BY <2>2, <2>5, <3>1
  <2>7. CASE outer.target = "destination" /\ outer.key = TRUE
    <3>1. PICK b : b = [Made(popped, key) EXCEPT !.buffer = <<>>]
      OBVIOUS
    <3>2. Adapt(a, c) = Advanced(b)
      BY <1>12, <1>16, <2>7, <3>1
    <3>3. Alike(b, popped) /\ b.levels = popped.levels /\ b.made = <<key>>
      <4>1. IsSequence(<<>>)
        BY DEF IsSequence
      <4> QED
        BY <1>8, <1>10, <3>1, <4>1 DEF Made, Alike, AdaptorShape
    <3>4. Advanced(b).made = b.made /\ MayFollow(w, key) /\ Adapted(Advanced(b), ItemGiven(f), After(w, key))
      BY <1>13, <1>14, <2>2, <2>4, <2>7, <3>3, ItemPasses
    <3> QED
      BY <1>5, <1>13, <3>2, <3>3, <3>4 DEF Passes
  <2>8. CASE outer.target = "buffer"
    <3>1. PICK text : text = <<close>> \o IF outer.key THEN <<Punctuation(":")>> ELSE <<>>
      OBVIOUS
    <3>2. PICK S : text \in Seq(S)
      <4>1. PICK x, y : x = close /\ y = Punctuation(":")
        OBVIOUS
      <4>2. <<x>> \o <<y>> \in Seq({x, y}) /\ <<x>> \o <<>> \in Seq({x, y})
        OBVIOUS
      <4>3. text = <<x>> \o <<y>> \/ text = <<x>> \o <<>>
        BY <3>1, <4>1, Zenon
      <4> QED
        BY <4>2, <4>3
    <3>3. PICK b : b = Written(popped, text)
      OBVIOUS
    <3>4. Adapt(a, c) = Advanced(b)
      BY <1>12, <1>16, <2>8, <3>1, <3>3
    <3>5. Alike(b, popped) /\ b.levels = popped.levels /\ b.made = popped.made
      BY <1>10, <3>2, <3>3, TextWritten
    <3>6. Advanced(b).made = b.made /\ Adapted(Advanced(b), ItemGiven(f), w)
      BY <1>14, <2>2, <2>4, <2>8, <3>5, ItemPasses
    <3> QED
      BY <1>5, <1>8, <3>4, <3>5, <3>6 DEF Passes
  <2> QED
    BY <2>6, <2>7, <2>8
<1>17. Innermost(a).target \in {"destination", "buffer"}
  BY InnermostPaired DEF AdaptorLevels
<1> QED
  BY <1>15, <1>16, <1>17

\* Every call that comes in its turn.
LEMMA CallAdapted ==
    ASSUME NEW a, NEW g, NEW w, Adapted(a, g, w), a.made = <<>>, NEW c, IsItem(c), MayBeGiven(g, c)
    PROVE  Passes(Adapt(a, c), AfterGiven(g, c), w)
<1>1. c[1] \in Scalar \/ c[1] \in Begin \/ c[1] \in End \/ c[1] = "flush"
  BY ItemKinds
<1> QED
  BY <1>1, AdaptedScalar, AdaptedBegin, AdaptedEnd, AdaptedFlush

\* What the adaptor has not passed on yet it passes on before the next call.
LEMMA NothingMade ==
    ASSUME NEW a, NEW g, NEW w, Adapted(a, g, w), NEW b, b = [a EXCEPT !.made = <<>>]
    PROVE  Adapted(b, g, w) /\ b.made = <<>> /\ b.levels = a.levels /\ b.buffer = a.buffer
<1>1. AdaptorShape(a) /\ Len(w.open) \in Nat
  BY InnermostPaired
<1>2. b.made = <<>> /\ b.levels = a.levels /\ b.buffer = a.buffer /\ Alike(b, a)
  BY <1>1 DEF AdaptorShape, Alike
<1> QED
  BY <1>1, <1>2, LevelsSame DEF Adapted

\* A chain is ready for its first call.
LEMMA NewAdaptorAdapts == Adapted(NewAdaptor, NothingGiven, NoCalls)
<1>1. Level("destination", "root") = [target |-> "destination", kind |-> "root", key |-> FALSE, count |-> 0]
  BY DEF Level
<1>2. PICK root : root = [target |-> "destination", kind |-> "root", key |-> FALSE, count |-> 0]
  OBVIOUS
<1>3. root \in AdaptorLevels /\ root.kind = "root" /\ root.key = FALSE /\ root.target = "destination"
  BY <1>2 DEF AdaptorLevels
<1>4. NewAdaptor = [levels |-> <<root>>, buffer |-> <<>>, failed |-> FALSE, made |-> <<>>]
  BY <1>1, <1>2, Zenon DEF NewAdaptor
<1>5. /\ DOMAIN NewAdaptor = {"levels", "buffer", "failed", "made"}
      /\ NewAdaptor.levels = <<root>> /\ NewAdaptor.buffer = <<>> /\ NewAdaptor.failed = FALSE
  BY <1>4
<1>6. AdaptorShape(NewAdaptor) /\ Len(NewAdaptor.levels) = 1 /\ NewAdaptor.levels[1] = root
  <2>1. IsSequence(<<>>)
    BY DEF IsSequence
  <2>2. <<root>> \in Seq(AdaptorLevels) /\ Len(<<root>>) = 1 /\ <<root>>[1] = root
    BY <1>3
  <2> QED
    BY <1>5, <2>1, <2>2 DEF AdaptorShape
<1>7. NothingGiven.open = <<>> /\ NothingGiven.status = "value" /\ GivenShape(NothingGiven)
  BY DEF NothingGiven, GivenShape
<1>8. NoCalls.open = <<>> /\ NoCalls.status = "value" /\ AskedShape(NoCalls)
  BY NewDecoderAgrees DEF Agree, NoCalls
<1>9. Paired(NewAdaptor, NothingGiven)
  BY <1>3, <1>6, <1>7 DEF Paired
<1>10. Divided(NewAdaptor, Len(NoCalls.open))
  BY <1>3, <1>6, <1>8 DEF Divided
<1>11. Outer(NothingGiven, NoCalls)
  BY <1>7, <1>8 DEF Outer
<1> QED
  BY <1>9, <1>10, <1>11 DEF Adapted

\* The calls that the adaptor makes, at most one at a time, keep the order of the
\* visitor of the decoder.
MakesCall ==
    \/ asked' = asked /\ decoder' = decoder
    \/ \E d : IsCall(d) /\ Call(d)

ChainInv == Adapted(adaptor, given, asked) /\ Agree(decoder, asked)

LEMMA CallGiven ==
    ASSUME ChainInv, GiveNext
    PROVE  ChainInv' /\ MakesCall
<1>1. PICK a : a = [adaptor EXCEPT !.made = <<>>]
  OBVIOUS
<1>2. Adapted(a, given, asked) /\ a.made = <<>>
  BY <1>1, NothingMade DEF ChainInv
<1>3. ASSUME NEW c, IsItem(c), Give(c) PROVE ChainInv' /\ MakesCall
  <2>1. given' = AfterGiven(given, c) /\ adaptor' = Adapt(a, c) /\ Passes(Adapt(a, c), AfterGiven(given, c), asked)
    BY <1>1, <1>2, <1>3, CallAdapted DEF Give
  <2>2. Passes(adaptor', given', asked)
    BY <2>1
  <2>3. decoder' = FoldLeft(Visit, decoder, adaptor'.made) /\ asked' = AfterAll(asked, adaptor'.made)
    BY <1>3 DEF Give, Receive
  <2>4. CASE adaptor'.made = <<>> /\ Adapted(adaptor', given', asked)
    <3>1. decoder' = decoder /\ asked' = asked
      BY <2>3, <2>4, NoCallReceived
    <3> QED
      BY <2>4, <3>1 DEF ChainInv, MakesCall
  <2>5. ASSUME NEW d, adaptor'.made = <<d>>, IsCall(d), MayFollow(asked, d),
               Adapted(adaptor', given', After(asked, d))
        PROVE  ChainInv' /\ MakesCall
    <3>1. decoder' = Visit(decoder, d) /\ asked' = After(asked, d)
      BY <2>3, <2>5, OneCallReceived
    <3>2. Agree(decoder', asked')
      BY <2>5, <3>1, CallSeen DEF ChainInv
    <3>3. Adapted(adaptor', given', asked')
      BY <2>5, <3>1
    <3>4. ChainInv'
      BY <3>2, <3>3 DEF ChainInv
    <3>5. IsCall(d) /\ Call(d)
      BY <2>5, <3>1 DEF Call
    <3> QED
      BY <3>4, <3>5 DEF MakesCall
  <2> QED
    BY <2>2, <2>4, <2>5 DEF Passes
<1>4. CASE GiveNothing
  <2>1. adaptor' = a /\ given' = given /\ asked' = asked /\ decoder' = decoder
    BY <1>1, <1>4 DEF GiveNothing
  <2> QED
    BY <1>2, <2>1 DEF ChainInv, MakesCall
<1> QED
  BY <1>3, <1>4 DEF GiveNext

LEMMA StepGiven ==
    ASSUME ChainInv, [GiveNext]_chainVars
    PROVE  ChainInv' /\ [NextWithCaller]_<<asked, decoder>>
<1>1. CASE UNCHANGED chainVars
  BY <1>1 DEF chainVars, ChainInv
<1> QED
  BY <1>1, CallGiven DEF MakesCall, NextWithCaller

LEMMA ChainReady == ASSUME AdaptorInit PROVE ChainInv /\ InitWithCaller
BY NewAdaptorAdapts, NewDecoderAgrees DEF AdaptorInit, DecoderInit, ChainInv, InitWithCaller

\* The adaptor under a caller that keeps the order of generic_visitor is itself a caller
\* of the decoder that keeps the order of json_visitor: a refinement, with the calls of
\* the adaptor for those of the caller.
THEOREM AdaptorIsACaller == GiveSpec => SpecWithCaller
<1>1. AdaptorInit => ChainInv /\ InitWithCaller
  BY ChainReady
<1>2. ChainInv /\ [GiveNext]_chainVars => ChainInv' /\ [NextWithCaller]_<<asked, decoder>>
  BY StepGiven
<1> QED
  BY <1>1, <1>2, PTL DEF GiveSpec, SpecWithCaller

LEMMA ChainHolds == GiveSpec => []ChainInv
<1>1. AdaptorInit => ChainInv
  BY ChainReady
<1>2. ChainInv /\ [GiveNext]_chainVars => ChainInv'
  BY StepGiven
<1> QED
  BY <1>1, <1>2, PTL DEF GiveSpec

\* Neither the assertion that a container can end fails, in the adaptor, nor those of the decoder.
THEOREM ChainAssertionsHold == GiveSpec => []NoAssertionFails
<1>1. ChainInv => NoAssertionFails
  BY DEF ChainInv, Adapted, Paired, AdaptorShape, Agree, DecoderShape, NoAssertionFails
<1> QED
  BY <1>1, ChainHolds, PTL

\* Objects and arrays reach the decoder with the number of items that they announce:
\* keys that are containers do not change it.
THEOREM ChainKeepsCounts == GiveSpec => []CountsKept
<1>1. ChainInv => CountsKept
  BY DEF ChainInv, Adapted, Outer, GivenShape, AskedShape, CountsKept
<1> QED
  BY <1>1, ChainHolds, PTL
-------------------------------------------------------------------------------
\* The lexemes that may stand next to each other.
EndsItem(x) == x[1] # "punctuation" \/ x[2] \in {"]", "}"}
BeginsItem(x) == x[1] # "punctuation" \/ x[2] \in {"[", "{"}
Beside(x, y) ==
    /\ EndsItem(x) => ~BeginsItem(y)
    /\ x \in {<<"punctuation", ",">>, <<"punctuation", ":">>} => BeginsItem(y)

\* The last lexeme x of the text of a container: a value comes next, the first item, or another one.
Ready(x, top) ==
    IF top.kind = "object" /\ top.key = FALSE THEN x = <<"punctuation", ":">>
    ELSE IF top.count = 0 THEN x \in {<<"punctuation", "{">>, <<"punctuation", "[">>} ELSE EndsItem(x)

Readable(a) ==
    /\ Separated(a.buffer)
    /\ Innermost(a).target = "destination" => a.buffer = <<>>
    /\ Innermost(a).target = "buffer" => a.buffer # <<>> /\ Ready(Last(a.buffer), Innermost(a))

\* A key that the adaptor made from a container.
KeySeparated(c) == c[1] = "key" /\ c[2][1] = "joined" => Separated(c[2][2])

LEMMA Marks ==
    /\ \A p \in {",", ":", "{", "["} : ~EndsItem(<<"punctuation", p>>)
    /\ \A p \in {",", ":", "}", "]"} : ~BeginsItem(<<"punctuation", p>>)
    /\ \A p \in {"}", "]"} : EndsItem(<<"punctuation", p>>)
    /\ \A p \in {"{", "["} : BeginsItem(<<"punctuation", p>>)
<1>1. ASSUME NEW p
      PROVE  /\ EndsItem(<<"punctuation", p>>) <=> p \in {"]", "}"}
             /\ BeginsItem(<<"punctuation", p>>) <=> p \in {"[", "{"}
  BY DEF EndsItem, BeginsItem
<1> QED
  BY <1>1

\* Two texts after one another.
LEMMA TextsJoined ==
    ASSUME NEW s, IsSequence(s), NEW T, NEW t \in Seq(T), NEW x
    PROVE  /\ s \o Append(t, x) = Append(s \o t, x) /\ s \o <<>> = s /\ s \o <<x>> = Append(s, x)
           /\ IsSequence(s \o t)
<1>1. PICK S : s \in Seq(S)
  BY DEF IsSequence
<1> DEFINE U == S \cup T \cup {x}
<1>2. s \in Seq(U) /\ t \in Seq(U) /\ x \in U
  BY <1>1, SeqMonotonic
<1> HIDE DEF U
<1>3. s \o t \in Seq(U) /\ s \o Append(t, x) = Append(s \o t, x) /\ s \o <<>> = s /\ s \o <<x>> = Append(s, x)
  BY <1>2
<1> QED
  BY <1>3 DEF IsSequence

\* A lexeme that may stand next to the last one is added.
LEMMA TextGrown ==
    ASSUME NEW s, IsSequence(s), Separated(s), NEW x, s # <<>> => Beside(Last(s), x)
    PROVE  /\ IsSequence(Append(s, x)) /\ Separated(Append(s, x))
           /\ Append(s, x) # <<>> /\ Last(Append(s, x)) = x
<1> DEFINE t == Append(s, x)
           n == Len(s)
<1>1. /\ IsSequence(t) /\ n \in Nat /\ Len(t) = n + 1 /\ \A i \in 1..n : t[i] = s[i]
      /\ t[n + 1] = x
  BY Grown
<1>2. t # <<>> /\ Last(t) = x
  <2>1. PICK S : t \in Seq(S)
    BY <1>1 DEF IsSequence
  <2> HIDE DEF t
  <2> QED
    BY <1>1, <2>1 DEF Last
<1>3. n > 0 => s # <<>> /\ Last(s) = s[n]
  BY <1>1 DEF Last
<1> HIDE DEF t
<1>4. \A i \in 1..(n - 1) : Beside(s[i], s[i + 1])
  BY DEF Separated, Beside, EndsItem, BeginsItem
<1>5. ASSUME NEW i \in 1..(Len(t) - 1) PROVE Beside(t[i], t[i + 1])
  <2>1. CASE i = n
    BY <1>1, <1>3, <2>1
  <2>2. CASE i # n
    <3>1. i \in 1..(n - 1) /\ i \in 1..n /\ i + 1 \in 1..n
      BY <1>1, <2>2
    <3>2. t[i] = s[i] /\ t[i + 1] = s[i + 1]
      BY <1>1, <3>1
    <3> QED
      BY <1>4, <3>1, <3>2
  <2> QED
    BY <2>1, <2>2
<1>6. Separated(t)
  BY <1>5 DEF Separated, Beside, EndsItem, BeginsItem
<1> QED
  BY <1>1, <1>2, <1>6 DEF t

\* A separated text that ends with this lexeme.
Ending(t, x) == IsSequence(t) /\ Separated(t) /\ t # <<>> /\ Last(t) = x

\* An item, or the beginning of one, after another item.
LEMMA NextPlaced ==
    ASSUME NEW s, IsSequence(s), Separated(s), s # <<>>, EndsItem(Last(s)), NEW x, BeginsItem(x)
    PROVE  Ending(s \o Append(CommaIf(TRUE), x), x)
<1>1. PICK comma : comma = <<"punctuation", ",">>
  OBVIOUS
<1>2. ~BeginsItem(comma) /\ comma # <<"punctuation", ":">> /\ Beside(comma, x)
  BY <1>1 DEF BeginsItem, Beside, EndsItem
<1>3. Last(s) \notin {<<"punctuation", ",">>, <<"punctuation", ":">>}
  BY Marks, Zenon
<1>4. Beside(Last(s), comma)
  BY <1>2, <1>3 DEF Beside
<1>5. IsSequence(Append(s, comma)) /\ Separated(Append(s, comma)) /\ Last(Append(s, comma)) = comma
  BY <1>4, TextGrown
<1>6. PICK t : t = Append(s, comma)
  OBVIOUS
<1>7. Ending(Append(t, x), x)
  BY <1>2, <1>5, <1>6, TextGrown DEF Ending
<1>8. s \o Append(<<comma>>, x) = Append(t, x)
  <2>1. <<comma>> \in Seq({comma})
    OBVIOUS
  <2> QED
    BY <1>6, <2>1, TextsJoined
<1>9. CommaIf(TRUE) = <<comma>>
  BY <1>1 DEF CommaIf, Punctuation
<1> QED
  BY <1>7, <1>8, <1>9

\* The first one, or one after a colon.
LEMMA FirstPlaced ==
    ASSUME NEW s, IsSequence(s), Separated(s), s # <<>> => ~EndsItem(Last(s)), NEW x, BeginsItem(x)
    PROVE  Ending(s \o Append(CommaIf(FALSE), x), x)
<1>1. s # <<>> => Beside(Last(s), x)
  BY DEF Beside
<1>2. Ending(Append(s, x), x)
  BY <1>1, TextGrown DEF Ending
<1>3. s \o Append(<<>>, x) = Append(s, x)
  <2>1. <<>> \in Seq({x}) /\ Append(<<>>, x) = <<x>>
    OBVIOUS
  <2>2. s \o <<x>> = Append(s, x)
    BY <2>1, TextsJoined
  <2> QED
    BY <2>1, <2>2
<1>4. CommaIf(FALSE) = <<>>
  BY DEF CommaIf
<1> QED
  BY <1>2, <1>3, <1>4

\* Where a comma is needed.
LEMMA ReadyEnds ==
    ASSUME NEW x, NEW top, Ready(x, top)
    PROVE  /\ top.count # 0 /\ ~(top.kind = "object" /\ top.key = FALSE) => EndsItem(x)
           /\ top.count = 0 \/ (top.kind = "object" /\ top.key = FALSE) => ~EndsItem(x)
<1>1. x \in {<<"punctuation", "{">>, <<"punctuation", "[">>, <<"punctuation", ":">>} => ~EndsItem(x)
  BY Marks, Zenon
<1> QED
  BY <1>1 DEF Ready

LEMMA ItemPlaced ==
    ASSUME NEW s, IsSequence(s), Separated(s), NEW top, s # <<>> => Ready(Last(s), top),
           NEW x, BeginsItem(x), NEW needed \in BOOLEAN,
           needed = TRUE => s # <<>> /\ top.count # 0 /\ ~(top.kind = "object" /\ top.key = FALSE),
           needed = FALSE => s = <<>> \/ top.count = 0 \/ (top.kind = "object" /\ top.key = FALSE)
    PROVE  Ending(s \o Append(CommaIf(needed), x), x)
<1>1. CASE needed = TRUE
  <2>1. s # <<>> /\ EndsItem(Last(s))
    BY <1>1, ReadyEnds
  <2> QED
    BY <1>1, <2>1, NextPlaced
<1>2. CASE needed = FALSE
  <2>1. s # <<>> => ~EndsItem(Last(s))
    BY <1>2, ReadyEnds
  <2> QED
    BY <1>2, <2>1, FirstPlaced
<1> QED
  BY <1>1, <1>2

\* A colon after a key.
LEMMA ColonPlaced ==
    ASSUME NEW s, IsSequence(s), Separated(s), s # <<>>, EndsItem(Last(s))
    PROVE  LET t == Append(s, Punctuation(":"))
           IN  IsSequence(t) /\ Separated(t) /\ t # <<>> /\ Last(t) = <<"punctuation", ":">>
<1>1. PICK x : x = <<"punctuation", ":">>
  OBVIOUS
<1>2. ~BeginsItem(x) /\ Punctuation(":") = x
  BY <1>1 DEF BeginsItem, Punctuation
<1>3. Last(s) \notin {<<"punctuation", ",">>, <<"punctuation", ":">>}
  BY Marks, Zenon
<1>4. Beside(Last(s), x)
  BY <1>2, <1>3 DEF Beside
<1> QED
  BY <1>1, <1>2, <1>4, TextGrown

\* After an item a level is ready for the next one.
LEMMA AdvancedReadable ==
    ASSUME NEW a, AdaptorShape(a), Innermost(a).key = TRUE => Innermost(a).kind = "object",
           Separated(a.buffer), Innermost(a).target = "destination" => a.buffer = <<>>,
           Innermost(a).target = "buffer" =>
               /\ a.buffer # <<>>
               /\ Innermost(a).key = TRUE => Last(a.buffer) = <<"punctuation", ":">>
               /\ Innermost(a).key = FALSE => EndsItem(Last(a.buffer))
    PROVE  Readable(Advanced(a))
<1> DEFINE n == Len(a.levels)
           top == a.levels[n]
           b == Advanced(a)
<1>1. /\ n \in Nat /\ n > 0 /\ top \in AdaptorLevels /\ Innermost(a) = top
      /\ AdaptorShape(b) /\ b.buffer = a.buffer /\ Len(b.levels) = n
      /\ Turned(top, b.levels[n]) /\ b.levels[n].target = top.target
      /\ top.key = FALSE => b.levels[n].count = top.count + 1
  BY LevelAdvanced
<1>2. Innermost(b) = b.levels[n]
  BY <1>1 DEF Innermost, Last
<1> HIDE DEF b
<1>3. top.key \in BOOLEAN /\ top.count \in Nat /\ top.kind \in {"root", "object", "array"}
  BY <1>1 DEF AdaptorLevels
<1>4. ASSUME Innermost(b).target = "buffer" PROVE b.buffer # <<>> /\ Ready(Last(b.buffer), Innermost(b))
  <2>1. CASE top.key = TRUE
    <3>1. Innermost(b).kind = "object" /\ Innermost(b).key = FALSE
      BY <1>1, <1>2, <2>1 DEF Turned
    <3> QED
      BY <1>1, <1>2, <1>4, <2>1, <3>1 DEF Ready
  <2>2. CASE top.key = FALSE
    <3>1. ~(Innermost(b).kind = "object" /\ Innermost(b).key = FALSE) /\ Innermost(b).count # 0
      BY <1>1, <1>2, <1>3, <2>2 DEF Turned
    <3> QED
      BY <1>1, <1>2, <1>4, <2>2, <3>1 DEF Ready
  <2> QED
    BY <1>3, <2>1, <2>2
<1>5. Innermost(b).target = Innermost(a).target
  BY <1>1, <1>2
<1>6. Separated(b.buffer) /\ (Innermost(b).target = "destination" => b.buffer = <<>>)
  BY <1>1, <1>5
<1> QED
  BY <1>4, <1>6 DEF Readable, b

\* The text of an item.
LEMMA ItemText ==
    ASSUME NEW c, IsItem(c), c[1] \in Scalar
    PROVE  /\ KeyText(c)[1] # "joined" /\ BeginsItem(Lexeme(c)) /\ EndsItem(Lexeme(c))
<1>1. PICK o \in Items : \E x, tag : c = <<o, x, tag>> /\ (o = "string_value" => x[1] # "joined")
  BY DEF IsItem
<1>2. PICK x, tag : c = <<o, x, tag>> /\ (o = "string_value" => x[1] # "joined")
  BY <1>1
<1>3. /\ o \in Scalar \ {"typed_array"} /\ c[1] = o /\ c[2] = x
  BY <1>2 DEF Items, Scalar
<1>4. ASSUME o = "string_value" PROVE KeyText(c)[1] # "joined"
  <2>1. KeyText(c) = x
    BY <1>3, <1>4 DEF KeyText
  <2> QED
    BY <1>2, <1>4, <2>1
<1>5. ASSUME o = "byte_string_value" PROVE KeyText(c)[1] # "joined"
  <2>1. PICK p \in {"base64", "base16", "base64url"} :
            p = CASE c[3] = "base64" -> "base64" [] c[3] = "base16" -> "base16" [] OTHER -> "base64url"
    OBVIOUS
  <2>2. KeyText(c) = BytesText(c)
    BY <1>3, <1>5 DEF KeyText
  <2>3. BytesText(c) = <<p, c[2]>>
    BY <2>1, Zenon DEF BytesText
  <2> QED
    BY <2>2, <2>3
<1>6. ASSUME o = "ext_byte_string" PROVE KeyText(c)[1] # "joined"
  <2>1. KeyText(c) = <<"base64url", c[2][1]>>
    BY <1>3, <1>6 DEF KeyText
  <2> QED
    BY <2>1
<1>7. ASSUME o \in {"uint64_value", "int64_value"} PROVE KeyText(c)[1] # "joined"
  <2>1. KeyText(c) = <<"int", c[2]>>
    BY <1>3, <1>7 DEF KeyText
  <2> QED
    BY <2>1
<1>8. ASSUME o \in {"double_value", "half_value"} PROVE KeyText(c)[1] # "joined"
  <2>1. KeyText(c) = <<"double", c[2]>>
    BY <1>3, <1>8 DEF KeyText
  <2> QED
    BY <2>1
<1>9. ASSUME o = "bool_value" PROVE KeyText(c)[1] # "joined"
  <2>1. KeyText(c) = <<"chars", IF c[2] THEN "true" ELSE "false">>
    BY <1>3, <1>9 DEF KeyText
  <2> QED
    BY <2>1
<1>10. ASSUME o = "null_value" PROVE KeyText(c)[1] # "joined"
  <2>1. KeyText(c) = <<"chars", "null">>
    BY <1>3, <1>10 DEF KeyText
  <2> QED
    BY <2>1
<1>11. KeyText(c)[1] # "joined"
  BY <1>3, <1>4, <1>5, <1>6, <1>7, <1>8, <1>9, <1>10 DEF Scalar
<1>12. BeginsItem(Lexeme(c)) /\ EndsItem(Lexeme(c))
  <2>1. PICK t : t = KeyText(c)
    OBVIOUS
  <2>2. Lexeme(c) = <<"quoted", t>> \/ Lexeme(c) = <<"literal", t>>
    BY <2>1, Zenon DEF Lexeme
  <2>3. PICK y : y = Lexeme(c) /\ y[1] # "punctuation"
    BY <2>2
  <2> QED
    BY <2>3 DEF BeginsItem, EndsItem
<1> QED
  BY <1>11, <1>12

\* Only an object waits for a key.
LEMMA KeyOfObject ==
    ASSUME NEW a, NEW g, NEW w, Adapted(a, g, w)
    PROVE  Innermost(a).key = TRUE => Innermost(a).kind = "object"
<1>1. ASSUME g.open # <<>>, Last(g.open).kind = "array" PROVE Last(g.open).key = FALSE
  <2>1. Last(g.open) = g.open[Len(g.open)] /\ GivenShape(g) /\ Len(g.open) \in Nat /\ Len(g.open) > 0
    BY <1>1, InnermostPaired
  <2>2. Len(g.open) \in 1..Len(g.open)
    BY <2>1
  <2> QED
    BY <1>1, <2>1, <2>2 DEF GivenShape
<1>2. g.open # <<>> => Last(g.open).kind \in {"object", "array"}
  BY InnermostPaired DEF GivenLevels
<1>3. CASE g.open = <<>>
  BY <1>3, InnermostPaired
<1>4. CASE g.open # <<>>
  <2>1. Innermost(a).key = Last(g.open).key /\ Innermost(a).kind = Last(g.open).kind
    BY <1>4, InnermostPaired
  <2> QED
    BY <1>1, <1>2, <1>4, <2>1
<1> QED
  BY <1>3, <1>4

\* The text of the buffer, and the keys among the calls that were made.
Clear(a) == Readable(a) /\ \A i \in DOMAIN a.made : KeySeparated(a.made[i])

LEMMA MadeClear ==
    ASSUME NEW a, Readable(a), a.made = <<>> \/ \E d : a.made = <<d>> /\ KeySeparated(d)
    PROVE  Clear(a)
<1>1. CASE a.made = <<>>
  BY <1>1 DEF Clear
<1>2. ASSUME NEW d, a.made = <<d>>, KeySeparated(d) PROVE Clear(a)
  <2>1. DOMAIN a.made = {1} /\ a.made[1] = d
    BY <1>2
  <2> QED
    BY <1>2, <2>1 DEF Clear
<1> QED
  BY <1>1, <1>2

\* A scalar.
LEMMA ScalarClear ==
    ASSUME NEW a, NEW g, NEW w, Adapted(a, g, w), a.made = <<>>, Readable(a),
           NEW c, IsItem(c), c[1] \in Scalar
    PROVE  Clear(Adapt(a, c))
<1> DEFINE top == Innermost(a)
           needed == top.count > 0 /\ (top.key \/ top.kind # "object")
           x == Lexeme(c)
           text == Append(CommaIf(needed), x)
           whole == Append(text, Punctuation(":"))
           key == Untagged("key", KeyText(c))
<1>1. AdaptorShape(a) /\ top \in AdaptorLevels /\ a.failed = FALSE
  BY InnermostPaired DEF AdaptorShape
<1>2. c[1] \notin Begin /\ c[1] \notin End /\ c[1] # "flush" /\ c[1] # "key"
  BY ItemKinds
<1>3. Adapt(a, c) = Advanced(IF top.target = "buffer" THEN Written(a, IF top.key THEN whole ELSE text)
                             ELSE Made(a, IF top.key THEN key ELSE c))
  <2>1. Adapt(a, c) = AdaptScalar(a, c)
    BY <1>1, <1>2 DEF Adapt
  <2> QED
    BY <2>1, Zenon DEF AdaptScalar
<1>4. PICK S : text \in Seq(S) /\ whole \in Seq(S)
  BY PunctuatedText, Zenon
<1>5. KeySeparated(key) /\ KeySeparated(c) /\ BeginsItem(x) /\ EndsItem(x)
  <2>1. PICK k : k = KeyText(c) /\ k[1] # "joined"
    BY ItemText
  <2>2. key = <<"key", k, "none">>
    BY <2>1, Zenon DEF Untagged
  <2>3. KeySeparated(key)
    BY <2>1, <2>2 DEF KeySeparated
  <2> QED
    BY <1>2, <2>3, ItemText DEF KeySeparated
<1>6. top.target \in {"buffer", "destination"} /\ top.key \in BOOLEAN /\ top.count \in Nat
  BY <1>1 DEF AdaptorLevels
<1>7. top.key = TRUE => top.kind = "object"
  BY KeyOfObject
<1>8. CASE top.target = "buffer"
  <2>1. a.buffer # <<>> /\ Ready(Last(a.buffer), top) /\ Separated(a.buffer) /\ IsSequence(a.buffer)
    BY <1>1, <1>8 DEF Readable, AdaptorShape
  <2>2. PICK s : s = a.buffer \o text
    OBVIOUS
  <2>3. IsSequence(s) /\ Separated(s) /\ s # <<>> /\ Last(s) = x
    <3>1. PICK comma \in BOOLEAN : comma = needed
      OBVIOUS
    <3> HIDE DEF x, top
    <3>2. /\ comma = TRUE => top.count # 0 /\ ~(top.kind = "object" /\ top.key = FALSE)
          /\ comma = FALSE => top.count = 0 \/ (top.kind = "object" /\ top.key = FALSE)
      <4>1. top.count > 0 <=> top.count # 0
        BY <1>6
      <4>2. top.key \/ top.kind # "object" <=> ~(top.kind = "object" /\ top.key = FALSE)
        BY <1>6
      <4>3. comma <=> top.count # 0 /\ ~(top.kind = "object" /\ top.key = FALSE)
        BY <3>1, <4>1, <4>2, Zenon
      <4> QED
        BY <4>3
    <3> HIDE DEF needed
    <3>3. PICK v, l : v = a.buffer /\ l = top
      OBVIOUS
    <3>4. /\ IsSequence(v) /\ Separated(v) /\ v # <<>> /\ Ready(Last(v), l) /\ BeginsItem(x)
          /\ comma = TRUE => l.count # 0 /\ ~(l.kind = "object" /\ l.key = FALSE)
          /\ comma = FALSE => l.count = 0 \/ (l.kind = "object" /\ l.key = FALSE)
      BY <1>5, <2>1, <3>2, <3>3
    <3>5. Ending(v \o Append(CommaIf(comma), x), x)
      BY <3>4, ItemPlaced
    <3> QED
      BY <2>2, <3>1, <3>3, <3>5 DEF Ending
  <2> HIDE DEF top, text, x
  <2>4. PICK t : t = IF top.key THEN whole ELSE text
    OBVIOUS
  <2>5. PICK b : b = Written(a, t)
    OBVIOUS
  <2>6. Adapt(a, c) = Advanced(b)
    BY <1>3, <1>8, <2>4, <2>5
  <2>7. Alike(b, a) /\ b.levels = a.levels /\ b.made = <<>> /\ b.buffer = a.buffer \o t
    <3>1. t \in Seq(S)
      BY <1>4, <2>4
    <3> QED
      BY <1>1, <2>5, <3>1, TextWritten
  <2>8. /\ Separated(b.buffer) /\ b.buffer # <<>>
        /\ top.key = TRUE => Last(b.buffer) = <<"punctuation", ":">>
        /\ top.key = FALSE => EndsItem(Last(b.buffer))
    <3>1. CASE top.key = TRUE
      <4>1. a.buffer \o whole = Append(s, Punctuation(":"))
        <5>1. PICK y, u, v : y = Punctuation(":") /\ u = text /\ v = a.buffer
          OBVIOUS
        <5>2. IsSequence(v) /\ u \in Seq(S)
          BY <1>4, <2>1, <5>1
        <5>3. v \o Append(u, y) = Append(v \o u, y)
          BY <5>2, TextsJoined
        <5> QED
          BY <2>2, <5>1, <5>3
      <4>2. b.buffer = Append(s, Punctuation(":"))
        BY <2>4, <2>7, <3>1, <4>1
      <4> QED
        BY <1>5, <2>3, <3>1, <4>2, ColonPlaced
    <3>2. CASE top.key = FALSE
      <4>1. b.buffer = s
        BY <2>2, <2>4, <2>7, <3>2
      <4> QED
        BY <1>5, <2>3, <3>2, <4>1
    <3> QED
      BY <1>6, <3>1, <3>2
  <2>9. AdaptorShape(b) /\ Innermost(b) = top
    BY <1>1, <2>7 DEF AdaptorShape, Alike, Innermost, top
  <2>10. Readable(Advanced(b))
    BY <1>7, <1>8, <2>8, <2>9, AdvancedReadable
  <2>11. Advanced(b).made = <<>>
    BY <2>7, <2>9, LevelAdvanced
  <2> QED
    BY <2>6, <2>10, <2>11, MadeClear
<1>9. CASE top.target = "destination"
  <2>1. PICK d : d = (IF top.key THEN key ELSE c) /\ KeySeparated(d)
    BY <1>5
  <2>2. PICK b : b = Made(a, d)
    OBVIOUS
  <2>3. Adapt(a, c) = Advanced(b)
    BY <1>3, <1>9, <2>1, <2>2
  <2>4. Alike(b, a) /\ b.levels = a.levels /\ b.made = <<d>> /\ b.buffer = a.buffer
    BY <1>1, <2>2, CallPassed
  <2>5. AdaptorShape(b) /\ Innermost(b) = top
    BY <1>1, <2>4 DEF AdaptorShape, Alike, Innermost
  <2>6. a.buffer = <<>> /\ Separated(a.buffer)
    BY <1>9 DEF Readable
  <2> HIDE DEF top
  <2>7. Readable(Advanced(b))
    BY <1>7, <1>9, <2>4, <2>5, <2>6, AdvancedReadable
  <2>8. Advanced(b).made = <<d>>
    BY <2>4, <2>5, LevelAdvanced
  <2> QED
    BY <2>1, <2>3, <2>7, <2>8, MadeClear
<1> QED
  BY <1>6, <1>8, <1>9

\* The end of the text.
LEMMA FlushClear ==
    ASSUME NEW a, NEW g, NEW w, Adapted(a, g, w), a.made = <<>>, Readable(a), NEW c, IsItem(c), c[1] = "flush"
    PROVE  Clear(Adapt(a, c))
<1>1. AdaptorShape(a) /\ a.failed = FALSE
  BY InnermostPaired DEF AdaptorShape
<1>2. c[1] \notin Begin /\ c[1] \notin End /\ c[1] # "key"
  BY ItemKinds
<1>3. PICK b : b = Made(a, c)
  OBVIOUS
<1>4. Adapt(a, c) = b
  BY <1>1, <1>2, <1>3 DEF Adapt
<1>5. b.levels = a.levels /\ b.made = <<c>> /\ b.buffer = a.buffer
  BY <1>1, <1>3, CallPassed
<1>6. Readable(b) /\ KeySeparated(c)
  BY <1>2, <1>5 DEF Readable, Innermost, KeySeparated
<1> QED
  BY <1>4, <1>5, <1>6, MadeClear

\* A container that announces its items begins.
LEMMA BeginClear ==
    ASSUME NEW a, NEW g, NEW w, Adapted(a, g, w), a.made = <<>>, Readable(a),
           NEW c, IsItem(c), c[1] \in Begin, c[2] # Unsized
    PROVE  Clear(Adapt(a, c))
<1> DEFINE top == Innermost(a)
           kind == KindOf[c[1]]
           open == Punctuation(IF kind = "object" THEN "{" ELSE "[")
           text == Append(CommaIf(CommaBefore(top, c)), open)
           deeper(target) == [a EXCEPT !.levels = Append(@, Level(target, kind))]
<1>1. AdaptorShape(a) /\ top \in AdaptorLevels /\ a.failed = FALSE
  BY InnermostPaired DEF AdaptorShape
<1>2. /\ c[1] \in {"begin_object", "begin_array"} /\ c[1] \notin End /\ c[1] # "flush" /\ c[1] \notin Scalar
      /\ c[1] # "key"
  BY ItemKinds
<1>3. kind \in {"object", "array"}
  BY <1>2 DEF KindOf
<1>4. Adapt(a, c) = IF top.key \/ top.target = "buffer"
                    THEN Written(deeper("buffer"), text) ELSE Made(deeper("destination"), c)
  <2>1. Adapt(a, c) = AdaptBegin(a, c)
    BY <1>1, <1>2 DEF Adapt
  <2>2. AdaptBegin(a, c) = IF top.key \/ top.target = "buffer"
                           THEN Written(deeper("buffer"), text) ELSE Made(deeper("destination"), c)
    BY Zenon DEF AdaptBegin
  <2> QED
    BY <2>1, <2>2, Zenon
<1>5. PICK S : text \in Seq(S)
  BY PunctuatedText, Zenon
<1>6. top.target \in {"buffer", "destination"} /\ top.key \in BOOLEAN /\ top.count \in Nat
  BY <1>1 DEF AdaptorLevels
<1>7. PICK x : /\ x = open /\ BeginsItem(x)
               /\ x \in {<<"punctuation", "{">>, <<"punctuation", "[">>}
  <2>1. open \in {<<"punctuation", "{">>, <<"punctuation", "[">>}
    BY DEF Punctuation
  <2>2. BeginsItem(open)
    <3>1. PICK x : x = open /\ x \in {<<"punctuation", "{">>, <<"punctuation", "[">>}
      BY <2>1
    <3>2. BeginsItem(x)
      BY <3>1, Marks, Zenon
    <3> QED
      BY <3>1, <3>2
  <2> QED
    BY <2>1, <2>2
<1>8. PICK needed \in BOOLEAN : needed = CommaBefore(top, c)
  BY DEF CommaBefore
<1>9. a.levels \in Seq(AdaptorLevels) /\ IsSequence(a.buffer) /\ Separated(a.buffer)
  BY <1>1 DEF AdaptorShape, Readable
<1>10. ASSUME NEW target, NEW b, b.levels = Append(a.levels, Level(target, kind))
       PROVE  /\ Innermost(b).target = target /\ Innermost(b).kind = kind /\ Innermost(b).count = 0
              /\ Innermost(b).key = (kind = "object")
  <2>1. PICK l : l = Level(target, kind)
    OBVIOUS
  <2>2. l.target = target /\ l.kind = kind /\ l.count = 0 /\ l.key = (kind = "object")
    BY <2>1 DEF Level
  <2>3. a.levels \in Seq(AdaptorLevels \cup {l}) /\ l \in AdaptorLevels \cup {l}
    BY <1>9, SeqMonotonic
  <2>4. Last(Append(a.levels, l)) = l
    BY <2>3 DEF Last
  <2>5. Innermost(b) = l
    BY <1>10, <2>1, <2>4 DEF Innermost
  <2> QED
    BY <2>2, <2>5
<1>11. /\ needed = TRUE => /\ top.count # 0 /\ ~(top.kind = "object" /\ top.key = FALSE)
                           /\ top.key = TRUE => top.target = "buffer"
       /\ needed = FALSE /\ top.target = "buffer" => top.count = 0 \/ (top.kind = "object" /\ top.key = FALSE)
  <2> HIDE DEF top
  <2>1. needed <=> /\ top.count > 0
                   /\ \/ top.key /\ top.target = "buffer"
                      \/ ~top.key /\ top.kind # "object"
    BY <1>8 DEF CommaBefore
  <2> QED
    BY <1>6, <2>1
<1>12. /\ top.target = "destination" => a.buffer = <<>>
       /\ top.target = "buffer" => a.buffer # <<>> /\ Ready(Last(a.buffer), top)
  BY DEF Readable
<1> HIDE DEF top, kind, open
<1>13. CASE top.key \/ top.target = "buffer"
  <2>1. Ending(a.buffer \o text, x)
    <3>1. PICK v, l : v = a.buffer /\ l = top
      OBVIOUS
    <3>2. /\ IsSequence(v) /\ Separated(v) /\ BeginsItem(x)
          /\ v # <<>> => Ready(Last(v), l)
      BY <1>6, <1>7, <1>9, <1>12, <3>1
    <3>3. needed = TRUE => v # <<>> /\ l.count # 0 /\ ~(l.kind = "object" /\ l.key = FALSE)
      <4>1. needed = TRUE => top.target = "buffer"
        BY <1>6, <1>11, <1>13
      <4> QED
        BY <1>11, <1>12, <3>1, <4>1
    <3>4. needed = FALSE => v = <<>> \/ l.count = 0 \/ (l.kind = "object" /\ l.key = FALSE)
      BY <1>6, <1>11, <1>12, <3>1
    <3>5. Ending(v \o Append(CommaIf(needed), x), x)
      BY <3>2, <3>3, <3>4, ItemPlaced
    <3> QED
      BY <1>7, <1>8, <3>1, <3>5
  <2> HIDE DEF text
  <2>2. PICK e : e = deeper("buffer")
    OBVIOUS
  <2>3. /\ e.levels = Append(a.levels, Level("buffer", kind)) /\ e.made = <<>> /\ e.buffer = a.buffer
        /\ AdaptorShape(e)
    <3>1. e.levels = Append(a.levels, Level("buffer", kind)) /\ e.made = <<>> /\ e.buffer = a.buffer
          /\ DOMAIN e = DOMAIN a /\ e.failed = a.failed
      BY <1>1, <2>2 DEF AdaptorShape
    <3>2. Level("buffer", kind) \in AdaptorLevels
      BY <1>3 DEF Level, AdaptorLevels
    <3> QED
      BY <1>1, <3>1, <3>2 DEF AdaptorShape
  <2> HIDE DEF deeper
  <2>4. PICK b : b = Written(e, text)
    OBVIOUS
  <2>5. b.levels = e.levels /\ b.made = <<>> /\ b.buffer = a.buffer \o text
    BY <1>5, <2>3, <2>4, TextWritten
  <2>6. Adapt(a, c) = b
    BY <1>4, <1>13, <2>2, <2>4
  <2>7. Innermost(b).target = "buffer" /\ Ready(x, Innermost(b))
    <3>1. /\ Innermost(b).target = "buffer" /\ Innermost(b).kind = kind /\ Innermost(b).count = 0
          /\ Innermost(b).key = (kind = "object")
      BY <1>10, <2>3, <2>5
    <3>2. ~(Innermost(b).kind = "object" /\ Innermost(b).key = FALSE)
      BY <3>1
    <3> QED
      BY <1>7, <3>1, <3>2 DEF Ready
  <2>8. Readable(b)
    BY <2>1, <2>5, <2>7 DEF Readable, Ending
  <2> QED
    BY <2>5, <2>6, <2>8, MadeClear
<1>14. CASE ~(top.key \/ top.target = "buffer")
  <2>1. top.target = "destination" /\ a.buffer = <<>>
    BY <1>6, <1>12, <1>14
  <2>2. PICK e : e = deeper("destination")
    OBVIOUS
  <2>3. e.levels = Append(a.levels, Level("destination", kind)) /\ e.made = <<>> /\ e.buffer = a.buffer
    BY <1>1, <2>2 DEF AdaptorShape
  <2> HIDE DEF deeper
  <2>4. PICK b : b = [e EXCEPT !.made = Append(@, c)]
    OBVIOUS
  <2>5. Adapt(a, c) = b
    BY <1>4, <1>14, <2>2, <2>4 DEF Made
  <2>6. b.levels = e.levels /\ b.made = <<c>> /\ b.buffer = <<>>
    <3>1. DOMAIN e = {"levels", "buffer", "failed", "made"}
      BY <1>1, <2>2 DEF AdaptorShape, deeper
    <3> QED
      BY <2>1, <2>3, <2>4, <3>1
  <2>7. Innermost(b).target = "destination"
    BY <1>10, <2>3, <2>6
  <2>8. Readable(b)
    BY <1>9, <2>1, <2>6, <2>7 DEF Readable
  <2>9. KeySeparated(c)
    BY <1>2 DEF KeySeparated
  <2> QED
    BY <2>5, <2>6, <2>8, <2>9, MadeClear
<1> QED
  BY <1>13, <1>14

\* A container ends.
LEMMA EndClear ==
    ASSUME NEW a, NEW g, NEW w, Adapted(a, g, w), a.made = <<>>, Readable(a),
           NEW c, IsItem(c), c[1] \in End, MayBeGiven(g, c)
    PROVE  Clear(Adapt(a, c))
<1> DEFINE close == Punctuation(IF c[1] = "end_object" THEN "}" ELSE "]")
           text == Append(a.buffer, close)
           key == Untagged("key", <<"joined", text>>)
<1>1. AdaptorShape(a) /\ a.failed = FALSE /\ GivenShape(g) /\ Paired(a, g) /\ Outer(g, w)
  BY DEF AdaptorShape, Adapted, Paired
<1>2. /\ c[1] \in {"end_object", "end_array"} /\ c[1] \notin Begin /\ c[1] # "flush"
      /\ c[1] \notin Scalar /\ c[1] # "key"
  BY ItemKinds
<1>3. /\ g.open # <<>> /\ c[1] = EndOf[Last(g.open).kind]
      /\ Last(g.open).kind = "object" => Last(g.open).key
  BY <1>2 DEF MayBeGiven
<1>4. PICK f : f = [g EXCEPT !.open = Front(g.open)]
  OBVIOUS
<1>5. Ended(g, f)
  BY <1>1, <1>3, <1>4, GivenPopped
<1>6. PICK popped : popped = [a EXCEPT !.levels = Front(a.levels)]
  OBVIOUS
<1>7. /\ Alike(popped, a) /\ popped.levels = Front(a.levels) /\ popped.made = <<>> /\ popped.buffer = a.buffer
  BY <1>1, <1>6 DEF AdaptorShape, Alike
<1>8. Paired(popped, f)
  BY <1>1, <1>3, <1>5, <1>7, PairPopped
<1>9. AdaptorShape(popped)
  BY <1>8 DEF Paired
<1> DEFINE outer == Innermost(popped)
<1>10. Adapt(a, c) =
           IF Innermost(a).target = "destination" THEN Made(Advanced(popped), c)
           ELSE IF outer.target = "destination" THEN Advanced([Made(popped, key) EXCEPT !.buffer = <<>>])
           ELSE Advanced(Written(popped, <<close>> \o IF outer.key THEN <<Punctuation(":")>> ELSE <<>>))
  <2>1. Adapt(a, c) = AdaptEnd(a, c)
    BY <1>1, <1>2 DEF Adapt
  <2>2. Len(a.levels) # 1
    BY <1>1, <1>3 DEF Paired, GivenShape
  <2> QED
    BY <1>6, <2>1, <2>2, Zenon DEF AdaptEnd
<1>11. /\ outer \in AdaptorLevels
       /\ outer.key = TRUE => outer.kind = "object"
  <2>1. /\ popped.levels \in Seq(AdaptorLevels) /\ Len(popped.levels) \in Nat /\ Len(popped.levels) > 0
        /\ outer = popped.levels[Len(popped.levels)]
    BY <1>9 DEF AdaptorShape, Innermost, Last
  <2>2. outer \in AdaptorLevels
    BY <2>1
  <2>3. CASE Len(popped.levels) = 1
    BY <1>8, <2>1, <2>2, <2>3 DEF Paired
  <2>4. CASE Len(popped.levels) # 1
    <3>1. PICK i \in 1..Len(f.open) : i + 1 = Len(popped.levels)
      BY <1>8, <2>1, <2>4 DEF Paired, GivenShape
    <3>2. outer.kind = f.open[i].kind /\ outer.key = f.open[i].key /\ GivenShape(f)
      BY <1>8, <2>1, <3>1 DEF Paired
    <3>3. f.open[i].kind \in {"object", "array"} /\ (f.open[i].kind = "array" => f.open[i].key = FALSE)
      <4>1. f.open[i] \in GivenLevels
        BY <3>1, <3>2 DEF GivenShape
      <4>2. f.open[i].kind = "array" => f.open[i].key = FALSE
        BY <3>1, <3>2 DEF GivenShape
      <4> QED
        BY <4>1, <4>2 DEF GivenLevels
    <3> QED
      BY <2>2, <3>2, <3>3
  <2> QED
    BY <2>3, <2>4
<1> HIDE DEF outer
<1>12. outer.target \in {"destination", "buffer"} /\ outer.key \in BOOLEAN
  BY <1>11 DEF AdaptorLevels
<1>13. PICK x : x = close /\ EndsItem(x) /\ ~BeginsItem(x)
  <2>1. PICK x : x = close /\ x \in {<<"punctuation", "}">>, <<"punctuation", "]">>}
    BY DEF Punctuation
  <2>2. EndsItem(x) /\ ~BeginsItem(x)
    BY <2>1, Marks, Zenon
  <2> QED
    BY <2>1, <2>2
<1>14. IsSequence(a.buffer) /\ Separated(a.buffer)
  BY <1>1 DEF AdaptorShape, Readable
<1>15. ASSUME Innermost(a).target = "buffer" PROVE Ending(text, x)
  <2>1. a.buffer # <<>> /\ Ready(Last(a.buffer), Innermost(a))
    BY <1>15 DEF Readable
  <2>2. ~(Innermost(a).kind = "object" /\ Innermost(a).key = FALSE)
    <3>1. Innermost(a).kind = Last(g.open).kind /\ Innermost(a).key = Last(g.open).key
      BY <1>3, InnermostPaired
    <3> QED
      BY <1>3, <3>1
  <2>3. \/ Last(a.buffer) \in {<<"punctuation", "{">>, <<"punctuation", "[">>}
        \/ EndsItem(Last(a.buffer))
    BY <2>1, <2>2 DEF Ready
  <2>4. Last(a.buffer) \notin {<<"punctuation", ",">>, <<"punctuation", ":">>}
    BY <2>3, Marks
  <2>5. Beside(Last(a.buffer), x)
    BY <1>13, <2>4 DEF Beside
  <2>6. Ending(Append(a.buffer, x), x)
    BY <1>14, <2>5, TextGrown DEF Ending
  <2> QED
    BY <1>13, <2>6
<1> HIDE DEF close
<1>16. CASE Innermost(a).target = "destination"
  <2>1. a.buffer = <<>>
    BY <1>16 DEF Readable
  <2>2. Len(w.open) = Len(g.open)
    BY <1>16, InnermostTarget
  <2>3. Divided(popped, Len(f.open))
    <3>1. Divided(a, Len(g.open)) => Divided(popped, Len(f.open))
      BY <1>1, <1>3, <1>5, <1>7, PairPopped
    <3> QED
      BY <2>2, <3>1 DEF Adapted
  <2>4. outer.target = "destination"
    <3>1. /\ Len(popped.levels) = Len(f.open) + 1 /\ Len(f.open) \in Nat
          /\ outer = popped.levels[Len(popped.levels)]
      BY <1>8, <1>9 DEF Paired, GivenShape, AdaptorShape, Innermost, Last, outer
    <3> QED
      BY <2>3, <3>1 DEF Divided
  <2>5. PICK e : e = Advanced(popped)
    OBVIOUS
  <2>6. Readable(e)
    <3>1. /\ Innermost(popped).key = TRUE => Innermost(popped).kind = "object"
          /\ Innermost(popped).target = "destination"
      BY <1>11, <2>4 DEF outer
    <3>2. popped.buffer = <<>> /\ Separated(popped.buffer)
      BY <1>7, <1>14, <2>1
    <3>3. Readable(Advanced(popped))
      BY <1>9, <3>1, <3>2, AdvancedReadable
    <3> QED
      BY <2>5, <3>3
  <2>7. AdaptorShape(e) /\ e.made = <<>>
    BY <1>7, <1>9, <2>5, LevelAdvanced
  <2>8. PICK b : b = Made(e, c)
    OBVIOUS
  <2>9. b.levels = e.levels /\ b.made = <<c>> /\ b.buffer = e.buffer
    BY <2>7, <2>8, CallPassed
  <2>10. Readable(b)
    BY <2>6, <2>9 DEF Readable, Innermost
  <2>11. Adapt(a, c) = b
    BY <1>10, <1>16, <2>5, <2>8
  <2>12. KeySeparated(c)
    BY <1>2 DEF KeySeparated
  <2> QED
    BY <2>9, <2>10, <2>11, <2>12, MadeClear
<1>17. CASE Innermost(a).target = "buffer" /\ outer.target = "destination"
  <2>1. PICK d : d = key /\ KeySeparated(d)
    <3>1. PICK t : t = text /\ Separated(t)
      BY <1>15, <1>17 DEF Ending
    <3>2. key = <<"key", <<"joined", t>>, "none">>
      BY <3>1, Zenon DEF Untagged
    <3> HIDE DEF key
    <3>3. key[1] = "key" /\ key[2][1] = "joined" /\ key[2][2] = t
      BY <3>2
    <3> QED
      BY <3>1, <3>3 DEF KeySeparated
  <2> HIDE DEF key
  <2>2. PICK b : b = [Made(popped, d) EXCEPT !.buffer = <<>>]
    OBVIOUS
  <2>3. Adapt(a, c) = Advanced(b)
    BY <1>10, <1>17, <2>1, <2>2
  <2>4. b.levels = popped.levels /\ b.made = <<d>> /\ b.buffer = <<>> /\ AdaptorShape(b)
    <3>1. IsSequence(<<>>)
      BY DEF IsSequence
    <3> QED
      BY <1>7, <1>9, <2>2, <3>1 DEF Made, AdaptorShape
  <2>5. Innermost(b) = outer /\ Separated(<<>>)
    BY <2>4 DEF Innermost, Separated, outer
  <2>6. Readable(Advanced(b))
    <3>1. Innermost(b).target = "destination" /\ (Innermost(b).key = TRUE => Innermost(b).kind = "object")
      BY <1>11, <1>17, <2>5
    <3>2. b.buffer = <<>> /\ Separated(b.buffer) /\ AdaptorShape(b)
      BY <2>4, <2>5
    <3> QED
      BY <3>1, <3>2, AdvancedReadable
  <2>7. Advanced(b).made = <<d>>
    BY <2>4, LevelAdvanced
  <2> QED
    BY <2>1, <2>3, <2>6, <2>7, MadeClear
<1>18. CASE Innermost(a).target = "buffer" /\ outer.target = "buffer"
  <2>1. PICK y, v : y = Punctuation(":") /\ v = a.buffer
    OBVIOUS
  <2>2. PICK t : t = Append(v, x) /\ Ending(t, x)
    BY <1>13, <1>15, <1>18, <2>1
  <2>3. PICK more : more = <<x>> \o IF outer.key THEN <<y>> ELSE <<>>
    OBVIOUS
  <2>4. /\ more \in Seq({x, y})
        /\ outer.key = TRUE => more = Append(<<x>>, y)
        /\ outer.key = FALSE => more = <<x>>
    <3>1. <<x>> \o <<y>> = Append(<<x>>, y) /\ <<x>> \o <<>> = <<x>>
          /\ <<x>> \in Seq({x, y}) /\ Append(<<x>>, y) \in Seq({x, y})
      OBVIOUS
    <3> QED
      BY <1>12, <2>3, <3>1
  <2>5. PICK b : b = Written(popped, more)
    OBVIOUS
  <2>6. Adapt(a, c) = Advanced(b)
    BY <1>10, <1>13, <1>18, <2>1, <2>3, <2>5
  <2>7. Alike(b, popped) /\ b.levels = popped.levels /\ b.made = <<>> /\ b.buffer = v \o more
    BY <1>7, <1>9, <2>1, <2>4, <2>5, TextWritten
  <2>8. AdaptorShape(b) /\ Innermost(b) = outer
    BY <1>9, <2>7 DEF AdaptorShape, Alike, Innermost, outer
  <2>9. v \o <<x>> = t
    BY <1>14, <2>1, <2>2, TextsJoined
  <2>10. /\ Separated(b.buffer) /\ b.buffer # <<>>
         /\ outer.key = TRUE => Last(b.buffer) = <<"punctuation", ":">>
         /\ outer.key = FALSE => EndsItem(Last(b.buffer))
    <3>1. CASE outer.key = TRUE
      <4>1. PICK u : u = <<x>> /\ u \in Seq({x})
        <5>1. <<x>> \in Seq({x})
          OBVIOUS
        <5> QED
          BY <5>1
      <4>2. v \o Append(u, y) = Append(v \o u, y)
        BY <1>14, <2>1, <4>1, TextsJoined
      <4>3. b.buffer = Append(t, Punctuation(":"))
        BY <2>1, <2>4, <2>7, <2>9, <3>1, <4>1, <4>2
      <4> QED
        BY <1>13, <2>2, <3>1, <4>3, ColonPlaced DEF Ending
    <3>2. CASE outer.key = FALSE
      <4>1. b.buffer = t
        BY <2>4, <2>7, <2>9, <3>2
      <4> QED
        BY <1>13, <2>2, <3>2, <4>1 DEF Ending
    <3> QED
      BY <1>12, <3>1, <3>2
  <2>11. Readable(Advanced(b))
    <3>1. /\ Innermost(b).target = "buffer" /\ (Innermost(b).key = TRUE => Innermost(b).kind = "object")
          /\ Innermost(b).key = outer.key
      BY <1>11, <1>18, <2>8
    <3> QED
      BY <2>8, <2>10, <3>1, AdvancedReadable
  <2>12. Advanced(b).made = <<>>
    BY <2>7, <2>8, LevelAdvanced
  <2> QED
    BY <2>6, <2>11, <2>12, MadeClear
<1>19. Innermost(a).target \in {"destination", "buffer"}
  BY InnermostPaired DEF AdaptorLevels
<1> QED
  BY <1>12, <1>16, <1>17, <1>18, <1>19

\* The texts of the keys stay readable as long as the containers announce their items.
TextInv == given.counted => Clear(adaptor)

LEMMA TextKept ==
    ASSUME ChainInv, TextInv, [GiveNext]_chainVars
    PROVE  TextInv'
<1>1. PICK a : a = [adaptor EXCEPT !.made = <<>>]
  OBVIOUS
<1>2. Adapted(a, given, asked) /\ a.made = <<>> /\ a.levels = adaptor.levels /\ a.buffer = adaptor.buffer
  BY <1>1, NothingMade DEF ChainInv
<1>3. Clear(adaptor) => Readable(a)
  BY <1>2 DEF Clear, Readable, Innermost
<1>4. ASSUME NEW c, IsItem(c), Give(c), given'.counted PROVE Clear(adaptor')
  <2>1. /\ given' = AfterGiven(given, c) /\ adaptor' = Adapt(a, c) /\ MayBeGiven(given, c)
        /\ GivenShape(given)
    BY <1>1, <1>2, <1>4 DEF Give, Adapted, Paired
  <2>2. given.counted /\ (c[1] \in Begin => c[2] # Unsized)
    <3>1. CASE c[1] \in Begin
      <4>1. given' = [given EXCEPT !.open = Append(@, GivenLevel(KindOf[c[1]], c[2])),
                                   !.counted = @ /\ c[2] # Unsized]
        <5>1. c[1] \notin End /\ c[1] # "flush"
          BY <1>4, <3>1, ItemKinds
        <5> QED
          BY <2>1, <3>1, <5>1 DEF AfterGiven
      <4>2. given'.counted = (given.counted /\ c[2] # Unsized)
        BY <2>1, <4>1 DEF GivenShape
      <4> QED
        BY <1>4, <4>2
    <3>2. CASE c[1] \in End
      <4>1. c[1] \notin Begin /\ c[1] # "flush" /\ c[1] \notin Scalar
        BY <1>4, <3>2, ItemKinds
      <4>2. given.open # <<>>
        BY <2>1, <4>1 DEF MayBeGiven
      <4>3. PICK h : h = [given EXCEPT !.open = Front(@)]
        OBVIOUS
      <4>4. h.counted = given.counted /\ GivenShape(h)
        <5>1. Ended(given, h)
          BY <2>1, <4>2, <4>3, GivenPopped
        <5>2. h.counted = given.counted
          BY <2>1, <4>3 DEF GivenShape
        <5> QED
          BY <5>1, <5>2 DEF Ended
      <4>5. given' = ItemGiven(h)
        BY <2>1, <3>2, <4>1, <4>3 DEF AfterGiven
      <4>6. ItemGiven(h).counted = h.counted
        <5>1. CASE h.open = <<>>
          BY <4>4, <5>1 DEF ItemGiven, GivenShape
        <5>2. CASE h.open # <<>>
          BY <4>4, <5>2, ItemComplete
        <5> QED
          BY <5>1, <5>2
      <4> QED
        BY <1>4, <4>1, <4>4, <4>5, <4>6
    <3>3. CASE c[1] \in Scalar
      <4>1. c[1] \notin Begin /\ c[1] \notin End /\ c[1] # "flush"
        BY <1>4, <3>3, ItemKinds
      <4>2. given' = ItemGiven(given)
        BY <2>1, <4>1 DEF AfterGiven
      <4>3. ItemGiven(given).counted = given.counted
        <5>1. CASE given.open = <<>>
          BY <2>1, <5>1 DEF ItemGiven, GivenShape
        <5>2. CASE given.open # <<>>
          BY <2>1, <5>2, ItemComplete
        <5> QED
          BY <5>1, <5>2
      <4> QED
        BY <1>4, <4>1, <4>2, <4>3
    <3>4. CASE c[1] = "flush"
      <4>1. c[1] \notin Begin /\ c[1] \notin End
        BY <1>4, <3>4, ItemKinds
      <4>2. given' = [given EXCEPT !.status = "flushed"]
        BY <2>1, <3>4, <4>1 DEF AfterGiven
      <4> QED
        BY <1>4, <2>1, <4>1, <4>2 DEF GivenShape
    <3> QED
      BY <1>4, <3>1, <3>2, <3>3, <3>4, ItemKinds
  <2>3. Readable(a)
    BY <1>3, <2>2 DEF TextInv
  <2>4. Clear(Adapt(a, c))
    <3>1. CASE c[1] \in Begin
      BY <1>2, <1>4, <2>2, <2>3, <3>1, BeginClear
    <3>2. CASE c[1] \in End
      BY <1>2, <1>4, <2>1, <2>3, <3>2, EndClear
    <3>3. CASE c[1] \in Scalar
      BY <1>2, <1>4, <2>3, <3>3, ScalarClear
    <3>4. CASE c[1] = "flush"
      BY <1>2, <1>4, <2>3, <3>4, FlushClear
    <3> QED
      BY <1>4, <3>1, <3>2, <3>3, <3>4, ItemKinds
  <2> QED
    BY <2>1, <2>4
<1>5. ASSUME GiveNothing, given'.counted PROVE Clear(adaptor')
  <2>1. adaptor' = a /\ given.counted
    BY <1>1, <1>5 DEF GiveNothing
  <2>2. Readable(a)
    BY <1>3, <2>1 DEF TextInv
  <2> QED
    BY <1>2, <2>1, <2>2, MadeClear
<1>6. CASE UNCHANGED chainVars
  BY <1>6 DEF chainVars, TextInv
<1> QED
  BY <1>4, <1>5, <1>6 DEF GiveNext, TextInv

\* In the text of a key that is a container every item is separated from the last one,
\* when the containers announce their items.
THEOREM KeysAreSeparated == GiveSpec => []KeysSeparated
<1>1. AdaptorInit => TextInv
  <2>1. NewAdaptor.buffer = <<>> /\ NewAdaptor.made = <<>> /\ Innermost(NewAdaptor).target = "destination"
    BY DEF NewAdaptor, Innermost, Last, Level
  <2>2. Readable(NewAdaptor)
    BY <2>1 DEF Readable, Separated
  <2> QED
    BY <2>1, <2>2, MadeClear DEF AdaptorInit, TextInv
<1>2. ChainInv /\ TextInv /\ [GiveNext]_chainVars => TextInv'
  BY TextKept
<1>3. TextInv => KeysSeparated
  BY DEF TextInv, Clear, KeySeparated, KeysSeparated
<1> QED
  BY <1>1, <1>2, <1>3, ChainHolds, PTL DEF GiveSpec
-------------------------------------------------------------------------------
\* A parser makes at most one call at a time.

LEMMA NoItemReceived ==
    ASSUME NEW a, NEW g
    PROVE  FoldLeft(Adapt, a, <<>>) = a /\ FoldLeft(AfterGiven, g, <<>>) = g
<1>1. DOMAIN <<>> = {} /\ {} \in SUBSET {} /\ \A s \in SUBSET {} : s = {}
  OBVIOUS
<1>2. FoldLeft(Adapt, a, <<>>) = a
  <2> DEFINE Iter(f) == f = [s \in SUBSET {} |-> IF s = {} THEN a ELSE Adapt(f[s \ {Max(s)}], <<>>[Max(s)])]
  <2>1. FoldLeft(Adapt, a, <<>>) = (CHOOSE f : Iter(f))[{}]
    BY <1>1, Zenon DEF FoldLeft, MapThenFoldSet
  <2>2. \E f : Iter(f)
    <3> DEFINE first == [s \in SUBSET {} |-> a]
    <3>1. first = [s \in SUBSET {} |-> IF s = {} THEN a ELSE Adapt(first[s \ {Max(s)}], <<>>[Max(s)])]
      BY <1>1
    <3> QED
      BY <3>1
  <2>3. PICK f : Iter(f) /\ (CHOOSE h : Iter(h)) = f
    BY <2>2
  <2>4. f[{}] = a
    BY <1>1, <2>3
  <2> QED
    BY <2>1, <2>3, <2>4
<1>3. FoldLeft(AfterGiven, g, <<>>) = g
  <2> DEFINE Iter(f) == f = [s \in SUBSET {} |-> IF s = {} THEN g ELSE AfterGiven(f[s \ {Max(s)}], <<>>[Max(s)])]
  <2>1. FoldLeft(AfterGiven, g, <<>>) = (CHOOSE f : Iter(f))[{}]
    BY <1>1, Zenon DEF FoldLeft, MapThenFoldSet
  <2>2. \E f : Iter(f)
    <3> DEFINE first == [s \in SUBSET {} |-> g]
    <3>1. first = [s \in SUBSET {} |-> IF s = {} THEN g ELSE AfterGiven(first[s \ {Max(s)}], <<>>[Max(s)])]
      BY <1>1
    <3> QED
      BY <3>1
  <2>3. PICK f : Iter(f) /\ (CHOOSE h : Iter(h)) = f
    BY <2>2
  <2>4. f[{}] = g
    BY <1>1, <2>3
  <2> QED
    BY <2>1, <2>3, <2>4
<1> QED
  BY <1>2, <1>3

LEMMA OneItemReceived ==
    ASSUME NEW a, NEW g, NEW c
    PROVE  FoldLeft(Adapt, a, <<c>>) = Adapt(a, c) /\ FoldLeft(AfterGiven, g, <<c>>) = AfterGiven(g, c)
<1>1. /\ DOMAIN <<c>> = {1} /\ SUBSET {1} = {{}, {1}} /\ {1} \ {1} = {} /\ {1} # {}
      /\ <<c>>[1] = c
  OBVIOUS
<1>2. Max({1}) = 1
  BY DEF Max
<1>3. FoldLeft(Adapt, a, <<c>>) = Adapt(a, c)
  <2> DEFINE Iter(f) == f = [s \in SUBSET {1} |-> IF s = {} THEN a ELSE Adapt(f[s \ {Max(s)}], <<c>>[Max(s)])]
  <2>1. FoldLeft(Adapt, a, <<c>>) = (CHOOSE f : Iter(f))[{1}]
    BY <1>1, Zenon DEF FoldLeft, MapThenFoldSet
  <2>2. \E f : Iter(f)
    <3> DEFINE next == [s \in SUBSET {1} |-> IF s = {} THEN a ELSE Adapt(a, c)]
    <3>1. next = [s \in SUBSET {1} |-> IF s = {} THEN a ELSE Adapt(next[s \ {Max(s)}], <<c>>[Max(s)])]
      BY <1>1, <1>2
    <3> QED
      BY <3>1
  <2>3. PICK f : Iter(f) /\ (CHOOSE h : Iter(h)) = f
    BY <2>2
  <2>4. f[{}] = a
    BY <1>1, <2>3
  <2>5. f[{1}] = IF {1} = {} THEN a ELSE Adapt(f[{1} \ {Max({1})}], <<c>>[Max({1})])
    <3>1. {1} \in SUBSET {1}
      OBVIOUS
    <3> QED
      BY <2>3, <3>1, Zenon
  <2>6. f[{1}] = Adapt(a, c)
    BY <1>1, <1>2, <2>4, <2>5
  <2> QED
    BY <2>1, <2>3, <2>6
<1>4. FoldLeft(AfterGiven, g, <<c>>) = AfterGiven(g, c)
  <2> DEFINE Iter(f) == f = [s \in SUBSET {1} |-> IF s = {} THEN g ELSE AfterGiven(f[s \ {Max(s)}], <<c>>[Max(s)])]
  <2>1. FoldLeft(AfterGiven, g, <<c>>) = (CHOOSE f : Iter(f))[{1}]
    BY <1>1, Zenon DEF FoldLeft, MapThenFoldSet
  <2>2. \E f : Iter(f)
    <3> DEFINE next == [s \in SUBSET {1} |-> IF s = {} THEN g ELSE AfterGiven(g, c)]
    <3>1. next = [s \in SUBSET {1} |-> IF s = {} THEN g ELSE AfterGiven(next[s \ {Max(s)}], <<c>>[Max(s)])]
      BY <1>1, <1>2
    <3> QED
      BY <3>1
  <2>3. PICK f : Iter(f) /\ (CHOOSE h : Iter(h)) = f
    BY <2>2
  <2>4. f[{}] = g
    BY <1>1, <2>3
  <2>5. f[{1}] = IF {1} = {} THEN g ELSE AfterGiven(f[{1} \ {Max({1})}], <<c>>[Max({1})])
    <3>1. {1} \in SUBSET {1}
      OBVIOUS
    <3> QED
      BY <2>3, <3>1, Zenon
  <2>6. f[{1}] = AfterGiven(g, c)
    BY <1>1, <1>2, <2>4, <2>5
  <2> QED
    BY <2>1, <2>3, <2>6
<1> QED
  BY <1>3, <1>4

\* What a parser hands to the adaptor: nothing, or an item in its turn.
LEMMA GivesNothing ==
    ASSUME ChainInv, ReceiveGeneric(<<>>)
    PROVE  GiveNothing
<1>1. PICK a : a = [adaptor EXCEPT !.made = <<>>]
  OBVIOUS
<1>2. adaptor' = a /\ given' = given /\ Receive(adaptor'.made)
  BY <1>1, NoItemReceived DEF ReceiveGeneric
<1>3. a.made = <<>>
  BY <1>1, NothingMade DEF ChainInv
<1>4. decoder' = decoder /\ asked' = asked
  BY <1>2, <1>3, NoCallReceived DEF Receive
<1> QED
  BY <1>1, <1>2, <1>4 DEF GiveNothing

LEMMA GivesItem ==
    ASSUME NEW c, MayBeGiven(given, c), ReceiveGeneric(<<c>>)
    PROVE  Give(c)
<1>1. PICK a : a = [adaptor EXCEPT !.made = <<>>]
  OBVIOUS
<1>2. adaptor' = Adapt(a, c) /\ given' = AfterGiven(given, c) /\ Receive(adaptor'.made)
  BY <1>1, OneItemReceived DEF ReceiveGeneric
<1> QED
  BY <1>1, <1>2 DEF Give
===============================================================================
