--------------------------- MODULE JsonPatchProofs ---------------------------
(***************************************************************************)
(* Proofs about JsonPatch: a patch that fails leaves the target as it was, *)
(* and one that is committed has performed each of its operations as RFC   *)
(* 6902 says, for all values and all patches.                              *)
(***************************************************************************)
EXTENDS JsonPatch, SequenceTheorems, FiniteSetTheorems, TLAPS

------------------------------------------------------------------------------
\* Induction over the natural numbers, for sets of them.

LEMMA Least ==
    ASSUME NEW T, T \subseteq Nat, T # {}
    PROVE  \E x \in T : \A y \in T : x <= y
<1>. DEFINE Initial == {0 .. n : n \in T}
<1>1. IsWellFoundedOn(StrictSubsetOrdering(Nat), FiniteSubsetsOf(Nat))
  BY FS_StrictSubsetOrderingWellFounded
<1>2. ASSUME NEW n \in T PROVE 0 .. n \in FiniteSubsetsOf(Nat)
  <2>1. IsFiniteSet(0 .. n)
    BY FS_Interval
  <2>2. 0 .. n \in SUBSET Nat
    BY SMT
  <2>3. QED  BY <2>1, <2>2, Zenon DEF FiniteSubsetsOf
<1>3. Initial \subseteq FiniteSubsetsOf(Nat) /\ Initial # {}
  BY <1>2
<1>4. PICK X \in Initial : \A Y \in Initial : ~(<<Y, X>> \in StrictSubsetOrdering(Nat))
  BY <1>1, <1>3, WFMin
<1>5. PICK x \in T : X = 0 .. x
  OBVIOUS
<1>6. ASSUME NEW y \in T, ~(x <= y) PROVE FALSE
  <2>1. 0 .. y \subseteq 0 .. x /\ x \in 0 .. x /\ ~(x \in 0 .. y) /\ 0 .. x \in SUBSET Nat
    BY <1>6
  <2>2. <<0 .. y, 0 .. x>> \in StrictSubsetOrdering(Nat)
    BY <2>1, SMT DEF StrictSubsetOrdering
  <2>3. QED  BY <1>4, <1>5, <2>2
<1>7. QED  BY <1>6

LEMMA Induct ==
    ASSUME NEW S, 0 \in S, \A n \in Nat : n \in S => n + 1 \in S
    PROVE  Nat \subseteq S
<1>. SUFFICES ASSUME ~(Nat \subseteq S) PROVE FALSE
  OBVIOUS
<1>. DEFINE T == {n \in Nat : n \notin S}
<1>1. PICK x \in T : \A y \in T : x <= y
  BY Least
<1>2. x # 0 /\ x \in Nat
  BY <1>1
<1>3. x - 1 \in Nat /\ x - 1 \notin T
  BY <1>1, <1>2
<1>4. x - 1 + 1 \in S
  BY <1>3
<1>5. QED  BY <1>1, <1>2, <1>4

------------------------------------------------------------------------------
\* The recursive functions are what their definitions say.

LEMMA AlongDef ==
    ASSUME NEW root, NEW path \in Seq(STRING)
    PROVE  LET at == Along(root, path) IN
           at = [i \in 0 .. Len(path) |-> IF i = 0 THEN Ok(root) ELSE Resolve(at[i - 1], path[i])]
<1>. DEFINE Rec(n, f) == f = [i \in 0 .. n |-> IF i = 0 THEN Ok(root) ELSE Resolve(f[i - 1], path[i])]
            S == {n \in Nat : \E f : Rec(n, f)}
<1>1. 0 \in S
  <2>. DEFINE f == [i \in 0 .. 0 |-> Ok(root)]
  <2>1. Rec(0, f)  OBVIOUS
  <2>2. QED  BY <2>1
<1>2. ASSUME NEW n \in Nat, n \in S PROVE n + 1 \in S
  <2>1. PICK f : Rec(n, f)
    BY <1>2
  <2>. DEFINE g == [i \in 0 .. n + 1 |-> IF i = n + 1 THEN Resolve(f[n], path[n + 1]) ELSE f[i]]
  <2>2. \A i \in 0 .. n : g[i] = f[i]  OBVIOUS
  <2>3. \A i \in 0 .. n : f[i] = IF i = 0 THEN Ok(root) ELSE Resolve(f[i - 1], path[i])
    BY <2>1
  <2>4. ASSUME NEW i \in 0 .. n + 1
        PROVE  g[i] = IF i = 0 THEN Ok(root) ELSE Resolve(g[i - 1], path[i])
    <3>1. CASE i = n + 1
      BY <3>1, <2>2
    <3>2. CASE i # n + 1
      <4>1. i \in 0 .. n /\ (i # 0 => i - 1 \in 0 .. n)
        BY <3>2
      <4>2. QED  BY <4>1, <2>2, <2>3
    <3>3. QED  BY <3>1, <3>2
  <2>5. Rec(n + 1, g)
    BY <2>4
  <2>. HIDE DEF Rec, g
  <2>6. \E h : Rec(n + 1, h)
    BY <2>5
  <2>7. QED  BY <2>6
<1>3. Len(path) \in S
  <2>. HIDE DEF S
  <2>1. Nat \subseteq S
    BY <1>1, <1>2, Induct
  <2>2. QED  BY <2>1
<1>4. PICK f : Rec(Len(path), f)
  BY <1>3
<1>5. Along(root, path) = CHOOSE f_1 : Rec(Len(path), f_1)
  BY DEF Along
<1>. HIDE DEF Rec
<1>6. Rec(Len(path), Along(root, path))
  BY <1>4, <1>5
<1>7. QED  BY <1>6 DEF Rec
LEMMA PartsAlongDef ==
    ASSUME NEW root, NEW path \in Seq(STRING)
    PROVE  LET part == PartsAlong(root, path) IN
           part = [i \in 0 .. Len(path) |-> IF i = 0 THEN root ELSE Part(part[i - 1], path[i])]
<1>. DEFINE Rec(n, f) == f = [i \in 0 .. n |-> IF i = 0 THEN root ELSE Part(f[i - 1], path[i])]
            S == {n \in Nat : \E f : Rec(n, f)}
<1>1. 0 \in S
  <2>. DEFINE f == [i \in 0 .. 0 |-> root]
  <2>1. Rec(0, f)  OBVIOUS
  <2>2. QED  BY <2>1
<1>2. ASSUME NEW n \in Nat, n \in S PROVE n + 1 \in S
  <2>1. PICK f : Rec(n, f)
    BY <1>2
  <2>. DEFINE g == [i \in 0 .. n + 1 |-> IF i = n + 1 THEN Part(f[n], path[n + 1]) ELSE f[i]]
  <2>2. \A i \in 0 .. n : g[i] = f[i]  OBVIOUS
  <2>3. \A i \in 0 .. n : f[i] = IF i = 0 THEN root ELSE Part(f[i - 1], path[i])
    BY <2>1
  <2>4. ASSUME NEW i \in 0 .. n + 1
        PROVE  g[i] = IF i = 0 THEN root ELSE Part(g[i - 1], path[i])
    <3>1. CASE i = n + 1
      BY <3>1, <2>2
    <3>2. CASE i # n + 1
      <4>1. i \in 0 .. n /\ (i # 0 => i - 1 \in 0 .. n)
        BY <3>2
      <4>2. QED  BY <4>1, <2>2, <2>3
    <3>3. QED  BY <3>1, <3>2
  <2>5. Rec(n + 1, g)
    BY <2>4
  <2>. HIDE DEF Rec, g
  <2>6. \E h : Rec(n + 1, h)
    BY <2>5
  <2>7. QED  BY <2>6
<1>3. Len(path) \in S
  <2>. HIDE DEF S
  <2>1. Nat \subseteq S
    BY <1>1, <1>2, Induct
  <2>2. QED  BY <2>1
<1>4. PICK f : Rec(Len(path), f)
  BY <1>3
<1>5. PartsAlong(root, path) = CHOOSE f_1 : Rec(Len(path), f_1)
  BY DEF PartsAlong
<1>. HIDE DEF Rec
<1>6. Rec(Len(path), PartsAlong(root, path))
  BY <1>4, <1>5
<1>7. QED  BY <1>6 DEF Rec
LEMMA BackDef ==
    ASSUME NEW root, NEW path \in Seq(STRING), NEW x
    PROVE  LET n == Len(path)
               at == Along(root, path)
               up == Back(root, path, x)
           IN  up = [k \in 0 .. n |-> IF k = 0 THEN x ELSE Put(at[n - k].root, path[n - k + 1], up[k - 1])]
<1>. DEFINE l == Len(path)
            at == Along(root, path)
            step(y, k) == Put(at[l - k].root, path[l - k + 1], y)
            Rec(n, f) == f = [i \in 0 .. n |-> IF i = 0 THEN x ELSE step(f[i - 1], i)]
            S == {n \in Nat : \E f : Rec(n, f)}
<1>1. 0 \in S
  <2>. DEFINE f == [i \in 0 .. 0 |-> x]
  <2>1. Rec(0, f)  OBVIOUS
  <2>2. QED  BY <2>1
<1>2. ASSUME NEW n \in Nat, n \in S PROVE n + 1 \in S
  <2>1. PICK f : Rec(n, f)
    BY <1>2
  <2>. DEFINE g == [i \in 0 .. n + 1 |-> IF i = n + 1 THEN step(f[n], n + 1) ELSE f[i]]
  <2>2. \A i \in 0 .. n : g[i] = f[i]  OBVIOUS
  <2>3. \A i \in 0 .. n : f[i] = IF i = 0 THEN x ELSE step(f[i - 1], i)
    BY <2>1
  <2>4. ASSUME NEW i \in 0 .. n + 1
        PROVE  g[i] = IF i = 0 THEN x ELSE step(g[i - 1], i)
    <3>1. CASE i = n + 1
      BY <3>1, <2>2
    <3>2. CASE i # n + 1
      <4>1. i \in 0 .. n /\ (i # 0 => i - 1 \in 0 .. n)
        BY <3>2
      <4>2. QED  BY <4>1, <2>2, <2>3
    <3>3. QED  BY <3>1, <3>2
  <2>5. Rec(n + 1, g)
    BY <2>4
  <2>. HIDE DEF Rec, g
  <2>6. \E h : Rec(n + 1, h)
    BY <2>5
  <2>7. QED  BY <2>6
<1>3. l \in S
  <2>. HIDE DEF S
  <2>1. Nat \subseteq S
    BY <1>1, <1>2, Induct
  <2>2. QED  BY <2>1
<1>4. PICK f : Rec(l, f)
  BY <1>3
<1>5. Back(root, path, x) = CHOOSE f_1 : Rec(l, f_1)
  BY DEF Back
<1>. HIDE DEF Rec
<1>6. Rec(l, Back(root, path, x))
  BY <1>4, <1>5
<1>7. QED  BY <1>6 DEF Rec

------------------------------------------------------------------------------
\* Sequences with an element more or less

\* A family indexed from 1 to n is a sequence.
LEMMA FamilyIsSeq ==
    ASSUME NEW T, NEW n \in Nat, NEW r \in [1 .. n -> T]
    PROVE  r \in Seq(T) /\ Len(r) = n
OBVIOUS

\* t is s where x has been inserted as the i-th element.
IsInsertion(t, s, i, x) ==
    /\ Len(t) = Len(s) + 1
    /\ \A j \in 1 .. Len(s) + 1 : t[j] = IF j < i THEN s[j] ELSE IF j = i THEN x ELSE s[j - 1]

LEMMA InsertAtInserts ==
    ASSUME NEW S, NEW s \in Seq(S), NEW x \in S, NEW i \in 1 .. Len(s) + 1
    PROVE  InsertAt(s, i, x) \in Seq(S) /\ IsInsertion(InsertAt(s, i, x), s, i, x)
<1>. DEFINE a == SubSeq(s, 1, i - 1)
            b == SubSeq(s, i, Len(s))
            l == Len(s)
<1>0. l \in Nat /\ \A k \in 1 .. l : s[k] \in S
  BY LenProperties
<1>1. a \in Seq(S) /\ Len(a) = i - 1 /\ \A k \in 1 .. i - 1 : a[k] = s[k]
  BY <1>0, SubSeqProperties
<1>2. b \in Seq(S) /\ Len(b) = l - i + 1 /\ \A k \in 1 .. l - i + 1 : b[k] = s[i + k - 1]
  BY <1>0, SubSeqProperties
<1>3. <<x>> \in Seq(S) /\ Len(<<x>>) = 1 /\ <<x>>[1] = x
  OBVIOUS
<1>. DEFINE c == a \o <<x>>
            d == c \o b
<1>. HIDE DEF a, b, l
<1>4. c \in Seq(S) /\ Len(c) = i /\ \A k \in 1 .. i : c[k] = IF k <= i - 1 THEN a[k] ELSE <<x>>[k - (i - 1)]
  BY <1>1, <1>3, ConcatProperties
<1>. HIDE DEF c
<1>5. d \in Seq(S) /\ Len(d) = l + 1 /\ \A k \in 1 .. l + 1 : d[k] = IF k <= i THEN c[k] ELSE b[k - i]
  <2>1. d \in Seq(S) /\ Len(d) = Len(c) + Len(b)
    BY <1>2, <1>4, ConcatProperties
  <2>2. \A k \in 1 .. Len(c) + Len(b) : d[k] = IF k <= Len(c) THEN c[k] ELSE b[k - Len(c)]
    BY <1>2, <1>4, ConcatProperties
  <2>3. Len(c) + Len(b) = l + 1
    BY <1>0, <1>2, <1>4
  <2>. HIDE DEF d
  <2>4. QED  BY <1>4, <2>1, <2>2, <2>3
<1>. HIDE DEF d
<1>6. ASSUME NEW j \in 1 .. l + 1
      PROVE  d[j] = IF j < i THEN s[j] ELSE IF j = i THEN x ELSE s[j - 1]
  <2>0. i \in 1 .. l + 1
    BY DEF l
  <2>1. CASE j < i
    <3>1. j \in 1 .. i - 1 /\ j \in 1 .. i /\ j <= i - 1 /\ j <= i
      BY <2>0, <2>1, <1>0
    <3>2. d[j] = c[j]
      BY <1>5, <3>1
    <3>3. c[j] = a[j]
      BY <1>4, <3>1
    <3>4. a[j] = s[j]
      BY <1>1, <3>1
    <3>5. QED  BY <2>1, <3>2, <3>3, <3>4
  <2>2. CASE j = i
    <3>1. d[i] = c[i] /\ c[i] = <<x>>[i - (i - 1)]
      BY <2>0, <2>2, <1>0, <1>4, <1>5
    <3>2. QED  BY <2>0, <2>2, <3>1, <1>3
  <2>3. CASE j > i
    <3>1. d[j] = b[j - i] /\ j - i \in 1 .. l - i + 1
      BY <2>0, <2>3, <1>0, <1>5
    <3>2. b[j - i] = s[i + (j - i) - 1]
      BY <3>1, <1>2
    <3>3. i + (j - i) - 1 = j - 1
      BY <2>0
    <3>4. QED  BY <2>0, <2>3, <3>1, <3>2, <3>3
  <2>4. QED  BY <1>0, <2>0, <2>1, <2>2, <2>3
<1>7. InsertAt(s, i, x) = d
  BY DEF InsertAt, a, b, c, d, l
<1>8. QED  BY <1>5, <1>6, <1>7 DEF l, IsInsertion

LEMMA InsertAtElements ==
    ASSUME NEW S, NEW s \in Seq(S), NEW x \in S, NEW i \in 1 .. Len(s) + 1
    PROVE  /\ InsertAt(s, i, x) \in Seq(S)
           /\ Len(InsertAt(s, i, x)) = Len(s) + 1
           /\ \A j \in 1 .. Len(s) + 1 :
                  InsertAt(s, i, x)[j] = IF j < i THEN s[j] ELSE IF j = i THEN x ELSE s[j - 1]
BY InsertAtInserts DEF IsInsertion

LEMMA RemoveAtElements ==
    ASSUME NEW S, NEW s \in Seq(S), NEW i \in 1 .. Len(s)
    PROVE  /\ RemoveAt(s, i) \in Seq(S)
           /\ Len(RemoveAt(s, i)) = Len(s) - 1
           /\ \A j \in 1 .. Len(s) - 1 : RemoveAt(s, i)[j] = IF j < i THEN s[j] ELSE s[j + 1]
<1>. DEFINE l == Len(s)
            a == SubSeq(s, 1, i - 1)
            b == SubSeq(s, i + 1, l)
            d == a \o b
<1>0. l \in Nat /\ \A k \in 1 .. l : s[k] \in S
  BY LenProperties
<1>1. a \in Seq(S) /\ Len(a) = i - 1 /\ \A k \in 1 .. i - 1 : a[k] = s[k]
  BY <1>0, SubSeqProperties
<1>2. b \in Seq(S) /\ Len(b) = l - i /\ \A k \in 1 .. l - i : b[k] = s[i + k]
  <2>1. i + 1 \in Int /\ l \in Int
    BY <1>0
  <2>2. b \in Seq(S) /\ Len(b) = IF i + 1 <= l THEN l - (i + 1) + 1 ELSE 0
    BY <1>0, <2>1, SubSeqProperties
  <2>3. \A k \in 1 .. l - (i + 1) + 1 : b[k] = s[i + 1 + k - 1]
    BY <1>0, <2>1, SubSeqProperties
  <2>. HIDE DEF b
  <2>4. QED  BY <1>0, <2>2, <2>3
<1>. HIDE DEF a, b
<1>3. d \in Seq(S) /\ Len(d) = l - 1 /\ \A k \in 1 .. l - 1 : d[k] = IF k <= i - 1 THEN a[k] ELSE b[k - (i - 1)]
  <2>1. d \in Seq(S) /\ Len(d) = Len(a) + Len(b)
    BY <1>1, <1>2, ConcatProperties
  <2>2. \A k \in 1 .. Len(a) + Len(b) : d[k] = IF k <= Len(a) THEN a[k] ELSE b[k - Len(a)]
    BY <1>1, <1>2, ConcatProperties
  <2>3. Len(a) + Len(b) = l - 1
    BY <1>0, <1>1, <1>2
  <2>. HIDE DEF d
  <2>4. QED  BY <1>1, <2>1, <2>2, <2>3
<1>. HIDE DEF d
<1>4. ASSUME NEW j \in 1 .. l - 1
      PROVE  d[j] = IF j < i THEN s[j] ELSE s[j + 1]
  <2>1. CASE j < i
    <3>1. j <= i - 1 /\ j \in 1 .. i - 1
      BY <2>1, <1>0
    <3>2. d[j] = a[j]
      BY <1>3, <3>1
    <3>3. a[j] = s[j]
      BY <1>1, <3>1
    <3>4. QED  BY <2>1, <3>2, <3>3
  <2>2. CASE j >= i
    <3>. DEFINE k == j - (i - 1)
    <3>1. k \in 1 .. l - i /\ i + k = j + 1 /\ ~(j < i) /\ ~(j <= i - 1)
      BY <2>2, <1>0
    <3>. HIDE DEF l
    <3>2. d[j] = b[k]
      BY <1>3, <3>1
    <3>. HIDE DEF k
    <3>3. b[k] = s[i + k]
      BY <1>2, <3>1
    <3>4. QED  BY <3>1, <3>2, <3>3
  <2>3. QED  BY <1>0, <2>1, <2>2
<1>5. RemoveAt(s, i) = d
  BY DEF RemoveAt, a, b, d
<1>6. QED  BY <1>3, <1>4, <1>5

LEMMA RemoveInserted ==
    ASSUME NEW S, NEW s \in Seq(S), NEW x \in S, NEW i \in 1 .. Len(s) + 1
    PROVE  RemoveAt(InsertAt(s, i, x), i) = s
<1>. DEFINE t == InsertAt(s, i, x)
<1>0. t \in Seq(S) /\ IsInsertion(t, s, i, x)
  BY InsertAtInserts
<1>. HIDE DEF t
<1>1. t \in Seq(S) /\ Len(t) = Len(s) + 1 /\ i \in 1 .. Len(t)
  BY <1>0 DEF IsInsertion
<1>2. \A k \in 1 .. Len(s) + 1 : t[k] = IF k < i THEN s[k] ELSE IF k = i THEN x ELSE s[k - 1]
  BY <1>0 DEF IsInsertion
<1>3. RemoveAt(t, i) \in Seq(S) /\ Len(RemoveAt(t, i)) = Len(s)
  <2>1. RemoveAt(t, i) \in Seq(S)
    BY <1>1, RemoveAtElements
  <2>2. Len(RemoveAt(t, i)) = Len(t) - 1
    BY <1>1, RemoveAtElements
  <2>3. QED  BY <1>1, <2>1, <2>2
<1>4. \A j \in 1 .. Len(s) : RemoveAt(t, i)[j] = IF j < i THEN t[j] ELSE t[j + 1]
  <2>1. \A j \in 1 .. Len(t) - 1 : RemoveAt(t, i)[j] = IF j < i THEN t[j] ELSE t[j + 1]
    BY <1>1, RemoveAtElements
  <2>2. Len(t) - 1 = Len(s)
    BY <1>1
  <2>3. QED  BY <2>1, <2>2
<1>5. ASSUME NEW j \in 1 .. Len(s) PROVE RemoveAt(t, i)[j] = s[j]
  <2>1. RemoveAt(t, i)[j] = IF j < i THEN t[j] ELSE t[j + 1]
    BY <1>4
  <2>2. j \in 1 .. Len(s) + 1 /\ j + 1 \in 1 .. Len(s) + 1 /\ (j + 1) - 1 = j
    BY LenProperties
  <2>. DEFINE k == j + 1
  <2>3. t[j] = IF j < i THEN s[j] ELSE IF j = i THEN x ELSE s[j - 1]
    BY <1>2, <2>2
  <2>4. t[k] = IF k < i THEN s[k] ELSE IF k = i THEN x ELSE s[k - 1]
    BY <1>2, <2>2
  <2>5. CASE j < i
    BY <2>1, <2>3, <2>5
  <2>6. CASE ~(j < i)
    <3>1. ~(k < i) /\ k # i /\ k - 1 = j
      BY <2>6
    <3>. HIDE DEF k
    <3>2. QED  BY <2>1, <2>4, <2>6, <3>1 DEF k
  <2>7. QED  BY <2>5, <2>6
<1>6. RemoveAt(t, i) = s
  BY <1>3, <1>5, SeqEqual
<1>7. QED  BY <1>6 DEF t

LEMMA InsertRemoved ==
    ASSUME NEW S, NEW s \in Seq(S), NEW x \in S, NEW i \in 1 .. Len(s)
    PROVE  InsertAt(RemoveAt(s, i), i, x) = [s EXCEPT ![i] = x]
<1>. DEFINE t == RemoveAt(s, i)
            u == [s EXCEPT ![i] = x]
<1>1. t \in Seq(S) /\ Len(t) = Len(s) - 1 /\ i \in 1 .. Len(t) + 1
  BY RemoveAtElements
<1>2. InsertAt(t, i, x) \in Seq(S) /\ Len(InsertAt(t, i, x)) = Len(s)
  BY <1>1, InsertAtElements
<1>3. u \in Seq(S) /\ Len(u) = Len(s)
  BY ExceptSeq
<1>4. ASSUME NEW j \in 1 .. Len(s) PROVE InsertAt(t, i, x)[j] = u[j]
  <2>1. InsertAt(t, i, x)[j] = IF j < i THEN t[j] ELSE IF j = i THEN x ELSE t[j - 1]
    <3>1. Len(t) + 1 = Len(s)
      <4>1. Len(s) \in Nat
        BY LenProperties
      <4>. HIDE DEF t
      <4>2. QED  BY <1>1, <4>1
    <3>2. j \in 1 .. Len(t) + 1
      BY <3>1, Zenon
    <3>. HIDE DEF t
    <3>3. QED  BY <1>1, <3>2, InsertAtElements, SMTT(30)
  <2>2. \A k \in 1 .. Len(s) - 1 : t[k] = IF k < i THEN s[k] ELSE s[k + 1]
    BY RemoveAtElements, SMTT(30)
  <2>3. u[j] = IF j = i THEN x ELSE s[j]
    OBVIOUS
  <2>. HIDE DEF t, u
  <2>4. QED  BY <2>1, <2>2, <2>3
<1>. HIDE DEF t, u
<1>5. QED  BY <1>2, <1>3, <1>4, SeqEqual DEF t, u

------------------------------------------------------------------------------
\* Values

Closed(S) == \A v \in S : IsMadeOf(v, S)

\* v is a finite tree, or an infinite one.
IsValue(v) == \E S : v \in S /\ Closed(S)

LEMMA MadeOfMore ==
    ASSUME NEW S, NEW T, S \subseteq T, NEW v, IsMadeOf(v, S)
    PROVE  IsMadeOf(v, T)
<1>1. CASE v = Atom(v.atom)
  BY <1>1 DEF IsMadeOf
<1>2. CASE v = Array(v.items) /\ v.items \in Seq(S)
  <2>1. v.items \in Seq(T)
    BY <1>2, SeqMonotonic
  <2>2. QED  BY <1>2, <2>1 DEF IsMadeOf
<1>3. CASE v = Object(v.members) /\ v.members \in [DOMAIN v.members -> S]
  <2>1. v.members \in [DOMAIN v.members -> T]
    BY <1>3
  <2>2. QED  BY <1>3, <2>1 DEF IsMadeOf
<1>4. QED  BY <1>1, <1>2, <1>3 DEF IsMadeOf

\* The parts of a value are values.
LEMMA ValueParts ==
    ASSUME NEW v, IsValue(v)
    PROVE  \E S : IsMadeOf(v, S) /\ \A x \in S : IsValue(x)
BY DEF IsValue, Closed

\* What is made of values is a value.
LEMMA ValueMade ==
    ASSUME NEW v, NEW S, IsMadeOf(v, S), \A x \in S : IsValue(x)
    PROVE  IsValue(v)
<1>. DEFINE Of(x) == CHOOSE T : x \in T /\ Closed(T)
            Sets == {Of(x) : x \in S}
            U == (UNION Sets) \cup {v}
<1>1. ASSUME NEW x \in S PROVE x \in Of(x) /\ Closed(Of(x))
  BY DEF IsValue
<1>2. \A x \in S : Of(x) \in Sets
  OBVIOUS
<1>3. \A T \in Sets : Closed(T)
  BY <1>1
<1>. HIDE DEF Of, Sets
<1>4. S \subseteq U /\ v \in U /\ \A T \in Sets : T \subseteq U
  BY <1>1, <1>2
<1>5. ASSUME NEW w \in U PROVE IsMadeOf(w, U)
  <2>1. CASE w = v
    <3>. HIDE DEF U
    <3>1. QED  BY <2>1, <1>4, MadeOfMore
  <2>2. CASE w # v
    <3>1. PICK T \in Sets : w \in T
      BY <2>2
    <3>2. IsMadeOf(w, T)
      BY <3>1, <1>3 DEF Closed
    <3>. HIDE DEF U
    <3>3. QED  BY <3>2, <1>4, MadeOfMore
  <2>3. QED  BY <2>1, <2>2
<1>. HIDE DEF U
<1>6. v \in U /\ Closed(U)
  BY <1>4, <1>5 DEF Closed
<1>7. QED  BY <1>6 DEF IsValue

LEMMA Kinds ==
    ASSUME NEW v, NEW S, IsMadeOf(v, S)
    PROVE  /\ IsArray(v) => v = Array(v.items) /\ v.items \in Seq(S)
           /\ IsObject(v) => v = Object(v.members) /\ v.members \in [DOMAIN v.members -> S]
           /\ ~IsArray(v) /\ ~IsObject(v) => v.kind = "atom"
           /\ v.kind \in {"atom", "array", "object"}
<1>0. \A a : Atom(a).kind = "atom" /\ Array(a).kind = "array" /\ Object(a).kind = "object"
  BY DEF Atom, Array, Object
<1>1. CASE v = Atom(v.atom)
  <2>1. v.kind = "atom"
    BY <1>0, <1>1, Zenon
  <2>2. QED  BY <2>1 DEF IsArray, IsObject
<1>2. CASE v = Array(v.items) /\ v.items \in Seq(S)
  <2>1. v.kind = "array"
    BY <1>0, <1>2, Zenon
  <2>2. QED  BY <1>2, <2>1 DEF IsArray, IsObject
<1>3. CASE v = Object(v.members) /\ v.members \in [DOMAIN v.members -> S]
  <2>1. v.kind = "object"
    BY <1>0, <1>3, Zenon
  <2>2. QED  BY <1>3, <2>1 DEF IsArray, IsObject
<1>4. QED  BY <1>1, <1>2, <1>3 DEF IsMadeOf

LEMMA ArrayFields ==
    ASSUME NEW s
    PROVE  /\ IsArray(Array(s)) /\ ~IsObject(Array(s)) /\ Array(s).items = s
           /\ \A t : Array(s) = Array(t) => s = t
BY DEF Array, IsArray, IsObject

LEMMA ObjectFields ==
    ASSUME NEW f
    PROVE  IsObject(Object(f)) /\ ~IsArray(Object(f)) /\ Object(f).members = f
BY DEF Object, IsArray, IsObject

LEMMA ArrayIsValue ==
    ASSUME NEW S, NEW s \in Seq(S), \A x \in S : IsValue(x)
    PROVE  IsValue(Array(s))
<1>1. IsMadeOf(Array(s), S)
  BY ArrayFields DEF IsMadeOf
<1>2. QED  BY <1>1, ValueMade

LEMMA ObjectIsValue ==
    ASSUME NEW S, NEW D, NEW f \in [D -> S], \A x \in S : IsValue(x)
    PROVE  IsValue(Object(f))
<1>1. IsMadeOf(Object(f), S)
  BY ObjectFields DEF IsMadeOf
<1>2. QED  BY <1>1, ValueMade

LEMMA AtomIsValue ==
    ASSUME NEW a
    PROVE  IsValue(Atom(a))
<1>1. IsMadeOf(Atom(a), {})
  BY DEF IsMadeOf, Atom
<1>2. QED  BY <1>1, ValueMade

\* The value that stands for none is none.
LEMMA NoValueIsNone ==
    ASSUME NEW v, IsValue(v)
    PROVE  v # NoValue
<1>1. v.kind \in {"atom", "array", "object"}
  BY ValueParts, Kinds
<1>2. NoValue.kind = "none"
  BY DEF NoValue, Atom
<1>3. QED  BY <1>1, <1>2

------------------------------------------------------------------------------
\* The parts of a value

LEMMA NumeralIndex ==
    ASSUME NEW t, IsNumeral(t)
    PROVE  Index(t) \in Nat /\ t # Dash /\ t # Beyond
<1>. DEFINE i == CHOOSE i \in DOMAIN Numerals : Numerals[i] = t
<1>1. i \in DOMAIN Numerals /\ Numerals[i] = t
  BY DEF IsNumeral
<1>2. DOMAIN Numerals = 1 .. Len(Numerals) /\ Len(Numerals) \in Nat
  BY TokensAssumption, LenProperties
<1>. HIDE DEF i
<1>3. Index(t) = i - 1
  BY DEF Index, i
<1>4. t \notin {Dash, Beyond}
  BY <1>1, TokensAssumption, Zenon
<1>5. QED  BY <1>1, <1>2, <1>3, <1>4

LEMMA IndexErrors ==
    ASSUME NEW t, NEW n \in Nat
    PROVE  IndexError(t, n) = "none" <=> IsNumeral(t) /\ Index(t) < n
<1>1. CASE IsNumeral(t)
  BY <1>1, NumeralIndex DEF IndexError
<1>2. CASE ~IsNumeral(t)
  BY <1>2 DEF IndexError
<1>3. QED  BY <1>1, <1>2

\* A token leads to a part: of an array to an element, of an object to a member.
LEMMA Resolved ==
    ASSUME NEW v, IsValue(v), NEW t
    PROVE  ResolveError(v, t) = "none" <=>
               \/ /\ IsArray(v) /\ ~IsObject(v) /\ IsNumeral(t)
                  /\ Index(t) + 1 \in 1 .. Len(v.items) /\ Child(v, t) = v.items[Index(t) + 1]
               \/ /\ IsObject(v) /\ ~IsArray(v)
                  /\ t \in DOMAIN v.members /\ Child(v, t) = v.members[t]
<1>1. PICK S : IsMadeOf(v, S) /\ \A x \in S : IsValue(x)
  BY ValueParts
<1>2. CASE IsArray(v)
  <2>1. v.items \in Seq(S) /\ ~IsObject(v)
    BY <1>1, <1>2, Kinds DEF IsArray, IsObject
  <2>2. Len(v.items) \in Nat
    BY <2>1, LenProperties
  <2>3. ResolveError(v, t) = IndexError(t, Len(v.items)) /\ Child(v, t) = v.items[Index(t) + 1]
    BY <1>2 DEF ResolveError, Child
  <2>4. IndexError(t, Len(v.items)) = "none" <=> IsNumeral(t) /\ Index(t) < Len(v.items)
    BY <2>2, IndexErrors
  <2>5. IsNumeral(t) => Index(t) \in Nat
    BY NumeralIndex
  <2>6. IsNumeral(t) => (Index(t) < Len(v.items) <=> Index(t) + 1 \in 1 .. Len(v.items))
    BY <2>2, <2>5
  <2>7. QED  BY <1>2, <2>1, <2>3, <2>4, <2>6, Zenon
<1>3. CASE ~IsArray(v)
  BY <1>3 DEF ResolveError, Child
<1>4. QED  BY <1>2, <1>3

LEMMA PartIsValue ==
    ASSUME NEW v, IsValue(v), NEW t, ResolveError(v, t) = "none"
    PROVE  IsValue(Child(v, t))
<1>1. PICK S : IsMadeOf(v, S) /\ \A x \in S : IsValue(x)
  BY ValueParts
<1>2. CASE IsArray(v)
  <2>1. v.items \in Seq(S) /\ ~IsObject(v)
    BY <1>1, <1>2, Kinds DEF IsArray, IsObject
  <2>2. Index(t) + 1 \in 1 .. Len(v.items) /\ Child(v, t) = v.items[Index(t) + 1]
    BY <2>1, Resolved
  <2>3. Child(v, t) \in S
    BY <2>1, <2>2, ElementOfSeq
  <2>4. QED  BY <1>1, <2>3
<1>3. CASE ~IsArray(v)
  <2>1. IsObject(v) /\ t \in DOMAIN v.members /\ Child(v, t) = v.members[t]
    BY <1>3, Resolved
  <2>2. v.members \in [DOMAIN v.members -> S]
    BY <1>1, <2>1, Kinds
  <2>3. QED  BY <1>1, <2>1, <2>2
<1>4. QED  BY <1>2, <1>3

\* With and Without
LEMMA WithIsValue ==
    ASSUME NEW v, IsValue(v), IsObject(v), NEW t, NEW x, IsValue(x)
    PROVE  IsValue(With(v, t, x))
<1>1. PICK S : IsMadeOf(v, S) /\ \A y \in S : IsValue(y)
  BY ValueParts
<1>2. v.members \in [DOMAIN v.members -> S]
  BY <1>1, Kinds
<1>. DEFINE D == DOMAIN v.members \cup {t}
            f == [k \in D |-> IF k = t THEN x ELSE v.members[k]]
<1>3. f \in [D -> S \cup {x}]
  BY <1>2
<1>. HIDE DEF f, D
<1>4. IsValue(Object(f))
  <2>1. \A y \in S \cup {x} : IsValue(y)
    BY <1>1
  <2>2. QED  BY <1>3, <2>1, ObjectIsValue
<1>5. QED  BY <1>4 DEF With, f, D

LEMMA WithoutIsValue ==
    ASSUME NEW v, IsValue(v), IsObject(v), NEW t
    PROVE  IsValue(Without(v, t))
<1>1. PICK S : IsMadeOf(v, S) /\ \A y \in S : IsValue(y)
  BY ValueParts
<1>2. v.members \in [DOMAIN v.members -> S]
  BY <1>1, Kinds
<1>. DEFINE D == DOMAIN v.members \ {t}
            f == [k \in D |-> v.members[k]]
<1>3. f \in [D -> S]
  BY <1>2
<1>. HIDE DEF f, D
<1>4. IsValue(Object(f))
  BY <1>1, <1>3, ObjectIsValue
<1>5. QED  BY <1>4 DEF Without, f, D

LEMMA MembersWith ==
    ASSUME NEW v, IsValue(v), IsObject(v), NEW t, NEW x
    PROVE  /\ IsObject(With(v, t, x)) /\ ~IsArray(With(v, t, x))
           /\ DOMAIN With(v, t, x).members = DOMAIN v.members \cup {t}
           /\ With(v, t, x).members[t] = x
           /\ \A y : With(With(v, t, x), t, y) = With(v, t, y)
           /\ t \in DOMAIN v.members => With(v, t, v.members[t]) = v
           /\ t \notin DOMAIN v.members => Without(With(v, t, x), t) = v
           /\ With(Without(v, t), t, x) = With(v, t, x)
           /\ IsObject(Without(v, t)) /\ ~IsArray(Without(v, t)) /\ t \notin DOMAIN Without(v, t).members
<1>1. PICK S : IsMadeOf(v, S)
  BY ValueParts
<1>. DEFINE m == v.members
            f == [k \in DOMAIN m \cup {t} |-> IF k = t THEN x ELSE m[k]]
            g == [k \in DOMAIN m \ {t} |-> m[k]]
<1>2. v = Object(m) /\ m = [k \in DOMAIN m |-> m[k]]
  BY <1>1, Kinds
<1>3. With(v, t, x) = Object(f) /\ Without(v, t) = Object(g)
  BY DEF With, Without
<1>. HIDE DEF m
<1>4. DOMAIN f = DOMAIN m \cup {t} /\ f[t] = x /\ DOMAIN g = DOMAIN m \ {t}
  OBVIOUS
<1>5. ASSUME NEW y
      PROVE  [k \in DOMAIN f \cup {t} |-> IF k = t THEN y ELSE f[k]]
             = [k \in DOMAIN m \cup {t} |-> IF k = t THEN y ELSE m[k]]
  OBVIOUS
<1>6. t \in DOMAIN m => [k \in DOMAIN m \cup {t} |-> IF k = t THEN m[t] ELSE m[k]] = m
  BY <1>2
<1>7. t \notin DOMAIN m => [k \in DOMAIN f \ {t} |-> f[k]] = m
  BY <1>2
<1>8. [k \in DOMAIN g \cup {t} |-> IF k = t THEN x ELSE g[k]] = f
  OBVIOUS
<1>. HIDE DEF f, g
<1>9. Object(f).members = f /\ Object(g).members = g /\ IsObject(Object(f)) /\ ~IsArray(Object(f))
      /\ IsObject(Object(g)) /\ ~IsArray(Object(g))
  BY ObjectFields
<1>10. ASSUME NEW y PROVE With(With(v, t, x), t, y) = With(v, t, y)
  BY <1>3, <1>5, <1>9 DEF With, m
<1>11. t \in DOMAIN m => With(v, t, m[t]) = v
  BY <1>2, <1>6 DEF With, m
<1>12. t \notin DOMAIN m => Without(With(v, t, x), t) = v
  BY <1>2, <1>3, <1>7, <1>9 DEF Without
<1>13. With(Without(v, t), t, x) = With(v, t, x)
  BY <1>3, <1>8, <1>9 DEF With
<1>14. t \notin DOMAIN g
  BY <1>4
<1>15. QED  BY <1>3, <1>4, <1>9, <1>10, <1>11, <1>12, <1>13, <1>14 DEF m

\* A part that has been assigned to is what was assigned, and nothing else has changed.
LEMMA PutThere ==
    ASSUME NEW v, IsValue(v), NEW t, ResolveError(v, t) = "none", NEW x, IsValue(x)
    PROVE  /\ IsValue(Put(v, t, x))
           /\ ResolveError(Put(v, t, x), t) = "none" /\ Child(Put(v, t, x), t) = x
           /\ \A y : Put(Put(v, t, x), t, y) = Put(v, t, y)
           /\ Put(v, t, Child(v, t)) = v
<1>1. PICK S : IsMadeOf(v, S) /\ \A y \in S : IsValue(y)
  BY ValueParts
<1>2. CASE IsArray(v)
  <2>. DEFINE s == v.items
              i == Index(t) + 1
              e(y) == [s EXCEPT ![i] = y]
  <2>1. v = Array(s) /\ s \in Seq(S) /\ s \in [1 .. Len(s) -> S] /\ Len(s) \in Nat
    BY <1>1, <1>2, Kinds, LenProperties
  <2>2. IsNumeral(t) /\ i \in 1 .. Len(s) /\ Child(v, t) = s[i]
    BY <1>2, Resolved DEF IsArray, IsObject
  <2>3. \A y : Put(v, t, y) = Array(e(y))
    BY <1>2 DEF Put
  <2>. HIDE DEF s, i
  <2>4. e(x) \in Seq(S \cup {x}) /\ Len(e(x)) = Len(s) /\ e(x)[i] = x
    <3>1. s \in Seq(S \cup {x})
      BY <2>1, SeqMonotonic
    <3>2. e(x) \in Seq(S \cup {x}) /\ Len(e(x)) = Len(s)
      BY <2>2, <3>1, ExceptSeq
    <3>3. e(x)[i] = x
      BY <2>1, <2>2
    <3>4. QED  BY <3>2, <3>3
  <2>5. \A y : [e(x) EXCEPT ![i] = y] = e(y)
    BY <2>1, <2>2
  <2>6. e(s[i]) = s
    BY <2>1, <2>2
  <2>. HIDE DEF e
  <2>7. IsValue(Array(e(x)))
    <3>1. \A y \in S \cup {x} : IsValue(y)
      BY <1>1
    <3>2. QED  BY <2>4, <3>1, ArrayIsValue
  <2>8. IsArray(Array(e(x))) /\ ~IsObject(Array(e(x))) /\ Array(e(x)).items = e(x)
    BY ArrayFields
  <2>9. Child(Array(e(x)), t) = x
    BY <2>4, <2>8 DEF Child, i
  <2>10. ResolveError(Array(e(x)), t) = "none"
    BY <2>2, <2>4, <2>7, <2>8, <2>9, Resolved DEF i
  <2>11. ASSUME NEW y PROVE Put(Array(e(x)), t, y) = Array(e(y))
    BY <2>5, <2>8 DEF Put, i
  <2>12. QED  BY <2>1, <2>2, <2>3, <2>6, <2>7, <2>9, <2>10, <2>11
<1>3. CASE ~IsArray(v)
  <2>1. IsObject(v) /\ t \in DOMAIN v.members /\ Child(v, t) = v.members[t]
    BY <1>3, Resolved
  <2>2. \A y : Put(v, t, y) = With(v, t, y)
    BY <1>3 DEF Put
  <2>. DEFINE w == With(v, t, x)
  <2>3. IsValue(w)
    BY <2>1, WithIsValue
  <2>4. IsObject(w) /\ ~IsArray(w) /\ t \in DOMAIN w.members /\ w.members[t] = x
    BY <2>1, MembersWith
  <2>5. \A y : With(w, t, y) = With(v, t, y)
    BY <2>1, MembersWith
  <2>6. With(v, t, v.members[t]) = v
    BY <2>1, MembersWith
  <2>. HIDE DEF w
  <2>7. Child(w, t) = x /\ \A y : Put(w, t, y) = With(w, t, y)
    BY <2>4 DEF Child, Put
  <2>8. ResolveError(w, t) = "none"
    BY <2>3, <2>4, <2>7, Resolved
  <2>9. QED  BY <2>1, <2>2, <2>3, <2>5, <2>6, <2>7, <2>8 DEF w
<1>4. QED  BY <1>2, <1>3

------------------------------------------------------------------------------
\* The values along a path

LEMMA AlongAt ==
    ASSUME NEW root, NEW path \in Seq(STRING)
    PROVE  /\ Along(root, path)[0] = Ok(root)
           /\ \A i \in 1 .. Len(path) : Along(root, path)[i] = Resolve(Along(root, path)[i - 1], path[i])
<1>. DEFINE at == Along(root, path)
            F(f) == [i \in 0 .. Len(path) |-> IF i = 0 THEN Ok(root) ELSE Resolve(f[i - 1], path[i])]
<1>1. at = F(at)
  BY AlongDef
<1>2. Len(path) \in Nat
  BY LenProperties
<1>. HIDE DEF at
<1>3. \A i \in 0 .. Len(path) : F(at)[i] = IF i = 0 THEN Ok(root) ELSE Resolve(at[i - 1], path[i])
  OBVIOUS
<1>. HIDE DEF F
<1>4. \A i \in 0 .. Len(path) : at[i] = IF i = 0 THEN Ok(root) ELSE Resolve(at[i - 1], path[i])
  BY <1>1, <1>3
<1>5. QED  BY <1>2, <1>4 DEF at

LEMMA BackAt ==
    ASSUME NEW root, NEW path \in Seq(STRING), NEW x
    PROVE  /\ Back(root, path, x)[0] = x
           /\ \A k \in 1 .. Len(path) :
                  Back(root, path, x)[k] = Put(Along(root, path)[Len(path) - k].root, path[Len(path) - k + 1],
                                               Back(root, path, x)[k - 1])
<1>. DEFINE up == Back(root, path, x)
            step(y, k) == Put(Along(root, path)[Len(path) - k].root, path[Len(path) - k + 1], y)
            F(f) == [k \in 0 .. Len(path) |-> IF k = 0 THEN x ELSE step(f[k - 1], k)]
<1>1. up = F(up)
  BY BackDef
<1>2. Len(path) \in Nat
  BY LenProperties
<1>. HIDE DEF up, step
<1>3. \A k \in 0 .. Len(path) : F(up)[k] = IF k = 0 THEN x ELSE step(up[k - 1], k)
  OBVIOUS
<1>. HIDE DEF F
<1>4. \A k \in 0 .. Len(path) : up[k] = IF k = 0 THEN x ELSE step(up[k - 1], k)
  BY <1>1, <1>3
<1>5. up[0] = x /\ \A k \in 1 .. Len(path) : up[k] = step(up[k - 1], k)
  BY <1>2, <1>4
<1>6. QED  BY <1>5 DEF up, step

LEMMA Results ==
    /\ \A v : Ok(v).root = v /\ ~Failed(Ok(v)) /\ Ok(v).ec = "none"
    /\ \A e, v : Err(e, v).ec = e /\ Err(e, v).root = v /\ (e # "none" => Failed(Err(e, v)))
BY DEF Ok, Err, Failed

LEMMA ResolveCases ==
    ASSUME NEW r, NEW t
    PROVE  /\ ~Failed(Resolve(r, t)) =>
                  /\ ~Failed(r) /\ ResolveError(r.root, t) = "none"
                  /\ Resolve(r, t) = Ok(Child(r.root, t))
           /\ ~Failed(r) /\ ResolveError(r.root, t) = "none" => Resolve(r, t) = Ok(Child(r.root, t))
           /\ Failed(r) => Resolve(r, t) = r
BY Results DEF Resolve

\* Up to where a path leads there are values, each a part of the one before.
LEMMA Passed ==
    ASSUME NEW root, IsValue(root), NEW path \in Seq(STRING), ~Failed(Get(root, path))
    PROVE  LET at == Along(root, path) IN
           /\ \A i \in 0 .. Len(path) : at[i] = Ok(at[i].root) /\ IsValue(at[i].root)
           /\ \A i \in 1 .. Len(path) : /\ ResolveError(at[i - 1].root, path[i]) = "none"
                                        /\ at[i].root = Child(at[i - 1].root, path[i])
<1>. DEFINE at == Along(root, path)
            n == Len(path)
            S == {k \in Nat : k <= n => ~Failed(at[n - k])}
            T == {i \in Nat : i <= n => at[i] = Ok(at[i].root) /\ IsValue(at[i].root)}
<1>1. n \in Nat /\ at[0] = Ok(root) /\ \A i \in 1 .. n : at[i] = Resolve(at[i - 1], path[i])
  BY LenProperties, AlongAt
<1>2. ~Failed(at[n])
  BY DEF Get
<1>. HIDE DEF at, n
<1>3. 0 \in S
  BY <1>1, <1>2
<1>4. ASSUME NEW k \in Nat, k \in S PROVE k + 1 \in S
  <2>. SUFFICES ASSUME k + 1 <= n PROVE ~Failed(at[n - (k + 1)])
    OBVIOUS
  <2>1. n - k \in 1 .. n /\ (n - k) - 1 = n - (k + 1) /\ ~Failed(at[n - k])
    BY <1>1, <1>4
  <2>2. at[n - k] = Resolve(at[n - (k + 1)], path[n - k])
    BY <1>1, <2>1
  <2>3. QED  BY <2>1, <2>2, ResolveCases
<1>5. Nat \subseteq S
  <2>. HIDE DEF S
  <2>1. QED  BY <1>3, <1>4, Induct
<1>6. ASSUME NEW i \in 1 .. n
      PROVE  ResolveError(at[i - 1].root, path[i]) = "none" /\ at[i] = Ok(Child(at[i - 1].root, path[i]))
  <2>1. n - i \in Nat /\ n - i <= n /\ n - (n - i) = i
    BY <1>1
  <2>2. n - i \in S
    BY <1>5, <2>1
  <2>3. ~Failed(at[i])
    BY <2>1, <2>2
  <2>4. QED  BY <1>1, <2>3, ResolveCases
<1>7. 0 \in T
  BY <1>1, Results
<1>8. ASSUME NEW i \in Nat, i \in T PROVE i + 1 \in T
  <2>. SUFFICES ASSUME i + 1 <= n PROVE at[i + 1] = Ok(at[i + 1].root) /\ IsValue(at[i + 1].root)
    OBVIOUS
  <2>1. i + 1 \in 1 .. n /\ (i + 1) - 1 = i /\ IsValue(at[i].root)
    BY <1>1, <1>8
  <2>2. ResolveError(at[i].root, path[i + 1]) = "none" /\ at[i + 1] = Ok(Child(at[i].root, path[i + 1]))
    BY <1>6, <2>1
  <2>3. IsValue(Child(at[i].root, path[i + 1]))
    BY <2>1, <2>2, PartIsValue
  <2>4. QED  BY <2>2, <2>3, Results
<1>9. Nat \subseteq T
  <2>. HIDE DEF T
  <2>1. QED  BY <1>7, <1>8, Induct
<1>10. \A i \in 0 .. n : at[i] = Ok(at[i].root) /\ IsValue(at[i].root)
  BY <1>1, <1>9
<1>11. \A i \in 1 .. n : at[i].root = Child(at[i - 1].root, path[i])
  BY <1>6, Results
<1>12. QED  BY <1>6, <1>10, <1>11 DEF at, n

\* Assigning to what a path leads to.
LEMMA AssignedThere ==
    ASSUME NEW root, IsValue(root), NEW path \in Seq(STRING), ~Failed(Get(root, path)),
           NEW x, IsValue(x)
    PROVE  LET w == Assigned(root, path, x) IN
           /\ IsValue(w) /\ Get(w, path) = Ok(x)
           /\ \A y : Assigned(w, path, y) = Assigned(root, path, y)
           /\ Assigned(root, path, Get(root, path).root) = root
<1>. DEFINE at == Along(root, path)
            n == Len(path)
            up == Back(root, path, x)
            w == Assigned(root, path, x)
            back == Along(w, path)
            A == {k \in Nat : k <= n => IsValue(up[k])}
            B == {i \in Nat : i <= n => back[i] = Ok(up[n - i])}
<1>1. n \in Nat
  BY LenProperties
<1>2. /\ \A i \in 0 .. n : at[i] = Ok(at[i].root) /\ IsValue(at[i].root)
      /\ \A i \in 1 .. n : /\ ResolveError(at[i - 1].root, path[i]) = "none"
                           /\ at[i].root = Child(at[i - 1].root, path[i])
  BY Passed
<1>3. /\ up[0] = x
      /\ \A k \in 1 .. n : up[k] = Put(at[n - k].root, path[n - k + 1], up[k - 1])
  BY BackAt
<1>4. w = up[n] /\ at[0] = Ok(root) /\ Get(root, path) = at[n]
  BY AlongAt DEF Assigned, Get
<1>5. /\ back[0] = Ok(w)
      /\ \A i \in 1 .. n : back[i] = Resolve(back[i - 1], path[i])
      /\ Get(w, path) = back[n]
  BY AlongAt DEF Get
<1>. HIDE DEF at, n, up, w, back
\* What is put back, step by step.
<1>6. ASSUME NEW k \in Nat, k + 1 <= n
      PROVE  LET v == at[n - (k + 1)].root
                 t == path[n - k]
             IN  IsValue(v) /\ ResolveError(v, t) = "none" /\ Child(v, t) = at[n - k].root
                 /\ up[k + 1] = Put(v, t, up[k])
  <2>1. n - k \in 1 .. n /\ (n - k) - 1 = n - (k + 1) /\ n - (k + 1) \in 0 .. n
        /\ k + 1 \in 1 .. n /\ (k + 1) - 1 = k /\ n - (k + 1) + 1 = n - k
    BY <1>1, <1>6
  <2>2. IsValue(at[n - (k + 1)].root)
    BY <1>2, <2>1
  <2>3. /\ ResolveError(at[n - (k + 1)].root, path[n - k]) = "none"
        /\ at[n - k].root = Child(at[n - (k + 1)].root, path[n - k])
    BY <1>2, <2>1
  <2>4. up[k + 1] = Put(at[n - (k + 1)].root, path[n - k], up[k])
    BY <1>3, <2>1
  <2>5. QED  BY <2>2, <2>3, <2>4
<1>7. A = Nat
  <2>1. 0 \in A
    BY <1>3
  <2>2. ASSUME NEW k \in Nat, k \in A PROVE k + 1 \in A
    <3>. SUFFICES ASSUME k + 1 <= n PROVE IsValue(up[k + 1])
      OBVIOUS
    <3>1. IsValue(up[k])
      BY <1>1, <2>2
    <3>2. QED  BY <3>1, <1>6, PutThere
  <2>3. A \subseteq Nat
    OBVIOUS
  <2>. HIDE DEF A
  <2>4. QED  BY <2>1, <2>2, <2>3, Induct
<1>8. \A k \in 0 .. n : IsValue(up[k])
  BY <1>1, <1>7
<1>9. B = Nat
  <2>1. 0 \in B
    BY <1>1, <1>4, <1>5
  <2>2. ASSUME NEW i \in Nat, i \in B PROVE i + 1 \in B
    <3>. SUFFICES ASSUME i + 1 <= n PROVE back[i + 1] = Ok(up[n - (i + 1)])
      OBVIOUS
    <3>. DEFINE k == n - (i + 1)
    <3>1. k \in Nat /\ k + 1 <= n /\ k + 1 = n - i /\ n - k = i + 1 /\ k \in 0 .. n
      BY <1>1
    <3>2. i + 1 \in 1 .. n /\ (i + 1) - 1 = i /\ back[i] = Ok(up[n - i])
      BY <1>1, <2>2
    <3>. HIDE DEF k
    <3>3. ResolveError(up[k + 1], path[n - k]) = "none" /\ Child(up[k + 1], path[n - k]) = up[k]
      BY <1>6, <1>8, <3>1, PutThere
    <3>4. back[i + 1] = Resolve(back[i], path[i + 1])
      BY <1>5, <3>2
    <3>5. back[i + 1] = Ok(Child(up[k + 1], path[n - k]))
      BY <3>1, <3>2, <3>3, <3>4, Results, ResolveCases
    <3>6. QED  BY <3>3, <3>5 DEF k
  <2>3. B \subseteq Nat
    OBVIOUS
  <2>. HIDE DEF B
  <2>4. QED  BY <2>1, <2>2, <2>3, Induct
<1>10. \A i \in 0 .. n : back[i] = Ok(up[n - i])
  BY <1>1, <1>9
<1>11. IsValue(w) /\ Get(w, path) = Ok(x)
  <2>1. n \in 0 .. n /\ n - n = 0
    BY <1>1
  <2>2. QED  BY <2>1, <1>3, <1>4, <1>5, <1>8, <1>10
<1>12. ASSUME NEW y PROVE Assigned(w, path, y) = Assigned(root, path, y)
  <2>. DEFINE uy == Back(root, path, y)
              uw == Back(w, path, y)
              C == {k \in Nat : k <= n => uw[k] = uy[k]}
  <2>1. /\ uy[0] = y
        /\ \A k \in 1 .. n : uy[k] = Put(at[n - k].root, path[n - k + 1], uy[k - 1])
    BY BackAt DEF at, n
  <2>2. /\ uw[0] = y
        /\ \A k \in 1 .. n : uw[k] = Put(back[n - k].root, path[n - k + 1], uw[k - 1])
    BY BackAt DEF back, n
  <2>3. Assigned(w, path, y) = uw[n] /\ Assigned(root, path, y) = uy[n]
    BY DEF Assigned, n
  <2>. HIDE DEF uy, uw
  <2>4. 0 \in C
    BY <2>1, <2>2
  <2>5. ASSUME NEW k \in Nat, k \in C PROVE k + 1 \in C
    <3>. SUFFICES ASSUME k + 1 <= n PROVE uw[k + 1] = uy[k + 1]
      OBVIOUS
    <3>1. k + 1 \in 1 .. n /\ (k + 1) - 1 = k /\ n - (k + 1) + 1 = n - k /\ n - (k + 1) \in 0 .. n
          /\ n - (n - (k + 1)) = k + 1 /\ k \in 0 .. n
      BY <1>1
    <3>. uw[k] = uy[k]
      BY <1>1, <2>5
    <3>2. uy[k + 1] = Put(at[n - (k + 1)].root, path[n - k], uy[k])
      BY <2>1, <3>1
    <3>3. uw[k + 1] = Put(back[n - (k + 1)].root, path[n - k], uw[k])
      BY <2>2, <3>1
    <3>4. back[n - (k + 1)].root = up[k + 1]
      BY <1>10, <3>1, Results
    <3>5. Put(up[k + 1], path[n - k], uy[k]) = Put(at[n - (k + 1)].root, path[n - k], uy[k])
      BY <1>6, <1>8, <3>1, PutThere
    <3>6. QED  BY <3>1, <3>2, <3>3, <3>4, <3>5
  <2>6. Nat \subseteq C
    <3>. HIDE DEF C
    <3>1. QED  BY <2>4, <2>5, Induct
  <2>7. QED  BY <1>1, <2>3, <2>6
<1>13. Assigned(root, path, Get(root, path).root) = root
  <2>. DEFINE y == at[n].root
              uy == Back(root, path, y)
              C == {k \in Nat : k <= n => uy[k] = at[n - k].root}
  <2>1. /\ uy[0] = y
        /\ \A k \in 1 .. n : uy[k] = Put(at[n - k].root, path[n - k + 1], uy[k - 1])
    BY BackAt DEF at, n
  <2>2. Assigned(root, path, Get(root, path).root) = uy[n]
    BY <1>4 DEF Assigned, n
  <2>. HIDE DEF uy
  <2>3. 0 \in C
    BY <1>1, <2>1
  <2>4. ASSUME NEW k \in Nat, k \in C PROVE k + 1 \in C
    <3>. SUFFICES ASSUME k + 1 <= n PROVE uy[k + 1] = at[n - (k + 1)].root
      OBVIOUS
    <3>1. k + 1 \in 1 .. n /\ (k + 1) - 1 = k /\ n - (k + 1) + 1 = n - k /\ uy[k] = at[n - k].root
      BY <1>1, <2>4
    <3>2. uy[k + 1] = Put(at[n - (k + 1)].root, path[n - k], at[n - k].root)
      BY <2>1, <3>1
    <3>3. Put(at[n - (k + 1)].root, path[n - k], at[n - k].root) = at[n - (k + 1)].root
      <4>. DEFINE v == at[n - (k + 1)].root
                  t == path[n - k]
      <4>1. IsValue(v) /\ ResolveError(v, t) = "none" /\ Child(v, t) = at[n - k].root
        BY <1>6
      <4>. HIDE DEF v, t
      <4>2. IsValue(Atom(""))
        BY AtomIsValue
      <4>3. Put(v, t, Child(v, t)) = v
        BY <4>1, <4>2, PutThere
      <4>4. QED  BY <4>1, <4>3 DEF v, t
    <3>4. QED  BY <3>2, <3>3
  <2>5. Nat \subseteq C
    <3>. HIDE DEF C
    <3>1. QED  BY <2>3, <2>4, Induct
  <2>6. uy[n] = at[0].root
    BY <1>1, <2>5
  <2>7. QED  BY <2>2, <2>6, <1>4, Results
<1>14. QED  BY <1>11, <1>12, <1>13 DEF w

------------------------------------------------------------------------------
\* Editing at the end of a path

LEMMA FrontLast ==
    ASSUME NEW path \in Seq(STRING), path # <<>>
    PROVE  /\ Front(path) \in Seq(STRING) /\ Len(Front(path)) = Len(path) - 1
           /\ \A i \in 1 .. Len(path) - 1 : Front(path)[i] = path[i]
           /\ Last(path) = path[Len(path)] /\ Last(path) \in STRING
           /\ Len(path) \in Nat \ {0}
<1>1. Len(path) \in Nat \ {0} /\ \A i \in 1 .. Len(path) : path[i] \in STRING
  BY EmptySeq, LenProperties
<1>. DEFINE l == Len(path) - 1
<1>2. l \in Nat /\ \A i \in 1 .. l : path[i] \in STRING
  BY <1>1
<1>. HIDE DEF l
<1>3. /\ SubSeq(path, 1, l) \in Seq(STRING) /\ Len(SubSeq(path, 1, l)) = IF 1 <= l THEN l - 1 + 1 ELSE 0
      /\ \A i \in 1 .. l - 1 + 1 : SubSeq(path, 1, l)[i] = path[1 + i - 1]
  BY <1>2, SubSeqProperties
<1>4. Len(SubSeq(path, 1, l)) = l /\ \A i \in 1 .. l : SubSeq(path, 1, l)[i] = path[i]
  BY <1>2, <1>3
<1>5. QED  BY <1>1, <1>3, <1>4 DEF Front, Last, l

LEMMA LastStep ==
    ASSUME NEW root, NEW path \in Seq(STRING), path # <<>>
    PROVE  Get(root, path) = Resolve(Get(root, Front(path)), Last(path))
<1>. DEFINE n == Len(path)
            front == Front(path)
            at == Along(root, path)
            bt == Along(root, front)
            S == {i \in Nat : i <= n - 1 => at[i] = bt[i]}
<1>1. /\ n \in Nat \ {0} /\ front \in Seq(STRING) /\ Len(front) = n - 1
      /\ (\A i \in 1 .. n - 1 : front[i] = path[i]) /\ Last(path) = path[n]
  BY FrontLast
<1>2. at[0] = Ok(root) /\ \A i \in 1 .. n : at[i] = Resolve(at[i - 1], path[i])
  BY AlongAt
<1>3. bt[0] = Ok(root) /\ \A i \in 1 .. Len(front) : bt[i] = Resolve(bt[i - 1], front[i])
  BY <1>1, AlongAt
<1>4. Get(root, path) = at[n] /\ Get(root, front) = bt[n - 1]
  BY <1>1 DEF Get
<1>. HIDE DEF n, front, at, bt
<1>5. 0 \in S
  BY <1>2, <1>3
<1>6. ASSUME NEW i \in Nat, i \in S PROVE i + 1 \in S
  <2>. SUFFICES ASSUME i + 1 <= n - 1 PROVE at[i + 1] = bt[i + 1]
    OBVIOUS
  <2>1. i + 1 \in 1 .. n /\ i + 1 \in 1 .. n - 1 /\ (i + 1) - 1 = i
    BY <1>1
  <2>2. at[i] = bt[i]
    BY <1>1, <1>6
  <2>3. at[i + 1] = Resolve(at[i], path[i + 1]) /\ bt[i + 1] = Resolve(bt[i], front[i + 1])
    BY <1>1, <1>2, <1>3, <2>1
  <2>4. QED  BY <1>1, <2>1, <2>2, <2>3
<1>7. Nat \subseteq S
  <2>. HIDE DEF S
  <2>1. QED  BY <1>5, <1>6, Induct
<1>8. at[n - 1] = bt[n - 1] /\ at[n] = Resolve(at[n - 1], path[n])
  BY <1>1, <1>2, <1>7
<1>9. QED  BY <1>1, <1>4, <1>8 DEF front

\* What the editing functions make of a value is a value.
LEMMA EditedIsValue ==
    ASSUME NEW f, NEW v, IsValue(v), NEW t, NEW x, IsValue(x), ~Failed(EditHere(f, v, t, x))
    PROVE  EditHere(f, v, t, x) = Ok(EditHere(f, v, t, x).root) /\ IsValue(EditHere(f, v, t, x).root)
<1>1. PICK S : IsMadeOf(v, S) /\ \A y \in S : IsValue(y)
  BY ValueParts
<1>. DEFINE V == S \cup {x}
<1>2. \A y \in V : IsValue(y)
  BY <1>1
<1>3. CASE IsArray(v)
  <2>. DEFINE s == v.items
              i == Index(t) + 1
  <2>1. s \in Seq(S) /\ S \subseteq V
    BY <1>1, <1>3, Kinds
  <2>2. s \in Seq(V) /\ Len(s) \in Nat
    BY <2>1, SeqMonotonic, LenProperties
  <2>. HIDE DEF V
  <2>3. CASE f \in {"add", "add_if_absent"}
    <3>1. EditHere(f, v, t, x) = AddElement(v, t, x)
      BY <1>3, <2>3 DEF EditHere
    <3>2. CASE t = Dash
      <4>1. Append(s, x) \in Seq(V)
        BY <2>2, AppendProperties DEF V
      <4>2. IsValue(Array(Append(s, x)))
        BY <1>2, <4>1, ArrayIsValue
      <4>3. QED  BY <3>1, <3>2, <4>2, Results DEF AddElement
    <3>3. CASE t # Dash
      <4>1. IndexError(t, Len(s) + 1) = "none" /\ EditHere(f, v, t, x) = Ok(Array(InsertAt(s, i, x)))
        BY <3>1, <3>3, Results DEF AddElement
      <4>2. IsNumeral(t) /\ Index(t) < Len(s) + 1 /\ Index(t) \in Nat
        BY <2>2, <4>1, IndexErrors, NumeralIndex
      <4>3. i \in 1 .. Len(s) + 1
        BY <2>2, <4>2
      <4>4. x \in V
        BY DEF V
      <4>. HIDE DEF i
      <4>5. InsertAt(s, i, x) \in Seq(V)
        BY <2>2, <4>3, <4>4, InsertAtElements
      <4>6. IsValue(Array(InsertAt(s, i, x)))
        BY <1>2, <4>5, ArrayIsValue
      <4>7. QED  BY <4>1, <4>6, Results DEF i
    <3>4. QED  BY <3>2, <3>3
  <2>4. CASE f \notin {"add", "add_if_absent"}
    <3>. DEFINE r == RemoveAt(s, i)
                e == [s EXCEPT ![i] = x]
    <3>1. ResolveError(v, t) = "none" /\ EditHere(f, v, t, x) = Ok(Array(IF f = "remove" THEN r ELSE e))
      BY <1>3, <2>4, Results DEF EditHere
    <3>2. i \in 1 .. Len(s)
      BY <1>3, <3>1, Resolved DEF IsArray, IsObject
    <3>3. x \in V
      BY DEF V
    <3>. HIDE DEF i
    <3>4. r \in Seq(V) /\ e \in Seq(V)
      BY <2>2, <3>2, <3>3, RemoveAtElements, ExceptSeq
    <3>5. IsValue(Array(r)) /\ IsValue(Array(e))
      BY <1>2, <3>4, ArrayIsValue
    <3>6. QED  BY <3>1, <3>5, Results
  <2>5. QED  BY <2>3, <2>4
<1>4. CASE ~IsArray(v)
  <2>1. /\ IsObject(v)
        /\ EditHere(f, v, t, x) \in {Ok(With(v, t, x)), Ok(Without(v, t))}
    BY <1>4, Results DEF EditHere
  <2>2. IsValue(With(v, t, x)) /\ IsValue(Without(v, t))
    BY <2>1, WithIsValue, WithoutIsValue
  <2>3. QED  BY <2>1, <2>2, Results
<1>5. QED  BY <1>3, <1>4

\* The inverse of an insertion is a removal, unless it was an append at "-".
LEMMA InsertionUndone ==
    ASSUME NEW v, IsValue(v), NEW t, ~IsArray(v) \/ t # Dash, NEW x, IsValue(x),
           NEW h, EditHere("add_if_absent", v, t, x) = Ok(h), NEW y
    PROVE  EditHere("remove", h, t, y) = Ok(v)
<1>1. PICK S : IsMadeOf(v, S) /\ \A z \in S : IsValue(z)
  BY ValueParts
<1>2. /\ ~Failed(EditHere("add_if_absent", v, t, x)) /\ EditHere("add_if_absent", v, t, x).root = h
      /\ IsValue(h)
  BY Results, EditedIsValue
<1>3. CASE IsArray(v)
  <2>. DEFINE s == v.items
              i == Index(t) + 1
              V == S \cup {x}
  <2>1. v = Array(s) /\ s \in Seq(S) /\ S \subseteq V /\ x \in V
    BY <1>1, <1>3, Kinds
  <2>2. s \in Seq(V) /\ Len(s) \in Nat
    BY <2>1, SeqMonotonic, LenProperties
  <2>3. EditHere("add_if_absent", v, t, x) = AddElement(v, t, x)
    BY <1>3 DEF EditHere
  <2>4. IndexError(t, Len(s) + 1) = "none" /\ h = Array(InsertAt(s, i, x))
    BY <1>2, <1>3, <2>3, Results DEF AddElement
  <2>5. IsNumeral(t) /\ Index(t) < Len(s) + 1 /\ Index(t) \in Nat
    BY <2>2, <2>4, IndexErrors, NumeralIndex
  <2>6. i \in 1 .. Len(s) + 1
    BY <2>2, <2>5
  <2>. HIDE DEF V, i
  <2>7. Len(InsertAt(s, i, x)) = Len(s) + 1 /\ RemoveAt(InsertAt(s, i, x), i) = s
    BY <2>1, <2>2, <2>6, InsertAtElements, RemoveInserted
  <2>8. IsArray(h) /\ h.items = InsertAt(s, i, x) /\ ~IsObject(h)
    BY <2>4, ArrayFields
  <2>9. ResolveError(h, t) = "none"
    <3>1. ResolveError(h, t) = IndexError(t, Len(h.items))
      BY <2>8 DEF ResolveError
    <3>2. QED  BY <2>2, <2>5, <2>7, <2>8, <3>1, IndexErrors
  <2>10. EditHere("remove", h, t, y) = Ok(Array(RemoveAt(h.items, i)))
    BY <2>8, <2>9 DEF EditHere, i
  <2>11. QED  BY <2>1, <2>7, <2>8, <2>10
<1>4. CASE ~IsArray(v)
  <2>1. IsObject(v) /\ t \notin DOMAIN v.members /\ h = With(v, t, x)
    BY <1>2, <1>4, Results DEF EditHere
  <2>2. IsObject(h) /\ ~IsArray(h) /\ t \in DOMAIN h.members /\ Without(h, t) = v
    BY <2>1, MembersWith
  <2>3. EditHere("remove", h, t, y) = Ok(Without(h, t))
    BY <2>2 DEF EditHere
  <2>4. QED  BY <2>2, <2>3
<1>5. QED  BY <1>3, <1>4

\* The inverse of a removal is an addition of what was removed.
LEMMA RemovalUndone ==
    ASSUME NEW v, IsValue(v), NEW t, NEW y, ~Failed(EditHere("remove", v, t, y)), IsValue(y)
    PROVE  /\ ResolveError(v, t) = "none"
           /\ EditHere("add", EditHere("remove", v, t, y).root, t, Child(v, t)) = Ok(v)
<1>1. PICK S : IsMadeOf(v, S) /\ \A z \in S : IsValue(z)
  BY ValueParts
<1>. DEFINE h == EditHere("remove", v, t, y).root
<1>2. CASE IsArray(v)
  <2>. DEFINE s == v.items
              i == Index(t) + 1
  <2>1. v = Array(s) /\ s \in Seq(S) /\ Len(s) \in Nat
    BY <1>1, <1>2, Kinds, LenProperties
  <2>2. ResolveError(v, t) = "none" /\ h = Array(RemoveAt(s, i))
    BY <1>2, Results DEF EditHere
  <2>3. IsNumeral(t) /\ i \in 1 .. Len(s) /\ Child(v, t) = s[i]
    BY <1>2, <2>2, Resolved DEF IsArray, IsObject
  <2>4. Index(t) \in Nat /\ t # Dash /\ Index(t) < Len(s)
    BY <2>1, <2>3, NumeralIndex
  <2>. HIDE DEF h, i, s
  <2>5. s[i] \in S
    BY <2>1, <2>3, ElementOfSeq
  <2>6. Len(RemoveAt(s, i)) = Len(s) - 1 /\ InsertAt(RemoveAt(s, i), i, s[i]) = [s EXCEPT ![i] = s[i]]
    <3>1. \A z \in S : InsertAt(RemoveAt(s, i), i, z) = [s EXCEPT ![i] = z]
      BY <2>1, <2>3, InsertRemoved
    <3>2. Len(RemoveAt(s, i)) = Len(s) - 1
      BY <2>1, <2>3, RemoveAtElements
    <3>3. QED  BY <2>5, <3>1, <3>2
  <2>7. [s EXCEPT ![i] = s[i]] = s
    BY <2>1, <2>3, LenProperties
  <2>8. IsArray(h) /\ h.items = RemoveAt(s, i)
    BY <2>2, ArrayFields
  <2>9. IndexError(t, Len(h.items) + 1) = "none"
    BY <2>1, <2>3, <2>4, <2>6, <2>8, IndexErrors
  <2>10. EditHere("add", h, t, s[i]) = Ok(Array(InsertAt(h.items, i, s[i])))
    BY <2>4, <2>8, <2>9 DEF EditHere, AddElement, i
  <2>11. QED  BY <2>1, <2>2, <2>3, <2>6, <2>7, <2>8, <2>10 DEF h
<1>3. CASE ~IsArray(v)
  <2>1. IsObject(v) /\ t \in DOMAIN v.members /\ h = Without(v, t)
    BY <1>3, Results DEF EditHere
  <2>2. ResolveError(v, t) = "none" /\ Child(v, t) = v.members[t]
    BY <1>3, <2>1 DEF ResolveError, Child
  <2>3. IsObject(h) /\ ~IsArray(h) /\ With(h, t, v.members[t]) = With(v, t, v.members[t])
        /\ With(v, t, v.members[t]) = v
    BY <2>1, MembersWith
  <2>. HIDE DEF h
  <2>4. EditHere("add", h, t, v.members[t]) = Ok(With(h, t, v.members[t]))
    BY <2>3 DEF EditHere
  <2>5. QED  BY <2>2, <2>3, <2>4 DEF h
<1>4. QED  BY <1>2, <1>3

\* A replacement is an assignment to the part, and the inverse of a replacement
\* is the one by what was replaced.
LEMMA ReplacedHere ==
    ASSUME NEW v, IsValue(v), NEW t, NEW x, ~Failed(EditHere("replace", v, t, x))
    PROVE  ResolveError(v, t) = "none" /\ EditHere("replace", v, t, x) = Ok(Put(v, t, x))
<1>1. CASE IsArray(v)
  BY <1>1, Results DEF EditHere, Put
<1>2. CASE ~IsArray(v)
  BY <1>2, Results DEF EditHere, Put, ResolveError
<1>3. QED  BY <1>1, <1>2

LEMMA ReplaceThere ==
    ASSUME NEW v, IsValue(v), NEW t, NEW x, ResolveError(v, t) = "none"
    PROVE  EditHere("replace", v, t, x) = Ok(Put(v, t, x))
<1>1. CASE IsArray(v)
  BY <1>1, Results DEF EditHere, Put
<1>2. CASE ~IsArray(v)
  <2>1. IsObject(v) /\ t \in DOMAIN v.members
    BY <1>2, Resolved
  <2>2. QED  BY <1>2, <2>1, Results DEF EditHere, Put
<1>3. QED  BY <1>1, <1>2

LEMMA ReplacementUndone ==
    ASSUME NEW v, IsValue(v), NEW t, NEW x, IsValue(x), ~Failed(EditHere("replace", v, t, x))
    PROVE  EditHere("replace", EditHere("replace", v, t, x).root, t, Child(v, t)) = Ok(v)
<1>. DEFINE h == Put(v, t, x)
<1>1. ResolveError(v, t) = "none" /\ EditHere("replace", v, t, x).root = h
  BY ReplacedHere, Results
<1>2. /\ IsValue(h) /\ ResolveError(h, t) = "none"
      /\ \A y : Put(h, t, y) = Put(v, t, y)
      /\ Put(v, t, Child(v, t)) = v
  BY <1>1, PutThere
<1>. HIDE DEF h
<1>3. EditHere("replace", h, t, Child(v, t)) = Ok(Put(h, t, Child(v, t)))
  BY <1>2, ReplaceThere
<1>4. QED  BY <1>1, <1>2, <1>3

------------------------------------------------------------------------------
\* The editing functions and their inverses

LEMMA GotIsValue ==
    ASSUME NEW root, IsValue(root), NEW path \in Seq(STRING), ~Failed(Get(root, path))
    PROVE  Get(root, path) = Ok(Get(root, path).root) /\ IsValue(Get(root, path).root)
<1>1. Len(path) \in 0 .. Len(path)
  BY LenProperties
<1>2. QED  BY <1>1, Passed DEF Get

LEMMA GotPart ==
    ASSUME NEW root, IsValue(root), NEW path \in Seq(STRING), path # <<>>
    PROVE  LET whole == Get(root, Front(path))
               t == Last(path)
           IN  /\ ~Failed(whole) => IsValue(whole.root) /\ whole = Ok(whole.root)
               /\ ~Failed(Get(root, path)) <=> ~Failed(whole) /\ ResolveError(whole.root, t) = "none"
               /\ ~Failed(Get(root, path)) => Get(root, path) = Ok(Child(whole.root, t))
<1>1. Front(path) \in Seq(STRING)
  BY FrontLast
<1>2. Get(root, path) = Resolve(Get(root, Front(path)), Last(path))
  BY LastStep
<1>3. QED  BY <1>1, <1>2, GotIsValue, ResolveCases, Results

\* What an edit that succeeds has done: the container v, to which the path but for
\* its last token leads, has become u.
LEMMA EditMade ==
    ASSUME NEW f, NEW root, IsValue(root), NEW path \in Seq(STRING), path # <<>>, NEW x, IsValue(x),
           ~Failed(Edit(f, root, path, x))
    PROVE  \E v, u : /\ Get(root, Front(path)) = Ok(v) /\ IsValue(v)
                     /\ EditHere(f, v, Last(path), x) = Ok(u) /\ IsValue(u)
                     /\ Edit(f, root, path, x) = Ok(Assigned(root, Front(path), u))
                     /\ IsValue(Assigned(root, Front(path), u))
<1>. DEFINE front == Front(path)
            whole == Get(root, front)
            t == Last(path)
            edited == EditHere(f, whole.root, t, x)
            w == Assigned(root, front, edited.root)
<1>1. front \in Seq(STRING)
  BY FrontLast
<1>2. ~Failed(whole) /\ ~Failed(edited) /\ Edit(f, root, path, x) = Ok(w)
  <2>1. Edit(f, root, path, x) = IF Failed(whole) THEN Err(whole.ec, root)
                                 ELSE IF Failed(edited) THEN Err(edited.ec, root)
                                 ELSE Ok(Assigned(root, front, edited.root))
    BY DEF Edit
  <2>2. /\ Failed(whole) => Failed(Err(whole.ec, root))
        /\ Failed(edited) => Failed(Err(edited.ec, root))
    BY DEF Failed, Err
  <2>. HIDE DEF whole, edited, front
  <2>3. QED  BY <2>1, <2>2
<1>. HIDE DEF front, t
<1>3. whole = Ok(whole.root) /\ IsValue(whole.root)
  BY <1>1, <1>2, GotIsValue
<1>4. edited = Ok(edited.root) /\ IsValue(edited.root)
  BY <1>2, <1>3, EditedIsValue
<1>5. IsValue(w)
  BY <1>1, <1>2, <1>4, AssignedThere
<1>. HIDE DEF w
<1>6. edited = EditHere(f, whole.root, t, x)
  OBVIOUS
<1>. HIDE DEF edited
<1>7. whole = Get(root, front)
  OBVIOUS
<1>. HIDE DEF whole
<1>8. \E v, u : /\ Get(root, front) = Ok(v) /\ IsValue(v)
               /\ EditHere(f, v, t, x) = Ok(u) /\ IsValue(u)
               /\ Edit(f, root, path, x) = Ok(Assigned(root, front, u))
               /\ IsValue(Assigned(root, front, u))
  <2>1. w = Assigned(root, front, edited.root)
    BY DEF w
  <2>2. QED  BY <1>2, <1>3, <1>4, <1>5, <1>6, <1>7, <2>1
<1>9. QED  BY <1>8 DEF front, t

\* An edit of the container that undoes another undoes it in the whole value.
LEMMA EditUndone ==
    ASSUME NEW f, NEW root, IsValue(root), NEW path \in Seq(STRING), path # <<>>, NEW x, IsValue(x),
           NEW v, Get(root, Front(path)) = Ok(v), NEW u, IsValue(u),
           NEW g, NEW y, EditHere(g, u, Last(path), y) = Ok(v)
    PROVE  Edit(g, Assigned(root, Front(path), u), path, y) = Ok(root)
<1>. DEFINE front == Front(path)
            w == Assigned(root, front, u)
<1>1. front \in Seq(STRING) /\ ~Failed(Get(root, front)) /\ Get(root, front).root = v
  BY FrontLast, Results
<1>. HIDE DEF front
<1>2. /\ IsValue(w) /\ Get(w, front) = Ok(u)
      /\ \A z : Assigned(w, front, z) = Assigned(root, front, z)
      /\ Assigned(root, front, Get(root, front).root) = root
  BY <1>1, AssignedThere
<1>. HIDE DEF w
<1>3. Edit(g, w, path, y) = Ok(Assigned(w, front, v))
  BY <1>2, Results DEF Edit, front
<1>4. QED  BY <1>1, <1>2, <1>3 DEF w, front

LEMMA NumeralIsString ==
    ASSUME NEW n \in Nat
    PROVE  Numeral(n) \in STRING /\ Numeral(n) # Dash
<1>1. Len(Numerals) \in Nat /\ DOMAIN Numerals = 1 .. Len(Numerals)
      /\ \A i \in 1 .. Len(Numerals) : Numerals[i] \in STRING
  BY TokensAssumption, LenProperties
<1>2. CASE n < Len(Numerals)
  <2>1. n + 1 \in 1 .. Len(Numerals) /\ Numeral(n) = Numerals[n + 1]
    BY <1>1, <1>2 DEF Numeral
  <2>2. QED  BY <1>1, <2>1, TokensAssumption
<1>3. CASE ~(n < Len(Numerals))
  <2>1. Numeral(n) = Beyond
    BY <1>3 DEF Numeral
  <2>2. Beyond \in STRING /\ Beyond # Dash
    BY TokensAssumption DEF Beyond, Dash
  <2>3. QED  BY <2>1, <2>2
<1>4. QED  BY <1>2, <1>3

LEMMA FrontOfAppend ==
    ASSUME NEW s \in Seq(STRING), NEW t \in STRING
    PROVE  Append(s, t) \in Seq(STRING) /\ Append(s, t) # <<>>
           /\ Front(Append(s, t)) = s /\ Last(Append(s, t)) = t
<1>. DEFINE a == Append(s, t)
<1>1. /\ a \in Seq(STRING) /\ a # <<>> /\ Len(a) = Len(s) + 1
      /\ (\A i \in 1 .. Len(s) : a[i] = s[i]) /\ a[Len(s) + 1] = t
  <2>1. a \in Seq(STRING) /\ a # <<>> /\ Len(a) = Len(s) + 1
    BY AppendProperties
  <2>2. \A i \in 1 .. Len(s) : a[i] = s[i]
    BY AppendProperties
  <2>3. a[Len(s) + 1] = t
    BY AppendProperties
  <2>4. QED  BY <2>1, <2>2, <2>3
<1>. HIDE DEF a
<1>2. Len(s) \in Nat
  BY LenProperties
<1>3. /\ Front(a) \in Seq(STRING) /\ Len(Front(a)) = Len(a) - 1
      /\ \A i \in 1 .. Len(a) - 1 : Front(a)[i] = a[i]
      /\ Last(a) = a[Len(a)]
  BY <1>1, FrontLast
<1>4. Len(a) - 1 = Len(s)
  BY <1>1, <1>2
<1>5. Front(a) = s
  BY <1>1, <1>3, <1>4, SeqEqual
<1>6. QED  BY <1>1, <1>3, <1>5 DEF a

\* A definite path says where an element is added that is added at "-".
LEMMA Definite ==
    ASSUME NEW root, IsValue(root), NEW path \in Seq(STRING)
    PROVE  LET npath == DefinitePath(root, path)
               whole == Get(root, Front(path))
           IN  /\ path = <<>> => npath = <<>>
               /\ path # <<>> =>
                     /\ npath \in Seq(STRING) /\ npath # <<>> /\ Front(npath) = Front(path)
                     /\ Last(npath) = IF Last(path) = Dash /\ ~Failed(whole) /\ IsArray(whole.root)
                                      THEN Numeral(Len(whole.root.items)) ELSE Last(path)
                     /\ ~Failed(whole) /\ IsArray(whole.root) => Last(npath) # Dash
<1>1. CASE path = <<>>
  BY <1>1 DEF DefinitePath
<1>2. CASE path # <<>>
  <2>. DEFINE whole == Get(root, Front(path))
              n == Len(whole.root.items)
  <2>1. Front(path) \in Seq(STRING) /\ Last(path) \in STRING
    BY <1>2, FrontLast
  <2>2. CASE Last(path) = Dash /\ ~Failed(whole) /\ IsArray(whole.root)
    <3>1. n \in Nat
      <4>1. PICK S : IsMadeOf(whole.root, S)
        BY <2>1, <2>2, GotIsValue, ValueParts
      <4>2. QED  BY <2>2, <4>1, Kinds, LenProperties
    <3>2. DefinitePath(root, path) = Append(Front(path), Numeral(n))
      BY <1>2, <2>2 DEF DefinitePath
    <3>. HIDE DEF n
    <3>3. Numeral(n) \in STRING /\ Numeral(n) # Dash
      BY <3>1, NumeralIsString
    <3>4. QED  BY <1>2, <2>1, <2>2, <3>2, <3>3, FrontOfAppend DEF n
  <2>3. CASE ~(Last(path) = Dash /\ ~Failed(whole) /\ IsArray(whole.root))
    <3>1. DefinitePath(root, path) = path
      BY <2>3 DEF DefinitePath
    <3>2. QED  BY <1>2, <2>1, <2>3, <3>1
  <2>4. QED  BY <2>2, <2>3
<1>3. QED  BY <1>1, <1>2

\* Executing the inverse entry takes the value w back to v.
Undoes(entry, w, v) == Edit(entry.op, w, entry.path, entry.value) = Ok(v)

LEMMA AddIfAbsentUndone ==
    ASSUME NEW root, IsValue(root), NEW path \in Seq(STRING), path # <<>>, NEW x, IsValue(x),
           ~Failed(AddIfAbsent(root, DefinitePath(root, path), x))
    PROVE  LET w == AddIfAbsent(root, DefinitePath(root, path), x).root IN
           IsValue(w) /\ Undoes(Entry("remove", DefinitePath(root, path), Atom("null")), w, root)
<1>. DEFINE npath == DefinitePath(root, path)
            added == AddIfAbsent(root, npath, x)
<1>1. /\ npath \in Seq(STRING) /\ npath # <<>> /\ Front(npath) = Front(path)
      /\ ~Failed(Get(root, Front(path))) /\ IsArray(Get(root, Front(path)).root) => Last(npath) # Dash
  BY Definite
<1>2. ~Failed(added) /\ added = Edit("add_if_absent", root, npath, x)
  BY DEF AddIfAbsent
<1>. HIDE DEF npath, added
<1>3. PICK v, u : /\ Get(root, Front(npath)) = Ok(v) /\ IsValue(v)
                  /\ EditHere("add_if_absent", v, Last(npath), x) = Ok(u) /\ IsValue(u)
                  /\ added = Ok(Assigned(root, Front(npath), u))
                  /\ IsValue(Assigned(root, Front(npath), u))
  BY <1>1, <1>2, EditMade
<1>4. ~IsArray(v) \/ Last(npath) # Dash
  BY <1>1, <1>3, Results
<1>5. EditHere("remove", u, Last(npath), Atom("null")) = Ok(v)
  BY <1>3, <1>4, InsertionUndone
<1>6. Edit("remove", Assigned(root, Front(npath), u), npath, Atom("null")) = Ok(root)
  BY <1>1, <1>3, <1>5, EditUndone
<1>7. QED  BY <1>3, <1>6, Results DEF Undoes, Entry, npath, added

LEMMA ReplaceUndone ==
    ASSUME NEW root, IsValue(root), NEW path \in Seq(STRING), NEW x, IsValue(x),
           ~Failed(Get(root, path)), ~Failed(Replace(root, path, x))
    PROVE  LET w == Replace(root, path, x).root IN
           IsValue(w) /\ Undoes(Entry("replace", path, Get(root, path).root), w, root)
<1>1. CASE path = <<>>
  <2>1. Get(root, path).root = root
    <3>1. Len(path) = 0
      BY <1>1
    <3>2. QED  BY <3>1, AlongAt, Results DEF Get
  <2>2. \A y, z : Edit("replace", y, path, z) = Ok(z)
    BY <1>1 DEF Edit
  <2>3. QED  BY <2>1, <2>2, Results DEF Replace, Undoes, Entry
<1>2. CASE path # <<>>
  <2>. DEFINE replaced == Replace(root, path, x)
  <2>1. replaced = Edit("replace", root, path, x)
    BY DEF Replace
  <2>. HIDE DEF replaced
  <2>2. PICK v, u : /\ Get(root, Front(path)) = Ok(v) /\ IsValue(v)
                    /\ EditHere("replace", v, Last(path), x) = Ok(u) /\ IsValue(u)
                    /\ replaced = Ok(Assigned(root, Front(path), u))
                    /\ IsValue(Assigned(root, Front(path), u))
    BY <1>2, <2>1, EditMade DEF replaced
  <2>3. Get(root, path).root = Child(v, Last(path))
    BY <1>2, <2>2, GotPart, Results
  <2>4. EditHere("replace", u, Last(path), Child(v, Last(path))) = Ok(v)
    BY <2>2, Results, ReplacementUndone
  <2>5. Edit("replace", Assigned(root, Front(path), u), path, Child(v, Last(path))) = Ok(root)
    BY <1>2, <2>2, <2>4, EditUndone
  <2>6. QED  BY <2>2, <2>3, <2>5, Results DEF Undoes, Entry, replaced
<1>3. QED  BY <1>1, <1>2

LEMMA RemoveUndone ==
    ASSUME NEW root, IsValue(root), NEW path \in Seq(STRING),
           ~Failed(Get(root, path)), ~Failed(RemoveFrom(root, path))
    PROVE  LET w == RemoveFrom(root, path).root IN
           IsValue(w) /\ Undoes(Entry("add", path, Get(root, path).root), w, root)
<1>1. path # <<>>
  BY Results DEF RemoveFrom, Edit
<1>. DEFINE removed == RemoveFrom(root, path)
            none == Atom("")
<1>2. IsValue(none) /\ removed = Edit("remove", root, path, none) /\ ~Failed(removed)
  BY AtomIsValue DEF RemoveFrom
<1>. HIDE DEF removed, none
<1>3. PICK v, u : /\ Get(root, Front(path)) = Ok(v) /\ IsValue(v)
                  /\ EditHere("remove", v, Last(path), none) = Ok(u) /\ IsValue(u)
                  /\ removed = Ok(Assigned(root, Front(path), u))
                  /\ IsValue(Assigned(root, Front(path), u))
  BY <1>1, <1>2, EditMade
<1>4. Get(root, path).root = Child(v, Last(path))
  BY <1>1, <1>3, GotPart, Results
<1>5. EditHere("add", u, Last(path), Child(v, Last(path))) = Ok(v)
  <2>1. ~Failed(EditHere("remove", v, Last(path), none)) /\ EditHere("remove", v, Last(path), none).root = u
    BY <1>3, Results
  <2>2. QED  BY <1>2, <1>3, <2>1, RemovalUndone
<1>6. Edit("add", Assigned(root, Front(path), u), path, Child(v, Last(path))) = Ok(root)
  BY <1>1, <1>3, <1>5, EditUndone
<1>7. QED  BY <1>3, <1>4, <1>6, Results DEF Undoes, Entry, removed

------------------------------------------------------------------------------
\* The functions of jsonpointer do what RFC 6902 says.

LEMMA PartOf ==
    ASSUME NEW v, IsValue(v), NEW t
    PROVE  Part(v, t) = IF ResolveError(v, t) = "none" THEN Child(v, t) ELSE NoValue
<1>1. PICK S : IsMadeOf(v, S)
  BY ValueParts
<1>2. CASE IsArray(v)
  <2>1. ~IsObject(v) /\ Len(v.items) \in Nat
    BY <1>1, <1>2, Kinds, LenProperties DEF IsArray, IsObject
  <2>2. Part(v, t) = IF IsNumeral(t) /\ Index(t) < Len(v.items) THEN v.items[Index(t) + 1] ELSE NoValue
    BY <1>2, <2>1 DEF Part
  <2>3. ResolveError(v, t) = "none" <=> IsNumeral(t) /\ Index(t) < Len(v.items)
    BY <1>2, <2>1, IndexErrors DEF ResolveError
  <2>4. Child(v, t) = v.items[Index(t) + 1]
    BY <1>2 DEF Child
  <2>5. QED  BY <2>2, <2>3, <2>4
<1>3. CASE ~IsArray(v) /\ IsObject(v)
  BY <1>3 DEF Part, ResolveError, Child
<1>4. CASE ~IsArray(v) /\ ~IsObject(v)
  BY <1>4 DEF Part, ResolveError
<1>5. QED  BY <1>2, <1>3, <1>4

LEMMA NoKind ==
    ~IsArray(NoValue) /\ ~IsObject(NoValue) /\ \A t : Part(NoValue, t) = NoValue
<1>1. \A v : v.kind = "none" => ~IsArray(v) /\ ~IsObject(v)
  BY DEF IsArray, IsObject
<1>2. NoValue.kind = "none"
  BY DEF NoValue, Atom
<1>3. QED  BY <1>1, <1>2 DEF Part

LEMMA PartsAlongAt ==
    ASSUME NEW root, NEW path \in Seq(STRING)
    PROVE  /\ PartsAlong(root, path)[0] = root
           /\ \A i \in 1 .. Len(path) : PartsAlong(root, path)[i] = Part(PartsAlong(root, path)[i - 1], path[i])
<1>. DEFINE part == PartsAlong(root, path)
<1>1. part = [i \in 0 .. Len(path) |-> IF i = 0 THEN root ELSE Part(part[i - 1], path[i])]
  BY PartsAlongDef
<1>2. Len(path) \in Nat
  BY LenProperties
<1>. HIDE DEF part
<1>3. part[0] = root
  BY <1>1, <1>2
<1>4. ASSUME NEW i \in 1 .. Len(path) PROVE part[i] = Part(part[i - 1], path[i])
  BY <1>1, <1>2
<1>5. QED  BY <1>3, <1>4 DEF part

\* get reads what the location refers to.
LEMMA ValueGot ==
    ASSUME NEW v, IsValue(v), NEW path \in Seq(STRING)
    PROVE  ValueAt(v, path) = IF Failed(Get(v, path)) THEN NoValue ELSE Get(v, path).root
<1>. DEFINE at == Along(v, path)
            part == PartsAlong(v, path)
            Same(n) == /\ part[n] = IF Failed(at[n]) THEN NoValue ELSE at[n].root
                       /\ ~Failed(at[n]) => IsValue(at[n].root)
            S == {n \in Nat : n <= Len(path) => Same(n)}
<1>0. Len(path) \in Nat
  BY LenProperties
<1>1. 0 \in S
  <2>1. at[0] = Ok(v) /\ part[0] = v
    BY AlongAt, PartsAlongAt
  <2>2. QED  BY <2>1, Results
<1>2. ASSUME NEW n \in Nat, n \in S PROVE n + 1 \in S
  <2>. HIDE DEF Same
  <2>. SUFFICES ASSUME n + 1 <= Len(path) PROVE Same(n + 1)
    OBVIOUS
  <2>. DEFINE t == path[n + 1]
              r == at[n]
              u == r.root
  <2>1. Same(n)
    BY <1>0, <1>2
  <2>. USE DEF Same
  <2>2. at[n + 1] = Resolve(r, t) /\ part[n + 1] = Part(part[n], t)
    <3>1. n + 1 \in 1 .. Len(path) /\ n + 1 - 1 = n
      BY <1>0
    <3>2. QED  BY <3>1, AlongAt, PartsAlongAt
  <2>. HIDE DEF at, part, t
  <2>3. CASE Failed(r)
    <3>1. at[n + 1] = r /\ part[n + 1] = NoValue
      BY <2>1, <2>2, <2>3, ResolveCases, NoKind
    <3>2. QED  BY <2>3, <3>1
  <2>4. CASE ~Failed(r) /\ ResolveError(u, t) = "none"
    <3>1. at[n + 1] = Ok(Child(u, t))
      BY <2>2, <2>4, ResolveCases
    <3>2. IsValue(Child(u, t)) /\ part[n + 1] = Child(u, t)
      BY <2>1, <2>2, <2>4, PartIsValue, PartOf
    <3>3. QED  BY <3>1, <3>2, Results
  <2>5. CASE ~Failed(r) /\ ResolveError(u, t) # "none"
    <3>1. Failed(at[n + 1])
      BY <2>2, <2>5, Results DEF Resolve
    <3>2. part[n + 1] = NoValue
      BY <2>1, <2>2, <2>5, PartOf
    <3>3. QED  BY <3>1, <3>2
  <2>6. QED  BY <2>3, <2>4, <2>5
<1>3. Nat \subseteq S
  <2>. HIDE DEF S
  <2>1. QED  BY <1>1, <1>2, Induct
<1>4. Same(Len(path))
  BY <1>0, <1>3
<1>5. QED  BY <1>4 DEF Get, ValueAt

\* What a path leads to, one token before its end.
LEMMA FrontGot ==
    ASSUME NEW v, IsValue(v), NEW path \in Seq(STRING), path # <<>>
    PROVE  \/ /\ Failed(Get(v, Front(path))) /\ Failed(Get(v, path))
              /\ ValueAt(v, Front(path)) = NoValue /\ ValueAt(v, path) = NoValue
           \/ \E u : /\ IsValue(u) /\ Get(v, Front(path)) = Ok(u) /\ ValueAt(v, Front(path)) = u
                     /\ ~Failed(Get(v, path)) <=> ResolveError(u, Last(path)) = "none"
                     /\ ~Failed(Get(v, path)) => Get(v, path) = Ok(Child(u, Last(path)))
                     /\ ValueAt(v, path) = IF Failed(Get(v, path)) THEN NoValue ELSE Child(u, Last(path))
<1>. DEFINE front == Front(path)
            t == Last(path)
            whole == Get(v, front)
            got == Get(v, path)
<1>1. front \in Seq(STRING)
  BY FrontLast
<1>2. /\ ~Failed(whole) => IsValue(whole.root) /\ whole = Ok(whole.root)
      /\ ~Failed(got) <=> ~Failed(whole) /\ ResolveError(whole.root, t) = "none"
      /\ ~Failed(got) => got = Ok(Child(whole.root, t))
  BY GotPart
<1>3. /\ ValueAt(v, path) = IF Failed(got) THEN NoValue ELSE got.root
      /\ ValueAt(v, front) = IF Failed(whole) THEN NoValue ELSE whole.root
  BY <1>1, ValueGot
<1>. HIDE DEF front, t, whole, got
<1>4. CASE Failed(whole)
  <2>1. Failed(got) /\ ValueAt(v, front) = NoValue /\ ValueAt(v, path) = NoValue
    BY <1>2, <1>3, <1>4
  <2>2. QED  BY <1>4, <2>1 DEF front, whole, got
<1>5. CASE ~Failed(whole)
  <2>. DEFINE u == whole.root
  <2>1. IsValue(u) /\ whole = Ok(u) /\ ValueAt(v, front) = u
    BY <1>2, <1>3, <1>5
  <2>2. ~Failed(got) <=> ResolveError(u, t) = "none"
    BY <1>2, <1>5
  <2>3. ~Failed(got) => got = Ok(Child(u, t))
    BY <1>2
  <2>4. ValueAt(v, path) = IF Failed(got) THEN NoValue ELSE Child(u, t)
    BY <1>3, <2>3, Results
  <2>. HIDE DEF u
  <2>5. QED  BY <2>1, <2>2, <2>3, <2>4 DEF front, t, whole, got
<1>6. QED  BY <1>4, <1>5

LEMMA EditAt ==
    ASSUME NEW f, NEW root, NEW path, path # <<>>, NEW x
    PROVE  /\ Failed(Get(root, Front(path))) => Failed(Edit(f, root, path, x))
           /\ \A v : Get(root, Front(path)) = Ok(v) =>
                  /\ Failed(EditHere(f, v, Last(path), x)) => Failed(Edit(f, root, path, x))
                  /\ \A u : EditHere(f, v, Last(path), x) = Ok(u) =>
                         Edit(f, root, path, x) = Ok(Assigned(root, Front(path), u))
<1>. DEFINE whole == Get(root, Front(path))
            edited == EditHere(f, whole.root, Last(path), x)
<1>1. Edit(f, root, path, x) = IF Failed(whole) THEN Err(whole.ec, root)
                               ELSE IF Failed(edited) THEN Err(edited.ec, root)
                               ELSE Ok(Assigned(root, Front(path), edited.root))
  BY DEF Edit
<1>2. /\ Failed(whole) => Failed(Err(whole.ec, root))
      /\ Failed(edited) => Failed(Err(edited.ec, root))
  BY DEF Failed, Err
<1>3. ASSUME NEW v, whole = Ok(v)
      PROVE  /\ ~Failed(whole) /\ edited = EditHere(f, v, Last(path), x)
             /\ \A u : edited = Ok(u) => ~Failed(edited) /\ edited.root = u
  BY <1>3, Results
<1>. HIDE DEF whole, edited
<1>4. QED  BY <1>1, <1>2, <1>3 DEF whole

\* What AddTo does at the end of the path, t, which it has made definite, n.
LEMMA AddedHere ==
    ASSUME NEW v, IsValue(v), NEW t, NEW n, NEW x, IsValue(x),
           n = IF t = Dash /\ IsArray(v) THEN Numeral(Len(v.items)) ELSE t,
           ~IsArray(v) \/ n # Dash
    PROVE  \/ \E u : IsValue(u) /\ EditHere("add_if_absent", v, n, x) = Ok(u) /\ PartAdded(v, t, x) = u
           \/ /\ Failed(EditHere("add_if_absent", v, n, x))
              /\ ResolveError(v, n) = "none" /\ PartAdded(v, t, x) = Put(v, n, x)
           \/ /\ Failed(EditHere("add_if_absent", v, n, x))
              /\ ResolveError(v, n) # "none" /\ PartAdded(v, t, x) = NoValue
<1>1. PICK S : IsMadeOf(v, S)
  BY ValueParts
<1>2. CASE IsArray(v)
  <2>. DEFINE l == Len(v.items)
              u == Array(InsertAt(v.items, Index(n) + 1, x))
              there == EditHere("add_if_absent", v, n, x)
  <2>1. ~IsObject(v) /\ l \in Nat
    BY <1>1, <1>2, Kinds, LenProperties DEF IsArray, IsObject
  <2>2. there = IF IndexError(n, l + 1) # "none" THEN Err(IndexError(n, l + 1), v) ELSE Ok(u)
    BY <1>2 DEF EditHere, AddElement
  <2>3. n = IF t = Dash THEN Numeral(l) ELSE t
    BY <1>2
  <2>4. PartAdded(v, t, x) = IF IsNumeral(n) /\ Index(n) <= l THEN u ELSE NoValue
    BY <1>2, <2>1, <2>3 DEF PartAdded
  <2>5. ResolveError(v, n) = IndexError(n, l)
    BY <1>2 DEF ResolveError
  <2>6. IsNumeral(n) => Index(n) \in Nat
    BY NumeralIndex
  <2>. HIDE DEF l, u
  <2>7. IndexError(n, l + 1) = "none" <=> IsNumeral(n) /\ Index(n) <= l
    <3>1. IndexError(n, l + 1) = "none" <=> IsNumeral(n) /\ Index(n) < l + 1
      BY <2>1, IndexErrors
    <3>2. QED  BY <2>1, <2>6, <3>1
  <2>8. IndexError(n, l) = "none" <=> IsNumeral(n) /\ Index(n) < l
    BY <2>1, IndexErrors
  <2>. HIDE DEF there
  <2>9. CASE IsNumeral(n) /\ Index(n) <= l
    <3>1. there = Ok(u) /\ PartAdded(v, t, x) = u
      BY <2>2, <2>4, <2>7, <2>9
    <3>2. IsValue(u)
      BY <3>1, Results, EditedIsValue DEF there
    <3>3. QED  BY <3>1, <3>2 DEF there
  <2>10. CASE ~(IsNumeral(n) /\ Index(n) <= l)
    <3>1. Failed(there) /\ PartAdded(v, t, x) = NoValue
      BY <2>2, <2>4, <2>7, <2>10, Results
    <3>2. ResolveError(v, n) # "none"
      BY <2>1, <2>5, <2>6, <2>8, <2>10
    <3>3. QED  BY <3>1, <3>2 DEF there
  <2>11. QED  BY <2>9, <2>10
<1>3. CASE ~IsArray(v) /\ IsObject(v)
  <2>1. n = t /\ PartAdded(v, t, x) = With(v, t, x) /\ Put(v, n, x) = With(v, t, x)
    BY <1>3 DEF PartAdded, Put
  <2>2. ResolveError(v, n) = IF n \notin DOMAIN v.members THEN "key_not_found" ELSE "none"
    BY <1>3 DEF ResolveError
  <2>3. EditHere("add_if_absent", v, n, x) =
            IF n \in DOMAIN v.members THEN Err("key_already_exists", v) ELSE Ok(With(v, n, x))
    BY <1>3 DEF EditHere
  <2>4. IsValue(With(v, t, x))
    BY <1>3, WithIsValue
  <2>5. QED  BY <2>1, <2>2, <2>3, <2>4, Results
<1>4. CASE ~IsArray(v) /\ ~IsObject(v)
  <2>1. PartAdded(v, t, x) = NoValue /\ ResolveError(v, n) # "none"
    BY <1>4 DEF PartAdded, ResolveError
  <2>2. Failed(EditHere("add_if_absent", v, n, x))
    BY <1>4, Results DEF EditHere
  <2>3. QED  BY <2>1, <2>2
<1>5. QED  BY <1>2, <1>3, <1>4

\* AddTo adds x, or reports an error, as RFC 6902 does.
LEMMA AddConforms ==
    ASSUME NEW v, IsValue(v), NEW path \in Seq(STRING), NEW x, IsValue(x)
    PROVE  LET npath == DefinitePath(v, path)
               inserted == AddIfAbsent(v, npath, x)
               replaced == Replace(v, npath, x)
           IN  Added(v, path, x) = IF ~Failed(inserted) THEN inserted.root
                                   ELSE IF ~Failed(Get(v, npath)) /\ ~Failed(replaced) THEN replaced.root
                                   ELSE NoValue
<1>. DEFINE npath == DefinitePath(v, path)
            inserted == AddIfAbsent(v, npath, x)
            replaced == Replace(v, npath, x)
<1>1. CASE path = <<>>
  <2>1. npath = <<>>
    BY <1>1, Definite
  <2>. HIDE DEF npath
  <2>2. inserted = Ok(x) /\ Added(v, path, x) = x
    BY <1>1, <2>1 DEF AddIfAbsent, Edit, Added
  <2>. HIDE DEF inserted, replaced
  <2>3. Added(v, path, x) = IF ~Failed(inserted) THEN inserted.root
                            ELSE IF ~Failed(Get(v, npath)) /\ ~Failed(replaced) THEN replaced.root
                            ELSE NoValue
    BY <2>2, Results
  <2>4. QED  BY <2>3 DEF inserted, replaced, npath
<1>2. CASE path # <<>>
  <2>. DEFINE front == Front(path)
              t == Last(path)
              n == Last(npath)
              whole == Get(v, front)
  <2>1. npath \in Seq(STRING) /\ npath # <<>> /\ Front(npath) = front
    BY <1>2, Definite
  <2>2. /\ n = IF t = Dash /\ ~Failed(whole) /\ IsArray(whole.root)
               THEN Numeral(Len(whole.root.items)) ELSE t
        /\ ~Failed(whole) /\ IsArray(whole.root) => n # Dash
    BY <1>2, Definite
  <2>3. inserted = Edit("add_if_absent", v, npath, x) /\ replaced = Edit("replace", v, npath, x)
    BY DEF AddIfAbsent, Replace
  <2>4. Added(v, path, x) = Having(v, front, PartAdded(ValueAt(v, front), t, x))
    BY <1>2 DEF Added
  <2>5. \A y : IsValue(y) => Having(v, front, y) = Assigned(v, front, y)
    BY NoValueIsNone DEF Having
  <2>. HIDE DEF npath, inserted, replaced, front, t, n
  <2>6. CASE Failed(whole)
    <3>1. Failed(inserted) /\ Failed(Get(v, npath))
      <4>1. Failed(inserted)
        BY <2>1, <2>3, <2>6, EditAt
      <4>2. Failed(Get(v, npath))
        BY <2>1, <2>6, GotPart
      <4>3. QED  BY <4>1, <4>2
    <3>2. ValueAt(v, front) = NoValue
      BY <1>2, <2>1, <2>6, FrontLast, ValueGot
    <3>3. Added(v, path, x) = NoValue
      BY <2>4, <3>2, NoKind DEF PartAdded, Having
    <3>4. QED  BY <3>1, <3>3 DEF npath, inserted
  <2>7. CASE ~Failed(whole)
    <3>. DEFINE u == whole.root
    <3>1. IsValue(u) /\ whole = Ok(u) /\ ValueAt(v, front) = u
      <4>1. front \in Seq(STRING)
        BY <1>2, FrontLast DEF front
      <4>2. QED  BY <2>7, <4>1, GotIsValue, ValueGot
    <3>. HIDE DEF u
    <3>2. /\ n = IF t = Dash /\ IsArray(u) THEN Numeral(Len(u.items)) ELSE t
          /\ ~IsArray(u) \/ n # Dash
      BY <2>2, <2>7 DEF u
    <3>3. Added(v, path, x) = Having(v, front, PartAdded(u, t, x)) /\ Get(v, Front(npath)) = Ok(u)
      BY <2>1, <2>4, <3>1
    <3>. HIDE DEF whole
    <3>4. CASE \E y : IsValue(y) /\ EditHere("add_if_absent", u, n, x) = Ok(y) /\ PartAdded(u, t, x) = y
      <4>1. PICK y : IsValue(y) /\ EditHere("add_if_absent", u, n, x) = Ok(y) /\ PartAdded(u, t, x) = y
        BY <3>4
      <4>2. inserted = Ok(Assigned(v, front, y))
        BY <2>1, <2>3, <3>3, <4>1, EditAt DEF n
      <4>3. Added(v, path, x) = Assigned(v, front, y)
        BY <2>5, <3>3, <4>1
      <4>4. QED  BY <4>2, <4>3, Results DEF npath, inserted
    <3>5. CASE /\ Failed(EditHere("add_if_absent", u, n, x))
               /\ ResolveError(u, n) = "none" /\ PartAdded(u, t, x) = Put(u, n, x)
      <4>1. Failed(inserted)
        BY <2>1, <2>3, <3>3, <3>5, EditAt DEF n
      <4>2. EditHere("replace", u, n, x) = Ok(Put(u, n, x)) /\ IsValue(Put(u, n, x))
        BY <3>1, <3>5, ReplaceThere, PutThere
      <4>3. replaced = Ok(Assigned(v, front, Put(u, n, x)))
        BY <2>1, <2>3, <3>3, <4>2, EditAt DEF n
      <4>4. ~Failed(Get(v, npath))
        BY <2>1, <3>3, <3>5, GotPart, Results DEF n
      <4>5. Added(v, path, x) = Assigned(v, front, Put(u, n, x))
        BY <2>5, <3>3, <3>5, <4>2
      <4>6. QED  BY <4>1, <4>3, <4>4, <4>5, Results DEF npath, inserted, replaced
    <3>6. CASE /\ Failed(EditHere("add_if_absent", u, n, x))
               /\ ResolveError(u, n) # "none" /\ PartAdded(u, t, x) = NoValue
      <4>1. Failed(inserted)
        BY <2>1, <2>3, <3>3, <3>6, EditAt DEF n
      <4>2. Failed(Get(v, npath))
        BY <2>1, <3>3, <3>6, GotPart, Results DEF n
      <4>3. Added(v, path, x) = NoValue
        BY <3>3, <3>6 DEF Having
      <4>4. QED  BY <4>1, <4>2, <4>3 DEF npath, inserted
    <3>7. QED  BY <3>1, <3>2, <3>4, <3>5, <3>6, AddedHere
  <2>8. QED  BY <2>6, <2>7
<1>3. QED  BY <1>1, <1>2

LEMMA RemoveThere ==
    ASSUME NEW v, IsValue(v), NEW t, ResolveError(v, t) = "none", NEW x, IsValue(x)
    PROVE  LET u == IF IsObject(v) THEN Without(v, t) ELSE Array(RemoveAt(v.items, Index(t) + 1)) IN
           /\ EditHere("remove", v, t, x) = Ok(u) /\ IsValue(u)
           /\ \A y : IsValue(y) => PartAdded(u, t, y) = Put(v, t, y)
<1>. DEFINE u == IF IsObject(v) THEN Without(v, t) ELSE Array(RemoveAt(v.items, Index(t) + 1))
<1>1. PICK S : IsMadeOf(v, S) /\ \A y \in S : IsValue(y)
  BY ValueParts
<1>2. EditHere("remove", v, t, x) = Ok(u)
  <2>1. CASE IsArray(v)
    <3>1. ~IsObject(v)
      BY <2>1, Resolved
    <3>2. EditHere("remove", v, t, x) = Ok(Array(RemoveAt(v.items, Index(t) + 1)))
      BY <2>1 DEF EditHere
    <3>3. QED  BY <3>1, <3>2
  <2>2. CASE ~IsArray(v)
    <3>1. IsObject(v) /\ t \in DOMAIN v.members
      BY <2>2, Resolved
    <3>2. EditHere("remove", v, t, x) = Ok(Without(v, t))
      BY <2>2, <3>1 DEF EditHere
    <3>3. QED  BY <3>1, <3>2
  <2>3. QED  BY <2>1, <2>2
<1>3. IsValue(u)
  <2>. HIDE DEF u
  <2>1. ~Failed(EditHere("remove", v, t, x)) /\ EditHere("remove", v, t, x).root = u
    BY <1>2, Results
  <2>2. QED  BY <2>1, EditedIsValue
<1>4. ASSUME NEW y, IsValue(y) PROVE PartAdded(u, t, y) = Put(v, t, y)
  <2>1. CASE IsArray(v)
    <3>. DEFINE s == v.items
                i == Index(t) + 1
                V == S \cup {y}
    <3>1. ~IsObject(v) /\ IsNumeral(t) /\ i \in 1 .. Len(s)
      BY <2>1, Resolved
    <3>2. s \in Seq(S) /\ S \subseteq V /\ y \in V
      BY <1>1, <2>1, Kinds
    <3>3. s \in Seq(V) /\ Len(s) \in Nat
      BY <3>2, SeqMonotonic, LenProperties
    <3>4. Index(t) \in Nat /\ t # Dash
      BY <3>1, NumeralIndex
    <3>. HIDE DEF V, s, i
    <3>5. Len(RemoveAt(s, i)) = Len(s) - 1
      BY <3>1, <3>3, RemoveAtElements
    <3>6. InsertAt(RemoveAt(s, i), i, y) = [s EXCEPT ![i] = y]
      BY <3>1, <3>2, <3>3, InsertRemoved
    <3>7. u = Array(RemoveAt(s, i))
      BY <3>1 DEF s, i
    <3>. HIDE DEF u
    <3>8. IsArray(u) /\ ~IsObject(u) /\ u.items = RemoveAt(s, i)
      BY <3>7, ArrayFields
    <3>9. Index(t) <= Len(u.items)
      BY <3>1, <3>3, <3>4, <3>5, <3>8 DEF i
    <3>10. PartAdded(u, t, y) = Array(InsertAt(u.items, i, y))
      BY <3>1, <3>4, <3>8, <3>9 DEF PartAdded, i
    <3>11. Put(v, t, y) = Array([s EXCEPT ![i] = y])
      BY <2>1 DEF Put, s, i
    <3>12. QED  BY <3>6, <3>8, <3>10, <3>11
  <2>2. CASE ~IsArray(v)
    <3>1. IsObject(v) /\ u = Without(v, t)
      BY <2>2, Resolved
    <3>. HIDE DEF u
    <3>2. IsObject(u) /\ With(u, t, y) = With(v, t, y)
      BY <3>1, MembersWith
    <3>3. PartAdded(u, t, y) = With(u, t, y) /\ Put(v, t, y) = With(v, t, y)
      BY <2>2, <3>2 DEF PartAdded, Put
    <3>4. QED  BY <3>2, <3>3
  <2>3. QED  BY <2>1, <2>2
<1>5. QED  BY <1>2, <1>3, <1>4

\* What a removal comes to: the container v, to which the path leads, is left
\* without its part.
LEMMA RemovalMade ==
    ASSUME NEW root, IsValue(root), NEW path \in Seq(STRING), path # <<>>, ~Failed(Get(root, path))
    PROVE  \E v, u :
               /\ IsValue(v) /\ Get(root, Front(path)) = Ok(v) /\ ResolveError(v, Last(path)) = "none"
               /\ IsValue(u) /\ \A y : IsValue(y) => PartAdded(u, Last(path), y) = Put(v, Last(path), y)
               /\ RemoveFrom(root, path) = Ok(Assigned(root, Front(path), u))
               /\ Removed(root, path) = Assigned(root, Front(path), u)
<1>. DEFINE front == Front(path)
            t == Last(path)
<1>1. PICK v : /\ IsValue(v) /\ Get(root, front) = Ok(v) /\ ValueAt(root, front) = v
               /\ ResolveError(v, t) = "none" /\ ValueAt(root, path) = Child(v, t)
  BY FrontGot
<1>. DEFINE u == IF IsObject(v) THEN Without(v, t) ELSE Array(RemoveAt(v.items, Index(t) + 1))
            none == Atom("")
<1>2. IsValue(none)
  BY AtomIsValue
<1>3. RemoveFrom(root, path) = Edit("remove", root, path, none)
  BY DEF RemoveFrom
<1>. HIDE DEF none
<1>4. EditHere("remove", v, t, none) = Ok(u) /\ IsValue(u)
  BY <1>1, <1>2, RemoveThere
<1>5. \A y : IsValue(y) => PartAdded(u, t, y) = Put(v, t, y)
  BY <1>1, <1>2, RemoveThere
<1>6. ValueAt(root, path) # NoValue
  BY <1>1, PartIsValue, NoValueIsNone
<1>7. Removed(root, path) = Assigned(root, front, u)
  BY <1>1, <1>6 DEF Removed
<1>. HIDE DEF u
<1>8. RemoveFrom(root, path) = Ok(Assigned(root, front, u))
  BY <1>1, <1>3, <1>4, EditAt
<1>. HIDE DEF front, t
<1>9. \E v_1, u_1 :
          /\ IsValue(v_1) /\ Get(root, front) = Ok(v_1) /\ ResolveError(v_1, t) = "none"
          /\ IsValue(u_1) /\ \A y : IsValue(y) => PartAdded(u_1, t, y) = Put(v_1, t, y)
          /\ RemoveFrom(root, path) = Ok(Assigned(root, front, u_1))
          /\ Removed(root, path) = Assigned(root, front, u_1)
  BY <1>1, <1>4, <1>5, <1>7, <1>8
<1>10. QED  BY <1>9 DEF front, t

LEMMA RootGot ==
    ASSUME NEW v
    PROVE  Get(v, <<>>) = Ok(v)
<1>1. Len(<<>>) = 0 /\ <<>> \in Seq(STRING)
  OBVIOUS
<1>2. QED  BY <1>1, AlongAt DEF Get

\* A removal fails exactly where there is nothing, and else removes what RFC 6902 says.
LEMMA RemoveConforms ==
    ASSUME NEW v, IsValue(v), NEW path \in Seq(STRING)
    PROVE  Removed(v, path) = IF Failed(Get(v, path)) \/ Failed(RemoveFrom(v, path)) THEN NoValue
                              ELSE RemoveFrom(v, path).root
<1>. DEFINE removed == RemoveFrom(v, path)
<1>1. CASE path = <<>>
  <2>1. Failed(removed)
    BY <1>1, Results DEF RemoveFrom, Edit
  <2>2. QED  BY <1>1, <2>1 DEF Removed
<1>2. CASE path # <<>> /\ Failed(Get(v, path))
  <2>1. ValueAt(v, path) = NoValue
    BY <1>2, ValueGot
  <2>2. QED  BY <1>2, <2>1 DEF Removed
<1>3. CASE path # <<>> /\ ~Failed(Get(v, path))
  <2>1. PICK w : removed = Ok(w) /\ Removed(v, path) = w
    BY <1>3, RemovalMade
  <2>. HIDE DEF removed
  <2>2. Removed(v, path) = IF Failed(Get(v, path)) \/ Failed(removed) THEN NoValue ELSE removed.root
    BY <1>3, <2>1, Results
  <2>3. QED  BY <2>2 DEF removed
<1>4. QED  BY <1>1, <1>2, <1>3

\* A replacement is what RFC 6902 says: a removal and an addition.
LEMMA ReplaceConforms ==
    ASSUME NEW v, IsValue(v), NEW path \in Seq(STRING), NEW x, IsValue(x)
    PROVE  Replaced(v, path, x) = IF Failed(Get(v, path)) \/ Failed(Replace(v, path, x)) THEN NoValue
                                  ELSE Replace(v, path, x).root
<1>. DEFINE replaced == Replace(v, path, x)
<1>1. CASE path = <<>>
  <2>1. replaced = Ok(x) /\ Replaced(v, path, x) = x
    BY <1>1 DEF Replace, Edit, Replaced
  <2>2. ~Failed(Get(v, path))
    BY <1>1, RootGot, Results
  <2>. HIDE DEF replaced
  <2>3. Replaced(v, path, x) = IF Failed(Get(v, path)) \/ Failed(replaced) THEN NoValue ELSE replaced.root
    BY <2>1, <2>2, Results
  <2>4. QED  BY <2>3 DEF replaced
<1>2. CASE path # <<>> /\ Failed(Get(v, path))
  <2>1. Removed(v, path) = NoValue
    BY <1>2, RemoveConforms
  <2>2. QED  BY <1>2, <2>1 DEF Replaced, AddedIf
<1>3. CASE path # <<>> /\ ~Failed(Get(v, path))
  <2>. DEFINE front == Front(path)
              t == Last(path)
  <2>1. PICK u, r : /\ IsValue(u) /\ Get(v, front) = Ok(u) /\ ResolveError(u, t) = "none"
                    /\ IsValue(r) /\ \A y : IsValue(y) => PartAdded(r, t, y) = Put(u, t, y)
                    /\ Removed(v, path) = Assigned(v, front, r)
    BY <1>3, RemovalMade
  <2>. DEFINE w == Assigned(v, front, r)
  <2>2. front \in Seq(STRING) /\ ~Failed(Get(v, front))
    BY <1>3, <2>1, FrontLast, Results
  <2>3. replaced = Edit("replace", v, path, x)
    BY DEF Replace
  <2>4. Added(w, path, x) = Having(w, front, PartAdded(ValueAt(w, front), t, x))
    BY <1>3 DEF Added
  <2>. HIDE DEF replaced
  <2>5. replaced = Ok(Assigned(v, front, Put(u, t, x))) /\ IsValue(Put(u, t, x))
    <3>1. EditHere("replace", u, t, x) = Ok(Put(u, t, x)) /\ IsValue(Put(u, t, x))
      BY <2>1, ReplaceThere, PutThere
    <3>2. QED  BY <1>3, <2>1, <2>3, <3>1, EditAt
  <2>. HIDE DEF front, t
  <2>6. /\ IsValue(w) /\ Get(w, front) = Ok(r)
        /\ \A y : Assigned(w, front, y) = Assigned(v, front, y)
    BY <2>1, <2>2, AssignedThere
  <2>. HIDE DEF w
  <2>7. ValueAt(w, front) = r
    BY <2>2, <2>6, ValueGot, Results
  <2>8. Having(w, front, Put(u, t, x)) = Assigned(v, front, Put(u, t, x))
    BY <2>5, <2>6, NoValueIsNone DEF Having
  <2>9. Added(w, path, x) = Assigned(v, front, Put(u, t, x))
    BY <2>1, <2>4, <2>7, <2>8
  <2>10. Replaced(v, path, x) = Added(w, path, x)
    <3>1. Removed(v, path) = w /\ w # NoValue /\ x # NoValue
      BY <2>1, <2>6, NoValueIsNone DEF w
    <3>2. QED  BY <1>3, <3>1 DEF Replaced, AddedIf
  <2>11. Replaced(v, path, x) = IF Failed(Get(v, path)) \/ Failed(replaced) THEN NoValue ELSE replaced.root
    BY <1>3, <2>5, <2>9, <2>10, Results
  <2>12. QED  BY <2>11 DEF replaced
<1>4. QED  BY <1>1, <1>2, <1>3

------------------------------------------------------------------------------
\* The undo stack

\* The inverses in s, executed from the last to the first, take w back to v.
Undoable(v, s, w) ==
    \E W, h : /\ s \in Seq(W)
              /\ h[0] = v /\ h[Len(s)] = w
              /\ \A i \in 0 .. Len(s) : IsValue(h[i])
              /\ \A i \in 1 .. Len(s) : Undoes(s[i], h[i], h[i - 1])

LEMMA UndoableNone ==
    ASSUME NEW v, NEW w
    PROVE  /\ IsValue(v) => Undoable(v, <<>>, v)
           /\ Undoable(v, <<>>, w) => v = w
<1>1. Len(<<>>) = 0 /\ <<>> \in Seq({})
  OBVIOUS
<1>2. ASSUME IsValue(v) PROVE Undoable(v, <<>>, v)
  <2>. DEFINE h == [i \in 0 .. 0 |-> v]
  <2>1. h[0] = v
    OBVIOUS
  <2>. HIDE DEF h
  <2>2. /\ h[Len(<<>>)] = v
        /\ \A i \in 0 .. Len(<<>>) : IsValue(h[i])
        /\ \A i \in 1 .. Len(<<>>) : Undoes(<<>>[i], h[i], h[i - 1])
    BY <1>1, <1>2, <2>1
  <2>3. QED  BY <1>1, <2>1, <2>2 DEF Undoable
<1>3. ASSUME Undoable(v, <<>>, w) PROVE v = w
  BY <1>1, <1>3 DEF Undoable
<1>4. QED  BY <1>2, <1>3

LEMMA UndoableMore ==
    ASSUME NEW v, NEW s, NEW w, Undoable(v, s, w), NEW e, NEW x, IsValue(x), Undoes(e, x, w)
    PROVE  Undoable(v, s \o <<e>>, x)
<1>1. PICK W, h : /\ s \in Seq(W)
                  /\ h[0] = v /\ h[Len(s)] = w
                  /\ \A i \in 0 .. Len(s) : IsValue(h[i])
                  /\ \A i \in 1 .. Len(s) : Undoes(s[i], h[i], h[i - 1])
  BY DEF Undoable
<1>. DEFINE l == Len(s)
            T == W \cup {e}
            r == s \o <<e>>
            g == [i \in 0 .. l + 1 |-> IF i = l + 1 THEN x ELSE h[i]]
<1>2. l \in Nat /\ s \in Seq(T) /\ <<e>> \in Seq(T) /\ Len(<<e>>) = 1 /\ <<e>>[1] = e
  <2>1. W \subseteq T /\ e \in T
    OBVIOUS
  <2>2. QED  BY <1>1, <2>1, SeqMonotonic, LenProperties
<1>. HIDE DEF T
<1>3. r \in Seq(T) /\ Len(r) = l + 1 /\ (\A i \in 1 .. l : r[i] = s[i]) /\ r[l + 1] = e
  <2>1. r \in Seq(T) /\ Len(r) = l + 1
    BY <1>2, ConcatProperties
  <2>2. \A i \in 1 .. Len(s) + Len(<<e>>) : r[i] = IF i <= Len(s) THEN s[i] ELSE <<e>>[i - Len(s)]
    BY <1>2, ConcatProperties
  <2>. HIDE DEF r
  <2>3. \A i \in 1 .. l : r[i] = s[i]
    BY <1>2, <2>2
  <2>4. r[l + 1] = e
    <3>1. l + 1 \in 1 .. Len(s) + Len(<<e>>) /\ ~(l + 1 <= Len(s)) /\ l + 1 - Len(s) = 1
      BY <1>2
    <3>2. QED  BY <1>2, <2>2, <3>1
  <2>5. QED  BY <2>1, <2>3, <2>4
<1>4. /\ \A i \in 0 .. l : g[i] = h[i]
      /\ g[l + 1] = x
  BY <1>2
<1>. HIDE DEF r, g
<1>5. g[0] = v /\ g[Len(r)] = x
  BY <1>1, <1>2, <1>3, <1>4
<1>6. ASSUME NEW i \in 0 .. Len(r) PROVE IsValue(g[i])
  BY <1>1, <1>2, <1>3, <1>4
<1>7. ASSUME NEW i \in 1 .. Len(r) PROVE Undoes(r[i], g[i], g[i - 1])
  <2>1. CASE i <= l
    <3>1. i \in 1 .. l /\ i \in 0 .. l /\ i - 1 \in 0 .. l
      BY <1>2, <1>3, <2>1
    <3>2. QED  BY <1>1, <1>3, <1>4, <3>1
  <2>2. CASE i > l
    <3>1. i = l + 1 /\ i - 1 = l /\ l \in 0 .. l
      BY <1>2, <1>3, <2>2
    <3>2. QED  BY <1>1, <1>3, <1>4, <3>1
  <2>3. QED  BY <1>2, <2>1, <2>2
<1>8. Undoable(v, r, x)
  BY <1>3, <1>5, <1>6, <1>7 DEF Undoable
<1>9. QED  BY <1>8 DEF r

LEMMA UndoableLess ==
    ASSUME NEW v, NEW s, NEW w, Undoable(v, s, w), s # <<>>
    PROVE  \E x : /\ IsValue(x) /\ Undoes(s[Len(s)], w, x)
                  /\ Undoable(v, RemoveAt(s, Len(s)), x)
<1>1. PICK W, h : /\ s \in Seq(W)
                  /\ h[0] = v /\ h[Len(s)] = w
                  /\ \A i \in 0 .. Len(s) : IsValue(h[i])
                  /\ \A i \in 1 .. Len(s) : Undoes(s[i], h[i], h[i - 1])
  BY DEF Undoable
<1>. DEFINE l == Len(s)
            r == RemoveAt(s, l)
<1>2. l \in Nat \ {0}
  BY <1>1, EmptySeq, LenProperties
<1>3. r \in Seq(W) /\ Len(r) = l - 1 /\ \A i \in 1 .. l - 1 : r[i] = s[i]
  <2>1. l \in 1 .. Len(s)
    BY <1>2
  <2>2. /\ r \in Seq(W) /\ Len(r) = Len(s) - 1
        /\ \A j \in 1 .. Len(s) - 1 : r[j] = IF j < l THEN s[j] ELSE s[j + 1]
    BY <1>1, <2>1, RemoveAtElements
  <2>. HIDE DEF r
  <2>3. QED  BY <1>2, <2>2
<1>. HIDE DEF r
<1>4. /\ l \in 1 .. Len(s) /\ l - 1 \in 0 .. Len(s)
      /\ 1 .. l - 1 \subseteq 1 .. Len(s) /\ 0 .. l - 1 \subseteq 0 .. Len(s)
  BY <1>2
<1>5. IsValue(h[l - 1]) /\ Undoes(s[l], w, h[l - 1])
  BY <1>1, <1>4
<1>6. Undoable(v, r, h[l - 1])
  <2>1. /\ h[Len(r)] = h[l - 1]
        /\ \A i \in 0 .. Len(r) : IsValue(h[i])
        /\ \A i \in 1 .. Len(r) : Undoes(r[i], h[i], h[i - 1])
    BY <1>1, <1>3, <1>4
  <2>2. QED  BY <1>1, <1>3, <2>1 DEF Undoable
<1>7. QED  BY <1>5, <1>6 DEF r

LEMMA Pushed ==
    ASSUME NEW W, NEW s \in Seq(W), NEW r \in Seq(W), NEW e
    PROVE  s \o (r \o <<e>>) = (s \o r) \o <<e>>
<1>. DEFINE T == W \cup {e}
<1>1. W \subseteq T /\ e \in T
  OBVIOUS
<1>. HIDE DEF T
<1>2. s \in Seq(T) /\ r \in Seq(T) /\ <<e>> \in Seq(T)
  BY <1>1, SeqMonotonic
<1>3. QED  BY <1>2, ConcatAssociative

------------------------------------------------------------------------------
\* The operations

LEMMA AddedIsValue ==
    ASSUME NEW root, IsValue(root), NEW path \in Seq(STRING), NEW x, IsValue(x)
    PROVE  LET npath == DefinitePath(root, path)
               inserted == AddIfAbsent(root, npath, x)
               replaced == Replace(root, npath, x)
           IN  /\ npath \in Seq(STRING)
               /\ ~Failed(inserted) => IsValue(inserted.root)
               /\ ~Failed(Get(root, npath)) /\ ~Failed(replaced) => IsValue(replaced.root)
<1>. DEFINE npath == DefinitePath(root, path)
            inserted == AddIfAbsent(root, npath, x)
            replaced == Replace(root, npath, x)
<1>1. npath \in Seq(STRING)
  <2>1. CASE path = <<>>
    BY <2>1, Definite
  <2>2. CASE path # <<>>
    BY <2>2, Definite
  <2>3. QED  BY <2>1, <2>2
<1>2. ASSUME ~Failed(inserted) PROVE IsValue(inserted.root)
  <2>1. CASE path = <<>>
    <3>1. inserted = Ok(x)
      BY <2>1, Definite DEF AddIfAbsent, Edit
    <3>2. QED  BY <3>1, Results
  <2>2. CASE path # <<>>
    BY <1>2, <2>2, AddIfAbsentUndone
  <2>3. QED  BY <2>1, <2>2
<1>3. ASSUME ~Failed(Get(root, npath)), ~Failed(replaced) PROVE IsValue(replaced.root)
  <2>. HIDE DEF npath
  <2>1. QED  BY <1>1, <1>3, ReplaceUndone
<1>4. QED  BY <1>1, <1>2, <1>3

LEMMA AddToConforms ==
    ASSUME NEW root, IsValue(root), NEW path \in Seq(STRING), NEW x, IsValue(x), NEW entries, NEW e,
           AddTo(root, path, x, entries, e)
    PROVE  \/ ec' = ec /\ phase' = phase /\ target' = Added(root, path, x) /\ IsValue(target')
           \/ ec' = e /\ phase' = "unwind" /\ IsValue(target') /\ Added(root, path, x) = NoValue
<1>. DEFINE npath == DefinitePath(root, path)
            inserted == AddIfAbsent(root, npath, x)
            replaced == Replace(root, npath, x)
            got == Get(root, npath)
<1>1. Added(root, path, x) = IF ~Failed(inserted) THEN inserted.root
                             ELSE IF ~Failed(got) /\ ~Failed(replaced) THEN replaced.root
                             ELSE NoValue
  BY AddConforms
<1>2. /\ ~Failed(inserted) => IsValue(inserted.root)
      /\ ~Failed(got) /\ ~Failed(replaced) => IsValue(replaced.root)
  BY AddedIsValue
<1>3. /\ ~Failed(inserted) => ec' = ec /\ phase' = phase /\ target' = inserted.root
      /\ Failed(inserted) /\ ~Failed(got) /\ ~Failed(replaced) =>
             ec' = ec /\ phase' = phase /\ target' = replaced.root
      /\ Failed(inserted) /\ ~(~Failed(got) /\ ~Failed(replaced)) =>
             ec' = e /\ phase' = "unwind" /\ target' = root
  BY DEF AddTo, Succeed, Undoing
<1>. HIDE DEF inserted, replaced, got
<1>4. CASE ~Failed(inserted)
  BY <1>1, <1>2, <1>3, <1>4
<1>5. CASE Failed(inserted) /\ ~Failed(got) /\ ~Failed(replaced)
  BY <1>1, <1>2, <1>3, <1>5
<1>6. CASE Failed(inserted) /\ ~(~Failed(got) /\ ~Failed(replaced))
  BY <1>1, <1>3, <1>6
<1>7. QED  BY <1>4, <1>5, <1>6

LEMMA AddToUndoable ==
    ASSUME NEW root, IsValue(root), NEW path \in Seq(STRING), path # <<>>, NEW x, IsValue(x), NEW e,
           NEW W, stack \in Seq(W), NEW entries \in Seq(W),
           NEW v, Undoable(v, stack \o entries, root),
           AddTo(root, path, x, entries, e)
    PROVE  Undoable(v, stack', target')
<1>. DEFINE npath == DefinitePath(root, path)
            inserted == AddIfAbsent(root, npath, x)
            replaced == Replace(root, npath, x)
            got == Get(root, npath)
            removal == Entry("remove", npath, Atom("null"))
            replacement == Entry("replace", npath, got.root)
<1>1. /\ ~Failed(inserted) => target' = inserted.root /\ stack' = stack \o (entries \o <<removal>>)
      /\ Failed(inserted) /\ ~Failed(got) /\ ~Failed(replaced) =>
             target' = replaced.root /\ stack' = stack \o (entries \o <<replacement>>)
      /\ Failed(inserted) /\ ~(~Failed(got) /\ ~Failed(replaced)) =>
             target' = root /\ stack' = stack \o entries
  BY DEF AddTo, Succeed, Undoing
<1>2. npath \in Seq(STRING)
  BY AddedIsValue
<1>3. ~Failed(inserted) => IsValue(inserted.root) /\ Undoes(removal, inserted.root, root)
  BY AddIfAbsentUndone
<1>4. ~Failed(got) /\ ~Failed(replaced) => IsValue(replaced.root) /\ Undoes(replacement, replaced.root, root)
  <2>. HIDE DEF npath
  <2>1. QED  BY <1>2, ReplaceUndone
<1>5. \A entry : stack \o (entries \o <<entry>>) = (stack \o entries) \o <<entry>>
  BY Pushed
<1>. HIDE DEF inserted, replaced, got, removal, replacement
<1>6. CASE ~Failed(inserted)
  <2>1. Undoable(v, (stack \o entries) \o <<removal>>, inserted.root)
    BY <1>3, <1>6, UndoableMore
  <2>2. QED  BY <1>1, <1>5, <1>6, <2>1
<1>7. CASE Failed(inserted) /\ ~Failed(got) /\ ~Failed(replaced)
  <2>1. Undoable(v, (stack \o entries) \o <<replacement>>, replaced.root)
    BY <1>4, <1>7, UndoableMore
  <2>2. QED  BY <1>1, <1>5, <1>7, <2>1
<1>8. CASE Failed(inserted) /\ ~(~Failed(got) /\ ~Failed(replaced))
  BY <1>1, <1>8
<1>9. QED  BY <1>6, <1>7, <1>8

\* o is an operation that the program may be given.
IsOperation(o) ==
    /\ o.path \in Seq(STRING) /\ o.from \in Seq(STRING)
    /\ UsesValue(o) => IsValue(o.value)

\* The operation is performed as RFC 6902 says, or fails where it cannot be.
Conforms(o) ==
    \/ ec' = ec /\ phase' = phase /\ target' = Performed(target, o) /\ IsValue(target')
    \/ ec' # "none" /\ phase' = "unwind" /\ IsValue(target') /\ Performed(target, o) = NoValue

LEMMA PerformedCases ==
    ASSUME NEW v, NEW o
    PROVE  /\ Lacks(o, "op") \/ Lacks(o, "path") \/ Malformed(o, "path") => Performed(v, o) = NoValue
           /\ Is(o, "test") =>
                  Performed(v, o) = IF ~Lacks(o, "value") /\ ValueAt(v, o.path) = o.value THEN v ELSE NoValue
           /\ Is(o, "add") => Performed(v, o) = AddedIf(~Lacks(o, "value"), v, o.path, o.value)
           /\ Is(o, "remove") => Performed(v, o) = Removed(v, o.path)
           /\ Is(o, "replace") =>
                  Performed(v, o) = IF Lacks(o, "value") THEN NoValue ELSE Replaced(v, o.path, o.value)
           /\ Is(o, "move") =>
                  Performed(v, o) = IF Lacks(o, "from") \/ Malformed(o, "from") THEN NoValue
                                  ELSE AddedIf(TRUE, Removed(v, o.from), o.path, ValueAt(v, o.from))
           /\ Is(o, "copy") =>
                  Performed(v, o) = IF Lacks(o, "from") \/ Malformed(o, "from") THEN NoValue
                                  ELSE AddedIf(TRUE, v, o.path, ValueAt(v, o.from))
           /\ /\ Is(o, o.op)
              /\ \A op \in {"test", "add", "remove", "replace", "move", "copy"} : ~Is(o, op)
              => Performed(v, o) = v
<1>1. Lacks(o, "op") \/ Lacks(o, "path") <=> o.lacks \cap {"op", "path"} # {}
  BY DEF Lacks
<1>2. ASSUME NEW op, Is(o, op)
      PROVE  o.op = op /\ ~(o.lacks \cap {"op", "path"} # {} \/ Malformed(o, "path"))
  BY <1>1, <1>2 DEF Is
<1>3. Lacks(o, "op") \/ Lacks(o, "path") \/ Malformed(o, "path") => Performed(v, o) = NoValue
  BY <1>1 DEF Performed
<1>4. Is(o, "test") =>
          Performed(v, o) = IF ~Lacks(o, "value") /\ ValueAt(v, o.path) = o.value THEN v ELSE NoValue
  <2>. SUFFICES ASSUME Is(o, "test")
       PROVE  Performed(v, o) = IF ~Lacks(o, "value") /\ ValueAt(v, o.path) = o.value
                              THEN v ELSE NoValue
    OBVIOUS
  <2>1. o.op = "test" /\ ~(o.lacks \cap {"op", "path"} # {} \/ Malformed(o, "path"))
    BY <1>2
  <2>2. QED  BY <2>1 DEF Performed
<1>5. Is(o, "add") => Performed(v, o) = AddedIf(~Lacks(o, "value"), v, o.path, o.value)
  <2>. SUFFICES ASSUME Is(o, "add") PROVE Performed(v, o) = AddedIf(~Lacks(o, "value"), v, o.path, o.value)
    OBVIOUS
  <2>1. o.op = "add" /\ ~(o.lacks \cap {"op", "path"} # {} \/ Malformed(o, "path"))
    BY <1>2
  <2>2. QED  BY <2>1 DEF Performed
<1>6. Is(o, "remove") => Performed(v, o) = Removed(v, o.path)
  <2>. SUFFICES ASSUME Is(o, "remove") PROVE Performed(v, o) = Removed(v, o.path)
    OBVIOUS
  <2>1. o.op = "remove" /\ ~(o.lacks \cap {"op", "path"} # {} \/ Malformed(o, "path"))
    BY <1>2
  <2>2. QED  BY <2>1 DEF Performed
<1>7. Is(o, "replace") =>
          Performed(v, o) = IF Lacks(o, "value") THEN NoValue ELSE Replaced(v, o.path, o.value)
  <2>. SUFFICES ASSUME Is(o, "replace")
       PROVE  Performed(v, o) = IF Lacks(o, "value") THEN NoValue ELSE Replaced(v, o.path, o.value)
    OBVIOUS
  <2>1. o.op = "replace" /\ ~(o.lacks \cap {"op", "path"} # {} \/ Malformed(o, "path"))
    BY <1>2
  <2>2. QED  BY <2>1 DEF Performed
<1>8. Is(o, "move") =>
          Performed(v, o) = IF Lacks(o, "from") \/ Malformed(o, "from") THEN NoValue
                          ELSE AddedIf(TRUE, Removed(v, o.from), o.path, ValueAt(v, o.from))
  <2>. SUFFICES ASSUME Is(o, "move")
       PROVE  Performed(v, o) = IF Lacks(o, "from") \/ Malformed(o, "from") THEN NoValue
                              ELSE AddedIf(TRUE, Removed(v, o.from), o.path, ValueAt(v, o.from))
    OBVIOUS
  <2>1. o.op = "move" /\ ~(o.lacks \cap {"op", "path"} # {} \/ Malformed(o, "path"))
    BY <1>2
  <2>2. QED  BY <2>1 DEF Performed
<1>9. Is(o, "copy") =>
          Performed(v, o) = IF Lacks(o, "from") \/ Malformed(o, "from") THEN NoValue
                          ELSE AddedIf(TRUE, v, o.path, ValueAt(v, o.from))
  <2>. SUFFICES ASSUME Is(o, "copy")
       PROVE  Performed(v, o) = IF Lacks(o, "from") \/ Malformed(o, "from") THEN NoValue
                              ELSE AddedIf(TRUE, v, o.path, ValueAt(v, o.from))
    OBVIOUS
  <2>1. o.op = "copy" /\ ~(o.lacks \cap {"op", "path"} # {} \/ Malformed(o, "path"))
    BY <1>2
  <2>2. QED  BY <2>1 DEF Performed
<1>10. ASSUME Is(o, o.op), \A op \in {"test", "add", "remove", "replace", "move", "copy"} : ~Is(o, op)
       PROVE  Performed(v, o) = v
  <2>1. o.op \notin {"test", "add", "remove", "replace", "move", "copy"}
    BY <1>10
  <2>2. QED  BY <1>2, <1>10, <2>1 DEF Performed
<1>11. QED  BY <1>3, <1>4, <1>5, <1>6, <1>7, <1>8, <1>9, <1>10

LEMMA TestConforms ==
    ASSUME IsValue(target), NEW o, IsOperation(o), Test(o)
    PROVE  Conforms(o) /\ UNCHANGED <<target, stack>>
<1>. DEFINE found == Get(target, o.path)
<1>1. Performed(target, o) = IF ~Lacks(o, "value") /\ ValueAt(target, o.path) = o.value THEN target ELSE NoValue
  BY PerformedCases DEF Test
<1>2. ValueAt(target, o.path) = IF Failed(found) THEN NoValue ELSE found.root
  BY ValueGot DEF IsOperation
<1>3. ~Lacks(o, "value") => o.value # NoValue
  BY NoValueIsNone DEF Test, Is, IsOperation, UsesValue
<1>4. CASE Failed(found)
  BY <1>1, <1>2, <1>3, <1>4 DEF Test, Conforms, Abort
<1>5. CASE ~Failed(found) /\ Lacks(o, "value")
  BY <1>1, <1>5 DEF Test, Conforms, Abort
<1>6. CASE ~Failed(found) /\ ~Lacks(o, "value")
  BY <1>1, <1>2, <1>6 DEF Test, Conforms, Abort
<1>7. QED  BY <1>4, <1>5, <1>6

LEMMA AddConformsTo ==
    ASSUME IsValue(target), NEW o, IsOperation(o), Add(o)
    PROVE  Conforms(o)
<1>1. Performed(target, o) = AddedIf(~Lacks(o, "value"), target, o.path, o.value)
  BY PerformedCases DEF Add
<1>2. CASE Lacks(o, "value")
  BY <1>1, <1>2 DEF Add, Abort, AddedIf, Conforms
<1>3. CASE ~Lacks(o, "value")
  <2>1. IsValue(o.value) /\ o.path \in Seq(STRING)
    BY <1>3 DEF Add, Is, IsOperation, UsesValue
  <2>2. Performed(target, o) = Added(target, o.path, o.value)
    BY <1>1, <1>3, <2>1, NoValueIsNone DEF AddedIf
  <2>3. AddTo(target, o.path, o.value, <<>>, "add_failed")
    BY <1>3 DEF Add
  <2>4. QED  BY <2>1, <2>2, <2>3, AddToConforms DEF Conforms
<1>4. QED  BY <1>2, <1>3

LEMMA RemoveConformsTo ==
    ASSUME IsValue(target), NEW o, IsOperation(o), RemoveOp(o)
    PROVE  Conforms(o)
<1>. DEFINE found == Get(target, o.path)
            removed == RemoveFrom(target, o.path)
<1>0. o.path \in Seq(STRING)
  BY DEF IsOperation
<1>1. Performed(target, o) = IF Failed(found) \/ Failed(removed) THEN NoValue ELSE removed.root
  <2>1. Is(o, "remove")
    BY DEF RemoveOp
  <2>2. Performed(target, o) = Removed(target, o.path)
    BY <2>1, PerformedCases
  <2>3. Removed(target, o.path) = IF Failed(found) \/ Failed(removed) THEN NoValue ELSE removed.root
    BY <1>0, RemoveConforms
  <2>4. QED  BY <2>2, <2>3
<1>2. CASE Failed(found) \/ Failed(removed)
  BY <1>1, <1>2 DEF RemoveOp, Abort, Conforms
<1>3. CASE ~Failed(found) /\ ~Failed(removed)
  <2>1. IsValue(removed.root)
    BY <1>0, <1>3, RemoveUndone
  <2>2. QED  BY <1>1, <1>3, <2>1 DEF RemoveOp, Succeed, Undoing, Conforms
<1>4. QED  BY <1>2, <1>3

LEMMA ReplaceConformsTo ==
    ASSUME IsValue(target), NEW o, IsOperation(o), ReplaceOp(o)
    PROVE  Conforms(o)
<1>. DEFINE found == Get(target, o.path)
            replaced == Replace(target, o.path, o.value)
<1>0. o.path \in Seq(STRING)
  BY DEF IsOperation
<1>1. Performed(target, o) = IF Lacks(o, "value") THEN NoValue ELSE Replaced(target, o.path, o.value)
  BY PerformedCases DEF ReplaceOp
<1>2. CASE Lacks(o, "value")
  BY <1>1, <1>2 DEF ReplaceOp, Abort, Conforms
<1>3. CASE ~Lacks(o, "value")
  <2>1. IsValue(o.value)
    BY <1>3 DEF ReplaceOp, Is, IsOperation, UsesValue
  <2>2. Performed(target, o) = IF Failed(found) \/ Failed(replaced) THEN NoValue ELSE replaced.root
    BY <1>0, <1>1, <1>3, <2>1, ReplaceConforms
  <2>3. CASE Failed(found) \/ Failed(replaced)
    BY <1>3, <2>2, <2>3 DEF ReplaceOp, Abort, Conforms
  <2>4. CASE ~Failed(found) /\ ~Failed(replaced)
    <3>1. IsValue(replaced.root)
      BY <1>0, <2>1, <2>4, ReplaceUndone
    <3>2. QED  BY <1>3, <2>2, <2>4, <3>1 DEF ReplaceOp, Succeed, Undoing, Conforms
  <2>5. QED  BY <2>3, <2>4
<1>4. QED  BY <1>2, <1>3

LEMMA MoveConforms ==
    ASSUME IsValue(target), NEW o, IsOperation(o), Move(o)
    PROVE  Conforms(o)
<1>. DEFINE found == Get(target, o.from)
            removed == RemoveFrom(target, o.from)
<1>0. o.path \in Seq(STRING) /\ o.from \in Seq(STRING)
  BY DEF IsOperation
<1>1. Performed(target, o) = IF Lacks(o, "from") \/ Malformed(o, "from") THEN NoValue
                           ELSE AddedIf(TRUE, Removed(target, o.from), o.path, ValueAt(target, o.from))
  BY PerformedCases DEF Move
<1>2. Removed(target, o.from) = IF Failed(found) \/ Failed(removed) THEN NoValue ELSE removed.root
  BY <1>0, RemoveConforms
<1>3. CASE Lacks(o, "from") \/ Malformed(o, "from")
  BY <1>1, <1>3 DEF Move, Abort, Conforms
<1>4. CASE ~Lacks(o, "from") /\ ~Malformed(o, "from") /\ (Failed(found) \/ Failed(removed))
  BY <1>1, <1>2, <1>4 DEF Move, Abort, Conforms, AddedIf
<1>5. CASE ~Lacks(o, "from") /\ ~Malformed(o, "from") /\ ~Failed(found) /\ ~Failed(removed)
  <2>1. IsValue(removed.root) /\ IsValue(found.root)
    BY <1>0, <1>5, RemoveUndone, GotIsValue
  <2>2. ValueAt(target, o.from) = found.root /\ Removed(target, o.from) = removed.root
    BY <1>0, <1>2, <1>5, ValueGot
  <2>3. Performed(target, o) = Added(removed.root, o.path, found.root)
    BY <1>1, <1>5, <2>1, <2>2, NoValueIsNone DEF AddedIf
  <2>4. AddTo(removed.root, o.path, found.root, <<Entry("add", o.from, found.root)>>, "copy_failed")
    BY <1>5 DEF Move
  <2>. HIDE DEF removed, found
  <2>5. QED  BY <1>0, <2>1, <2>3, <2>4, AddToConforms DEF Conforms
<1>6. QED  BY <1>3, <1>4, <1>5

LEMMA CopyConforms ==
    ASSUME IsValue(target), NEW o, IsOperation(o), Copy(o)
    PROVE  Conforms(o)
<1>. DEFINE found == Get(target, o.from)
<1>0. o.path \in Seq(STRING) /\ o.from \in Seq(STRING)
  BY DEF IsOperation
<1>1. Performed(target, o) = IF Lacks(o, "from") \/ Malformed(o, "from") THEN NoValue
                           ELSE AddedIf(TRUE, target, o.path, ValueAt(target, o.from))
  BY PerformedCases DEF Copy
<1>2. ValueAt(target, o.from) = IF Failed(found) THEN NoValue ELSE found.root
  BY <1>0, ValueGot
<1>3. CASE Lacks(o, "from") \/ Malformed(o, "from")
  BY <1>1, <1>3 DEF Copy, Abort, Conforms
<1>4. CASE ~Lacks(o, "from") /\ ~Malformed(o, "from") /\ Failed(found)
  BY <1>1, <1>2, <1>4 DEF Copy, Abort, Conforms, AddedIf
<1>5. CASE ~Lacks(o, "from") /\ ~Malformed(o, "from") /\ ~Failed(found)
  <2>1. IsValue(found.root)
    BY <1>0, <1>5, GotIsValue
  <2>2. Performed(target, o) = Added(target, o.path, found.root)
    BY <1>1, <1>2, <1>5, <2>1, NoValueIsNone DEF AddedIf
  <2>3. AddTo(target, o.path, found.root, <<>>, "copy_failed")
    BY <1>5 DEF Copy
  <2>. HIDE DEF found
  <2>4. QED  BY <1>0, <2>1, <2>2, <2>3, AddToConforms DEF Conforms
<1>6. QED  BY <1>3, <1>4, <1>5

LEMMA OperationConforms ==
    ASSUME IsValue(target), NEW o, IsOperation(o), Operation(o)
    PROVE  Conforms(o)
<1>1. CASE Illformed(o)
  BY <1>1, PerformedCases DEF Illformed, Abort, Conforms
<1>2. CASE Ignore(o)
  <2>1. Performed(target, o) = target
    BY <1>2, PerformedCases DEF Ignore, OpNames
  <2>2. QED  BY <1>2, <2>1 DEF Ignore, Conforms
<1>3. QED  BY <1>1, <1>2, TestConforms, AddConformsTo, RemoveConformsTo, ReplaceConformsTo,
              MoveConforms, CopyConforms DEF Operation

\* An operation that puts its value in the place of the whole target leaves no
\* inverse that could be executed.
AddsToRoot(o) == o.op \in {"add", "move", "copy"} /\ o.path = <<>>

LEMMA StackIsSequence ==
    ASSUME NEW v, NEW s, NEW w, Undoable(v, s, w)
    PROVE  \E W : s \in Seq(W) /\ s \o <<>> = s
<1>1. PICK W : s \in Seq(W)
  BY DEF Undoable
<1>2. s \o <<>> = s
  BY <1>1, ConcatEmptySeq
<1>3. QED  BY <1>1, <1>2

LEMMA AddUndoable ==
    ASSUME IsValue(target), NEW o, IsOperation(o), ~AddsToRoot(o), NEW v, Undoable(v, stack, target), Add(o)
    PROVE  Undoable(v, stack', target')
<1>1. CASE Lacks(o, "value")
  BY <1>1 DEF Add, Abort
<1>2. CASE ~Lacks(o, "value")
  <2>1. IsValue(o.value) /\ o.path \in Seq(STRING) /\ o.path # <<>>
    BY <1>2 DEF Add, Is, IsOperation, UsesValue, AddsToRoot
  <2>2. PICK W : stack \in Seq(W) /\ stack \o <<>> = stack
    BY StackIsSequence
  <2>3. AddTo(target, o.path, o.value, <<>>, "add_failed") /\ <<>> \in Seq(W)
    BY <1>2 DEF Add
  <2>4. QED  BY <2>1, <2>2, <2>3, AddToUndoable
<1>3. QED  BY <1>1, <1>2

LEMMA RemoveOpUndoable ==
    ASSUME IsValue(target), NEW o, IsOperation(o), NEW v, Undoable(v, stack, target), RemoveOp(o)
    PROVE  Undoable(v, stack', target')
<1>. DEFINE found == Get(target, o.path)
            removed == RemoveFrom(target, o.path)
            addition == Entry("add", o.path, found.root)
<1>0. o.path \in Seq(STRING)
  BY DEF IsOperation
<1>1. CASE Failed(found) \/ Failed(removed)
  BY <1>1 DEF RemoveOp, Abort
<1>2. CASE ~Failed(found) /\ ~Failed(removed)
  <2>1. IsValue(removed.root) /\ Undoes(addition, removed.root, target)
    BY <1>0, <1>2, RemoveUndone
  <2>2. target' = removed.root /\ stack' = stack \o <<addition>>
    BY <1>2 DEF RemoveOp, Succeed, Undoing
  <2>. HIDE DEF removed, addition
  <2>3. QED  BY <2>1, <2>2, UndoableMore
<1>3. QED  BY <1>1, <1>2

LEMMA ReplaceOpUndoable ==
    ASSUME IsValue(target), NEW o, IsOperation(o), NEW v, Undoable(v, stack, target), ReplaceOp(o)
    PROVE  Undoable(v, stack', target')
<1>. DEFINE found == Get(target, o.path)
            replaced == Replace(target, o.path, o.value)
            replacement == Entry("replace", o.path, found.root)
<1>0. o.path \in Seq(STRING)
  BY DEF IsOperation
<1>1. CASE Failed(found) \/ Lacks(o, "value") \/ Failed(replaced)
  BY <1>1 DEF ReplaceOp, Abort
<1>2. CASE ~Failed(found) /\ ~Lacks(o, "value") /\ ~Failed(replaced)
  <2>1. IsValue(o.value)
    BY <1>2 DEF ReplaceOp, Is, IsOperation, UsesValue
  <2>2. IsValue(replaced.root) /\ Undoes(replacement, replaced.root, target)
    BY <1>0, <1>2, <2>1, ReplaceUndone
  <2>3. target' = replaced.root /\ stack' = stack \o <<replacement>>
    BY <1>2 DEF ReplaceOp, Succeed, Undoing
  <2>. HIDE DEF replaced, replacement
  <2>4. QED  BY <2>2, <2>3, UndoableMore
<1>3. QED  BY <1>1, <1>2

LEMMA MoveUndoable ==
    ASSUME IsValue(target), NEW o, IsOperation(o), ~AddsToRoot(o), NEW v, Undoable(v, stack, target), Move(o)
    PROVE  Undoable(v, stack', target')
<1>. DEFINE found == Get(target, o.from)
            removed == RemoveFrom(target, o.from)
            addition == Entry("add", o.from, found.root)
<1>0. o.path \in Seq(STRING) /\ o.from \in Seq(STRING) /\ o.path # <<>>
  BY DEF IsOperation, Move, Is, AddsToRoot
<1>1. CASE Lacks(o, "from") \/ Malformed(o, "from") \/ Failed(found) \/ Failed(removed)
  BY <1>1 DEF Move, Abort
<1>2. CASE ~Lacks(o, "from") /\ ~Malformed(o, "from") /\ ~Failed(found) /\ ~Failed(removed)
  <2>1. IsValue(removed.root) /\ Undoes(addition, removed.root, target) /\ IsValue(found.root)
    BY <1>0, <1>2, RemoveUndone, GotIsValue
  <2>2. AddTo(removed.root, o.path, found.root, <<addition>>, "copy_failed")
    BY <1>2 DEF Move
  <2>. HIDE DEF removed, found, addition
  <2>3. Undoable(v, stack \o <<addition>>, removed.root)
    BY <2>1, UndoableMore
  <2>4. PICK W : stack \in Seq(W)
    BY StackIsSequence
  <2>5. stack \in Seq(W \cup {addition}) /\ <<addition>> \in Seq(W \cup {addition})
    <3>1. W \subseteq W \cup {addition}
      OBVIOUS
    <3>2. QED  BY <2>4, <3>1, SeqMonotonic
  <2>6. QED  BY <1>0, <2>1, <2>2, <2>3, <2>5, AddToUndoable
<1>3. QED  BY <1>1, <1>2

LEMMA CopyUndoable ==
    ASSUME IsValue(target), NEW o, IsOperation(o), ~AddsToRoot(o), NEW v, Undoable(v, stack, target), Copy(o)
    PROVE  Undoable(v, stack', target')
<1>. DEFINE found == Get(target, o.from)
<1>0. o.path \in Seq(STRING) /\ o.from \in Seq(STRING) /\ o.path # <<>>
  BY DEF IsOperation, Copy, Is, AddsToRoot
<1>1. CASE Lacks(o, "from") \/ Malformed(o, "from") \/ Failed(found)
  BY <1>1 DEF Copy, Abort
<1>2. CASE ~Lacks(o, "from") /\ ~Malformed(o, "from") /\ ~Failed(found)
  <2>1. IsValue(found.root)
    BY <1>0, <1>2, GotIsValue
  <2>2. PICK W : stack \in Seq(W) /\ stack \o <<>> = stack
    BY StackIsSequence
  <2>3. AddTo(target, o.path, found.root, <<>>, "copy_failed") /\ <<>> \in Seq(W)
    BY <1>2 DEF Copy
  <2>. HIDE DEF found
  <2>4. QED  BY <1>0, <2>1, <2>2, <2>3, AddToUndoable
<1>3. QED  BY <1>1, <1>2

LEMMA OperationUndoable ==
    ASSUME IsValue(target), NEW o, IsOperation(o), ~AddsToRoot(o), NEW v, Undoable(v, stack, target),
           Operation(o)
    PROVE  Undoable(v, stack', target')
<1>1. CASE Illformed(o) \/ Ignore(o)
  BY <1>1 DEF Illformed, Ignore, Abort
<1>2. CASE Test(o)
  BY <1>2, TestConforms
<1>3. QED  BY <1>1, <1>2, AddUndoable, RemoveOpUndoable, ReplaceOpUndoable, MoveUndoable, CopyUndoable
           DEF Operation

------------------------------------------------------------------------------
\* from_diff

LEMMA FlattenDef ==
    ASSUME NEW W, NEW c \in Seq(W)
    PROVE  /\ c = <<>> => FlattenSeq(c) = <<>>
           /\ c # <<>> => \E f : /\ f[1] = c[1] /\ FlattenSeq(c) = f[Len(c)]
                                 /\ \A i \in 2 .. Len(c) : f[i] = f[i - 1] \o c[i]
<1>. DEFINE l == Len(c)
            Rec(n, f) == f = [i \in 1 .. n |-> IF i = 1 THEN c[i] ELSE f[i - 1] \o c[i]]
            S == {n \in Nat : \E f : Rec(n, f)}
<1>0. l \in Nat /\ (l = 0 <=> c = <<>>)
  BY EmptySeq, LenProperties
<1>1. 0 \in S
  <2>. DEFINE f == [i \in 1 .. 0 |-> c[i]]
  <2>1. Rec(0, f)  OBVIOUS
  <2>2. QED  BY <2>1
<1>2. ASSUME NEW n \in Nat, n \in S PROVE n + 1 \in S
  <2>1. PICK f : Rec(n, f)
    BY <1>2
  <2>. DEFINE g == [i \in 1 .. n + 1 |-> IF i = 1 THEN c[i] ELSE f[i - 1] \o c[i]]
  <2>2. ASSUME NEW i \in 1 .. n PROVE g[i] = f[i]
    <3>1. f[i] = IF i = 1 THEN c[i] ELSE f[i - 1] \o c[i]
      BY <2>1, Zenon
    <3>2. g[i] = IF i = 1 THEN c[i] ELSE f[i - 1] \o c[i]
      <4>1. i \in 1 .. n + 1
        OBVIOUS
      <4>2. QED  BY <4>1, Zenon
    <3>. HIDE DEF g
    <3>3. QED  BY <3>1, <3>2, Zenon
  <2>3. ASSUME NEW i \in 1 .. n + 1
        PROVE  g[i] = IF i = 1 THEN c[i] ELSE g[i - 1] \o c[i]
    <3>1. i # 1 => i - 1 \in 1 .. n
      OBVIOUS
    <3>2. QED  BY <2>2, <3>1
  <2>4. Rec(n + 1, g)
    BY <2>3
  <2>. HIDE DEF Rec, g
  <2>5. \E h : Rec(n + 1, h)
    BY <2>4
  <2>6. QED  BY <2>5
<1>3. l \in S
  <2>. HIDE DEF S
  <2>1. Nat \subseteq S
    BY <1>1, <1>2, Induct
  <2>2. QED  BY <1>0, <2>1
<1>4. PICK f : Rec(l, f)
  BY <1>3
<1>. DEFINE flatten == CHOOSE f_1 : Rec(l, f_1)
<1>5. FlattenSeq(c) = IF l = 0 THEN c ELSE flatten[l]
  BY DEF FlattenSeq
<1>. HIDE DEF Rec
<1>6. Rec(l, flatten)
  BY <1>4
<1>. HIDE DEF flatten
<1>7. ASSUME c # <<>>
      PROVE  /\ flatten[1] = c[1] /\ FlattenSeq(c) = flatten[l]
             /\ \A i \in 2 .. l : flatten[i] = flatten[i - 1] \o c[i]
  <2>1. \A i \in 1 .. l : flatten[i] = IF i = 1 THEN c[i] ELSE flatten[i - 1] \o c[i]
    BY <1>6 DEF Rec
  <2>2. 1 \in 1 .. l
    BY <1>0, <1>7
  <2>3. flatten[1] = c[1]
    BY <2>1, <2>2
  <2>4. ASSUME NEW i \in 2 .. l PROVE flatten[i] = flatten[i - 1] \o c[i]
    <3>1. i \in 1 .. l /\ i # 1
      BY <1>0
    <3>2. flatten[i] = IF i = 1 THEN c[i] ELSE flatten[i - 1] \o c[i]
      BY <2>1, <3>1, Zenon
    <3>3. QED  BY <3>1, <3>2, Zenon
  <2>5. QED  BY <1>0, <1>5, <1>7, <2>3, <2>4
<1>8. QED  BY <1>0, <1>5, <1>7

\* Difference looks up only the patches of the parts of source.
LEMMA SameDifference ==
    ASSUME NEW U, NEW f, NEW g, \A x \in U : f[x] = g[x],
           NEW source, IsMadeOf(source, U), NEW T, NEW dest, IsMadeOf(dest, T)
    PROVE  Difference(f, source, dest) = Difference(g, source, dest)
<1>. DEFINE s == source.items
            t == dest.items
            common == IF Len(s) < Len(t) THEN Len(s) ELSE Len(t)
            items(d) == [i \in 1 .. common |-> In(Numeral(i - 1), d[s[i]][t[i]])]
            members(d) == [i \in DOMAIN Keys |-> MemberPatch(d, source, dest, Keys[i])]
<1>1. IsArray(source) /\ IsArray(dest) => items(f) = items(g)
  <2>. SUFFICES ASSUME IsArray(source), IsArray(dest), NEW i \in 1 .. common
                PROVE  In(Numeral(i - 1), f[s[i]][t[i]]) = In(Numeral(i - 1), g[s[i]][t[i]])
    OBVIOUS
  <2>1. s \in Seq(U) /\ Len(s) \in Nat /\ Len(t) \in Nat
    BY Kinds, LenProperties
  <2>. HIDE DEF s, t
  <2>2. i \in 1 .. Len(s)
    BY <2>1
  <2>3. s[i] \in U
    BY <2>1, <2>2, ElementOfSeq
  <2>4. QED  BY <2>3
<1>2. IsObject(source) => members(f) = members(g)
  <2>. SUFFICES ASSUME IsObject(source), NEW i \in DOMAIN Keys
                PROVE  MemberPatch(f, source, dest, Keys[i]) = MemberPatch(g, source, dest, Keys[i])
    OBVIOUS
  <2>1. source.members \in [DOMAIN source.members -> U]
    BY Kinds
  <2>2. QED  BY <2>1 DEF MemberPatch
<1>. DEFINE removed == [i \in 1 .. Len(s) - common |->
                            RemoveOf(<<Numeral(RemovalIndex(Len(s), Len(t), i))>>)]
            added == [i \in 1 .. Len(t) - common |-> AddOf(<<Numeral(Len(s) + i - 1)>>, t[Len(s) + i])]
            new == [i \in DOMAIN Keys |-> NewMember(source, dest, Keys[i])]
<1>3. \A d : Difference(d, source, dest) =
             IF source = dest THEN <<>>
             ELSE IF IsArray(source) /\ IsArray(dest) THEN FlattenSeq(items(d)) \o removed \o added
             ELSE IF IsObject(source) /\ IsObject(dest) THEN FlattenSeq(members(d)) \o FlattenSeq(new)
             ELSE <<ReplaceOf(<<>>, dest)>>
  BY DEF Difference
<1>. HIDE DEF items, members, removed, added, new
<1>4. QED  BY <1>1, <1>2, <1>3

\* The values that the first i levels have.
UpTo(i) == UNION {Levels[j] : j \in 1 .. i}

LEMMA LevelsBuilt ==
    /\ Len(Levels) \in Nat /\ UpTo(0) = {} /\ UpTo(Len(Levels)) = Parts
    /\ \A i \in 0 .. Len(Levels) : UpTo(i) \subseteq Parts
    /\ \A i \in 0 .. Len(Levels) - 1 :
           UpTo(i) \subseteq UpTo(i + 1) /\ \A v \in UpTo(i + 1) : IsMadeOf(v, UpTo(i))
<1>1. Len(Levels) \in Nat /\ DOMAIN Levels = 1 .. Len(Levels)
  BY ValuesAssumption, LenProperties
<1>2. UpTo(0) = {}
  BY DEF UpTo
<1>3. UpTo(Len(Levels)) = Parts
  BY <1>1 DEF UpTo, Parts
<1>4. \A i, j \in 0 .. Len(Levels) : i <= j => UpTo(i) \subseteq UpTo(j)
  <2>. SUFFICES ASSUME NEW i \in 0 .. Len(Levels), NEW j \in 0 .. Len(Levels), i <= j, NEW v \in UpTo(i)
                PROVE  v \in UpTo(j)
    OBVIOUS
  <2>1. PICK k \in 1 .. i : v \in Levels[k]
    BY DEF UpTo
  <2>2. k \in 1 .. j
    BY <1>1
  <2>3. QED  BY <2>1, <2>2 DEF UpTo
<1>5. \A i \in 0 .. Len(Levels) : UpTo(i) \subseteq Parts
  <2>. TAKE i \in 0 .. Len(Levels)
  <2>1. i <= Len(Levels) /\ Len(Levels) \in 0 .. Len(Levels)
    BY <1>1
  <2>2. QED  BY <1>3, <1>4, <2>1
<1>6. ASSUME NEW i \in 0 .. Len(Levels) - 1
      PROVE  UpTo(i) \subseteq UpTo(i + 1) /\ \A v \in UpTo(i + 1) : IsMadeOf(v, UpTo(i))
  <2>1. i \in 0 .. Len(Levels) /\ i + 1 \in 0 .. Len(Levels) /\ i <= i + 1
    BY <1>1
  <2>2. ASSUME NEW v \in UpTo(i + 1) PROVE IsMadeOf(v, UpTo(i))
    <3>1. PICK k \in 1 .. i + 1 : v \in Levels[k]
      BY DEF UpTo
    <3>2. k \in DOMAIN Levels /\ k - 1 \in 0 .. Len(Levels) /\ k - 1 <= i
      BY <1>1
    <3>3. IsMadeOf(v, UNION {Levels[j] : j \in 1 .. k - 1})
      BY <3>1, <3>2, ValuesAssumption
    <3>4. IsMadeOf(v, UpTo(k - 1))
      BY <3>3 DEF UpTo
    <3>5. UpTo(k - 1) \subseteq UpTo(i)
      BY <1>4, <2>1, <3>2
    <3>6. QED  BY <3>4, <3>5, MadeOfMore
  <2>3. UpTo(i) \subseteq UpTo(i + 1)
    BY <1>4, <2>1
  <2>4. QED  BY <2>2, <2>3
<1>7. QED  BY <1>1, <1>2, <1>3, <1>5, <1>6

LEMMA PartsAreValues ==
    \A v \in Parts : IsMadeOf(v, Parts) /\ IsValue(v)
<1>1. ASSUME NEW v \in Parts PROVE IsMadeOf(v, Parts)
  <2>. DEFINE L == Len(Levels)
  <2>1. L \in Nat /\ L # 0
    BY LevelsBuilt
  <2>2. L - 1 \in 0 .. L - 1 /\ L - 1 \in 0 .. L /\ L - 1 + 1 = L
    BY <2>1
  <2>3. v \in UpTo(L - 1 + 1)
    BY <2>2, LevelsBuilt
  <2>4. IsMadeOf(v, UpTo(L - 1)) /\ UpTo(L - 1) \subseteq Parts
    BY <2>2, <2>3, LevelsBuilt
  <2>5. QED  BY <2>4, MadeOfMore
<1>2. Closed(Parts)
  BY <1>1 DEF Closed
<1>3. QED  BY <1>1, <1>2 DEF IsValue

LEMMA FromDiffDef ==
    ASSUME NEW source \in Parts, NEW dest \in Parts
    PROVE  FromDiff[source][dest] = Difference(FromDiff, source, dest)
<1>. DEFINE L == Len(Levels)
            Rec(U, f) == f = [s \in U |-> [t \in Parts |-> Difference(f, s, t)]]
            S == {i \in Nat : i <= L => \E f : Rec(UpTo(i), f)}
<1>1. 0 \in S
  <2>. DEFINE f == [s \in {} |-> 0]
  <2>1. Rec({}, f)
    OBVIOUS
  <2>. HIDE DEF Rec, f
  <2>2. \E f_1 : Rec(UpTo(0), f_1)
    BY <2>1, LevelsBuilt
  <2>3. QED  BY <2>2
<1>2. ASSUME NEW i \in Nat, i \in S PROVE i + 1 \in S
  <2>. HIDE DEF Rec
  <2>. SUFFICES ASSUME i + 1 <= L PROVE \E f : Rec(UpTo(i + 1), f)
    OBVIOUS
  <2>1. L \in Nat /\ i \in 0 .. L - 1
    BY LevelsBuilt
  <2>2. PICK f : Rec(UpTo(i), f)
    BY <1>2, <2>1
  <2>. DEFINE U == UpTo(i)
              V == UpTo(i + 1)
              g == [s \in V |-> [t \in Parts |-> Difference(f, s, t)]]
  <2>3. U \subseteq V /\ \A s \in V : IsMadeOf(s, U)
    BY <2>1, LevelsBuilt
  <2>4. \A s \in U : g[s] = f[s]
    BY <2>2, <2>3 DEF Rec
  <2>5. \A s \in V, t \in Parts : Difference(f, s, t) = Difference(g, s, t)
    <3>. HIDE DEF U, V, g
    <3>1. \A s \in U : f[s] = g[s]
      BY <2>4
    <3>2. QED  BY <2>3, <3>1, PartsAreValues, SameDifference
  <2>6. g = [s \in V |-> [t \in Parts |-> Difference(g, s, t)]]
    <3>1. \A h : h = g => \A s \in V : [t \in Parts |-> Difference(f, s, t)]
                                       = [t \in Parts |-> Difference(h, s, t)]
      <4>. HIDE DEF g, V
      <4>1. QED  BY <2>5
    <3>. HIDE DEF V
    <3>2. QED  BY <3>1
  <2>7. Rec(V, g)
    BY <2>6 DEF Rec
  <2>. HIDE DEF g
  <2>8. QED  BY <2>7
<1>3. Nat \subseteq S
  <2>. HIDE DEF S
  <2>1. QED  BY <1>1, <1>2, Induct
<1>4. PICK f : Rec(Parts, f)
  <2>1. L \in S /\ UpTo(L) = Parts /\ L \in Nat
    BY <1>3, LevelsBuilt
  <2>. HIDE DEF Rec
  <2>2. QED  BY <2>1
<1>5. FromDiff = CHOOSE f_1 : Rec(Parts, f_1)
  BY DEF FromDiff
<1>. HIDE DEF Rec
<1>6. Rec(Parts, FromDiff)
  BY <1>4, <1>5
<1>7. FromDiff = [s \in Parts |-> [t \in Parts |-> Difference(FromDiff, s, t)]]
  BY <1>6 DEF Rec
<1>8. QED  BY <1>7

------------------------------------------------------------------------------
\* Where a patch made by from_diff leads

DiffOps ==
    {AddOf(p, x) : p \in Seq(STRING) \ {<<>>}, x \in Parts}
    \cup {RemoveOf(p) : p \in Seq(STRING) \ {<<>>}}
    \cup {ReplaceOf(p, x) : p \in Seq(STRING), x \in Parts}

LEMMA DiffFields ==
    ASSUME NEW p, NEW x
    PROVE  /\ AddOf(p, x).op = "add" /\ AddOf(p, x).path = p /\ AddOf(p, x).from = <<>> /\ AddOf(p, x).value = x
           /\ AddOf(p, x).lacks = {} /\ AddOf(p, x).malformed = {}
           /\ ReplaceOf(p, x).op = "replace" /\ ReplaceOf(p, x).path = p
           /\ ReplaceOf(p, x).from = <<>> /\ ReplaceOf(p, x).value = x
           /\ ReplaceOf(p, x).lacks = {} /\ ReplaceOf(p, x).malformed = {}
           /\ RemoveOf(p).op = "remove" /\ RemoveOf(p).path = p /\ RemoveOf(p).from = <<>>
           /\ RemoveOf(p).lacks = {"value"} /\ RemoveOf(p).malformed = {}
<1>1. /\ AddOf(p, x).op = "add" /\ AddOf(p, x).path = p /\ AddOf(p, x).from = <<>> /\ AddOf(p, x).value = x
      /\ AddOf(p, x).lacks = {} /\ AddOf(p, x).malformed = {}
  BY DEF AddOf, Op
<1>2. /\ ReplaceOf(p, x).op = "replace" /\ ReplaceOf(p, x).path = p
      /\ ReplaceOf(p, x).from = <<>> /\ ReplaceOf(p, x).value = x
      /\ ReplaceOf(p, x).lacks = {} /\ ReplaceOf(p, x).malformed = {}
  BY DEF ReplaceOf, Op
<1>3. /\ RemoveOf(p).op = "remove" /\ RemoveOf(p).path = p /\ RemoveOf(p).from = <<>>
      /\ RemoveOf(p).lacks = {"value"} /\ RemoveOf(p).malformed = {}
  BY DEF RemoveOf, Op
<1>4. QED  BY <1>1, <1>2, <1>3

\* The operations as records with all their fields.
Whole(op, p, x, lacks) ==
    [op |-> op, path |-> p, value |-> x, from |-> <<>>, lacks |-> lacks, malformed |-> {}]

LEMMA WholeMoved ==
    ASSUME NEW op, NEW p, NEW x, NEW lacks, NEW y, NEW l
    PROVE  /\ [Whole(op, p, x, lacks) EXCEPT !.path = y] = Whole(op, y, x, lacks)
           /\ [Whole(op, p, x, lacks) EXCEPT !.lacks = l] = Whole(op, p, x, l)
<1>. DEFINE fields == {"op", "path", "value", "from", "lacks", "malformed"}
            r == Whole(op, p, x, lacks)
            g == Whole(op, y, x, lacks)
            e == Whole(op, p, x, l)
<1>1. DOMAIN r = fields /\ r = [f \in fields |-> r[f]]
  BY DEF Whole
<1>2. DOMAIN g = fields /\ g = [f \in fields |-> g[f]]
  BY DEF Whole
<1>3. DOMAIN e = fields /\ e = [f \in fields |-> e[f]]
  BY DEF Whole
<1>4. /\ g["op"] = r["op"] /\ g["path"] = y /\ g["value"] = r["value"] /\ g["from"] = r["from"]
      /\ g["lacks"] = r["lacks"] /\ g["malformed"] = r["malformed"]
  BY DEF Whole
<1>5. /\ e["op"] = r["op"] /\ e["path"] = r["path"] /\ e["value"] = r["value"]
      /\ e["from"] = r["from"] /\ e["lacks"] = l /\ e["malformed"] = r["malformed"]
  BY DEF Whole
<1>. HIDE DEF r, g, e
<1>6. [r EXCEPT !["path"] = y] = g
  <2>1. \A f \in fields : g[f] = IF f = "path" THEN y ELSE r[f]
    BY <1>4
  <2>2. [r EXCEPT !["path"] = y] = [f \in fields |-> IF f = "path" THEN y ELSE r[f]]
    BY <1>1
  <2>3. g = [f \in fields |-> IF f = "path" THEN y ELSE r[f]]
    BY <1>2, <2>1, Zenon
  <2>4. QED  BY <2>2, <2>3
<1>7. [r EXCEPT !["lacks"] = l] = e
  <2>1. \A f \in fields : e[f] = IF f = "lacks" THEN l ELSE r[f]
    BY <1>5
  <2>2. [r EXCEPT !["lacks"] = l] = [f \in fields |-> IF f = "lacks" THEN l ELSE r[f]]
    BY <1>1
  <2>3. e = [f \in fields |-> IF f = "lacks" THEN l ELSE r[f]]
    BY <1>3, <2>1, Zenon
  <2>4. QED  BY <2>2, <2>3
<1>8. QED  BY <1>6, <1>7 DEF r, g, e

LEMMA PathMoved ==
    ASSUME NEW op, NEW p, NEW x, NEW lacks, NEW y
    PROVE  [Whole(op, p, x, lacks) EXCEPT !.path = y] = Whole(op, y, x, lacks)
BY WholeMoved, SMTT(30)

LEMMA DiffMoved ==
    ASSUME NEW p, NEW x, NEW q
    PROVE  /\ [AddOf(p, x) EXCEPT !.path = q \o @] = AddOf(q \o p, x)
           /\ [ReplaceOf(p, x) EXCEPT !.path = q \o @] = ReplaceOf(q \o p, x)
           /\ [RemoveOf(p) EXCEPT !.path = q \o @] = RemoveOf(q \o p)
<1>1. \A y : AddOf(y, x) = Whole("add", y, x, {}) /\ ReplaceOf(y, x) = Whole("replace", y, x, {})
  BY Zenon DEF AddOf, ReplaceOf, Op, Whole
<1>2. \A y : RemoveOf(y) = Whole("remove", y, NoValue, {"value"})
  <2>1. \A y : Op("remove", y, NoValue, <<>>) = Whole("remove", y, NoValue, {})
    BY Zenon DEF Op, Whole
  <2>2. \A y : [Whole("remove", y, NoValue, {}) EXCEPT !.lacks = {"value"}]
               = Whole("remove", y, NoValue, {"value"})
    BY WholeMoved, SMTT(30)
  <2>3. QED  BY <2>1, <2>2 DEF RemoveOf
<1>3. ASSUME NEW y
      PROVE  /\ [AddOf(p, x) EXCEPT !.path = y] = AddOf(y, x)
             /\ [ReplaceOf(p, x) EXCEPT !.path = y] = ReplaceOf(y, x)
             /\ [RemoveOf(p) EXCEPT !.path = y] = RemoveOf(y)
  <2>1. [Whole("add", p, x, {}) EXCEPT !.path = y] = Whole("add", y, x, {})
    BY PathMoved
  <2>2. [Whole("replace", p, x, {}) EXCEPT !.path = y] = Whole("replace", y, x, {})
    BY PathMoved
  <2>3. [Whole("remove", p, NoValue, {"value"}) EXCEPT !.path = y] = Whole("remove", y, NoValue, {"value"})
    BY PathMoved
  <2>4. QED  BY <1>1, <1>2, <2>1, <2>2, <2>3
<1>4. AddOf(p, x).path = p /\ ReplaceOf(p, x).path = p /\ RemoveOf(p).path = p
  BY DiffFields
<1>5. QED  BY <1>3, <1>4, Zenon

LEMMA DiffOperations ==
    ASSUME NEW o \in DiffOps
    PROVE  IsOperation(o) /\ ~AddsToRoot(o)
<1>0. <<>> \in Seq(STRING)
  OBVIOUS
<1>1. ASSUME NEW p \in Seq(STRING) \ {<<>>}, NEW x \in Parts, o = AddOf(p, x)
      PROVE  IsOperation(o) /\ ~AddsToRoot(o)
  <2>1. o.path = p /\ o.from = <<>> /\ o.value = x
    BY <1>1, DiffFields
  <2>2. QED  BY <1>0, <2>1, PartsAreValues DEF IsOperation, AddsToRoot
<1>2. ASSUME NEW p \in Seq(STRING) \ {<<>>}, o = RemoveOf(p)
      PROVE  IsOperation(o) /\ ~AddsToRoot(o)
  <2>1. o.path = p /\ o.from = <<>> /\ o.op = "remove"
    BY <1>2, DiffFields
  <2>2. QED  BY <1>0, <2>1 DEF IsOperation, AddsToRoot, UsesValue
<1>3. ASSUME NEW p \in Seq(STRING), NEW x \in Parts, o = ReplaceOf(p, x)
      PROVE  IsOperation(o) /\ ~AddsToRoot(o)
  <2>1. o.path = p /\ o.from = <<>> /\ o.op = "replace" /\ o.value = x
    BY <1>3, DiffFields
  <2>2. QED  BY <1>0, <2>1, PartsAreValues DEF IsOperation, AddsToRoot
<1>4. QED  BY <1>1, <1>2, <1>3 DEF DiffOps

LEMMA DiffAllowed ==
    ASSUME NEW o \in DiffOps
    PROVE  ~Forbidden(o)
<1>1. ASSUME NEW p, NEW x, o = AddOf(p, x) PROVE o.op = "add"
  BY <1>1, DiffFields
<1>2. ASSUME NEW p, o = RemoveOf(p) PROVE o.op = "remove"
  BY <1>2, DiffFields
<1>3. ASSUME NEW p, NEW x, o = ReplaceOf(p, x) PROVE o.op = "replace"
  BY <1>3, DiffFields
<1>4. o.op \in {"add", "remove", "replace"}
  BY <1>1, <1>2, <1>3 DEF DiffOps
<1>5. QED  BY <1>4 DEF Forbidden, OpNames

LEMMA DiffApplied ==
    ASSUME NEW v, IsValue(v), NEW p, NEW x, IsValue(x)
    PROVE  /\ Performed(v, AddOf(p, x)) = Added(v, p, x)
           /\ Performed(v, RemoveOf(p)) = Removed(v, p)
           /\ Performed(v, ReplaceOf(p, x)) = Replaced(v, p, x)
<1>1. Performed(v, AddOf(p, x)) = Added(v, p, x)
  <2>. DEFINE o == AddOf(p, x)
  <2>1. Is(o, "add") /\ ~Lacks(o, "value") /\ o.path = p /\ o.value = x
    BY DiffFields DEF Is, Lacks, Malformed
  <2>. HIDE DEF o
  <2>2. Performed(v, o) = AddedIf(~Lacks(o, "value"), v, o.path, o.value)
    BY <2>1, PerformedCases
  <2>3. AddedIf(~Lacks(o, "value"), v, p, x) = Added(v, p, x)
    BY <2>1, NoValueIsNone DEF AddedIf
  <2>4. Performed(v, o) = Added(v, p, x)
    BY <2>1, <2>2, <2>3
  <2>5. QED  BY <2>4 DEF o
<1>2. Performed(v, RemoveOf(p)) = Removed(v, p)
  <2>. DEFINE o == RemoveOf(p)
  <2>1. o.op = "remove" /\ o.path = p /\ o.lacks = {"value"} /\ o.malformed = {}
    BY DiffFields, Zenon
  <2>. HIDE DEF o
  <2>2. Is(o, "remove")
    BY <2>1 DEF Is, Lacks, Malformed
  <2>3. Performed(v, o) = Removed(v, p)
    BY <2>1, <2>2, PerformedCases
  <2>4. QED  BY <2>3 DEF o
<1>3. Performed(v, ReplaceOf(p, x)) = Replaced(v, p, x)
  <2>. DEFINE o == ReplaceOf(p, x)
  <2>1. Is(o, "replace") /\ ~Lacks(o, "value") /\ o.path = p /\ o.value = x
    BY DiffFields DEF Is, Lacks, Malformed
  <2>. HIDE DEF o
  <2>2. Performed(v, o) = IF Lacks(o, "value") THEN NoValue ELSE Replaced(v, o.path, o.value)
    BY <2>1, PerformedCases
  <2>3. Performed(v, o) = Replaced(v, p, x)
    BY <2>1, <2>2
  <2>4. QED  BY <2>3 DEF o
<1>4. QED  BY <1>1, <1>2, <1>3

\* The operations in ops lead from v to w.
Leads(ops, v, w) ==
    \E h : /\ h[0] = v /\ h[Len(ops)] = w
           /\ \A i \in 0 .. Len(ops) : IsValue(h[i])
           /\ \A i \in 1 .. Len(ops) : h[i] = Performed(h[i - 1], ops[i])

LEMMA LeadsNowhere ==
    ASSUME NEW v, NEW w
    PROVE  /\ IsValue(v) => Leads(<<>>, v, v)
           /\ Leads(<<>>, v, w) => v = w
<1>1. Len(<<>>) = 0
  OBVIOUS
<1>2. ASSUME IsValue(v) PROVE Leads(<<>>, v, v)
  <2>. DEFINE h == [i \in 0 .. 0 |-> v]
  <2>1. h[0] = v
    OBVIOUS
  <2>. HIDE DEF h
  <2>2. /\ h[Len(<<>>)] = v
        /\ \A i \in 0 .. Len(<<>>) : IsValue(h[i])
        /\ \A i \in 1 .. Len(<<>>) : h[i] = Performed(h[i - 1], <<>>[i])
    BY <1>1, <1>2, <2>1
  <2>3. QED  BY <2>1, <2>2 DEF Leads
<1>3. ASSUME Leads(<<>>, v, w) PROVE v = w
  BY <1>1, <1>3 DEF Leads
<1>4. QED  BY <1>2, <1>3

LEMMA LeadsOne ==
    ASSUME NEW o, NEW v, IsValue(v), NEW w, IsValue(w), Performed(v, o) = w
    PROVE  Leads(<<o>>, v, w)
<1>. DEFINE h == [i \in 0 .. 1 |-> IF i = 0 THEN v ELSE w]
<1>1. h[0] = v /\ h[1] = w
  OBVIOUS
<1>. HIDE DEF h
<1>2. Len(<<o>>) = 1 /\ <<o>>[1] = o
  OBVIOUS
<1>3. \A i \in 0 .. 1 : IsValue(h[i])
  <2>1. \A i \in 0 .. 1 : i = 0 \/ i = 1
    OBVIOUS
  <2>2. QED  BY <1>1, <2>1
<1>4. \A i \in 1 .. 1 : h[i] = Performed(h[i - 1], <<o>>[i])
  <2>. SUFFICES ASSUME NEW i \in 1 .. 1 PROVE h[i] = Performed(h[i - 1], <<o>>[i])
    OBVIOUS
  <2>1. i = 1 /\ i - 1 = 0
    OBVIOUS
  <2>2. QED  BY <1>1, <1>2, <2>1
<1>5. QED  BY <1>1, <1>2, <1>3, <1>4 DEF Leads

LEMMA LeadsOn ==
    ASSUME NEW W, NEW p \in Seq(W), NEW q \in Seq(W), NEW u, NEW v, NEW w, Leads(p, u, v), Leads(q, v, w)
    PROVE  Leads(p \o q, u, w)
<1>. DEFINE l == Len(p)
            m == Len(q)
            r == p \o q
<1>0. l \in Nat /\ m \in Nat
  BY LenProperties
<1>1. PICK f : /\ f[0] = u /\ f[l] = v
               /\ \A i \in 0 .. l : IsValue(f[i])
               /\ \A i \in 1 .. l : f[i] = Performed(f[i - 1], p[i])
  BY DEF Leads
<1>2. PICK g : /\ g[0] = v /\ g[m] = w
               /\ \A i \in 0 .. m : IsValue(g[i])
               /\ \A i \in 1 .. m : g[i] = Performed(g[i - 1], q[i])
  BY DEF Leads
<1>3. /\ Len(r) = l + m
      /\ \A i \in 1 .. l + m : r[i] = IF i <= l THEN p[i] ELSE q[i - l]
  BY ConcatProperties
<1>. DEFINE h == [i \in 0 .. l + m |-> IF i <= l THEN f[i] ELSE g[i - l]]
<1>4. /\ \A i \in 0 .. l : h[i] = f[i]
      /\ \A i \in 0 .. m : h[l + i] = g[i]
  <2>1. \A i \in 0 .. l : h[i] = f[i]
    BY <1>0
  <2>2. ASSUME NEW i \in 0 .. m PROVE h[l + i] = g[i]
    <3>1. l + i \in 0 .. l + m /\ l + i - l = i /\ (l + i <= l => i = 0)
      BY <1>0
    <3>2. h[l + i] = IF l + i <= l THEN f[l + i] ELSE g[l + i - l]
      BY <3>1
    <3>. HIDE DEF h
    <3>3. CASE l + i <= l
      <4>1. i = 0 /\ l + i = l
        BY <1>0, <3>1, <3>3
      <4>2. QED  BY <1>1, <1>2, <3>2, <3>3, <4>1
    <3>4. CASE ~(l + i <= l)
      BY <3>1, <3>2, <3>4
    <3>5. QED  BY <3>3, <3>4
  <2>. HIDE DEF h
  <2>3. QED  BY <2>1, <2>2
<1>. HIDE DEF h, r, l, m
<1>5. h[0] = u /\ h[l + m] = w
  <2>1. 0 \in 0 .. l /\ m \in 0 .. m
    BY <1>0
  <2>2. QED  BY <1>1, <1>2, <1>4, <2>1
<1>6. ASSUME NEW i \in 0 .. l + m
      PROVE  IsValue(h[i])
  <2>1. CASE i <= l
    BY <1>0, <1>1, <1>4, <2>1
  <2>2. CASE i > l
    <3>1. i - l \in 0 .. m /\ i = l + (i - l)
      BY <1>0, <2>2
    <3>2. QED  BY <1>2, <1>4, <3>1
  <2>3. QED  BY <1>0, <2>1, <2>2
<1>7. ASSUME NEW i \in 1 .. l + m
      PROVE  h[i] = Performed(h[i - 1], r[i])
  <2>1. CASE i <= l
    <3>1. i \in 1 .. l /\ i \in 0 .. l /\ i - 1 \in 0 .. l
      BY <1>0, <2>1
    <3>2. QED  BY <1>1, <1>3, <1>4, <2>1, <3>1
  <2>2. CASE i > l
    <3>. DEFINE j == i - l
    <3>1. j \in 1 .. m /\ j \in 0 .. m /\ j - 1 \in 0 .. m /\ i = l + j /\ i - 1 = l + (j - 1) /\ ~(i <= l)
      BY <1>0, <2>2
    <3>. HIDE DEF j
    <3>2. h[i] = g[j] /\ h[i - 1] = g[j - 1]
      BY <1>4, <3>1
    <3>3. r[i] = q[j]
      BY <1>3, <3>1 DEF j
    <3>4. QED  BY <1>2, <3>1, <3>2, <3>3
  <2>3. QED  BY <1>0, <2>1, <2>2
<1>8. Leads(r, u, w)
  BY <1>3, <1>5, <1>6, <1>7 DEF Leads
<1>9. QED  BY <1>8 DEF r

------------------------------------------------------------------------------
\* A patch of a part, made a patch of the whole

LEMMA OneElement ==
    ASSUME NEW S, NEW x \in S
    PROVE  <<x>> \in Seq(S) /\ Len(<<x>>) = 1 /\ <<x>>[1] = x
<1>1. <<x>> \in Seq(S)
  OBVIOUS
<1>2. Len(<<x>>) = 1 /\ <<x>>[1] = x
  OBVIOUS
<1>3. QED  BY <1>1, <1>2

LEMMA LongerPath ==
    ASSUME NEW t \in STRING, NEW path \in Seq(STRING)
    PROVE  /\ <<t>> \o path \in Seq(STRING) /\ <<t>> \o path # <<>>
           /\ Len(<<t>> \o path) = Len(path) + 1 /\ Len(path) \in Nat
           /\ (<<t>> \o path)[1] = t
           /\ \A i \in 1 .. Len(path) : (<<t>> \o path)[i + 1] = path[i]
           /\ path # <<>> => /\ Front(<<t>> \o path) = <<t>> \o Front(path)
                             /\ Last(<<t>> \o path) = Last(path)
<1>. DEFINE one == <<t>>
            n == Len(path)
            q == one \o path
<1>1. one \in Seq(STRING) /\ Len(one) = 1 /\ one[1] = t /\ n \in Nat
  <2>1. one \in Seq(STRING) /\ Len(one) = 1 /\ one[1] = t
    BY OneElement
  <2>2. n \in Nat
    BY LenProperties
  <2>3. QED  BY <2>1, <2>2
<1>. HIDE DEF one
<1>2. q \in Seq(STRING) /\ Len(q) = n + 1 /\ \A i \in 1 .. n + 1 : q[i] = IF i <= 1 THEN one[i] ELSE path[i - 1]
  <2>1. q \in Seq(STRING) /\ Len(q) = Len(one) + n
    BY <1>1, ConcatProperties
  <2>2. \A i \in 1 .. Len(one) + n : q[i] = IF i <= Len(one) THEN one[i] ELSE path[i - Len(one)]
    BY <1>1, ConcatProperties
  <2>3. Len(one) + n = n + 1
    BY <1>1
  <2>. HIDE DEF n, q
  <2>4. QED  BY <1>1, <2>1, <2>2, <2>3
<1>. HIDE DEF n, q
<1>3. q[1] = t /\ q # <<>> /\ \A i \in 1 .. n : q[i + 1] = path[i]
  <2>1. 1 \in 1 .. n + 1 /\ n + 1 # 0
    BY <1>1
  <2>2. q[1] = t
    <3>1. q[1] = IF 1 <= 1 THEN one[1] ELSE path[1 - 1]
      BY <1>2, <2>1
    <3>2. QED  BY <1>1, <3>1
  <2>3. q # <<>>
    BY <1>2, <2>1
  <2>4. \A i \in 1 .. n : i + 1 \in 1 .. n + 1 /\ ~(i + 1 <= 1) /\ i + 1 - 1 = i
    BY <1>1
  <2>5. \A i \in 1 .. n : q[i + 1] = path[i]
    BY <1>2, <2>4
  <2>6. QED  BY <2>2, <2>3, <2>5
<1>4. ASSUME path # <<>>
      PROVE  Front(q) = one \o Front(path) /\ Last(q) = Last(path)
  <2>1. /\ Front(path) \in Seq(STRING) /\ Len(Front(path)) = n - 1
        /\ \A i \in 1 .. n - 1 : Front(path)[i] = path[i]
        /\ Last(path) = path[n] /\ n \in Nat \ {0}
    BY <1>4, FrontLast DEF n
  <2>2. /\ Front(q) \in Seq(STRING) /\ Len(Front(q)) = n
        /\ \A i \in 1 .. n : Front(q)[i] = q[i]
        /\ Last(q) = q[n + 1]
    <3>1. /\ Front(q) \in Seq(STRING) /\ Len(Front(q)) = Len(q) - 1
          /\ \A i \in 1 .. Len(q) - 1 : Front(q)[i] = q[i]
          /\ Last(q) = q[Len(q)]
      BY <1>2, <1>3, FrontLast
    <3>2. Len(q) - 1 = n /\ Len(q) = n + 1
      BY <1>1, <1>2
    <3>3. QED  BY <3>1, <3>2
  <2>. DEFINE r == one \o Front(path)
  <2>3. /\ r \in Seq(STRING) /\ Len(r) = n
        /\ \A i \in 1 .. n : r[i] = IF i <= 1 THEN one[i] ELSE Front(path)[i - 1]
    <3>1. /\ r \in Seq(STRING) /\ Len(r) = Len(one) + Len(Front(path))
          /\ \A i \in 1 .. Len(one) + Len(Front(path)) :
                 r[i] = IF i <= Len(one) THEN one[i] ELSE Front(path)[i - Len(one)]
      BY <1>1, <2>1, ConcatProperties
    <3>2. Len(one) + Len(Front(path)) = n
      BY <1>1, <2>1
    <3>3. QED  BY <1>1, <3>1, <3>2
  <2>. HIDE DEF r
  <2>4. ASSUME NEW i \in 1 .. n PROVE Front(q)[i] = r[i]
    <3>1. CASE i = 1
      <4>1. r[1] = IF 1 <= 1 THEN one[1] ELSE Front(path)[1 - 1]
        BY <2>3, <3>1
      <4>2. r[1] = t
        BY <1>1, <4>1
      <4>3. Front(q)[1] = q[1]
        BY <2>1, <2>2
      <4>4. QED  BY <1>3, <3>1, <4>2, <4>3
    <3>2. CASE i # 1
      <4>1. i - 1 \in 1 .. n - 1 /\ ~(i <= 1) /\ i \in 1 .. n + 1
        BY <1>1, <3>2
      <4>2. Front(q)[i] = q[i] /\ q[i] = path[i - 1]
        BY <1>2, <2>2, <4>1
      <4>3. r[i] = Front(path)[i - 1] /\ Front(path)[i - 1] = path[i - 1]
        BY <2>1, <2>3, <4>1
      <4>4. QED  BY <4>2, <4>3
    <3>3. QED  BY <3>1, <3>2
  <2>5. Front(q) = r
    BY <2>2, <2>3, <2>4, SeqEqual
  <2>6. Last(q) = Last(path)
    BY <1>3, <2>1, <2>2
  <2>7. QED  BY <2>5, <2>6 DEF r
<1>5. QED  BY <1>1, <1>2, <1>3, <1>4 DEF n, q, one

LEMMA AlongInner ==
    ASSUME NEW w, NEW t \in STRING, ResolveError(w, t) = "none", NEW path \in Seq(STRING)
    PROVE  \A i \in 0 .. Len(path) : Along(w, <<t>> \o path)[i + 1] = Along(Child(w, t), path)[i]
<1>. DEFINE q == <<t>> \o path
            n == Len(path)
            a == Child(w, t)
            outer == Along(w, q)
            inner == Along(a, path)
<1>1. /\ q \in Seq(STRING) /\ Len(q) = n + 1 /\ n \in Nat /\ q[1] = t
      /\ \A i \in 1 .. n : q[i + 1] = path[i]
  BY LongerPath
<1>. HIDE DEF q, n
<1>2. /\ outer[0] = Ok(w)
      /\ \A i \in 1 .. n + 1 : outer[i] = Resolve(outer[i - 1], q[i])
  BY <1>1, AlongAt
<1>3. /\ inner[0] = Ok(a)
      /\ \A i \in 1 .. n : inner[i] = Resolve(inner[i - 1], path[i])
  BY AlongAt DEF n
<1>. HIDE DEF outer, inner
<1>4. outer[1] = inner[0]
  <2>1. outer[1] = Resolve(Ok(w), t)
    <3>1. 1 \in 1 .. n + 1 /\ 1 - 1 = 0
      BY <1>1
    <3>2. QED  BY <1>1, <1>2, <3>1
  <2>2. Ok(w).root = w /\ ~Failed(Ok(w))
    BY Results
  <2>3. Resolve(Ok(w), t) = Ok(Child(w, t))
    BY <2>2, ResolveCases
  <2>4. QED  BY <1>3, <2>1, <2>3
<1>. DEFINE S == {i \in Nat : i <= n => outer[i + 1] = inner[i]}
<1>5. 0 \in S
  BY <1>4
<1>6. ASSUME NEW i \in Nat, i \in S PROVE i + 1 \in S
  <2>1. CASE i + 1 <= n
    <3>1. /\ i <= n /\ i + 1 \in 1 .. n /\ i + 2 \in 1 .. n + 1
          /\ i + 1 + 1 = i + 2 /\ i + 2 - 1 = i + 1 /\ i + 1 - 1 = i
      BY <1>1, <2>1
    <3>2. outer[i + 1] = inner[i]
      BY <1>6, <3>1
    <3>. HIDE DEF S
    <3>3. outer[i + 2] = Resolve(outer[i + 1], q[i + 2])
      BY <1>2, <3>1
    <3>4. q[i + 2] = path[i + 1]
      BY <1>1, <3>1
    <3>5. inner[i + 1] = Resolve(inner[i], path[i + 1])
      BY <1>3, <3>1
    <3>6. outer[i + 1 + 1] = inner[i + 1]
      BY <3>1, <3>2, <3>3, <3>4, <3>5
    <3>7. QED  BY <3>6 DEF S
  <2>2. CASE ~(i + 1 <= n)
    BY <2>2
  <2>3. QED  BY <2>1, <2>2
<1>7. Nat \subseteq S
  <2>. HIDE DEF S
  <2>1. QED  BY <1>5, <1>6, Induct
<1>8. \A i \in 0 .. n : outer[i + 1] = inner[i]
  BY <1>1, <1>7
<1>9. QED  BY <1>8 DEF outer, inner, q, n

LEMMA GotInner ==
    ASSUME NEW w, IsValue(w), NEW t \in STRING, ResolveError(w, t) = "none", NEW path \in Seq(STRING)
    PROVE  /\ Get(w, <<t>> \o path) = Get(Child(w, t), path)
           /\ ValueAt(w, <<t>> \o path) = ValueAt(Child(w, t), path)
<1>1. /\ <<t>> \o path \in Seq(STRING) /\ Len(<<t>> \o path) = Len(path) + 1 /\ Len(path) \in Nat
  BY LongerPath
<1>2. Get(w, <<t>> \o path) = Get(Child(w, t), path)
  <2>1. Along(w, <<t>> \o path)[Len(path) + 1] = Along(Child(w, t), path)[Len(path)]
    BY <1>1, AlongInner
  <2>2. QED  BY <1>1, <2>1 DEF Get
<1>3. IsValue(Child(w, t))
  BY PartIsValue
<1>4. ValueAt(w, <<t>> \o path)
      = IF Failed(Get(w, <<t>> \o path)) THEN NoValue ELSE Get(w, <<t>> \o path).root
  BY <1>1, ValueGot
<1>5. ValueAt(Child(w, t), path)
      = IF Failed(Get(Child(w, t), path)) THEN NoValue ELSE Get(Child(w, t), path).root
  BY <1>3, ValueGot
<1>6. QED  BY <1>2, <1>4, <1>5

LEMMA AssignedInner ==
    ASSUME NEW w, NEW t \in STRING, ResolveError(w, t) = "none", NEW path \in Seq(STRING), NEW y
    PROVE  Assigned(w, <<t>> \o path, y) = Put(w, t, Assigned(Child(w, t), path, y))
<1>. DEFINE q == <<t>> \o path
            n == Len(path)
            a == Child(w, t)
            outer == Along(w, q)
            inner == Along(a, path)
            up == Back(w, q, y)
            down == Back(a, path, y)
<1>1. /\ q \in Seq(STRING) /\ Len(q) = n + 1 /\ n \in Nat /\ q[1] = t
      /\ \A i \in 1 .. n : q[i + 1] = path[i]
  BY LongerPath
<1>2. \A i \in 0 .. n : outer[i + 1] = inner[i]
  BY AlongInner
<1>. HIDE DEF q, n
<1>3. outer[0] = Ok(w)
  BY <1>1, AlongAt
<1>4. /\ up[0] = y
      /\ \A k \in 1 .. n + 1 : up[k] = Put(outer[n + 1 - k].root, q[n + 1 - k + 1], up[k - 1])
  <2>1. /\ up[0] = y
        /\ \A k \in 1 .. Len(q) : up[k] = Put(outer[Len(q) - k].root, q[Len(q) - k + 1], up[k - 1])
    <3>1. q \in Seq(STRING)
      BY <1>1
    <3>2. QED  BY <3>1, BackAt
  <2>. HIDE DEF up, outer
  <2>2. QED  BY <1>1, <2>1
<1>5. /\ down[0] = y
      /\ \A k \in 1 .. n : down[k] = Put(inner[n - k].root, path[n - k + 1], down[k - 1])
  BY BackAt DEF n
<1>. HIDE DEF outer, inner, up, down, a
<1>. DEFINE S == {k \in Nat : k <= n => up[k] = down[k]}
<1>6. 0 \in S
  BY <1>4, <1>5
<1>7. ASSUME NEW k \in Nat, k \in S PROVE k + 1 \in S
  <2>1. CASE k + 1 <= n
    <3>. DEFINE j == n - (k + 1)
    <3>1. /\ k <= n /\ k + 1 \in 1 .. n /\ k + 1 \in 1 .. n + 1 /\ k + 1 - 1 = k
          /\ j \in 0 .. n /\ n + 1 - (k + 1) = j + 1 /\ j + 1 \in 1 .. n
      BY <1>1, <2>1
    <3>2. up[k] = down[k]
      BY <1>7, <3>1
    <3>. HIDE DEF S
    <3>3. up[k + 1] = Put(outer[n + 1 - (k + 1)].root, q[n + 1 - (k + 1) + 1], up[k])
      BY <1>4, <3>1
    <3>4. down[k + 1] = Put(inner[j].root, path[j + 1], down[k])
      BY <1>5, <3>1
    <3>. HIDE DEF j
    <3>5. outer[j + 1] = inner[j] /\ q[j + 1 + 1] = path[j + 1]
      BY <1>1, <1>2, <3>1
    <3>6. up[k + 1] = down[k + 1]
      BY <3>1, <3>2, <3>3, <3>4, <3>5
    <3>7. QED  BY <3>6 DEF S
  <2>2. CASE ~(k + 1 <= n)
    BY <2>2
  <2>3. QED  BY <2>1, <2>2
<1>8. Nat \subseteq S
  <2>. HIDE DEF S
  <2>1. QED  BY <1>6, <1>7, Induct
<1>9. up[n] = down[n]
  BY <1>1, <1>8
<1>10. up[n + 1] = Put(w, t, up[n])
  <2>. DEFINE m == n + 1
  <2>1. m \in 1 .. n + 1 /\ n + 1 - m = 0 /\ m - 1 = n /\ 0 + 1 = 1
    BY <1>1
  <2>. HIDE DEF m
  <2>2. up[m] = Put(outer[n + 1 - m].root, q[n + 1 - m + 1], up[m - 1])
    BY <1>4, <2>1
  <2>3. up[m] = Put(outer[0].root, q[1], up[n])
    BY <2>1, <2>2
  <2>4. outer[0].root = w /\ q[1] = t
    BY <1>1, <1>3, Results
  <2>5. QED  BY <2>3, <2>4 DEF m
<1>11. up[n + 1] = Put(w, t, down[n])
  BY <1>9, <1>10
<1>12. Assigned(w, q, y) = up[n + 1]
  BY <1>1 DEF Assigned, up
<1>13. Assigned(a, path, y) = down[n]
  BY DEF Assigned, down, n
<1>14. QED  BY <1>11, <1>12, <1>13 DEF q, a

LEMMA AddedInner ==
    ASSUME NEW w, IsValue(w), NEW t \in STRING, ResolveError(w, t) = "none",
           NEW path \in Seq(STRING), path # <<>>, NEW x, Added(Child(w, t), path, x) # NoValue
    PROVE  Added(w, <<t>> \o path, x) = Put(w, t, Added(Child(w, t), path, x))
<1>. DEFINE q == <<t>> \o path
            a == Child(w, t)
            front == Front(path)
            y == PartAdded(ValueAt(a, front), Last(path), x)
<1>1. /\ q \in Seq(STRING) /\ q # <<>> /\ Front(q) = <<t>> \o front /\ Last(q) = Last(path)
  BY LongerPath
<1>2. front \in Seq(STRING)
  BY FrontLast
<1>3. Added(a, path, x) = Having(a, front, y)
  BY DEF Added
<1>4. y # NoValue
  BY <1>3 DEF Having
<1>5. Added(a, path, x) = Assigned(a, front, y)
  BY <1>3, <1>4 DEF Having
<1>6. ValueAt(w, Front(q)) = ValueAt(a, front)
  BY <1>1, <1>2, GotInner
<1>7. Added(w, q, x) = Having(w, Front(q), PartAdded(ValueAt(w, Front(q)), Last(q), x))
  BY <1>1 DEF Added
<1>. HIDE DEF y
<1>8. Added(w, q, x) = Having(w, <<t>> \o front, y)
  BY <1>1, <1>6, <1>7 DEF y
<1>9. Added(w, q, x) = Assigned(w, <<t>> \o front, y)
  BY <1>4, <1>8 DEF Having
<1>10. Assigned(w, <<t>> \o front, y) = Put(w, t, Assigned(a, front, y))
  BY <1>2, AssignedInner
<1>11. QED  BY <1>5, <1>9, <1>10

LEMMA RemovedInner ==
    ASSUME NEW w, IsValue(w), NEW t \in STRING, ResolveError(w, t) = "none",
           NEW path \in Seq(STRING), path # <<>>, Removed(Child(w, t), path) # NoValue
    PROVE  Removed(w, <<t>> \o path) = Put(w, t, Removed(Child(w, t), path))
<1>. DEFINE q == <<t>> \o path
            a == Child(w, t)
            front == Front(path)
            cut(v, l) == IF IsObject(v) THEN Without(v, l) ELSE Array(RemoveAt(v.items, Index(l) + 1))
            y == cut(ValueAt(a, front), Last(path))
<1>1. /\ q \in Seq(STRING) /\ q # <<>> /\ Front(q) = <<t>> \o front /\ Last(q) = Last(path)
  BY LongerPath
<1>2. front \in Seq(STRING)
  BY FrontLast
<1>3. ValueAt(a, path) # NoValue /\ Removed(a, path) = Assigned(a, front, y)
  BY DEF Removed
<1>4. ValueAt(w, Front(q)) = ValueAt(a, front) /\ ValueAt(w, q) = ValueAt(a, path)
  BY <1>1, <1>2, GotInner
<1>5. Removed(w, q) = Assigned(w, Front(q), cut(ValueAt(w, Front(q)), Last(q)))
  BY <1>1, <1>3, <1>4 DEF Removed
<1>. HIDE DEF cut
<1>6. Removed(w, q) = Assigned(w, <<t>> \o front, y)
  BY <1>1, <1>4, <1>5
<1>. HIDE DEF y
<1>7. Assigned(w, <<t>> \o front, y) = Put(w, t, Assigned(a, front, y))
  BY <1>2, AssignedInner
<1>8. QED  BY <1>3, <1>6, <1>7

LEMMA BackFirst ==
    ASSUME NEW root, NEW path \in Seq(STRING), NEW x
    PROVE  Back(root, path, x)[0] = x
BY BackAt

LEMMA AssignedRoot ==
    ASSUME NEW root, NEW path \in Seq(STRING), path = <<>>, NEW x
    PROVE  Assigned(root, path, x) = x
<1>1. Len(path) = 0
  OBVIOUS
<1>2. Back(root, path, x)[0] = x
  BY BackFirst
<1>3. QED  BY <1>1, <1>2 DEF Assigned

LEMMA ReplacedInner ==
    ASSUME NEW w, IsValue(w), NEW t \in STRING, ResolveError(w, t) = "none",
           NEW path \in Seq(STRING), NEW x, IsValue(x), Replaced(Child(w, t), path, x) # NoValue
    PROVE  Replaced(w, <<t>> \o path, x) = Put(w, t, Replaced(Child(w, t), path, x))
<1>. DEFINE q == <<t>> \o path
            a == Child(w, t)
<1>1. q \in Seq(STRING) /\ q # <<>> /\ Len(q) = Len(path) + 1 /\ Len(path) \in Nat /\ q[1] = t
  BY LongerPath
<1>2. IsValue(a)
  BY PartIsValue
<1>3. CASE path = <<>>
  <2>1. Front(q) = <<>> /\ Last(q) = t
    <3>1. Len(path) = 0 /\ Len(q) = 1
      BY <1>1, <1>3
    <3>. HIDE DEF q
    <3>2. Front(q) \in Seq(STRING) /\ Len(Front(q)) = 0 /\ Last(q) = q[1]
      BY <1>1, <3>1, FrontLast
    <3>3. QED  BY <1>1, <3>2, EmptySeq
  <2>2. Get(w, q) = Ok(a)
    BY <1>3, GotInner, RootGot
  <2>3. EditHere("replace", w, t, x) = Ok(Put(w, t, x))
    BY ReplaceThere
  <2>. HIDE DEF q
  <2>4. Get(w, Front(q)) = Ok(w)
    BY <2>1, RootGot
  <2>5. Edit("replace", w, q, x) = Ok(Assigned(w, Front(q), Put(w, t, x)))
    BY <1>1, <2>1, <2>3, <2>4, EditAt
  <2>6. Assigned(w, <<>>, Put(w, t, x)) = Put(w, t, x)
    <3>. DEFINE root == <<>>
    <3>1. root \in Seq(STRING) /\ root = <<>>
      OBVIOUS
    <3>. HIDE DEF root
    <3>2. Assigned(w, root, Put(w, t, x)) = Put(w, t, x)
      BY <3>1, AssignedRoot
    <3>3. QED  BY <3>2 DEF root
  <2>7. Replace(w, q, x) = Ok(Put(w, t, x))
    BY <2>1, <2>5, <2>6 DEF Replace
  <2>8. ~Failed(Get(w, q)) /\ ~Failed(Replace(w, q, x)) /\ Replace(w, q, x).root = Put(w, t, x)
    BY <2>2, <2>7, Results
  <2>9. Replaced(w, q, x) = Put(w, t, x)
    BY <1>1, <2>8, ReplaceConforms
  <2>10. Replaced(a, path, x) = x
    BY <1>3 DEF Replaced
  <2>11. QED  BY <2>9, <2>10 DEF q
<1>4. CASE path # <<>>
  <2>. DEFINE r == Removed(a, path)
              u == Put(w, t, r)
  <2>1. Replaced(a, path, x) = AddedIf(TRUE, r, path, x)
    BY <1>4 DEF Replaced
  <2>2. r # NoValue /\ Replaced(a, path, x) = Added(r, path, x)
    BY <2>1 DEF AddedIf
  <2>3. Removed(w, q) = u
    BY <1>4, <2>2, RemovedInner
  <2>4. IsValue(r)
    <3>1. ~Failed(Get(a, path)) /\ ~Failed(RemoveFrom(a, path)) /\ r = RemoveFrom(a, path).root
      BY <1>2, <2>2, RemoveConforms
    <3>2. QED  BY <1>2, <3>1, RemoveUndone
  <2>. HIDE DEF r
  <2>5. /\ IsValue(u) /\ ResolveError(u, t) = "none" /\ Child(u, t) = r
        /\ \A y : Put(u, t, y) = Put(w, t, y)
    BY <2>4, PutThere
  <2>. HIDE DEF u
  <2>6. Added(u, q, x) = Put(u, t, Added(r, path, x))
    BY <1>4, <2>2, <2>5, AddedInner
  <2>7. Replaced(w, q, x) = AddedIf(TRUE, u, q, x)
    BY <1>1, <2>3 DEF Replaced
  <2>8. AddedIf(TRUE, u, q, x) = Added(u, q, x)
    BY <2>5, NoValueIsNone DEF AddedIf
  <2>9. QED  BY <2>2, <2>5, <2>6, <2>7, <2>8
<1>5. QED  BY <1>3, <1>4

Moved(t, o) == [o EXCEPT !.path = <<t>> \o @]

LEMMA AppliedInner ==
    ASSUME NEW w, IsValue(w), NEW t \in STRING, ResolveError(w, t) = "none",
           NEW o \in DiffOps, IsValue(Performed(Child(w, t), o))
    PROVE  /\ Moved(t, o) \in DiffOps
           /\ Performed(w, Moved(t, o)) = Put(w, t, Performed(Child(w, t), o))
<1>. DEFINE a == Child(w, t)
            b == Performed(a, o)
            moved == Moved(t, o)
<1>1. IsValue(a)
  BY PartIsValue
<1>2. b # NoValue
  BY NoValueIsNone
<1>3. ASSUME NEW p \in Seq(STRING) \ {<<>>}, NEW x \in Parts, o = AddOf(p, x)
      PROVE  moved \in DiffOps /\ Performed(w, moved) = Put(w, t, b)
  <2>. DEFINE q == <<t>> \o p
  <2>1. moved = AddOf(q, x)
    BY <1>3, DiffMoved DEF Moved
  <2>2. q \in Seq(STRING) \ {<<>>} /\ IsValue(x)
    BY LongerPath, PartsAreValues
  <2>3. b = Added(a, p, x) /\ Performed(w, AddOf(q, x)) = Added(w, q, x)
    BY <1>1, <1>3, <2>2, DiffApplied
  <2>. HIDE DEF b
  <2>4. Added(w, q, x) = Put(w, t, b)
    BY <1>2, <2>3, AddedInner
  <2>. HIDE DEF q, moved
  <2>5. moved \in DiffOps
    BY <2>1, <2>2 DEF DiffOps
  <2>6. QED  BY <2>1, <2>3, <2>4, <2>5
<1>4. ASSUME NEW p \in Seq(STRING) \ {<<>>}, o = RemoveOf(p)
      PROVE  moved \in DiffOps /\ Performed(w, moved) = Put(w, t, b)
  <2>. DEFINE q == <<t>> \o p
  <2>1. moved = RemoveOf(q)
    BY <1>4, DiffMoved DEF Moved
  <2>2. q \in Seq(STRING) \ {<<>>}
    BY LongerPath
  <2>3. b = Removed(a, p) /\ Performed(w, RemoveOf(q)) = Removed(w, q)
    <3>1. IsValue(Atom(""))
      BY AtomIsValue
    <3>2. QED  BY <1>1, <1>4, <3>1, DiffApplied
  <2>. HIDE DEF b
  <2>4. Removed(w, q) = Put(w, t, b)
    BY <1>2, <2>3, RemovedInner
  <2>. HIDE DEF q, moved
  <2>5. moved \in DiffOps
    BY <2>1, <2>2 DEF DiffOps
  <2>6. QED  BY <2>1, <2>3, <2>4, <2>5
<1>5. ASSUME NEW p \in Seq(STRING), NEW x \in Parts, o = ReplaceOf(p, x)
      PROVE  moved \in DiffOps /\ Performed(w, moved) = Put(w, t, b)
  <2>. DEFINE q == <<t>> \o p
  <2>1. moved = ReplaceOf(q, x)
    BY <1>5, DiffMoved DEF Moved
  <2>2. q \in Seq(STRING) /\ IsValue(x)
    BY LongerPath, PartsAreValues
  <2>3. b = Replaced(a, p, x) /\ Performed(w, ReplaceOf(q, x)) = Replaced(w, q, x)
    BY <1>1, <1>5, <2>2, DiffApplied
  <2>. HIDE DEF b
  <2>4. Replaced(w, q, x) = Put(w, t, b)
    BY <1>2, <2>2, <2>3, ReplacedInner
  <2>. HIDE DEF q, moved
  <2>5. moved \in DiffOps
    BY <2>1, <2>2 DEF DiffOps
  <2>6. QED  BY <2>1, <2>3, <2>4, <2>5
<1>. HIDE DEF moved, b
<1>6. moved \in DiffOps /\ Performed(w, moved) = Put(w, t, b)
  BY <1>3, <1>4, <1>5 DEF DiffOps
<1>7. QED  BY <1>6 DEF moved, b

\* If a patch leads from a part of v to b, it leads, as a patch of v, to v with b in
\* the place of the part.
LEMMA LeadsIn ==
    ASSUME NEW v, IsValue(v), NEW t \in STRING, ResolveError(v, t) = "none",
           NEW ops \in Seq(DiffOps), NEW b, Leads(ops, Child(v, t), b)
    PROVE  In(t, ops) \in Seq(DiffOps) /\ Leads(In(t, ops), v, Put(v, t, b))
<1>. DEFINE n == Len(ops)
            moved(o) == Moved(t, o)
            longer == In(t, ops)
<1>1. n \in Nat /\ DOMAIN ops = 1 .. n /\ \A i \in 1 .. n : ops[i] \in DiffOps
  BY LenProperties
<1>2. PICK h : /\ h[0] = Child(v, t) /\ h[n] = b
               /\ \A i \in 0 .. n : IsValue(h[i])
               /\ \A i \in 1 .. n : h[i] = Performed(h[i - 1], ops[i])
  BY DEF Leads
<1>. HIDE DEF n
<1>3. ASSUME NEW i \in 1 .. n
      PROVE  moved(ops[i]) \in DiffOps /\ Performed(Put(v, t, h[i - 1]), moved(ops[i])) = Put(v, t, h[i])
  <2>. DEFINE w == Put(v, t, h[i - 1])
              o == ops[i]
  <2>1. i - 1 \in 0 .. n /\ i \in 0 .. n /\ o \in DiffOps
    BY <1>1
  <2>2. IsValue(h[i - 1]) /\ IsValue(h[i]) /\ h[i] = Performed(h[i - 1], o)
    BY <1>2, <2>1
  <2>3. /\ IsValue(w) /\ ResolveError(w, t) = "none" /\ Child(w, t) = h[i - 1]
        /\ \A y : Put(w, t, y) = Put(v, t, y)
    BY <2>2, PutThere
  <2>. HIDE DEF w, o
  <2>4. moved(o) \in DiffOps /\ Performed(w, moved(o)) = Put(w, t, Performed(Child(w, t), o))
    BY <2>1, <2>2, <2>3, AppliedInner
  <2>. HIDE DEF moved
  <2>5. moved(o) \in DiffOps /\ Performed(w, moved(o)) = Put(v, t, h[i])
    BY <2>2, <2>3, <2>4
  <2>6. QED  BY <2>5 DEF w, o
<1>4. longer = [i \in 1 .. n |-> moved(ops[i])]
  BY <1>1 DEF In, Moved
<1>. HIDE DEF moved, longer
<1>5. /\ longer \in Seq(DiffOps) /\ Len(longer) = n
      /\ \A i \in 1 .. n : longer[i] = moved(ops[i])
  <2>1. longer \in [1 .. n -> DiffOps]
    BY <1>3, <1>4
  <2>2. longer \in Seq(DiffOps) /\ Len(longer) = n
    BY <1>1, <2>1
  <2>3. QED  BY <1>4, <2>2
<1>. DEFINE g == [i \in 0 .. n |-> Put(v, t, h[i])]
<1>6. \A i \in 0 .. n : g[i] = Put(v, t, h[i])
  OBVIOUS
<1>. HIDE DEF g
<1>7. g[0] = v /\ g[n] = Put(v, t, b)
  <2>1. 0 \in 0 .. n /\ n \in 0 .. n
    BY <1>1
  <2>2. Put(v, t, Child(v, t)) = v
    BY <1>2, <2>1, PutThere
  <2>3. QED  BY <1>2, <1>6, <2>1, <2>2
<1>8. \A i \in 0 .. n : IsValue(g[i])
  BY <1>2, <1>6, PutThere
<1>9. \A i \in 1 .. n : g[i] = Performed(g[i - 1], longer[i])
  <2>1. \A i \in 1 .. n : i \in 0 .. n /\ i - 1 \in 0 .. n
    BY <1>1
  <2>2. \A i \in 1 .. n : g[i - 1] = Put(v, t, h[i - 1]) /\ g[i] = Put(v, t, h[i])
    BY <1>6, <2>1
  <2>3. QED  BY <1>3, <1>5, <2>2
<1>10. Leads(longer, v, Put(v, t, b))
  BY <1>5, <1>7, <1>8, <1>9 DEF Leads
<1>11. QED  BY <1>5, <1>10 DEF longer

\* Patches that lead on from each other, one after the other.
LEMMA LeadsFlatten ==
    ASSUME NEW c \in Seq(Seq(DiffOps)), NEW h, \A i \in 0 .. Len(c) : IsValue(h[i]),
           \A i \in 1 .. Len(c) : Leads(c[i], h[i - 1], h[i])
    PROVE  FlattenSeq(c) \in Seq(DiffOps) /\ Leads(FlattenSeq(c), h[0], h[Len(c)])
<1>. DEFINE n == Len(c)
<1>1. n \in Nat /\ \A i \in 1 .. n : c[i] \in Seq(DiffOps)
  BY LenProperties
<1>2. CASE c = <<>>
  <2>1. FlattenSeq(c) = <<>> /\ n = 0
    BY <1>2, FlattenDef
  <2>2. <<>> \in Seq(DiffOps) /\ IsValue(h[0])
    BY <2>1
  <2>3. QED  BY <2>1, <2>2, LeadsNowhere
<1>3. CASE c # <<>>
  <2>1. PICK f : /\ f[1] = c[1] /\ FlattenSeq(c) = f[n]
                 /\ \A i \in 2 .. n : f[i] = f[i - 1] \o c[i]
    BY <1>3, FlattenDef
  <2>2. n # 0
    BY <1>3, EmptySeq
  <2>3. \A i \in 1 .. n : Leads(c[i], h[i - 1], h[i])
    OBVIOUS
  <2>. HIDE DEF n
  <2>. DEFINE S == {i \in Nat : i + 1 <= n => f[i + 1] \in Seq(DiffOps) /\ Leads(f[i + 1], h[0], h[i + 1])}
  <2>4. 0 \in S
    <3>1. 1 \in 1 .. n /\ 1 - 1 = 0 /\ 0 + 1 = 1
      BY <1>1, <2>2
    <3>2. f[1] \in Seq(DiffOps) /\ Leads(f[1], h[0], h[1])
      BY <1>1, <2>1, <2>3, <3>1
    <3>3. QED  BY <3>1, <3>2
  <2>5. ASSUME NEW i \in Nat, i \in S PROVE i + 1 \in S
    <3>1. CASE i + 2 <= n
      <4>1. i + 1 <= n /\ i + 2 \in 2 .. n /\ i + 2 \in 1 .. n /\ i + 2 - 1 = i + 1 /\ i + 1 + 1 = i + 2
        BY <1>1, <3>1
      <4>2. f[i + 1] \in Seq(DiffOps) /\ Leads(f[i + 1], h[0], h[i + 1])
        BY <2>5, <4>1
      <4>. HIDE DEF S
      <4>3. f[i + 2] = f[i + 1] \o c[i + 2]
        <5>. DEFINE j == i + 2
        <5>1. j \in 2 .. n /\ j - 1 = i + 1
          BY <4>1
        <5>. HIDE DEF j
        <5>2. f[j] = f[i + 1] \o c[j]
          BY <2>1, <5>1
        <5>3. QED  BY <5>2 DEF j
      <4>4. c[i + 2] \in Seq(DiffOps) /\ Leads(c[i + 2], h[i + 1], h[i + 2])
        BY <1>1, <2>3, <4>1
      <4>5. f[i + 1] \o c[i + 2] \in Seq(DiffOps)
        BY <4>2, <4>4, ConcatProperties
      <4>6. Leads(f[i + 1] \o c[i + 2], h[0], h[i + 2])
        BY <4>2, <4>4, LeadsOn
      <4>7. f[i + 1 + 1] \in Seq(DiffOps) /\ Leads(f[i + 1 + 1], h[0], h[i + 1 + 1])
        BY <4>1, <4>3, <4>5, <4>6
      <4>8. QED  BY <4>7 DEF S
    <3>2. CASE ~(i + 2 <= n)
      BY <1>1, <3>2
    <3>3. QED  BY <3>1, <3>2
  <2>6. Nat \subseteq S
    <3>. HIDE DEF S
    <3>1. QED  BY <2>4, <2>5, Induct
  <2>7. f[n] \in Seq(DiffOps) /\ Leads(f[n], h[0], h[n])
    <3>. DEFINE i == n - 1
    <3>1. i \in Nat /\ i + 1 = n /\ i + 1 <= n
      BY <1>1, <2>2
    <3>. HIDE DEF i
    <3>2. i \in S
      BY <2>6, <3>1
    <3>3. QED  BY <3>1, <3>2
  <2>8. QED  BY <2>1, <2>7 DEF n
<1>4. QED  BY <1>2, <1>3

------------------------------------------------------------------------------
\* The operations that from_diff makes, one by one

LEMMA OneToken ==
    ASSUME NEW t \in STRING
    PROVE  /\ <<t>> \in Seq(STRING) /\ <<t>> # <<>> /\ Len(<<t>>) = 1 /\ <<t>>[1] = t
           /\ Front(<<t>>) = <<>> /\ Last(<<t>>) = t
<1>. DEFINE p == <<t>>
<1>1. p \in Seq(STRING) /\ Len(p) = 1 /\ p[1] = t
  BY OneElement
<1>2. p # <<>>
  OBVIOUS
<1>. HIDE DEF p
<1>3. Front(p) \in Seq(STRING) /\ Len(Front(p)) = 0 /\ Last(p) = t
  <2>1. Front(p) \in Seq(STRING) /\ Len(Front(p)) = Len(p) - 1 /\ Last(p) = p[Len(p)]
    BY <1>1, <1>2, FrontLast
  <2>2. Len(p) = 1 /\ p[1] = t
    BY <1>1
  <2>3. Last(p) = t
    BY <2>1, <2>2
  <2>4. Len(Front(p)) = 0
    BY <2>1, <2>2
  <2>5. QED  BY <2>1, <2>3, <2>4
<1>4. Front(p) = <<>>
  BY <1>3, EmptySeq
<1>5. QED  BY <1>1, <1>2, <1>3, <1>4 DEF p

LEMMA PartsFirst ==
    ASSUME NEW v, NEW path \in Seq(STRING)
    PROVE  PartsAlong(v, path)[0] = v
BY PartsAlongAt

LEMMA ValueAtRoot ==
    ASSUME NEW v, NEW path \in Seq(STRING), path = <<>>
    PROVE  ValueAt(v, path) = v
<1>1. Len(path) = 0
  OBVIOUS
<1>2. PartsAlong(v, path)[0] = v
  BY PartsFirst
<1>3. QED  BY <1>1, <1>2 DEF ValueAt

LEMMA AddedOne ==
    ASSUME NEW v, NEW t \in STRING, NEW x
    PROVE  Added(v, <<t>>, x) = PartAdded(v, t, x)
<1>. DEFINE p == <<t>>
            root == <<>>
<1>1. p # root /\ Front(p) = root /\ Last(p) = t
  BY OneToken
<1>2. root \in Seq(STRING) /\ root = <<>>
  OBVIOUS
<1>. HIDE DEF p, root
<1>3. ValueAt(v, root) = v /\ \A y : Assigned(v, root, y) = y
  BY <1>2, ValueAtRoot, AssignedRoot
<1>4. Added(v, p, x) = Having(v, root, PartAdded(v, t, x))
  BY <1>1, <1>2, <1>3 DEF Added
<1>5. \A y : Having(v, root, y) = y
  BY <1>3 DEF Having
<1>6. Added(v, p, x) = PartAdded(v, t, x)
  BY <1>4, <1>5
<1>7. QED  BY <1>6 DEF p

LEMMA RemovedOne ==
    ASSUME NEW v, IsValue(v), NEW t \in STRING, ResolveError(v, t) = "none"
    PROVE  Removed(v, <<t>>) = IF IsObject(v) THEN Without(v, t) ELSE Array(RemoveAt(v.items, Index(t) + 1))
<1>. DEFINE p == <<t>>
            root == <<>>
            u == IF IsObject(v) THEN Without(v, t) ELSE Array(RemoveAt(v.items, Index(t) + 1))
<1>1. p \in Seq(STRING) /\ p # root /\ Front(p) = root /\ Last(p) = t /\ Len(p) = 1 /\ p[1] = t
  BY OneToken
<1>2. root \in Seq(STRING) /\ root = <<>>
  OBVIOUS
<1>. HIDE DEF p, root
<1>3. ValueAt(v, root) = v /\ \A y : Assigned(v, root, y) = y
  BY <1>2, ValueAtRoot, AssignedRoot
<1>4. ValueAt(v, p) # NoValue
  <2>1. /\ PartsAlong(v, p)[0] = v
        /\ \A i \in 1 .. Len(p) : PartsAlong(v, p)[i] = Part(PartsAlong(v, p)[i - 1], p[i])
    BY <1>1, PartsAlongAt, ZenonT(60)
  <2>2. 1 \in 1 .. Len(p) /\ 1 - 1 = 0
    BY <1>1
  <2>3. PartsAlong(v, p)[1] = Part(v, t)
    BY <1>1, <2>1, <2>2
  <2>4. ValueAt(v, p) = Child(v, t)
    BY <1>1, <2>3, PartOf DEF ValueAt
  <2>5. QED  BY <2>4, PartIsValue, NoValueIsNone
<1>5. Removed(v, p) = Assigned(v, root, u)
  BY <1>1, <1>2, <1>3, <1>4 DEF Removed
<1>. HIDE DEF u
<1>6. Removed(v, p) = u
  BY <1>3, <1>5
<1>7. QED  BY <1>6 DEF p, u

\* A patch made of single operations.
LEMMA LeadsSteps ==
    ASSUME NEW k \in Nat, NEW ops \in [1 .. k -> DiffOps], NEW h, \A i \in 0 .. k : IsValue(h[i]),
           \A i \in 1 .. k : h[i] = Performed(h[i - 1], ops[i])
    PROVE  ops \in Seq(DiffOps) /\ Leads(ops, h[0], h[k])
<1>1. ops \in Seq(DiffOps) /\ Len(ops) = k
  OBVIOUS
<1>2. QED  BY <1>1 DEF Leads

LEMMA Removes ==
    ASSUME NEW v, IsValue(v), NEW t \in STRING, ResolveError(v, t) = "none"
    PROVE  /\ RemoveOf(<<t>>) \in DiffOps
           /\ Performed(v, RemoveOf(<<t>>)) = IF IsObject(v) THEN Without(v, t)
                                            ELSE Array(RemoveAt(v.items, Index(t) + 1))
<1>. DEFINE p == <<t>>
<1>1. p \in Seq(STRING) \ {<<>>}
  BY OneToken
<1>2. Removed(v, p) = IF IsObject(v) THEN Without(v, t) ELSE Array(RemoveAt(v.items, Index(t) + 1))
  BY RemovedOne
<1>. HIDE DEF p
<1>3. Performed(v, RemoveOf(p)) = Removed(v, p)
  BY AtomIsValue, DiffApplied
<1>4. RemoveOf(p) \in DiffOps
  BY <1>1 DEF DiffOps
<1>5. /\ RemoveOf(p) \in DiffOps
      /\ Performed(v, RemoveOf(p)) = IF IsObject(v) THEN Without(v, t)
                                   ELSE Array(RemoveAt(v.items, Index(t) + 1))
  BY <1>2, <1>3, <1>4
<1>6. QED  BY <1>5 DEF p

LEMMA Adds ==
    ASSUME NEW v, IsValue(v), NEW t \in STRING, NEW x \in Parts
    PROVE  AddOf(<<t>>, x) \in DiffOps /\ Performed(v, AddOf(<<t>>, x)) = PartAdded(v, t, x)
<1>. DEFINE p == <<t>>
<1>1. p \in Seq(STRING) \ {<<>>}
  BY OneToken
<1>2. Added(v, p, x) = PartAdded(v, t, x)
  BY AddedOne
<1>. HIDE DEF p
<1>3. Performed(v, AddOf(p, x)) = Added(v, p, x)
  BY PartsAreValues, DiffApplied
<1>4. AddOf(p, x) \in DiffOps
  BY <1>1 DEF DiffOps
<1>5. AddOf(p, x) \in DiffOps /\ Performed(v, AddOf(p, x)) = PartAdded(v, t, x)
  BY <1>2, <1>3, <1>4
<1>6. QED  BY <1>5 DEF p

LEMMA Replaces ==
    ASSUME NEW v, IsValue(v), NEW x \in Parts
    PROVE  <<ReplaceOf(<<>>, x)>> \in Seq(DiffOps) /\ Leads(<<ReplaceOf(<<>>, x)>>, v, x)
<1>. DEFINE o == ReplaceOf(<<>>, x)
<1>1. o \in DiffOps
  <2>. DEFINE root == <<>>
  <2>1. root \in Seq(STRING)
    OBVIOUS
  <2>. HIDE DEF root
  <2>2. ReplaceOf(root, x) \in DiffOps
    BY <2>1 DEF DiffOps
  <2>3. QED  BY <2>2 DEF root
<1>2. IsValue(x)
  BY PartsAreValues
<1>3. Performed(v, o) = x
  <2>1. Performed(v, o) = Replaced(v, <<>>, x)
    BY <1>2, DiffApplied
  <2>2. QED  BY <2>1 DEF Replaced
<1>. HIDE DEF o
<1>4. <<o>> \in Seq(DiffOps) /\ Leads(<<o>>, v, x)
  BY <1>1, <1>2, <1>3, OneElement, LeadsOne
<1>5. QED  BY <1>4 DEF o

------------------------------------------------------------------------------
\* The difference of two arrays

LEMMA NumeralDenotes ==
    ASSUME NEW n \in Nat, n < Len(Numerals)
    PROVE  IsNumeral(Numeral(n)) /\ Index(Numeral(n)) = n /\ Numeral(n) \in STRING /\ Numeral(n) # Dash
<1>1. Numerals \in Seq(STRING) /\ IsInjective(Numerals)
  BY TokensAssumption
<1>2. DOMAIN Numerals = 1 .. Len(Numerals) /\ Len(Numerals) \in Nat
  BY <1>1, LenProperties
<1>3. n + 1 \in DOMAIN Numerals /\ Numeral(n) = Numerals[n + 1]
  BY <1>2 DEF Numeral
<1>. DEFINE i == CHOOSE i \in DOMAIN Numerals : Numerals[i] = Numerals[n + 1]
<1>4. i \in DOMAIN Numerals /\ Numerals[i] = Numerals[n + 1]
  BY <1>3
<1>5. Index(Numeral(n)) = i - 1
  BY <1>3 DEF Index
<1>. HIDE DEF i
<1>6. i = n + 1
  BY <1>1, <1>3, <1>4 DEF IsInjective
<1>7. IsNumeral(Numeral(n))
  BY <1>3 DEF IsNumeral
<1>8. QED  BY <1>5, <1>6, <1>7, NumeralIsString

\* The elements of an array are where their numerals say.
LEMMA ElementAt ==
    ASSUME NEW q \in Seq(Parts), NEW i \in 1 .. Len(q), Len(q) <= Len(Numerals)
    PROVE  LET v == Array(q)
               t == Numeral(i - 1)
           IN  /\ IsValue(v) /\ t \in STRING /\ Index(t) + 1 = i
               /\ ResolveError(v, t) = "none" /\ Child(v, t) = q[i]
               /\ \A x : Put(v, t, x) = Array([q EXCEPT ![i] = x])
<1>. DEFINE v == Array(q)
            t == Numeral(i - 1)
<1>1. Len(q) \in Nat /\ Len(Numerals) \in Nat
  BY TokensAssumption, LenProperties
<1>2. i - 1 \in Nat /\ i - 1 < Len(Numerals)
  BY <1>1
<1>3. IsNumeral(t) /\ Index(t) = i - 1 /\ t \in STRING
  BY <1>2, NumeralDenotes
<1>4. Index(t) + 1 = i
  BY <1>2, <1>3
<1>5. IsValue(v)
  BY PartsAreValues, ArrayIsValue
<1>6. IsArray(v) /\ ~IsObject(v) /\ v.items = q
  BY ArrayFields
<1>. HIDE DEF v, t
<1>7. Child(v, t) = q[i]
  BY <1>4, <1>6 DEF Child
<1>8. ResolveError(v, t) = "none"
  BY <1>3, <1>4, <1>5, <1>6, <1>7, Resolved
<1>9. \A x : Put(v, t, x) = Array([q EXCEPT ![i] = x])
  BY <1>4, <1>6 DEF Put
<1>10. QED  BY <1>3, <1>4, <1>5, <1>7, <1>8, <1>9 DEF v, t

\* One element more at the end.
LEMMA ElementAdded ==
    ASSUME NEW q \in Seq(Parts), Len(q) < Len(Numerals), NEW x \in Parts
    PROVE  PartAdded(Array(q), Numeral(Len(q)), x) = Array(InsertAt(q, Len(q) + 1, x))
<1>. DEFINE v == Array(q)
            t == Numeral(Len(q))
<1>1. Len(q) \in Nat
  BY LenProperties
<1>2. IsNumeral(t) /\ Index(t) = Len(q) /\ t # Dash
  BY <1>1, NumeralDenotes
<1>3. IsArray(v) /\ ~IsObject(v) /\ v.items = q
  BY ArrayFields
<1>. HIDE DEF v, t
<1>4. PartAdded(v, t, x) = Array(InsertAt(q, Len(q) + 1, x))
  BY <1>1, <1>2, <1>3 DEF PartAdded
<1>5. QED  BY <1>4 DEF v, t

\* l elements: the first i of them from b, the others from a.
Mix(a, b, i, l) == [j \in 1 .. l |-> IF j <= i THEN b[j] ELSE a[j]]

LEMMA MixElements ==
    ASSUME NEW a \in Seq(Parts), NEW b \in Seq(Parts),
           NEW i \in Nat, i <= Len(b), NEW l \in Nat, l <= Len(a) \/ l <= i
    PROVE  /\ Mix(a, b, i, l) \in Seq(Parts) /\ Len(Mix(a, b, i, l)) = l
           /\ \A j \in 1 .. l : Mix(a, b, i, l)[j] = IF j <= i THEN b[j] ELSE a[j]
           /\ IsValue(Array(Mix(a, b, i, l)))
<1>. DEFINE q == Mix(a, b, i, l)
<1>1. /\ Len(a) \in Nat /\ \A j \in 1 .. Len(a) : a[j] \in Parts
      /\ Len(b) \in Nat /\ \A j \in 1 .. Len(b) : b[j] \in Parts
  BY LenProperties
<1>2. \A j \in 1 .. l : q[j] = IF j <= i THEN b[j] ELSE a[j]
  BY DEF Mix
<1>3. q \in [1 .. l -> Parts]
  <2>1. ASSUME NEW j \in 1 .. l PROVE (IF j <= i THEN b[j] ELSE a[j]) \in Parts
    <3>1. CASE j <= i
      BY <1>1, <3>1
    <3>2. CASE ~(j <= i)
      <4>1. j \in 1 .. Len(a)
        BY <1>1, <3>2
      <4>2. QED  BY <1>1, <3>2, <4>1
    <3>3. QED  BY <3>1, <3>2
  <2>2. QED  BY <2>1 DEF Mix
<1>. HIDE DEF q
<1>4. q \in Seq(Parts) /\ Len(q) = l
  BY <1>3
<1>5. IsValue(Array(q))
  BY <1>4, PartsAreValues, ArrayIsValue
<1>6. QED  BY <1>2, <1>4, <1>5 DEF q

\* In the order of their places, the elements of a are changed into those of b.
LEMMA ElementsChanged ==
    ASSUME NEW U, U \subseteq Parts, NEW diff,
           \A x \in U, y \in Parts : diff[x][y] \in Seq(DiffOps) /\ Leads(diff[x][y], x, y),
           NEW a \in Seq(U), NEW b \in Seq(Parts), NEW c \in Nat, c <= Len(a), c <= Len(b),
           Len(a) <= Len(Numerals)
    PROVE  LET ops == FlattenSeq([i \in 1 .. c |-> In(Numeral(i - 1), diff[a[i]][b[i]])]) IN
           ops \in Seq(DiffOps) /\ Leads(ops, Array(Mix(a, b, 0, Len(a))), Array(Mix(a, b, c, Len(a))))
<1>. DEFINE n == Len(a)
            chunk(i) == In(Numeral(i - 1), diff[a[i]][b[i]])
            chunks == [i \in 1 .. c |-> chunk(i)]
            h == [i \in 0 .. c |-> Array(Mix(a, b, i, n))]
<1>1. /\ n \in Nat /\ \A i \in 1 .. n : a[i] \in U
      /\ Len(b) \in Nat /\ \A i \in 1 .. Len(b) : b[i] \in Parts
  BY LenProperties
<1>2. a \in Seq(Parts)
  BY SeqMonotonic
<1>3. \A i \in 0 .. c : h[i] = Array(Mix(a, b, i, n))
  OBVIOUS
<1>. HIDE DEF h
<1>4. \A i \in 0 .. c : IsValue(h[i])
  <2>. SUFFICES ASSUME NEW i \in 0 .. c PROVE IsValue(h[i])
    OBVIOUS
  <2>1. i \in Nat /\ i <= Len(b) /\ n \in Nat /\ n <= Len(a)
    BY <1>1
  <2>2. IsValue(Array(Mix(a, b, i, n)))
    BY <1>2, <2>1, MixElements
  <2>3. QED  BY <1>3, <2>2
<1>45. \A i \in 0 .. c : Mix(a, b, i, n) \in Seq(Parts) /\ Len(Mix(a, b, i, n)) = n
  <2>. SUFFICES ASSUME NEW i \in 0 .. c PROVE Mix(a, b, i, n) \in Seq(Parts) /\ Len(Mix(a, b, i, n)) = n
    OBVIOUS
  <2>1. i \in Nat /\ i <= Len(b) /\ n \in Nat /\ n <= Len(a)
    BY <1>1
  <2>. HIDE DEF n
  <2>2. Mix(a, b, i, n) \in Seq(Parts)
    BY <1>2, <2>1, MixElements
  <2>3. Len(Mix(a, b, i, n)) = n
    BY <1>2, <2>1, MixElements
  <2>4. QED  BY <2>2, <2>3
<1>5. ASSUME NEW i \in 1 .. c
      PROVE  chunk(i) \in Seq(DiffOps) /\ Leads(chunk(i), h[i - 1], h[i])
  <2>. DEFINE j0 == i - 1
              q == Mix(a, b, j0, n)
              r == Mix(a, b, i, n)
              t == Numeral(i - 1)
              v == Array(q)
  <2>1. /\ i \in 1 .. n /\ i \in 1 .. Len(b) /\ i \in Nat /\ i <= Len(b)
        /\ j0 \in Nat /\ j0 <= Len(b) /\ i \in 0 .. c /\ j0 \in 0 .. c /\ ~(i <= j0) /\ j0 = i - 1
        /\ n \in Nat /\ n <= Len(a)
    BY <1>1
  <2>. HIDE DEF j0
  <2>2. /\ q \in Seq(Parts) /\ Len(q) = n
        /\ \A j \in 1 .. n : q[j] = IF j <= j0 THEN b[j] ELSE a[j]
    <3>1. q \in Seq(Parts) /\ Len(q) = n
      BY <1>45, <2>1
    <3>2. \A j \in 1 .. n : q[j] = IF j <= j0 THEN b[j] ELSE a[j]
      BY DEF Mix
    <3>. HIDE DEF q, r
    <3>3. QED  BY <3>1, <3>2
  <2>3. /\ r \in Seq(Parts) /\ Len(r) = n
        /\ \A j \in 1 .. n : r[j] = IF j <= i THEN b[j] ELSE a[j]
    <3>1. r \in Seq(Parts) /\ Len(r) = n
      BY <1>45, <2>1
    <3>2. \A j \in 1 .. n : r[j] = IF j <= i THEN b[j] ELSE a[j]
      BY DEF Mix
    <3>. HIDE DEF q, r
    <3>3. QED  BY <3>1, <3>2
  <2>4. q[i] = a[i] /\ a[i] \in U /\ b[i] \in Parts
    BY <1>1, <2>1, <2>2
  <2>. HIDE DEF q, r
  <2>5. /\ IsValue(v) /\ t \in STRING
        /\ ResolveError(v, t) = "none" /\ Child(v, t) = q[i]
        /\ Put(v, t, b[i]) = Array([q EXCEPT ![i] = b[i]])
    BY <2>1, <2>2, ElementAt
  <2>6. [q EXCEPT ![i] = b[i]] = r
    <3>. DEFINE e == [q EXCEPT ![i] = b[i]]
    <3>1. e \in Seq(Parts) /\ Len(e) = n
      BY <2>1, <2>2, <2>4, ExceptSeq
    <3>2. \A j \in 1 .. n : e[j] = IF j = i THEN b[i] ELSE q[j]
      BY <2>2
    <3>. HIDE DEF e
    <3>3. \A j \in 1 .. n : e[j] = r[j]
      <4>. SUFFICES ASSUME NEW j \in 1 .. n PROVE e[j] = r[j]
        OBVIOUS
      <4>1. CASE j = i
        BY <2>3, <3>2, <4>1
      <4>2. CASE j # i
        <5>1. j <= i <=> j <= j0
          BY <2>1, <4>2
        <5>2. QED  BY <2>2, <2>3, <3>2, <4>2, <5>1
      <4>3. QED  BY <4>1, <4>2
    <3>4. e = r
      BY <2>3, <3>1, <3>3, SeqEqual
    <3>5. QED  BY <3>4 DEF e
  <2>. HIDE DEF v, t
  <2>7. diff[a[i]][b[i]] \in Seq(DiffOps) /\ Leads(diff[a[i]][b[i]], Child(v, t), b[i])
    BY <2>4, <2>5
  <2>8. /\ In(t, diff[a[i]][b[i]]) \in Seq(DiffOps)
        /\ Leads(In(t, diff[a[i]][b[i]]), v, Put(v, t, b[i]))
    BY <2>5, <2>7, LeadsIn
  <2>9. v = h[i - 1] /\ Put(v, t, b[i]) = h[i]
    BY <1>3, <2>1, <2>5, <2>6 DEF v, q, r
  <2>10. QED  BY <2>8, <2>9 DEF t
<1>. HIDE DEF chunk
<1>6. /\ chunks \in Seq(Seq(DiffOps)) /\ Len(chunks) = c
      /\ \A i \in 1 .. c : chunks[i] = chunk(i)
  <2>1. chunks \in [1 .. c -> Seq(DiffOps)]
    BY <1>5
  <2>2. QED  BY <2>1
<1>. HIDE DEF chunks
<1>7. \A i \in 1 .. c : Leads(chunks[i], h[i - 1], h[i])
  BY <1>5, <1>6
<1>8. FlattenSeq(chunks) \in Seq(DiffOps) /\ Leads(FlattenSeq(chunks), h[0], h[c])
  BY <1>4, <1>6, <1>7, LeadsFlatten
<1>9. h[0] = Array(Mix(a, b, 0, n)) /\ h[c] = Array(Mix(a, b, c, n))
  BY <1>3
<1>10. QED  BY <1>8, <1>9 DEF chunks, chunk, n

\* The elements of a that b has no place for are removed, the last one first.
LEMMA ElementsRemoved ==
    ASSUME NEW a \in Seq(Parts), NEW b \in Seq(Parts), NEW c \in Nat, c <= Len(a), c <= Len(b),
           Len(a) <= Len(Numerals)
    PROVE  LET ops == [i \in 1 .. Len(a) - c |-> RemoveOf(<<Numeral(RemovalIndex(Len(a), Len(b), i))>>)] IN
           ops \in Seq(DiffOps) /\ Leads(ops, Array(Mix(a, b, c, Len(a))), Array(Mix(a, b, c, c)))
<1>. DEFINE n == Len(a)
            k == n - c
            op(i) == RemoveOf(<<Numeral(RemovalIndex(Len(a), Len(b), i))>>)
            ops == [i \in 1 .. k |-> op(i)]
            h == [i \in 0 .. k |-> Array(Mix(a, b, c, n - i))]
<1>1. n \in Nat /\ Len(b) \in Nat /\ Len(Numerals) \in Nat
  BY TokensAssumption, LenProperties
<1>2. k \in Nat /\ n - 0 = n /\ n - k = c
  BY <1>1
<1>3. \A i \in 0 .. k : h[i] = Array(Mix(a, b, c, n - i))
  OBVIOUS
<1>. HIDE DEF h
<1>4. \A i \in 0 .. k : IsValue(h[i])
  <2>. SUFFICES ASSUME NEW i \in 0 .. k PROVE IsValue(h[i])
    OBVIOUS
  <2>1. n - i \in Nat /\ n - i <= Len(a)
    BY <1>1
  <2>2. QED  BY <1>3, <2>1, MixElements
<1>5. ASSUME NEW i \in 1 .. k
      PROVE  op(i) \in DiffOps /\ h[i] = Performed(h[i - 1], op(i))
  <2>. DEFINE l == n - i + 1
              l0 == l - 1
              q == Mix(a, b, c, l)
              r == Mix(a, b, c, l0)
              t == Numeral(l0)
              v == Array(q)
  <2>1. /\ l \in Nat /\ l <= Len(a) /\ l0 \in Nat /\ l0 <= Len(a) /\ l \in 1 .. l
        /\ l <= Len(Numerals) /\ n - i = l0 /\ n - (i - 1) = l /\ l0 = l - 1 /\ i \in 0 .. k /\ i - 1 \in 0 .. k
    BY <1>1
  <2>2. op(i) = RemoveOf(<<t>>)
    BY <2>1 DEF RemovalIndex, l0
  <2>. HIDE DEF l, l0, op
  <2>3. /\ q \in Seq(Parts) /\ Len(q) = l /\ IsValue(v)
        /\ \A j \in 1 .. l : q[j] = IF j <= c THEN b[j] ELSE a[j]
    <3>1. q \in Seq(Parts) /\ Len(q) = l /\ IsValue(v)
      BY <2>1, MixElements
    <3>2. \A j \in 1 .. l : q[j] = IF j <= c THEN b[j] ELSE a[j]
      BY DEF Mix
    <3>. HIDE DEF q, r
    <3>3. QED  BY <3>1, <3>2
  <2>4. /\ r \in Seq(Parts) /\ Len(r) = l0
        /\ \A j \in 1 .. l0 : r[j] = IF j <= c THEN b[j] ELSE a[j]
    <3>1. r \in Seq(Parts) /\ Len(r) = l0
      BY <2>1, MixElements
    <3>2. \A j \in 1 .. l0 : r[j] = IF j <= c THEN b[j] ELSE a[j]
      BY DEF Mix
    <3>. HIDE DEF q, r
    <3>3. QED  BY <3>1, <3>2
  <2>. HIDE DEF q, r
  <2>5. t \in STRING /\ Index(t) + 1 = l /\ ResolveError(v, t) = "none"
    BY <2>1, <2>3, ElementAt
  <2>6. RemoveAt(q, l) = r
    <3>0. l \in 1 .. Len(q) /\ Len(q) = l
      BY <2>1, <2>3
    <3>1. /\ RemoveAt(q, l) \in Seq(Parts) /\ Len(RemoveAt(q, l)) = l0
          /\ \A j \in 1 .. l0 : RemoveAt(q, l)[j] = IF j < l THEN q[j] ELSE q[j + 1]
      <4>1. /\ RemoveAt(q, l) \in Seq(Parts) /\ Len(RemoveAt(q, l)) = Len(q) - 1
            /\ \A j \in 1 .. Len(q) - 1 : RemoveAt(q, l)[j] = IF j < l THEN q[j] ELSE q[j + 1]
        BY <2>3, <3>0, RemoveAtElements
      <4>2. Len(q) - 1 = l0
        BY <2>1, <3>0
      <4>3. QED  BY <4>1, <4>2
    <3>2. \A j \in 1 .. l0 : j < l /\ j \in 1 .. l
      BY <2>1
    <3>3. \A j \in 1 .. l0 : RemoveAt(q, l)[j] = r[j]
      BY <2>3, <2>4, <3>1, <3>2
    <3>4. QED  BY <2>4, <3>1, <3>3, SeqEqual
  <2>7. ~IsObject(v) /\ v.items = q
    BY ArrayFields
  <2>. HIDE DEF v, t
  <2>8. RemoveOf(<<t>>) \in DiffOps /\ Performed(v, RemoveOf(<<t>>)) = Array(r)
    BY <2>3, <2>5, <2>6, <2>7, Removes
  <2>9. h[i - 1] = v /\ h[i] = Array(r)
    BY <1>3, <2>1 DEF v, q, r
  <2>10. QED  BY <2>2, <2>8, <2>9
<1>. HIDE DEF op
<1>6. ops \in [1 .. k -> DiffOps] /\ \A i \in 1 .. k : ops[i] = op(i)
  BY <1>5
<1>. HIDE DEF ops, k
<1>7. \A i \in 1 .. k : h[i] = Performed(h[i - 1], ops[i])
  BY <1>5, <1>6
<1>8. ops \in Seq(DiffOps) /\ Leads(ops, h[0], h[k])
  BY <1>2, <1>4, <1>6, <1>7, LeadsSteps
<1>9. h[0] = Array(Mix(a, b, c, n)) /\ h[k] = Array(Mix(a, b, c, c))
  <2>1. 0 \in 0 .. k /\ k \in 0 .. k
    BY <1>2
  <2>2. QED  BY <1>2, <1>3, <2>1
<1>10. QED  BY <1>8, <1>9 DEF ops, op, n, k

\* The elements of b that a has no place for are added, in their order.
LEMMA ElementsAdded ==
    ASSUME NEW a \in Seq(Parts), NEW b \in Seq(Parts), Len(a) <= Len(b), Len(b) <= Len(Numerals)
    PROVE  LET ops == [i \in 1 .. Len(b) - Len(a) |-> AddOf(<<Numeral(Len(a) + i - 1)>>, b[Len(a) + i])] IN
           /\ ops \in Seq(DiffOps)
           /\ Leads(ops, Array(Mix(a, b, Len(a), Len(a))), Array(Mix(a, b, Len(b), Len(b))))
<1>. DEFINE n == Len(a)
            m == Len(b)
            k == m - n
            op(i) == AddOf(<<Numeral(n + i - 1)>>, b[n + i])
            ops == [i \in 1 .. k |-> op(i)]
            h == [i \in 0 .. k |-> Array(Mix(a, b, n + i, n + i))]
<1>1. n \in Nat /\ m \in Nat /\ Len(Numerals) \in Nat /\ \A i \in 1 .. m : b[i] \in Parts
  BY TokensAssumption, LenProperties
<1>2. k \in Nat /\ n + 0 = n /\ n + k = m
  BY <1>1
<1>3. \A i \in 0 .. k : h[i] = Array(Mix(a, b, n + i, n + i))
  OBVIOUS
<1>. HIDE DEF h
<1>4. \A i \in 0 .. k : IsValue(h[i])
  <2>. SUFFICES ASSUME NEW i \in 0 .. k PROVE IsValue(h[i])
    OBVIOUS
  <2>1. n + i \in Nat /\ n + i <= m /\ n + i <= n + i
    BY <1>1
  <2>2. QED  BY <1>3, <2>1, MixElements
<1>5. ASSUME NEW i \in 1 .. k
      PROVE  op(i) \in DiffOps /\ h[i] = Performed(h[i - 1], op(i))
  <2>. DEFINE l == n + i - 1
              l1 == l + 1
              q == Mix(a, b, l, l)
              r == Mix(a, b, l1, l1)
              t == Numeral(l)
              v == Array(q)
              x == b[l1]
  <2>1. /\ l \in Nat /\ l <= m /\ l <= l /\ l1 \in Nat /\ l1 <= m /\ l1 <= l1
        /\ l < Len(Numerals) /\ n + i = l1 /\ n + (i - 1) = l /\ l1 = l + 1 /\ i \in 0 .. k /\ i - 1 \in 0 .. k
        /\ l1 \in 1 .. m
    BY <1>1
  <2>2. op(i) = AddOf(<<t>>, x)
    BY <2>1
  <2>. HIDE DEF l, l1, op
  <2>3. /\ q \in Seq(Parts) /\ Len(q) = l /\ IsValue(v)
        /\ \A j \in 1 .. l : q[j] = IF j <= l THEN b[j] ELSE a[j]
    <3>1. q \in Seq(Parts) /\ Len(q) = l /\ IsValue(v)
      BY <2>1, MixElements
    <3>2. \A j \in 1 .. l : q[j] = IF j <= l THEN b[j] ELSE a[j]
      BY DEF Mix
    <3>. HIDE DEF q, r
    <3>3. QED  BY <3>1, <3>2
  <2>4. /\ r \in Seq(Parts) /\ Len(r) = l1
        /\ \A j \in 1 .. l1 : r[j] = IF j <= l1 THEN b[j] ELSE a[j]
    <3>1. r \in Seq(Parts) /\ Len(r) = l1
      BY <2>1, MixElements
    <3>2. \A j \in 1 .. l1 : r[j] = IF j <= l1 THEN b[j] ELSE a[j]
      BY DEF Mix
    <3>. HIDE DEF q, r
    <3>3. QED  BY <3>1, <3>2
  <2>. HIDE DEF q, r
  <2>5. x \in Parts /\ t \in STRING
    BY <1>1, <2>1, NumeralDenotes
  <2>6. PartAdded(v, t, x) = Array(InsertAt(q, l1, x))
    <3>1. Len(q) < Len(Numerals) /\ Len(q) + 1 = l1
      BY <2>1, <2>3
    <3>2. PartAdded(v, Numeral(Len(q)), x) = Array(InsertAt(q, Len(q) + 1, x))
      BY <2>3, <2>5, <3>1, ElementAdded
    <3>3. QED  BY <2>3, <3>1, <3>2
  <2>7. InsertAt(q, l1, x) = r
    <3>1. l1 \in 1 .. Len(q) + 1 /\ Len(q) + 1 = l1
      BY <2>1, <2>3
    <3>. HIDE DEF x
    <3>2. /\ InsertAt(q, l1, x) \in Seq(Parts) /\ Len(InsertAt(q, l1, x)) = l1
          /\ \A j \in 1 .. l1 :
                 InsertAt(q, l1, x)[j] = IF j < l1 THEN q[j] ELSE IF j = l1 THEN x ELSE q[j - 1]
      <4>1. /\ InsertAt(q, l1, x) \in Seq(Parts) /\ Len(InsertAt(q, l1, x)) = Len(q) + 1
            /\ \A j \in 1 .. Len(q) + 1 :
                   InsertAt(q, l1, x)[j] = IF j < l1 THEN q[j] ELSE IF j = l1 THEN x ELSE q[j - 1]
        <5>1. q \in Seq(Parts) /\ x \in Parts /\ l1 \in 1 .. Len(q) + 1
          BY <2>3, <2>5, <3>1
        <5>2. InsertAt(q, l1, x) \in Seq(Parts) /\ Len(InsertAt(q, l1, x)) = Len(q) + 1
          BY <5>1, InsertAtElements
        <5>3. \A j \in 1 .. Len(q) + 1 :
                  InsertAt(q, l1, x)[j] = IF j < l1 THEN q[j] ELSE IF j = l1 THEN x ELSE q[j - 1]
          BY <5>1, InsertAtElements
        <5>4. QED  BY <5>2, <5>3
      <4>2. QED  BY <3>1, <4>1
    <3>3. ASSUME NEW j \in 1 .. l1
          PROVE  InsertAt(q, l1, x)[j] = r[j]
      <4>1. CASE j = l1
        <5>1. ~(j < l1) /\ j <= l1
          BY <2>1, <4>1
        <5>2. r[j] = b[j]
          BY <2>4, <5>1
        <5>3. InsertAt(q, l1, x)[j] = x
          BY <3>2, <4>1, <5>1
        <5>4. QED  BY <4>1, <5>2, <5>3 DEF x
      <4>2. CASE j # l1
        <5>1. j < l1 /\ j <= l /\ j \in 1 .. l /\ j <= l1
          BY <2>1, <4>2
        <5>2. r[j] = b[j] /\ q[j] = b[j]
          BY <2>3, <2>4, <5>1
        <5>3. InsertAt(q, l1, x)[j] = q[j]
          BY <3>2, <5>1
        <5>4. QED  BY <5>2, <5>3
      <4>3. QED  BY <4>1, <4>2
    <3>4. QED  BY <2>4, <3>2, <3>3, SeqEqual
  <2>. HIDE DEF v, t, x
  <2>8. AddOf(<<t>>, x) \in DiffOps /\ Performed(v, AddOf(<<t>>, x)) = Array(r)
    BY <2>3, <2>5, <2>6, <2>7, Adds
  <2>9. h[i - 1] = v /\ h[i] = Array(r)
    BY <1>3, <2>1 DEF v, q, r
  <2>10. QED  BY <2>2, <2>8, <2>9
<1>. HIDE DEF op
<1>6. ops \in [1 .. k -> DiffOps] /\ \A i \in 1 .. k : ops[i] = op(i)
  BY <1>5
<1>. HIDE DEF ops, k
<1>7. \A i \in 1 .. k : h[i] = Performed(h[i - 1], ops[i])
  BY <1>5, <1>6
<1>8. ops \in Seq(DiffOps) /\ Leads(ops, h[0], h[k])
  BY <1>2, <1>4, <1>6, <1>7, LeadsSteps
<1>9. h[0] = Array(Mix(a, b, n, n)) /\ h[k] = Array(Mix(a, b, m, m))
  <2>1. 0 \in 0 .. k /\ k \in 0 .. k
    BY <1>2
  <2>2. QED  BY <1>2, <1>3, <2>1
<1>10. QED  BY <1>8, <1>9 DEF ops, op, n, m, k

LEMMA ArrayDifference ==
    ASSUME NEW U, U \subseteq Parts, NEW diff,
           \A x \in U, y \in Parts : diff[x][y] \in Seq(DiffOps) /\ Leads(diff[x][y], x, y),
           NEW s, s = Array(s.items), s.items \in Seq(U), Len(s.items) <= Len(Numerals),
           NEW t, t = Array(t.items), t.items \in Seq(Parts), Len(t.items) <= Len(Numerals),
           s # t
    PROVE  Difference(diff, s, t) \in Seq(DiffOps) /\ Leads(Difference(diff, s, t), s, t)
<1>. DEFINE a == s.items
            b == t.items
            n == Len(a)
            m == Len(b)
            c == IF n < m THEN n ELSE m
            p == FlattenSeq([i \in 1 .. c |-> In(Numeral(i - 1), diff[a[i]][b[i]])])
            q == [i \in 1 .. n - c |-> RemoveOf(<<Numeral(RemovalIndex(n, m, i))>>)]
            r == [i \in 1 .. m - c |-> AddOf(<<Numeral(n + i - 1)>>, b[n + i])]
<1>1. IsArray(s) /\ IsArray(t)
  BY ArrayFields
<1>2. Difference(diff, s, t) = p \o q \o r
  BY <1>1 DEF Difference
<1>3. /\ n \in Nat /\ m \in Nat /\ c \in Nat /\ c <= n /\ c <= m
      /\ n <= Len(Numerals) /\ m <= Len(Numerals)
  <2>1. n \in Nat /\ m \in Nat
    BY LenProperties
  <2>. HIDE DEF n, m
  <2>2. c \in Nat /\ c <= n /\ c <= m
    BY <2>1
  <2>3. n <= Len(Numerals) /\ m <= Len(Numerals)
    BY DEF n, m
  <2>4. QED  BY <2>1, <2>2, <2>3
<1>4. a \in Seq(U) /\ a \in Seq(Parts) /\ b \in Seq(Parts)
  BY SeqMonotonic
<1>5. s = Array(a) /\ t = Array(b)
  OBVIOUS
<1>. HIDE DEF c
<1>. HIDE DEF a, b
<1>6. p \in Seq(DiffOps) /\ Leads(p, Array(Mix(a, b, 0, n)), Array(Mix(a, b, c, n)))
  BY <1>3, <1>4, ElementsChanged
<1>7. q \in Seq(DiffOps) /\ Leads(q, Array(Mix(a, b, c, n)), Array(Mix(a, b, c, c)))
  BY <1>3, <1>4, ElementsRemoved
<1>8. r \in Seq(DiffOps) /\ Leads(r, Array(Mix(a, b, c, c)), Array(Mix(a, b, m, m)))
  <2>1. CASE n <= m
    <3>1. c = n
      <4>. HIDE DEF n, m
      <4>1. QED  BY <1>3, <2>1 DEF c
    <3>2. r = [i \in 1 .. m - n |-> AddOf(<<Numeral(n + i - 1)>>, b[n + i])]
      BY <3>1
    <3>. HIDE DEF r
    <3>3. r \in Seq(DiffOps) /\ Leads(r, Array(Mix(a, b, n, n)), Array(Mix(a, b, m, m)))
      BY <1>3, <1>4, <2>1, <3>2, ElementsAdded
    <3>4. QED  BY <3>1, <3>3
  <2>2. CASE ~(n <= m)
    <3>1. c = m /\ m - c = 0
      <4>. HIDE DEF n, m
      <4>1. QED  BY <1>3, <2>2 DEF c
    <3>2. r = <<>>
      <4>1. 1 .. m - c = {}
        BY <3>1
      <4>2. QED  BY <4>1
    <3>. HIDE DEF r
    <3>3. r \in Seq(DiffOps)
      <4>1. <<>> \in Seq(DiffOps)
        OBVIOUS
      <4>2. QED  BY <3>2, <4>1
    <3>4. IsValue(Array(Mix(a, b, m, m)))
      <4>1. m <= Len(b) /\ m <= m
        BY <1>3
      <4>2. QED  BY <1>3, <1>4, <4>1, MixElements
    <3>5. Leads(r, Array(Mix(a, b, m, m)), Array(Mix(a, b, m, m)))
      BY <3>2, <3>4, LeadsNowhere
    <3>6. QED  BY <3>1, <3>3, <3>5
  <2>3. QED  BY <2>1, <2>2
<1>. HIDE DEF p, q, r
<1>9. p \o q \in Seq(DiffOps) /\ p \o q \o r \in Seq(DiffOps)
  BY <1>6, <1>7, <1>8, ConcatProperties
<1>10. Leads(p \o q, Array(Mix(a, b, 0, n)), Array(Mix(a, b, c, c)))
  BY <1>6, <1>7, LeadsOn
<1>11. Leads(p \o q \o r, Array(Mix(a, b, 0, n)), Array(Mix(a, b, m, m)))
  BY <1>8, <1>9, <1>10, LeadsOn
<1>12. Mix(a, b, 0, n) = a /\ Mix(a, b, m, m) = b
  <2>1. a = [i \in 1 .. n |-> a[i]] /\ b = [i \in 1 .. m |-> b[i]]
    BY <1>4
  <2>2. \A i \in 1 .. n : ~(i <= 0)
    BY <1>3
  <2>3. \A i \in 1 .. m : i <= m
    BY <1>3
  <2>. HIDE DEF n, m
  <2>4. Mix(a, b, 0, n) = [i \in 1 .. n |-> a[i]]
    BY <2>2 DEF Mix
  <2>5. Mix(a, b, m, m) = [i \in 1 .. m |-> b[i]]
    BY <2>3 DEF Mix
  <2>6. QED  BY <2>1, <2>4, <2>5
<1>13. QED  BY <1>2, <1>5, <1>9, <1>11, <1>12

------------------------------------------------------------------------------
\* The difference of two objects

LEMMA KeysDistinct ==
    /\ Len(Keys) \in Nat /\ DOMAIN Keys = 1 .. Len(Keys) /\ \A i \in 1 .. Len(Keys) : Keys[i] \in STRING
    /\ \A i, j \in 1 .. Len(Keys) : Keys[i] = Keys[j] => i = j
<1>1. Keys \in Seq(STRING) /\ IsInjective(Keys)
  BY TokensAssumption
<1>2. Len(Keys) \in Nat /\ DOMAIN Keys = 1 .. Len(Keys) /\ \A i \in 1 .. Len(Keys) : Keys[i] \in STRING
  BY <1>1, LenProperties
<1>3. \A i, j \in 1 .. Len(Keys) : Keys[i] = Keys[j] => i = j
  BY <1>1, <1>2 DEF IsInjective
<1>4. QED  BY <1>2, <1>3

\* One of the first i keys.
KeysUpTo(i) == {Keys[j] : j \in 1 .. i}

LEMMA KeysPassed ==
    /\ KeysUpTo(0) = {}
    /\ \A i \in 1 .. Len(Keys) :
           KeysUpTo(i) = KeysUpTo(i - 1) \cup {Keys[i]} /\ Keys[i] \notin KeysUpTo(i - 1)
<1>1. KeysUpTo(0) = {}
  BY DEF KeysUpTo
<1>2. ASSUME NEW i \in 1 .. Len(Keys)
      PROVE  KeysUpTo(i) = KeysUpTo(i - 1) \cup {Keys[i]} /\ Keys[i] \notin KeysUpTo(i - 1)
  <2>1. \A j : j \in 1 .. i <=> j \in 1 .. i - 1 \/ j = i
    BY KeysDistinct
  <2>2. KeysUpTo(i) = KeysUpTo(i - 1) \cup {Keys[i]}
    BY <2>1 DEF KeysUpTo
  <2>3. Keys[i] \notin KeysUpTo(i - 1)
    <3>. SUFFICES ASSUME NEW j \in 1 .. i - 1, Keys[j] = Keys[i] PROVE FALSE
      BY DEF KeysUpTo
    <3>1. j \in 1 .. Len(Keys) /\ j # i
      BY KeysDistinct
    <3>2. QED  BY <3>1, KeysDistinct
  <2>4. QED  BY <2>2, <2>3
<1>3. QED  BY <1>1, <1>2

\* f gives the members of an object, which are in S.
MembersIn(f, S) == f \in [DOMAIN f -> S]

\* The members h with x for k, and without k.
HavingKey(h, k, x) == [j \in DOMAIN h \cup {k} |-> IF j = k THEN x ELSE h[j]]
Lacking(h, k) == [j \in DOMAIN h \ {k} |-> h[j]]

\* The members of f, those named in P changed into those of g.
Changed(f, g, P) ==
    [j \in {j \in DOMAIN f : j \in P => j \in DOMAIN g} |-> IF j \in P THEN g[j] ELSE f[j]]

\* The members of g, of those that f lacks only the ones named in P.
Grown(f, g, P) == [j \in {j \in DOMAIN g : j \in DOMAIN f \/ j \in P} |-> g[j]]

LEMMA MembersOf ==
    ASSUME NEW f, MembersIn(f, Parts)
    PROVE  /\ IsValue(Object(f)) /\ IsObject(Object(f)) /\ ~IsArray(Object(f)) /\ Object(f).members = f
           /\ \A t \in DOMAIN f : ResolveError(Object(f), t) = "none" /\ Child(Object(f), t) = f[t]
           /\ \A t, x : /\ Put(Object(f), t, x) = Object(HavingKey(f, t, x))
                        /\ With(Object(f), t, x) = Object(HavingKey(f, t, x))
                        /\ Without(Object(f), t) = Object(Lacking(f, t))
<1>. DEFINE v == Object(f)
            D == DOMAIN f
<1>1. IsValue(v)
  BY PartsAreValues, ObjectIsValue DEF MembersIn
<1>2. IsObject(v) /\ ~IsArray(v) /\ v.members = f
  BY ObjectFields
<1>. HIDE DEF v
<1>3. ASSUME NEW t \in D PROVE ResolveError(v, t) = "none" /\ Child(v, t) = f[t]
  <2>1. Child(v, t) = f[t]
    BY <1>2 DEF Child
  <2>2. ResolveError(v, t) = "none"
    BY <1>1, <1>2, <2>1, Resolved
  <2>3. QED  BY <2>1, <2>2
<1>4. \A t, x : With(v, t, x) = Object(HavingKey(f, t, x))
  BY <1>2, Zenon DEF With, HavingKey
<1>5. \A t, x : Put(v, t, x) = With(v, t, x)
  BY <1>2 DEF Put
<1>6. \A t : Without(v, t) = Object(Lacking(f, t))
  BY <1>2, Zenon DEF Without, Lacking
<1>7. QED  BY <1>1, <1>2, <1>3, <1>4, <1>5, <1>6 DEF v

\* h becomes e: the member k, still that of f, becomes that of g.
ChangedAt(f, g, h, e, k) ==
    /\ k \notin DOMAIN f => e = h
    /\ k \in DOMAIN f => k \in DOMAIN h /\ h[k] = f[k]
    /\ k \in DOMAIN f /\ k \in DOMAIN g => e = HavingKey(h, k, g[k])
    /\ k \in DOMAIN f /\ k \notin DOMAIN g => e = Lacking(h, k)

LEMMA ChangedMembers ==
    ASSUME NEW f, NEW g, NEW P, NEW k, k \notin P, NEW Q, Q = P \cup {k}
    PROVE  ChangedAt(f, g, Changed(f, g, P), Changed(f, g, Q), k)
<1>. DEFINE F == DOMAIN f
            G == DOMAIN g
            D == {j \in F : j \in P => j \in G}
            E == {j \in F : j \in Q => j \in G}
            h == Changed(f, g, P)
            e == Changed(f, g, Q)
<1>1. h = [j \in D |-> IF j \in P THEN g[j] ELSE f[j]]
  BY DEF Changed
<1>2. e = [j \in E |-> IF j \in Q THEN g[j] ELSE f[j]]
  BY DEF Changed
<1>. HIDE DEF h, e
<1>3. DOMAIN h = D /\ \A j \in D : h[j] = IF j \in P THEN g[j] ELSE f[j]
  BY <1>1
<1>4. ASSUME k \notin F PROVE e = h
  <2>1. E = D /\ k \notin E
    BY <1>4
  <2>. HIDE DEF D, E
  <2>2. \A j \in E : (IF j \in Q THEN g[j] ELSE f[j]) = IF j \in P THEN g[j] ELSE f[j]
    BY <2>1
  <2>3. QED  BY <1>1, <1>2, <2>1, <2>2
<1>5. ASSUME k \in F PROVE k \in DOMAIN h /\ h[k] = f[k]
  BY <1>3, <1>5
<1>6. ASSUME k \in F, k \in G PROVE e = HavingKey(h, k, g[k])
  <2>1. E = D \cup {k}
    BY <1>6
  <2>. HIDE DEF D, E, F, G
  <2>2. \A j \in E : (IF j \in Q THEN g[j] ELSE f[j]) = IF j = k THEN g[k] ELSE h[j]
    BY <1>3, <2>1
  <2>3. e = [j \in D \cup {k} |-> IF j = k THEN g[k] ELSE h[j]]
    BY <1>2, <2>1, <2>2
  <2>4. QED  BY <1>3, <2>3 DEF HavingKey
<1>7. ASSUME k \in F, k \notin G PROVE e = Lacking(h, k)
  <2>1. E = D \ {k}
    BY <1>7
  <2>. HIDE DEF D, E, F, G
  <2>2. \A j \in E : (IF j \in Q THEN g[j] ELSE f[j]) = h[j]
    BY <1>3, <2>1
  <2>3. e = [j \in D \ {k} |-> h[j]]
    BY <1>2, <2>1, <2>2
  <2>4. QED  BY <1>3, <2>3 DEF Lacking
<1>8. QED  BY <1>4, <1>5, <1>6, <1>7 DEF h, e, ChangedAt

\* h becomes e: the member k of g is added if f lacks it.
GrownAt(f, g, h, e, k) ==
    /\ k \notin DOMAIN g \ DOMAIN f => e = h
    /\ k \in DOMAIN g \ DOMAIN f => e = HavingKey(h, k, g[k])

LEMMA GrownMembers ==
    ASSUME NEW f, NEW g, NEW P, NEW k, k \notin P, NEW Q, Q = P \cup {k}
    PROVE  GrownAt(f, g, Grown(f, g, P), Grown(f, g, Q), k)
<1>. DEFINE F == DOMAIN f
            G == DOMAIN g
            D == {j \in G : j \in F \/ j \in P}
            E == {j \in G : j \in F \/ j \in Q}
            h == Grown(f, g, P)
            e == Grown(f, g, Q)
<1>1. h = [j \in D |-> g[j]] /\ e = [j \in E |-> g[j]]
  BY DEF Grown
<1>. HIDE DEF h, e
<1>2. DOMAIN h = D /\ \A j \in D : h[j] = g[j]
  BY <1>1
<1>3. ASSUME k \notin G \ F PROVE e = h
  <2>1. E = D
    BY <1>3
  <2>. HIDE DEF D, E
  <2>2. QED  BY <1>1, <2>1
<1>4. ASSUME k \in G \ F PROVE e = HavingKey(h, k, g[k])
  <2>1. E = D \cup {k}
    BY <1>4
  <2>. HIDE DEF D, E, F, G
  <2>2. \A j \in E : g[j] = IF j = k THEN g[k] ELSE h[j]
    BY <1>2, <2>1
  <2>3. e = [j \in D \cup {k} |-> IF j = k THEN g[k] ELSE h[j]]
    BY <1>1, <2>1, <2>2
  <2>4. QED  BY <1>2, <2>3 DEF HavingKey
<1>5. QED  BY <1>3, <1>4 DEF h, e, GrownAt

LEMMA ChangedIn ==
    ASSUME NEW f, MembersIn(f, Parts), NEW g, MembersIn(g, Parts), NEW P
    PROVE  MembersIn(Changed(f, g, P), Parts) /\ MembersIn(Grown(f, g, P), Parts)
<1>. DEFINE D == {j \in DOMAIN f : j \in P => j \in DOMAIN g}
            E == {j \in DOMAIN g : j \in DOMAIN f \/ j \in P}
<1>1. Changed(f, g, P) \in [D -> Parts]
  BY DEF Changed, MembersIn
<1>2. Grown(f, g, P) \in [E -> Parts]
  BY DEF Grown, MembersIn
<1>. HIDE DEF D, E
<1>3. QED  BY <1>1, <1>2 DEF MembersIn

LEMMA NoOperation ==
    ASSUME NEW v, IsValue(v), NEW w, w = v
    PROVE  <<>> \in Seq(DiffOps) /\ Leads(<<>>, v, w)
<1>1. <<>> \in Seq(DiffOps)
  OBVIOUS
<1>2. QED  BY <1>1, LeadsNowhere

\* The patch of a member changes that member.
LEMMA MemberChanged ==
    ASSUME NEW U, U \subseteq Parts, NEW diff,
           \A x \in U, y \in Parts : diff[x][y] \in Seq(DiffOps) /\ Leads(diff[x][y], x, y),
           NEW f, MembersIn(f, U), NEW g, MembersIn(g, Parts),
           NEW P, NEW k \in STRING, k \notin P, NEW Q, Q = P \cup {k}
    PROVE  LET ops == MemberPatch(diff, Object(f), Object(g), k) IN
           ops \in Seq(DiffOps) /\ Leads(ops, Object(Changed(f, g, P)), Object(Changed(f, g, Q)))
<1>. DEFINE ops == MemberPatch(diff, Object(f), Object(g), k)
            h == Changed(f, g, P)
            e == Changed(f, g, Q)
            v == Object(h)
            w == Object(e)
<1>1. MembersIn(f, Parts)
  BY DEF MembersIn
<1>2. Object(f).members = f /\ Object(g).members = g
  BY ObjectFields
<1>3. MembersIn(h, Parts) /\ MembersIn(e, Parts)
  BY <1>1, ChangedIn
<1>4. ChangedAt(f, g, h, e, k)
  BY Zenon, ChangedMembers
<1>5. ops = IF k \notin DOMAIN f THEN <<>>
            ELSE IF k \in DOMAIN g THEN In(k, diff[f[k]][g[k]])
            ELSE <<RemoveOf(<<k>>)>>
  BY <1>2 DEF MemberPatch
<1>. HIDE DEF h, e, ops
<1>6. /\ IsValue(v) /\ IsObject(v)
      /\ \A t \in DOMAIN h : ResolveError(v, t) = "none" /\ Child(v, t) = h[t]
      /\ \A t, x : Put(v, t, x) = Object(HavingKey(h, t, x)) /\ Without(v, t) = Object(Lacking(h, t))
  BY <1>3, MembersOf
<1>7. IsValue(w)
  BY <1>3, MembersOf
<1>8. ops \in Seq(DiffOps) /\ Leads(ops, v, w)
  <2>1. CASE k \notin DOMAIN f
    <3>1. ops = <<>> /\ w = v
      BY <1>4, <1>5, <2>1 DEF ChangedAt
    <3>. HIDE DEF v, w
    <3>2. QED  BY <1>6, <3>1, NoOperation
  <2>2. CASE k \in DOMAIN f /\ k \in DOMAIN g
    <3>. HIDE DEF v
    <3>1. k \in DOMAIN h /\ f[k] \in U /\ g[k] \in Parts
      BY <1>4, <2>2 DEF MembersIn, ChangedAt
    <3>2. ResolveError(v, k) = "none" /\ Child(v, k) = f[k]
      BY <1>4, <1>6, <2>2, <3>1 DEF ChangedAt
    <3>3. diff[f[k]][g[k]] \in Seq(DiffOps) /\ Leads(diff[f[k]][g[k]], Child(v, k), g[k])
      BY <3>1, <3>2
    <3>4. /\ In(k, diff[f[k]][g[k]]) \in Seq(DiffOps)
          /\ Leads(In(k, diff[f[k]][g[k]]), v, Put(v, k, g[k]))
      BY <1>6, <3>2, <3>3, LeadsIn
    <3>5. Put(v, k, g[k]) = w
      BY <1>4, <1>6, <2>2 DEF ChangedAt
    <3>6. ops = In(k, diff[f[k]][g[k]])
      BY <1>5, <2>2
    <3>. HIDE DEF w
    <3>7. QED  BY <3>4, <3>5, <3>6
  <2>3. CASE k \in DOMAIN f /\ k \notin DOMAIN g
    <3>. HIDE DEF v
    <3>. DEFINE o == RemoveOf(<<k>>)
    <3>1. ops = <<o>>
      BY <1>5, <2>3
    <3>2. ResolveError(v, k) = "none"
      BY <1>4, <1>6, <2>3 DEF ChangedAt
    <3>3. o \in DiffOps /\ Performed(v, o) = Without(v, k)
      BY <1>6, <3>2, Removes
    <3>4. Without(v, k) = w
      BY <1>4, <1>6, <2>3 DEF ChangedAt
    <3>. HIDE DEF w, o
    <3>5. <<o>> \in Seq(DiffOps) /\ Leads(<<o>>, v, w)
      BY <1>6, <1>7, <3>3, <3>4, OneElement, LeadsOne DEF w
    <3>6. QED  BY <3>1, <3>5
  <2>4. QED  BY <2>1, <2>2, <2>3
<1>9. QED  BY <1>8 DEF ops, v, w, h, e

\* A member that only the second object has is added.
LEMMA MemberAdded ==
    ASSUME NEW f, MembersIn(f, Parts), NEW g, MembersIn(g, Parts),
           NEW P, NEW k \in STRING, k \notin P, NEW Q, Q = P \cup {k}
    PROVE  LET ops == NewMember(Object(f), Object(g), k) IN
           ops \in Seq(DiffOps) /\ Leads(ops, Object(Grown(f, g, P)), Object(Grown(f, g, Q)))
<1>. DEFINE ops == NewMember(Object(f), Object(g), k)
            h == Grown(f, g, P)
            e == Grown(f, g, Q)
            v == Object(h)
            w == Object(e)
<1>1. Object(f).members = f /\ Object(g).members = g
  BY ObjectFields
<1>2. MembersIn(h, Parts) /\ MembersIn(e, Parts)
  BY ChangedIn
<1>3. GrownAt(f, g, h, e, k)
  BY Zenon, GrownMembers
<1>4. ops = IF k \in DOMAIN g \ DOMAIN f THEN <<AddOf(<<k>>, g[k])>> ELSE <<>>
  BY <1>1 DEF NewMember
<1>. HIDE DEF h, e, ops
<1>5. IsValue(v) /\ IsObject(v) /\ \A t, x : With(v, t, x) = Object(HavingKey(h, t, x))
  BY <1>2, MembersOf
<1>6. IsValue(w)
  BY <1>2, MembersOf
<1>7. ops \in Seq(DiffOps) /\ Leads(ops, v, w)
  <2>1. CASE k \notin DOMAIN g \ DOMAIN f
    <3>1. ops = <<>> /\ w = v
      BY <1>3, <1>4, <2>1 DEF GrownAt
    <3>. HIDE DEF v, w
    <3>2. QED  BY <1>5, <3>1, NoOperation
  <2>2. CASE k \in DOMAIN g \ DOMAIN f
    <3>. HIDE DEF v
    <3>. DEFINE x == g[k]
                o == AddOf(<<k>>, x)
    <3>1. ops = <<o>>
      BY <1>4, <2>2
    <3>2. x \in Parts
      BY <2>2 DEF MembersIn
    <3>3. With(v, k, x) = w
      BY <1>3, <1>5, <2>2 DEF GrownAt
    <3>. HIDE DEF x
    <3>4. o \in DiffOps /\ Performed(v, o) = PartAdded(v, k, x)
      BY <1>5, <3>2, Adds
    <3>5. PartAdded(v, k, x) = With(v, k, x)
      BY <1>5 DEF PartAdded
    <3>. HIDE DEF w, o
    <3>6. <<o>> \in Seq(DiffOps) /\ Leads(<<o>>, v, w)
      BY <1>5, <1>6, <3>3, <3>4, <3>5, OneElement, LeadsOne DEF w
    <3>7. QED  BY <3>1, <3>6
  <2>3. QED  BY <2>1, <2>2
<1>8. QED  BY <1>7 DEF ops, v, w, h, e

LEMMA ObjectDifference ==
    ASSUME NEW U, U \subseteq Parts, NEW diff,
           \A x \in U, y \in Parts : diff[x][y] \in Seq(DiffOps) /\ Leads(diff[x][y], x, y),
           NEW f, MembersIn(f, U), NEW g, MembersIn(g, Parts), Object(f) # Object(g),
           DOMAIN f \subseteq KeysUpTo(Len(Keys)), DOMAIN g \subseteq KeysUpTo(Len(Keys))
    PROVE  LET ops == Difference(diff, Object(f), Object(g)) IN
           ops \in Seq(DiffOps) /\ Leads(ops, Object(f), Object(g))
<1>. DEFINE ops == Difference(diff, Object(f), Object(g))
            n == Len(Keys)
            patch1(i) == MemberPatch(diff, Object(f), Object(g), Keys[i])
            patch2(i) == NewMember(Object(f), Object(g), Keys[i])
            p == [i \in 1 .. n |-> patch1(i)]
            q == [i \in 1 .. n |-> patch2(i)]
            h == [i \in 0 .. n |-> Object(Changed(f, g, KeysUpTo(i)))]
            e == [i \in 0 .. n |-> Object(Grown(f, g, KeysUpTo(i)))]
<1>1. MembersIn(f, Parts)
  BY DEF MembersIn
<1>2. IsObject(Object(f)) /\ ~IsArray(Object(f)) /\ IsObject(Object(g))
  BY ObjectFields
<1>3. n \in Nat /\ DOMAIN Keys = 1 .. n /\ \A i \in 1 .. n : Keys[i] \in STRING
  BY KeysDistinct
<1>4. ops = FlattenSeq(p) \o FlattenSeq(q)
  BY <1>2, <1>3 DEF Difference
<1>5. \A i \in 0 .. n : h[i] = Object(Changed(f, g, KeysUpTo(i))) /\ e[i] = Object(Grown(f, g, KeysUpTo(i)))
  OBVIOUS
<1>. HIDE DEF h, e, ops
<1>6. \A i \in 0 .. n : IsValue(h[i]) /\ IsValue(e[i])
  <2>1. ASSUME NEW P PROVE IsValue(Object(Changed(f, g, P))) /\ IsValue(Object(Grown(f, g, P)))
    BY <1>1, ChangedIn, MembersOf
  <2>2. QED  BY <1>5, <2>1
<1>7. ASSUME NEW i \in 1 .. n
      PROVE  /\ patch1(i) \in Seq(DiffOps) /\ Leads(patch1(i), h[i - 1], h[i])
             /\ patch2(i) \in Seq(DiffOps) /\ Leads(patch2(i), e[i - 1], e[i])
  <2>. DEFINE k == Keys[i]
              P == KeysUpTo(i - 1)
              Q == KeysUpTo(i)
  <2>1. i \in 0 .. n /\ i - 1 \in 0 .. n /\ k \in STRING
    BY <1>3
  <2>2. Q = P \cup {k} /\ k \notin P
    BY KeysPassed
  <2>3. h[i - 1] = Object(Changed(f, g, P)) /\ h[i] = Object(Changed(f, g, Q))
    BY <1>5, <2>1, <2>2
  <2>4. e[i - 1] = Object(Grown(f, g, P)) /\ e[i] = Object(Grown(f, g, Q))
    BY <1>5, <2>1, <2>2
  <2>. HIDE DEF k, P, Q
  <2>5. LET r == MemberPatch(diff, Object(f), Object(g), k) IN
        r \in Seq(DiffOps) /\ Leads(r, Object(Changed(f, g, P)), Object(Changed(f, g, Q)))
    BY <2>1, <2>2, MemberChanged
  <2>6. LET r == NewMember(Object(f), Object(g), k) IN
        r \in Seq(DiffOps) /\ Leads(r, Object(Grown(f, g, P)), Object(Grown(f, g, Q)))
    BY <1>1, <2>1, <2>2, MemberAdded
  <2>7. QED  BY <2>3, <2>4, <2>5, <2>6 DEF k
<1>. HIDE DEF patch1, patch2
<1>8. /\ p \in Seq(Seq(DiffOps)) /\ Len(p) = n /\ \A i \in 1 .. n : p[i] = patch1(i)
      /\ q \in Seq(Seq(DiffOps)) /\ Len(q) = n /\ \A i \in 1 .. n : q[i] = patch2(i)
  <2>1. p \in [1 .. n -> Seq(DiffOps)] /\ q \in [1 .. n -> Seq(DiffOps)]
    BY <1>7
  <2>. HIDE DEF n
  <2>2. p \in Seq(Seq(DiffOps)) /\ Len(p) = n
    BY <1>3, <2>1, FamilyIsSeq, Zenon
  <2>3. q \in Seq(Seq(DiffOps)) /\ Len(q) = n
    BY <1>3, <2>1, FamilyIsSeq, Zenon
  <2>4. \A i \in 1 .. n : p[i] = patch1(i) /\ q[i] = patch2(i)
    OBVIOUS
  <2>. HIDE DEF p, q
  <2>5. QED  BY <2>2, <2>3, <2>4
<1>. HIDE DEF p, q, n
<1>9. FlattenSeq(p) \in Seq(DiffOps) /\ Leads(FlattenSeq(p), h[0], h[n])
  <2>1. \A i \in 0 .. Len(p) : IsValue(h[i])
    BY <1>6, <1>8
  <2>2. \A i \in 1 .. Len(p) : Leads(p[i], h[i - 1], h[i])
    BY <1>7, <1>8
  <2>3. FlattenSeq(p) \in Seq(DiffOps) /\ Leads(FlattenSeq(p), h[0], h[Len(p)])
    BY <1>8, <2>1, <2>2, LeadsFlatten
  <2>4. QED  BY <1>8, <2>3
<1>10. FlattenSeq(q) \in Seq(DiffOps) /\ Leads(FlattenSeq(q), e[0], e[n])
  <2>1. \A i \in 0 .. Len(q) : IsValue(e[i])
    BY <1>6, <1>8
  <2>2. \A i \in 1 .. Len(q) : Leads(q[i], e[i - 1], e[i])
    BY <1>7, <1>8
  <2>3. FlattenSeq(q) \in Seq(DiffOps) /\ Leads(FlattenSeq(q), e[0], e[Len(q)])
    BY <1>8, <2>1, <2>2, LeadsFlatten
  <2>4. QED  BY <1>8, <2>3
<1>11. h[0] = Object(f) /\ h[n] = e[0] /\ e[n] = Object(g)
  <2>0. f = [j \in DOMAIN f |-> f[j]] /\ g = [j \in DOMAIN g |-> g[j]]
    BY DEF MembersIn
  <2>. DEFINE F == DOMAIN f
              G == DOMAIN g
  <2>1. 0 \in 0 .. n /\ n \in 0 .. n
    BY <1>3
  <2>2. KeysUpTo(0) = {}
    BY KeysPassed
  <2>. DEFINE all == KeysUpTo(n)
  <2>3. F \subseteq all /\ G \subseteq all
    BY DEF n
  <2>. HIDE DEF all
  <2>4. Changed(f, g, {}) = f
    <3>1. {j \in F : j \in {} => j \in G} = F
      OBVIOUS
    <3>2. Changed(f, g, {}) = [j \in F |-> f[j]]
      BY <3>1 DEF Changed
    <3>3. QED  BY <2>0, <3>2
  <2>5. Changed(f, g, all) = Grown(f, g, {})
    <3>. DEFINE B == {j \in F : j \in all => j \in G}
    <3>1. B = {j \in G : j \in F \/ j \in {}} /\ B \subseteq all
      BY <2>3
    <3>2. Changed(f, g, all) = [j \in B |-> IF j \in all THEN g[j] ELSE f[j]]
      BY DEF Changed
    <3>3. Grown(f, g, {}) = [j \in B |-> g[j]]
      BY <3>1 DEF Grown
    <3>. HIDE DEF B
    <3>4. [j \in B |-> IF j \in all THEN g[j] ELSE f[j]] = [j \in B |-> g[j]]
      BY <3>1
    <3>5. QED  BY <3>2, <3>3, <3>4
  <2>6. Grown(f, g, all) = g
    <3>1. {j \in G : j \in F \/ j \in all} = G
      BY <2>3
    <3>2. Grown(f, g, all) = [j \in G |-> g[j]]
      BY <3>1 DEF Grown
    <3>3. QED  BY <2>0, <3>2
  <2>7. QED  BY <1>5, <2>1, <2>2, <2>4, <2>5, <2>6 DEF all
<1>12. FlattenSeq(p) \o FlattenSeq(q) \in Seq(DiffOps)
  BY <1>9, <1>10, ConcatProperties
<1>13. Leads(FlattenSeq(p) \o FlattenSeq(q), Object(f), Object(g))
  BY <1>9, <1>10, <1>11, LeadsOn
<1>14. QED  BY <1>4, <1>12, <1>13 DEF ops

\* What from_diff makes of two values leads from one to the other, if what it makes
\* of their parts does.
LEMMA DifferenceLeads ==
    ASSUME NEW U, U \subseteq Parts, NEW diff,
           \A x \in U, y \in Parts : diff[x][y] \in Seq(DiffOps) /\ Leads(diff[x][y], x, y),
           NEW s \in Parts, IsMadeOf(s, U), NEW t \in Parts
    PROVE  Difference(diff, s, t) \in Seq(DiffOps) /\ Leads(Difference(diff, s, t), s, t)
<1>1. IsMadeOf(t, Parts) /\ IsValue(s)
  BY PartsAreValues
<1>2. CASE s = t
  <2>1. Difference(diff, s, t) = <<>>
    BY <1>2, Zenon DEF Difference
  <2>2. QED  BY <1>1, <1>2, <2>1, NoOperation
<1>3. CASE s # t /\ IsArray(s) /\ IsArray(t)
  <2>1. s = Array(s.items) /\ s.items \in Seq(U)
    BY <1>3, Kinds
  <2>2. t = Array(t.items) /\ t.items \in Seq(Parts)
    BY <1>1, <1>3, Kinds
  <2>3. Len(s.items) <= Len(Numerals) /\ Len(t.items) <= Len(Numerals)
    BY ValuesAssumption
  <2>4. QED  BY <1>3, <2>1, <2>2, <2>3, ArrayDifference
<1>4. CASE s # t /\ IsObject(s) /\ IsObject(t)
  <2>. DEFINE f == s.members
              g == t.members
  <2>1. s = Object(f) /\ MembersIn(f, U)
    BY <1>4, Kinds DEF MembersIn
  <2>2. t = Object(g) /\ MembersIn(g, Parts)
    BY <1>1, <1>4, Kinds DEF MembersIn
  <2>3. DOMAIN f \subseteq KeysUpTo(Len(Keys)) /\ DOMAIN g \subseteq KeysUpTo(Len(Keys))
    <3>1. ASSUME NEW v \in Parts PROVE DOMAIN v.members \subseteq KeysUpTo(Len(Keys))
      BY ValuesAssumption, KeysDistinct DEF KeysUpTo
    <3>2. QED  BY <3>1
  <2>. HIDE DEF f, g
  <2>4. Object(f) # Object(g)
    BY <1>4, <2>1, <2>2
  <2>5. LET ops == Difference(diff, Object(f), Object(g)) IN
        ops \in Seq(DiffOps) /\ Leads(ops, Object(f), Object(g))
    BY <2>1, <2>2, <2>3, <2>4, ObjectDifference
  <2>6. QED  BY <2>1, <2>2, <2>5
<1>5. CASE s # t /\ ~(IsArray(s) /\ IsArray(t)) /\ ~(IsObject(s) /\ IsObject(t))
  <2>1. Difference(diff, s, t) = <<ReplaceOf(<<>>, t)>>
    BY <1>5, Zenon DEF Difference
  <2>2. QED  BY <1>1, <2>1, Replaces
<1>6. QED  BY <1>2, <1>3, <1>4, <1>5

LEMMA FromDiffLeads ==
    ASSUME NEW s \in Parts, NEW t \in Parts
    PROVE  FromDiff[s][t] \in Seq(DiffOps) /\ Leads(FromDiff[s][t], s, t)
<1>. DEFINE Reaches(x, y) == FromDiff[x][y] \in Seq(DiffOps) /\ Leads(FromDiff[x][y], x, y)
            n == Len(Levels)
            S == {i \in Nat : i > n \/ \A x \in UpTo(i), y \in Parts : Reaches(x, y)}
<1>1. n \in Nat /\ UpTo(0) = {} /\ UpTo(n) = Parts
  BY LevelsBuilt
<1>2. 0 \in S
  BY <1>1
<1>3. ASSUME NEW i \in Nat, i \in S PROVE i + 1 \in S
  <2>1. CASE i + 1 > n
    BY <2>1
  <2>2. CASE ~(i + 1 > n)
    <3>1. i \in 0 .. n - 1 /\ i \in 0 .. n /\ i + 1 \in 0 .. n /\ ~(i > n)
      BY <1>1, <2>2
    <3>2. UpTo(i) \subseteq Parts /\ UpTo(i + 1) \subseteq Parts /\ \A v \in UpTo(i + 1) : IsMadeOf(v, UpTo(i))
      BY <3>1, LevelsBuilt
    <3>3. \A x \in UpTo(i), y \in Parts : FromDiff[x][y] \in Seq(DiffOps) /\ Leads(FromDiff[x][y], x, y)
      BY <1>3, <3>1
    <3>. DEFINE U == UpTo(i)
                V == UpTo(i + 1)
                diff == FromDiff
    <3>. HIDE DEF U, V, diff, n, S
    <3>4. ASSUME NEW x \in V, NEW y \in Parts PROVE Reaches(x, y)
      <4>1. x \in Parts /\ IsMadeOf(x, U) /\ U \subseteq Parts
        BY <3>2 DEF U, V
      <4>2. \A u \in U, w \in Parts : diff[u][w] \in Seq(DiffOps) /\ Leads(diff[u][w], u, w)
        BY <3>3 DEF U, diff
      <4>3. Difference(diff, x, y) \in Seq(DiffOps) /\ Leads(Difference(diff, x, y), x, y)
        BY <4>1, <4>2, DifferenceLeads
      <4>4. FromDiff[x][y] = Difference(diff, x, y)
        BY <4>1, FromDiffDef DEF diff
      <4>5. QED  BY <4>3, <4>4
    <3>. HIDE DEF Reaches
    <3>5. QED  BY <3>4 DEF S, V
  <2>3. QED  BY <2>1, <2>2
<1>4. \A i \in Nat : i \in S => i + 1 \in S
  BY <1>3
<1>5. Nat \subseteq S
  <2>. HIDE DEF S
  <2>1. QED  BY <1>2, <1>4, Induct
<1>6. n \in S
  BY <1>1, <1>5
<1>. HIDE DEF Reaches
<1>7. \A x \in Parts, y \in Parts : Reaches(x, y)
  BY <1>1, <1>6
<1>8. QED  BY <1>7 DEF Reaches

\* When the first operation of a patch has been applied, the rest leads on.
LEMMA LeadsFrom ==
    ASSUME NEW ops \in Seq(DiffOps), NEW v, NEW w, Leads(ops, v, w)
    PROVE  /\ IsValue(v)
           /\ ops = <<>> => v = w
           /\ ops # <<>> => /\ Head(ops) \in DiffOps /\ Tail(ops) \in Seq(DiffOps)
                            /\ IsValue(Performed(v, Head(ops)))
                            /\ Leads(Tail(ops), Performed(v, Head(ops)), w)
<1>. DEFINE n == Len(ops)
<1>1. PICK h : /\ h[0] = v /\ h[n] = w
               /\ \A i \in 0 .. n : IsValue(h[i])
               /\ \A i \in 1 .. n : h[i] = Performed(h[i - 1], ops[i])
  BY DEF Leads
<1>2. n \in Nat
  OBVIOUS
<1>3. IsValue(v)
  BY <1>1, <1>2
<1>4. ops = <<>> => v = w
  BY <1>1
<1>5. ASSUME ops # <<>>
      PROVE  /\ Head(ops) \in DiffOps /\ Tail(ops) \in Seq(DiffOps)
             /\ IsValue(Performed(v, Head(ops)))
             /\ Leads(Tail(ops), Performed(v, Head(ops)), w)
  <2>. DEFINE r == Tail(ops)
              a == Performed(v, Head(ops))
              g == [i \in 0 .. n - 1 |-> h[i + 1]]
  <2>1. Head(ops) \in DiffOps /\ r \in Seq(DiffOps) /\ n > 0 /\ Head(ops) = ops[1]
    BY <1>5
  <2>2. Len(r) = n - 1 /\ \A i \in 1 .. n - 1 : r[i] = ops[i + 1]
    BY <1>5
  <2>3. h[1] = a /\ IsValue(a)
    <3>1. 1 \in 1 .. n /\ 1 \in 0 .. n /\ 1 - 1 = 0
      BY <1>2, <2>1
    <3>2. h[1] = Performed(h[1 - 1], ops[1])
      BY <1>1, <3>1
    <3>3. QED  BY <1>1, <2>1, <3>1, <3>2
  <2>4. \A i \in 0 .. n - 1 : g[i] = h[i + 1]
    OBVIOUS
  <2>. HIDE DEF g, n, r, a
  <2>5. g[0] = a /\ g[n - 1] = w
    BY <1>1, <1>2, <2>1, <2>3, <2>4
  <2>6. \A i \in 0 .. n - 1 : IsValue(g[i])
    BY <1>1, <1>2, <2>4
  <2>7. ASSUME NEW i \in 1 .. n - 1 PROVE g[i] = Performed(g[i - 1], r[i])
    <3>1. i + 1 \in 1 .. n /\ i \in 0 .. n - 1 /\ i - 1 \in 0 .. n - 1 /\ (i - 1) + 1 = i /\ (i + 1) - 1 = i
      BY <1>2
    <3>2. h[i + 1] = Performed(h[(i + 1) - 1], ops[i + 1])
      BY <1>1, <3>1
    <3>3. g[i] = h[i + 1] /\ g[i - 1] = h[i] /\ r[i] = ops[i + 1]
      BY <2>2, <2>4, <3>1
    <3>4. QED  BY <3>1, <3>2, <3>3
  <2>8. Leads(r, a, w)
    BY <2>2, <2>5, <2>6, <2>7 DEF Leads
  <2>9. QED  BY <2>1, <2>3, <2>8 DEF r, a
<1>6. QED  BY <1>3, <1>4, <1>5

------------------------------------------------------------------------------
\* The invariant: until the patch fails its target is what performing the operations
\* makes of it, and no error is known; from then on there is an error, and an
\* operation that could not be performed.

IInv ==
    /\ patch \in Seq(DiffOps)
    /\ count \in Nat /\ (count = 0 => stack = <<>>)
    /\ phase \in {"begin", "commit", "unwind", "abort"}
    /\ phase = "begin" => IsValue(target)
    /\ phase \in {"begin", "commit"} => ec = "none" /\ expected = target
    /\ phase \in {"unwind", "abort"} => ec # "none" /\ expected = NoValue

LEMMA Begun ==
    ASSUME Init
    PROVE  /\ target \in Parts /\ patch \in Seq(DiffOps)
           /\ goal # NoValue => goal \in Parts /\ patch = FromDiff[target][goal]
<1>1. Docs \subseteq Parts /\ Goals \subseteq Parts
  BY ValuesAssumption
<1>2. CASE goal = NoValue
  BY <1>1, <1>2 DEF Init
<1>3. CASE goal # NoValue
  <2>1. target \in Parts /\ goal \in Parts /\ patch = FromDiff[target][goal]
    BY <1>1, <1>3 DEF Init
  <2>2. QED  BY <1>3, <2>1, FromDiffLeads
<1>4. QED  BY <1>2, <1>3

LEMMA InitIInv == Init => IInv
<1>1. SUFFICES ASSUME Init PROVE IInv
  OBVIOUS
<1>2. IsValue(target) /\ patch \in Seq(DiffOps)
  BY <1>1, Begun, PartsAreValues
<1>3. QED  BY <1>1, <1>2 DEF Init, IInv

\* The two ways to come by an operation.
LEMMA OperationRead ==
    ASSUME IInv, ReadOperation \/ ReadDifference
    PROVE  \E o : /\ IsOperation(o) /\ (o \in Operations \/ ~AddsToRoot(o))
                  /\ ApplyOperation(o) /\ phase = "begin" /\ patch' \in Seq(DiffOps)
<1>1. CASE ReadOperation
  <2>1. PICK o \in Operations : ApplyOperation(o)
    BY <1>1 DEF ReadOperation
  <2>2. IsOperation(o)
    BY ValuesAssumption, PartsAreValues DEF IsOperation
  <2>3. phase = "begin" /\ patch' \in Seq(DiffOps)
    BY <1>1 DEF ReadOperation, IInv
  <2>4. QED  BY <2>1, <2>2, <2>3
<1>2. CASE ReadDifference
  <2>. DEFINE o == Head(patch)
  <2>1. ApplyOperation(o) /\ phase = "begin" /\ patch' = Tail(patch) /\ patch \in Seq(DiffOps) /\ patch # <<>>
    BY <1>2 DEF ReadDifference, IInv
  <2>2. o \in DiffOps /\ patch' \in Seq(DiffOps)
    BY <2>1
  <2>. HIDE DEF o
  <2>3. IsOperation(o) /\ ~AddsToRoot(o)
    BY <2>2, DiffOperations
  <2>4. QED  BY <2>1, <2>2, <2>3
<1>3. QED  BY <1>1, <1>2

\* An operation is performed as RFC 6902 has it, and in error only if it cannot be.
LEMMA OperationApplied ==
    ASSUME IInv, NEW o, IsOperation(o), ApplyOperation(o), phase = "begin"
    PROVE  /\ IsValue(target) /\ Operation(o) /\ IsValue(target') /\ count' \in Nat \ {0} /\ goal' = goal
           /\ original' = original
           /\ \/ phase' = "begin" /\ ec' = "none" /\ target' = Performed(target, o) /\ expected' = target'
              \/ phase' = "unwind" /\ ec' # "none" /\ expected' = NoValue /\ Performed(target, o) = NoValue
<1>1. IsValue(target) /\ ec = "none" /\ expected = target /\ count \in Nat
  BY DEF IInv
<1>2. Operation(o) /\ count' = count + 1 /\ goal' = goal /\ original' = original
  BY DEF ApplyOperation
<1>3. expected' = Performed(target, o)
  BY <1>1, NoValueIsNone DEF ApplyOperation
<1>4. Conforms(o)
  BY <1>1, <1>2, OperationConforms
<1>5. count' \in Nat \ {0}
  BY <1>1, <1>2
<1>6. QED  BY <1>1, <1>2, <1>3, <1>4, <1>5 DEF Conforms

LEMMA NextIInv ==
    ASSUME IInv, [Next]_vars
    PROVE  IInv'
<1>1. CASE NotAPatch
  BY <1>1 DEF NotAPatch, IInv
<1>2. CASE ReadOperation \/ ReadDifference
  <2>1. PICK o : /\ IsOperation(o) /\ ApplyOperation(o) /\ phase = "begin" /\ patch' \in Seq(DiffOps)
    BY <1>2, OperationRead
  <2>2. /\ IsValue(target') /\ count' \in Nat \ {0}
        /\ \/ phase' = "begin" /\ ec' = "none" /\ expected' = target'
           \/ phase' = "unwind" /\ ec' # "none" /\ expected' = NoValue
    BY <2>1, OperationApplied
  <2>3. QED  BY <2>1, <2>2 DEF IInv
<1>3. CASE Commit
  BY <1>3 DEF Commit, IInv
<1>4. CASE Undo
  <2>1. /\ UNCHANGED <<patch, count, ec, expected>> /\ phase' \in {"unwind", "abort"}
        /\ phase = "unwind" /\ stack # <<>>
    BY <1>4 DEF Undo
  <2>2. QED  BY <2>1 DEF IInv
<1>5. CASE Undone
  BY <1>5 DEF Undone, IInv
<1>6. CASE UNCHANGED vars
  BY <1>6 DEF vars, IInv
<1>7. QED  BY <1>1, <1>2, <1>3, <1>4, <1>5, <1>6 DEF Next

\* Whatever the target and the patch, apply_patch commits exactly if each operation can
\* be performed on what those before it made, and the target then is what performing
\* them as RFC 6902 says makes of it.  Operations that RFC 6902 forbids are performed too.
THEOREM ConformanceHolds == Spec => []PatchConforms
<1>1. IInv => PatchConforms
  BY DEF IInv, PatchConforms
<1>2. IInv /\ [Next]_vars => IInv'
  BY NextIInv
<1>3. QED  BY InitIInv, <1>1, <1>2, PTL DEF Spec

\* A patch without operations of the two kinds that RFC 6902 forbids though they could
\* be performed, an unknown one and a move into a part of what is moved, is committed
\* with none of them, those of from_diff among the patches: with ConformanceHolds,
\* apply_patch then does exactly what RFC 6902 says.
THEOREM AllowedConforms ==
    ASSUME \A o \in Operations : ~Forbidden(o)
    PROVE  Spec => [](PatchConforms /\ ForbiddenRefused)
<1>. DEFINE FInv == forbidden = FALSE
<1>1. Init => FInv
  BY DEF Init
<1>2. ASSUME IInv, FInv, [Next]_vars PROVE FInv'
  <2>1. ASSUME NEW o, ApplyOperation(o), ~Forbidden(o) PROVE FInv'
    BY <1>2, <2>1 DEF ApplyOperation
  <2>2. CASE ReadOperation
    BY <2>1, <2>2 DEF ReadOperation
  <2>3. CASE ReadDifference
    <3>1. Head(patch) \in DiffOps /\ ApplyOperation(Head(patch))
      BY <1>2, <2>3 DEF ReadDifference, IInv
    <3>2. QED  BY <2>1, <3>1, DiffAllowed
  <2>4. CASE NotAPatch \/ Commit \/ Undo \/ Undone \/ UNCHANGED vars
    BY <1>2, <2>4 DEF NotAPatch, Commit, Undo, Undone, vars
  <2>5. QED  BY <1>2, <2>2, <2>3, <2>4 DEF Next
<1>3. IInv /\ FInv => PatchConforms /\ ForbiddenRefused
  BY DEF IInv, PatchConforms, ForbiddenRefused
<1>4. IInv /\ [Next]_vars => IInv'
  BY NextIInv
<1>. HIDE DEF FInv
<1>5. QED  BY InitIInv, <1>1, <1>2, <1>3, <1>4, PTL DEF Spec

------------------------------------------------------------------------------
\* Until the patch has been undone the stack leads from the target back to the
\* value that was patched.

AInv ==
    /\ phase \in {"begin", "unwind"} => Undoable(original, stack, target)
    /\ TargetUnchanged

LEMMA InitAInv == Init => AInv
<1>1. SUFFICES ASSUME Init PROVE AInv
  OBVIOUS
<1>2. IsValue(target)
  BY <1>1, Begun, PartsAreValues
<1>3. original = target /\ stack = <<>> /\ phase = "begin"
  BY <1>1 DEF Init
<1>4. QED  BY <1>2, <1>3, UndoableNone DEF AInv, TargetUnchanged

LEMMA NextAInv ==
    ASSUME \A o \in Operations : ~AddsToRoot(o), IInv, AInv, [Next]_vars
    PROVE  AInv'
<1>1. CASE NotAPatch
  <2>1. /\ phase = "begin" /\ stack = <<>> /\ phase' = "abort"
        /\ target' = target /\ original' = original
    BY <1>1 DEF NotAPatch, IInv
  <2>2. original = target
    BY <2>1, UndoableNone DEF AInv
  <2>3. QED  BY <2>1, <2>2 DEF AInv, TargetUnchanged
<1>2. CASE ReadOperation \/ ReadDifference
  <2>1. PICK o : IsOperation(o) /\ ~AddsToRoot(o) /\ ApplyOperation(o) /\ phase = "begin"
    BY <1>2, OperationRead
  <2>2. /\ IsValue(target) /\ Operation(o) /\ original' = original /\ phase' \in {"begin", "unwind"}
    BY <2>1, OperationApplied
  <2>3. Undoable(original, stack, target)
    BY <2>1 DEF AInv
  <2>. DEFINE v == original
  <2>. HIDE DEF v
  <2>4. Undoable(v, stack', target')
    BY <2>1, <2>2, <2>3, OperationUndoable DEF v
  <2>5. QED  BY <2>2, <2>4 DEF AInv, TargetUnchanged, v
<1>3. CASE Commit
  BY <1>3 DEF Commit, AInv, TargetUnchanged
<1>4. CASE Undo
  <2>. DEFINE n == Len(stack)
              e == stack[n]
  <2>1. /\ phase = "unwind" /\ stack # <<>> /\ original' = original
        /\ stack' = RemoveAt(stack, n) /\ target' = Edit(e.op, target, e.path, e.value).root
        /\ phase' = IF Failed(Edit(e.op, target, e.path, e.value)) THEN "abort" ELSE phase
    BY <1>4 DEF Undo, NextUndone
  <2>2. PICK x : IsValue(x) /\ Undoes(e, target, x) /\ Undoable(original, RemoveAt(stack, n), x)
    BY <2>1, UndoableLess DEF AInv
  <2>. HIDE DEF e, n
  <2>3. Edit(e.op, target, e.path, e.value) = Ok(x)
    BY <2>2 DEF Undoes
  <2>4. target' = x /\ phase' = "unwind"
    BY <2>1, <2>3 DEF Ok, Failed
  <2>5. QED  BY <2>1, <2>2, <2>4 DEF AInv, TargetUnchanged
<1>5. CASE Undone
  <2>1. /\ phase = "unwind" /\ stack = <<>> /\ phase' = "abort"
        /\ target' = target /\ original' = original
    BY <1>5 DEF Undone
  <2>2. original = target
    BY <2>1, UndoableNone DEF AInv
  <2>3. QED  BY <2>1, <2>2 DEF AInv, TargetUnchanged
<1>6. CASE UNCHANGED vars
  BY <1>6 DEF vars, AInv, TargetUnchanged
<1>7. QED  BY <1>1, <1>2, <1>3, <1>4, <1>5, <1>6 DEF Next

\* apply_patch is atomic for every patch that adds nothing in place of the root:
\* if it fails, the operations that were applied have all been undone.
THEOREM AtomicityHolds ==
    ASSUME \A o \in Operations : ~AddsToRoot(o)
    PROVE  Spec => []TargetUnchanged
<1>1. IInv /\ AInv /\ [Next]_vars => AInv'
  BY NextAInv
<1>2. IInv /\ [Next]_vars => IInv'
  BY NextIInv
<1>3. AInv => TargetUnchanged
  BY DEF AInv
<1>4. QED  BY InitIInv, InitAInv, <1>1, <1>2, <1>3, PTL DEF Spec

------------------------------------------------------------------------------
\* What is left of a patch made by from_diff leads from the target to the goal.

DInv ==
    goal # NoValue => /\ phase \in {"begin", "commit"}
                      /\ phase = "begin" => Leads(patch, target, goal)
                      /\ phase = "commit" => target = goal

LEMMA InitDInv == Init => DInv
<1>1. SUFFICES ASSUME Init, goal # NoValue PROVE DInv
  BY DEF DInv
<1>2. phase = "begin" /\ target \in Parts /\ goal \in Parts /\ patch = FromDiff[target][goal]
  BY <1>1, Begun DEF Init
<1>3. Leads(patch, target, goal)
  BY <1>2, FromDiffLeads
<1>4. QED  BY <1>2, <1>3 DEF DInv

LEMMA NextDInv ==
    ASSUME IInv, DInv, [Next]_vars
    PROVE  DInv'
<1>1. CASE NotAPatch \/ ReadOperation
  BY <1>1 DEF NotAPatch, ReadOperation, ApplyOperation, DInv
<1>2. CASE ReadDifference /\ goal # NoValue
  <2>. DEFINE o == Head(patch)
              rest == Tail(patch)
  <2>1. ApplyOperation(o) /\ phase = "begin" /\ patch' = rest /\ patch \in Seq(DiffOps) /\ patch # <<>>
    BY <1>2 DEF ReadDifference, IInv
  <2>2. Leads(patch, target, goal)
    BY <1>2, <2>1 DEF DInv
  <2>3. o \in DiffOps /\ IsValue(Performed(target, o)) /\ Leads(rest, Performed(target, o), goal)
    BY <2>1, <2>2, LeadsFrom
  <2>. HIDE DEF o, rest
  <2>4. IsOperation(o)
    BY <2>3, DiffOperations
  <2>5. /\ goal' = goal
        /\ \/ phase' = "begin" /\ target' = Performed(target, o)
           \/ Performed(target, o) = NoValue
    BY <2>1, <2>4, OperationApplied
  <2>6. phase' = "begin" /\ target' = Performed(target, o)
    BY <2>3, <2>5, NoValueIsNone
  <2>7. QED  BY <2>1, <2>3, <2>5, <2>6 DEF DInv
<1>3. CASE ReadDifference /\ goal = NoValue
  BY <1>3 DEF ReadDifference, ApplyOperation, DInv
<1>4. CASE Commit
  <2>1. UNCHANGED <<target, goal>> /\ phase = "begin" /\ phase' = "commit" /\ patch = <<>>
    BY <1>4 DEF Commit
  <2>2. Leads(patch, target, goal) => target = goal
    BY <2>1, LeadsFrom DEF IInv
  <2>3. QED  BY <2>1, <2>2 DEF DInv
<1>5. CASE Undo
  BY <1>5 DEF Undo, DInv
<1>6. CASE Undone
  BY <1>6 DEF Undone, DInv
<1>7. CASE UNCHANGED vars
  BY <1>7 DEF vars, DInv
<1>8. QED  BY <1>1, <1>2, <1>3, <1>4, <1>5, <1>6, <1>7 DEF Next

\* from_diff: the patch that it makes of any two values is applied without error,
\* and makes the first one into the second.
THEOREM DiffHolds == Spec => []DiffReaches
<1>1. IInv /\ DInv /\ [Next]_vars => DInv'
  BY NextDInv
<1>2. IInv /\ [Next]_vars => IInv'
  BY NextIInv
<1>3. DInv => DiffReaches
  BY DEF DInv, DiffReaches
<1>4. QED  BY InitIInv, InitDInv, <1>1, <1>2, <1>3, PTL DEF Spec
===============================================================================
