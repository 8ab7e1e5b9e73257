--------------------------- MODULE JsonParserProofs ---------------------------
(***************************************************************************)
(* Proofs about JsonParser for every option, handler, visitor and caller:  *)
(* the conversions of JsonBytes that it uses, its own invariants, and what *)
(* it owes those who use it; and about JsonReader, which is one of these.  *)
(***************************************************************************)
EXTENDS JsonReader, JsonParserContract, SequenceTheorems, FiniteSetTheorems, TLAPS

------------------------------------------------------------------------------
\* The conversions of JsonBytes: what they return, and which bytes they accept.

\* Sequences written out.
LEMMA Pair ==
    ASSUME NEW S, NEW a \in S, NEW b \in S
    PROVE  <<a, b>> \in Seq(S)
OBVIOUS

LEMMA Triple ==
    ASSUME NEW S, NEW a \in S, NEW b \in S, NEW c \in S
    PROVE  <<a, b, c>> \in Seq(S)
OBVIOUS

LEMMA Quadruple ==
    ASSUME NEW S, NEW a \in S, NEW b \in S, NEW c \in S, NEW d \in S
    PROVE  <<a, b, c, d>> \in Seq(S)
OBVIOUS

\* The arithmetic of unicode_traits::convert: the six bits of a continuation
\* byte, and what is left of the code point for the leading byte.
LEMMA SixBits == ASSUME NEW n \in Nat PROVE n % 64 \in 0 .. 63
BY SMTT(10)

LEMMA Quotients == ASSUME NEW n \in Nat PROVE n \div 64 \in Nat /\ n \div 4096 \in Nat
BY SMTT(10)

LEMMA LeadOfTwo == ASSUME NEW n \in Nat, n < 2048 PROVE n \div 64 \in 0 .. 31
BY SMTT(10)

LEMMA LeadOfThree == ASSUME NEW n \in Nat, n < 65536 PROVE n \div 4096 \in 0 .. 15
BY SMTT(10)

LEMMA LeadOfFour == ASSUME NEW n \in Nat PROVE (n \div 262144) % 8 \in 0 .. 7
BY SMTT(10)

\* unicode_traits::convert appends bytes, whatever the code point.
LEMMA Utf8Type == ASSUME NEW c \in Nat PROVE Utf8(c) \in Seq(Byte)
<1>. DEFINE last == 128 + (c % 64)
            third == 128 + ((c \div 64) % 64)
            second == 128 + ((c \div 4096) % 64)
<1>1. last \in Byte  BY SixBits, SMTT(10) DEF Byte
<1>2. third \in Byte  BY SixBits, Quotients, SMTT(10) DEF Byte
<1>3. second \in Byte  BY SixBits, Quotients, SMTT(10) DEF Byte
<1>4. CASE c \in HighSurrogate \cup LowSurrogate
  BY <1>4 DEF Utf8
<1>5. CASE c \notin HighSurrogate \cup LowSurrogate
  <2>1. CASE c < 128
    BY <1>5, <2>1 DEF Utf8, Byte
  <2>2. CASE c >= 128 /\ c < 2048
    <3>. DEFINE first == 192 + c \div 64
    <3>1. first \in Byte  BY LeadOfTwo, <2>2, SMTT(10) DEF Byte
    <3>2. Utf8(c) = <<first, last>>  BY <1>5, <2>2, SMTT(10) DEF Utf8
    <3>. HIDE DEF first, last
    <3>3. QED  BY <1>1, <3>1, <3>2, Pair
  <2>3. CASE c >= 2048 /\ c < 65536
    <3>. DEFINE first == 224 + c \div 4096
    <3>1. first \in Byte  BY LeadOfThree, <2>3, SMTT(10) DEF Byte
    <3>2. Utf8(c) = <<first, third, last>>  BY <1>5, <2>3, SMTT(10) DEF Utf8
    <3>. HIDE DEF first, third, last
    <3>3. QED  BY <1>1, <1>2, <3>1, <3>2, Triple
  <2>4. CASE c >= 65536
    <3>. DEFINE first == 240 + ((c \div 262144) % 8)
    <3>1. first \in Byte  BY LeadOfFour, SMTT(10) DEF Byte
    <3>2. Utf8(c) = <<first, second, third, last>>  BY <1>5, <2>4, SMTT(10) DEF Utf8
    <3>. HIDE DEF first, second, third, last
    <3>3. QED  BY <1>1, <1>2, <1>3, <3>1, <3>2, Quadruple
  <2>5. QED  BY <2>1, <2>2, <2>3, <2>4, SMTT(10)
<1>6. QED  BY <1>4, <1>5

\* 0x10000 + ((cp & 0x3FF) << 10) + (cp2 & 0x3FF) is a number.
LEMMA CombineType == ASSUME NEW a \in Nat, NEW b \in Nat PROVE CombineSurrogates(a, b) \in Nat
<1>1. ASSUME NEW n \in Nat PROVE n % 1024 \in Nat
  BY SMTT(10)
<1>2. QED  BY <1>1, SMTT(10) DEF CombineSurrogates

\* append_to_codepoint adds a number for any byte.
LEMMA HexType == ASSUME NEW b \in Byte PROVE HexValue(b) \in Nat
BY SMTT(10) DEF HexValue, Byte, Digit

\* A refused sequence has one of the errors of unicode_traits::validate.
LEMMA StopType ==
    ASSUME NEW s \in Seq(Byte), NEW i \in Utf8Stop(s)
    PROVE  i \in 1 .. Len(s) /\ SequenceError(s, i) \in Utf8Error
<1>1. i \in DOMAIN s /\ SequenceError(s, i) # "none"
  BY DEF Utf8Stop, IllegalAt
<1>2. SequenceError(s, i) \in Utf8Error \cup {"none"}
  BY DEF SequenceError, Utf8Error
<1>3. QED  BY <1>1, <1>2

------------------------------------------------------------------------------
\* What unicode_traits::validate accepts.

\* An instance of a pattern, byte by byte.
LEMMA MatchesOne ==
    ASSUME NEW s \in Seq(Byte), NEW i \in Nat, NEW A, i <= Len(s), s[i] \in A
    PROVE  Matches(s, i, <<A>>)
<1>1. Len(s) \in Nat /\ Len(<<A>>) = 1
  OBVIOUS
<1>2. ASSUME NEW k \in 1 .. 1 PROVE s[i + k - 1] \in <<A>>[k]
  <2>1. k = 1 /\ i + k - 1 = i  OBVIOUS
  <2>2. QED  BY <2>1
<1>3. QED  BY <1>1, <1>2 DEF Matches

LEMMA MatchesTwo ==
    ASSUME NEW s \in Seq(Byte), NEW i \in Nat, NEW A, NEW B, i + 1 <= Len(s),
           s[i] \in A, s[i + 1] \in B
    PROVE  Matches(s, i, <<A, B>>)
<1>1. Len(s) \in Nat /\ Len(<<A, B>>) = 2
  OBVIOUS
<1>2. ASSUME NEW k \in 1 .. 2 PROVE s[i + k - 1] \in <<A, B>>[k]
  <2>1. CASE k = 1
    <3>1. i + k - 1 = i  BY <2>1
    <3>2. QED  BY <2>1, <3>1
  <2>2. CASE k = 2
    <3>1. i + k - 1 = i + 1  BY <2>2
    <3>2. QED  BY <2>2, <3>1
  <2>3. QED  BY <2>1, <2>2
<1>3. QED  BY <1>1, <1>2 DEF Matches

LEMMA MatchesThree ==
    ASSUME NEW s \in Seq(Byte), NEW i \in Nat, NEW A, NEW B, NEW C, i + 2 <= Len(s),
           s[i] \in A, s[i + 1] \in B, s[i + 2] \in C
    PROVE  Matches(s, i, <<A, B, C>>)
<1>1. Len(s) \in Nat /\ Len(<<A, B, C>>) = 3
  OBVIOUS
<1>2. ASSUME NEW k \in 1 .. 3 PROVE s[i + k - 1] \in <<A, B, C>>[k]
  <2>1. CASE k = 1
    <3>1. i + k - 1 = i  BY <2>1
    <3>2. QED  BY <2>1, <3>1
  <2>2. CASE k = 2
    <3>1. i + k - 1 = i + 1  BY <2>2
    <3>2. QED  BY <2>2, <3>1
  <2>3. CASE k = 3
    <3>1. i + k - 1 = i + 2  BY <2>3
    <3>2. QED  BY <2>3, <3>1
  <2>4. QED  BY <2>1, <2>2, <2>3
<1>3. QED  BY <1>1, <1>2 DEF Matches

LEMMA MatchesFour ==
    ASSUME NEW s \in Seq(Byte), NEW i \in Nat, NEW A, NEW B, NEW C, NEW D, i + 3 <= Len(s),
           s[i] \in A, s[i + 1] \in B, s[i + 2] \in C, s[i + 3] \in D
    PROVE  Matches(s, i, <<A, B, C, D>>)
<1>1. Len(s) \in Nat /\ Len(<<A, B, C, D>>) = 4
  OBVIOUS
<1>2. ASSUME NEW k \in 1 .. 4 PROVE s[i + k - 1] \in <<A, B, C, D>>[k]
  <2>1. CASE k = 1
    <3>1. i + k - 1 = i  BY <2>1
    <3>2. QED  BY <2>1, <3>1
  <2>2. CASE k = 2
    <3>1. i + k - 1 = i + 1  BY <2>2
    <3>2. QED  BY <2>2, <3>1
  <2>3. CASE k = 3
    <3>1. i + k - 1 = i + 2  BY <2>3
    <3>2. QED  BY <2>3, <3>1
  <2>4. CASE k = 4
    <3>1. i + k - 1 = i + 3  BY <2>4
    <3>2. QED  BY <2>4, <3>1
  <2>5. QED  BY <2>1, <2>2, <2>3, <2>4
<1>3. QED  BY <1>1, <1>2 DEF Matches

\* trailing_bytes_for_utf8, by range.
LEMMA TrailingOf ==
    ASSUME NEW b \in Byte
    PROVE  /\ Trailing(b) \in 0 .. 5
           /\ b \in 0 .. 127 => Trailing(b) = 0
           /\ b \in 194 .. 223 => Trailing(b) = 1
           /\ b \in 224 .. 239 => Trailing(b) = 2
           /\ b \in 240 .. 244 => Trailing(b) = 3
BY DEF Trailing, Byte

\* The bounds that is_legal_utf8 tests, as ranges.
LEMMA LeadingByte ==
    ASSUME NEW b \in Byte, ~(b \in 128 .. 193), ~(b > 244)
    PROVE  b \in (0 .. 127) \cup (194 .. 244) /\ b \notin Continuation
BY DEF Byte, Continuation

LEMMA SecondByte ==
    ASSUME NEW c \in Tail80BF
    PROVE  /\ ~(c < 160) => c \in 160 .. 191
           /\ ~(c > 159) => c \in 128 .. 159
           /\ ~(c < 144) => c \in 144 .. 191
           /\ ~(c > 143) => c \in 128 .. 143
BY DEF Tail80BF

LEMMA AtMost == ASSUME NEW a \in Int, NEW b \in Int, ~(a > b) PROVE a <= b
OBVIOUS

\* What a sequence is that is_legal_utf8 does not object to.
LEMMA LegalShape ==
    ASSUME NEW s \in Seq(Byte), NEW i \in 1 .. Len(s), SequenceError(s, i) = "none"
    PROVE  /\ s[i] \in Byte /\ i + Trailing(s[i]) <= Len(s)
           /\ \A k \in i + 1 .. i + Trailing(s[i]) : s[k] \in Continuation
           /\ s[i] \in (0 .. 127) \cup (194 .. 244) /\ s[i] \notin Continuation
           /\ ~(s[i] = 224 /\ s[i + 1] < 160) /\ ~(s[i] = 237 /\ s[i + 1] > 159)
           /\ ~(s[i] = 240 /\ s[i + 1] < 144) /\ ~(s[i] = 244 /\ s[i + 1] > 143)
<1>1. /\ ~(i + Trailing(s[i]) > Len(s))
      /\ ~\E k \in i + 1 .. i + Trailing(s[i]) : s[k] \notin Continuation
      /\ ~(s[i] \in 128 .. 193) /\ ~(s[i] > 244)
      /\ ~(s[i] = 224 /\ s[i + 1] < 160) /\ ~(s[i] = 237 /\ s[i + 1] > 159)
      /\ ~(s[i] = 240 /\ s[i + 1] < 144) /\ ~(s[i] = 244 /\ s[i + 1] > 143)
  BY Zenon DEF SequenceError
<1>2. s[i] \in Byte /\ Len(s) \in Nat
  OBVIOUS
<1>3. i + Trailing(s[i]) <= Len(s)
  <2>1. Trailing(s[i]) \in 0 .. 5
    BY <1>2, TrailingOf
  <2>. DEFINE n == Trailing(s[i])
  <2>. HIDE DEF n
  <2>2. n \in 0 .. 5  BY <2>1 DEF n
  <2>3. i + n \in Int /\ Len(s) \in Int  BY <1>2, <2>2
  <2>4. ~(i + n > Len(s))  BY <1>1 DEF n
  <2>5. QED  BY <2>3, <2>4, AtMost DEF n
<1>4. s[i] \in (0 .. 127) \cup (194 .. 244) /\ s[i] \notin Continuation
  <2>. DEFINE b == s[i]
  <2>1. ~(b \in 128 .. 193) /\ ~(b > 244)
    BY <1>1, Zenon
  <2>2. b \in Byte
    BY <1>2
  <2>. HIDE DEF b
  <2>3. b \in (0 .. 127) \cup (194 .. 244) /\ b \notin Continuation
    BY <2>1, <2>2, LeadingByte
  <2>4. QED  BY <2>3 DEF b
<1>5. \A k \in i + 1 .. i + Trailing(s[i]) : s[k] \in Continuation
  BY <1>1, Zenon
<1>6. QED  BY <1>1, <1>2, <1>3, <1>4, <1>5, Zenon

\* The pattern that a legal sequence beginning at s[i] is an instance of.
LEMMA LegalMatches ==
    ASSUME NEW s \in Seq(Byte), NEW i \in 1 .. Len(s), SequenceError(s, i) = "none"
    PROVE  \E p \in Utf8Patterns : Matches(s, i, p) /\ Len(p) = Trailing(s[i]) + 1
<1>. DEFINE n == Trailing(s[i])
            b == s[i]
<1>1. b \in Byte /\ n \in 0 .. 5 /\ i \in Nat /\ Len(s) \in Nat
  BY LegalShape, TrailingOf
<1>2. /\ i + n <= Len(s)
      /\ b \in (0 .. 127) \cup (194 .. 244)
      /\ ~(b = 224 /\ s[i + 1] < 160) /\ ~(b = 237 /\ s[i + 1] > 159)
      /\ ~(b = 240 /\ s[i + 1] < 144) /\ ~(b = 244 /\ s[i + 1] > 143)
      /\ \A k \in i + 1 .. i + n : s[k] \in Continuation
  BY LegalShape
<1>3. /\ n >= 1 => s[i + 1] \in Tail80BF
      /\ n >= 2 => s[i + 2] \in Tail80BF
      /\ n >= 3 => s[i + 3] \in Tail80BF
  BY <1>1, <1>2 DEF Continuation, Tail80BF
<1>4. /\ b \in 0 .. 127 => n = 0
      /\ b \in 194 .. 223 => n = 1
      /\ b \in 224 .. 239 => n = 2
      /\ b \in 240 .. 244 => n = 3
  BY <1>1, TrailingOf
<1>. HIDE DEF n, b
<1>5. CASE b \in 0 .. 127
  <2>1. n = 0 /\ i <= Len(s)  BY <1>1, <1>2, <1>4, <1>5
  <2>2. Matches(s, i, <<0 .. 127>>)  BY <1>1, <1>5, <2>1, MatchesOne DEF b
  <2>3. QED  BY <2>1, <2>2 DEF Utf8Patterns, n
<1>6. CASE b \in 194 .. 223
  <2>1. n = 1 /\ i + 1 <= Len(s)  BY <1>1, <1>2, <1>4, <1>6
  <2>2. Matches(s, i, <<194 .. 223, Tail80BF>>)  BY <1>1, <1>3, <1>6, <2>1, MatchesTwo DEF b
  <2>3. QED  BY <2>1, <2>2 DEF Utf8Patterns, n
<1>7. CASE b \in 224 .. 239
  <2>1. n = 2 /\ i + 2 <= Len(s)  BY <1>1, <1>2, <1>4, <1>7
  <2>2. s[i + 1] \in Tail80BF /\ s[i + 2] \in Tail80BF  BY <1>3, <2>1
  <2>3. CASE b = 224
    <3>. DEFINE A == {224}
                B == 160 .. 191
    <3>1. s[i] \in A  BY <2>3 DEF b
    <3>2. s[i + 1] \in B  BY <1>2, <2>2, <2>3, SecondByte
    <3>. HIDE DEF A, B
    <3>3. Matches(s, i, <<A, B, Tail80BF>>)
      BY <1>1, <2>1, <2>2, <3>1, <3>2, MatchesThree, Zenon
    <3>4. QED  BY <2>1, <3>3 DEF Utf8Patterns, A, B, n
  <2>4. CASE b \in 225 .. 236
    <3>. DEFINE A == 225 .. 236
    <3>1. s[i] \in A  BY <2>4 DEF b
    <3>. HIDE DEF A
    <3>2. Matches(s, i, <<A, Tail80BF, Tail80BF>>)
      BY <1>1, <2>1, <2>2, <3>1, MatchesThree, Zenon
    <3>3. QED  BY <2>1, <3>2 DEF Utf8Patterns, A, n
  <2>5. CASE b = 237
    <3>. DEFINE A == {237}
                B == 128 .. 159
    <3>1. s[i] \in A  BY <2>5 DEF b
    <3>2. s[i + 1] \in B  BY <1>2, <2>2, <2>5, SecondByte
    <3>. HIDE DEF A, B
    <3>3. Matches(s, i, <<A, B, Tail80BF>>)
      BY <1>1, <2>1, <2>2, <3>1, <3>2, MatchesThree, Zenon
    <3>4. QED  BY <2>1, <3>3 DEF Utf8Patterns, A, B, n
  <2>6. CASE b \in 238 .. 239
    <3>. DEFINE A == 238 .. 239
    <3>1. s[i] \in A  BY <2>6 DEF b
    <3>. HIDE DEF A
    <3>2. Matches(s, i, <<A, Tail80BF, Tail80BF>>)
      BY <1>1, <2>1, <2>2, <3>1, MatchesThree, Zenon
    <3>3. QED  BY <2>1, <3>2 DEF Utf8Patterns, A, n
  <2>7. QED  BY <1>7, <2>3, <2>4, <2>5, <2>6
<1>8. CASE b \in 240 .. 244
  <2>1. n = 3 /\ i + 3 <= Len(s)  BY <1>1, <1>2, <1>4, <1>8
  <2>2. s[i + 1] \in Tail80BF /\ s[i + 2] \in Tail80BF /\ s[i + 3] \in Tail80BF
    BY <1>3, <2>1
  <2>3. CASE b = 240
    <3>. DEFINE A == {240}
                B == 144 .. 191
    <3>1. s[i] \in A  BY <2>3 DEF b
    <3>2. s[i + 1] \in B  BY <1>2, <2>2, <2>3, SecondByte
    <3>. HIDE DEF A, B
    <3>3. Matches(s, i, <<A, B, Tail80BF, Tail80BF>>)
      BY <1>1, <2>1, <2>2, <3>1, <3>2, MatchesFour, Zenon
    <3>4. QED  BY <2>1, <3>3 DEF Utf8Patterns, A, B, n
  <2>4. CASE b \in 241 .. 243
    <3>. DEFINE A == 241 .. 243
    <3>1. s[i] \in A  BY <2>4 DEF b
    <3>. HIDE DEF A
    <3>2. Matches(s, i, <<A, Tail80BF, Tail80BF, Tail80BF>>)
      BY <1>1, <2>1, <2>2, <3>1, MatchesFour, Zenon
    <3>3. QED  BY <2>1, <3>2 DEF Utf8Patterns, A, n
  <2>5. CASE b = 244
    <3>. DEFINE A == {244}
                B == 128 .. 143
    <3>1. s[i] \in A  BY <2>5 DEF b
    <3>2. s[i + 1] \in B  BY <1>2, <2>2, <2>5, SecondByte
    <3>. HIDE DEF A, B
    <3>3. Matches(s, i, <<A, B, Tail80BF, Tail80BF>>)
      BY <1>1, <2>1, <2>2, <3>1, <3>2, MatchesFour, Zenon
    <3>4. QED  BY <2>1, <3>3 DEF Utf8Patterns, A, B, n
  <2>6. QED  BY <1>8, <2>3, <2>4, <2>5
<1>9. QED  BY <1>2, <1>5, <1>6, <1>7, <1>8

\* unicode_traits::validate accepts well-formed UTF-8 only, of any length.
THEOREM ValidatedIsWellFormed ==
    ASSUME NEW s \in Seq(Byte), ValidUtf8(s)
    PROVE  WellFormed(s)
<1>. DEFINE starts == {i \in 1 .. Len(s) : ~InSequence(s, i)}
<1>1. DOMAIN s = 1 .. Len(s) /\ Len(s) \in Nat
  OBVIOUS
<1>2. \A i \in starts : SequenceError(s, i) = "none"
  BY <1>1 DEF ValidUtf8, IllegalAt
<1>3. s # <<>> => 1 \in starts
  BY <1>1 DEF InSequence
<1>4. ASSUME NEW i \in starts
      PROVE  \E p \in Utf8Patterns :
                 /\ Matches(s, i, p)
                 /\ i + Len(p) \in starts \cup {Len(s) + 1}
                 /\ \A j \in i + 1 .. i + Len(p) - 1 : j \notin starts
  <2>1. PICK p \in Utf8Patterns : Matches(s, i, p) /\ Len(p) = Trailing(s[i]) + 1
    BY <1>2, LegalMatches
  <2>. DEFINE n == Trailing(s[i])
  <2>2. /\ s[i] \notin Continuation /\ n \in Nat /\ i + n <= Len(s)
        /\ \A k \in i + 1 .. i + n : s[k] \in Continuation
    <3>1. SequenceError(s, i) = "none" /\ i \in 1 .. Len(s)
      BY <1>2
    <3>2. s[i] \in Byte /\ s[i] \notin Continuation /\ i + n <= Len(s)
      BY <3>1, LegalShape
    <3>3. \A k \in i + 1 .. i + n : s[k] \in Continuation
      BY <3>1, LegalShape, Zenon
    <3>4. n \in Nat
      <4>1. n \in 0 .. 5  BY <3>2, TrailingOf
      <4>2. QED  BY <4>1
    <3>5. QED  BY <3>2, <3>3, <3>4
  <2>. HIDE DEF n
  <2>3. ASSUME NEW j \in i + 1 .. i + n PROVE j \notin starts
    <3>1. s[j] \in Continuation /\ i \in 1 .. j - 1 /\ i + n >= j
      BY <1>1, <2>2
    <3>2. InSequence(s, j)
      BY <2>2, <3>1 DEF InSequence, n
    <3>3. QED  BY <3>2
  <2>4. ASSUME i + n + 1 # Len(s) + 1 PROVE i + n + 1 \in starts
    <3>. SUFFICES ASSUME InSequence(s, i + n + 1) PROVE FALSE
      BY <1>1, <2>2, <2>4
    <3>1. PICK j \in 1 .. i + n : s[j] \notin Continuation /\ j + Trailing(s[j]) >= i + n + 1
      BY <1>1, <2>2 DEF InSequence
    <3>2. ~(j \in i + 1 .. i + n) /\ j # i
      BY <2>2, <3>1 DEF n
    <3>3. j < i /\ j \in 1 .. Len(s)
      BY <1>1, <2>2, <3>2
    <3>4. j \in starts
      BY <3>1, <3>3 DEF InSequence
    <3>5. \A k \in j + 1 .. j + Trailing(s[j]) : s[k] \in Continuation
      BY <1>2, <3>4, LegalShape
    <3>6. i \in j + 1 .. j + Trailing(s[j])
      <4>1. Trailing(s[j]) \in Nat
        <5>1. s[j] \in Byte  BY <3>4
        <5>2. Trailing(s[j]) \in 0 .. 5  BY <5>1, TrailingOf
        <5>3. QED  BY <5>2
      <4>2. QED  BY <1>1, <2>2, <3>1, <3>3, <4>1
    <3>7. QED  BY <2>2, <3>5, <3>6
  <2>5. i + Len(p) = i + n + 1 /\ i + Len(p) - 1 = i + n
    BY <1>1, <2>1, <2>2 DEF n
  <2>6. QED  BY <2>1, <2>3, <2>4, <2>5
<1>5. CutAt(s, starts)
  BY <1>3, <1>4 DEF CutAt
<1>6. starts \in SUBSET DOMAIN s
  BY <1>1
<1>7. QED  BY <1>5, <1>6 DEF WellFormed

\* A set of positions has a first one.
LEMMA LeastPosition ==
    ASSUME NEW T, T \subseteq Nat, T # {}
    PROVE  \E x \in T : \A y \in T : x <= y
<1>. DEFINE Initial == {0 .. n : n \in T}
<1>1. IsWellFoundedOn(StrictSubsetOrdering(Nat), FiniteSubsetsOf(Nat))
  BY FS_StrictSubsetOrderingWellFounded
<1>2. ASSUME NEW n \in T PROVE 0 .. n \in FiniteSubsetsOf(Nat)
  <2>1. IsFiniteSet(0 .. n)
    BY FS_Interval
  <2>2. 0 .. n \in SUBSET Nat
    BY SMT
  <2>3. QED  BY <2>1, <2>2, Zenon DEF FiniteSubsetsOf
<1>3. Initial \subseteq FiniteSubsetsOf(Nat) /\ Initial # {}
  BY <1>2
<1>4. PICK X \in Initial : \A Y \in Initial : ~(<<Y, X>> \in StrictSubsetOrdering(Nat))
  BY <1>1, <1>3, WFMin
<1>5. PICK x \in T : X = 0 .. x
  OBVIOUS
<1>6. ASSUME NEW y \in T, ~(x <= y) PROVE FALSE
  <2>1. 0 .. y \subseteq 0 .. x /\ x \in 0 .. x /\ ~(x \in 0 .. y) /\ 0 .. x \in SUBSET Nat
    BY <1>6
  <2>2. <<0 .. y, 0 .. x>> \in StrictSubsetOrdering(Nat)
    BY <2>1, SMT DEF StrictSubsetOrdering
  <2>3. QED  BY <1>4, <1>5, <2>2
<1>7. QED  BY <1>6

\* What the bytes of a piece are, for the four lengths of patterns.
LEMMA MatchedOne ==
    ASSUME NEW s \in Seq(Byte), NEW i \in 1 .. Len(s), NEW A, Matches(s, i, <<A>>)
    PROVE  /\ Len(<<A>>) = 1 /\ i <= Len(s)
           /\ s[i] \in A
<1>. DEFINE p == <<A>>
<1>1. Len(p) = 1 /\ p[1] = A
  OBVIOUS
<1>. HIDE DEF p
<1>2. i + Len(p) <= Len(s) + 1 /\ \A k \in 1 .. Len(p) : s[i + k - 1] \in p[k]
  BY DEF Matches, p
<1>3. Len(s) \in Nat /\ 1 \in 1 .. Len(p) /\ i + 1 - 1 = i
  BY <1>1
<1>4. s[i] \in p[1]
  BY <1>1, <1>2, <1>3
<1>5. QED  BY <1>1, <1>2, <1>3, <1>4 DEF p

LEMMA MatchedTwo ==
    ASSUME NEW s \in Seq(Byte), NEW i \in 1 .. Len(s), NEW A, NEW B, Matches(s, i, <<A, B>>)
    PROVE  /\ Len(<<A, B>>) = 2 /\ i + 1 <= Len(s)
           /\ s[i] \in A /\ s[i + 1] \in B
<1>. DEFINE p == <<A, B>>
<1>1. Len(p) = 2 /\ p[1] = A /\ p[2] = B
  OBVIOUS
<1>. HIDE DEF p
<1>2. i + Len(p) <= Len(s) + 1 /\ \A k \in 1 .. Len(p) : s[i + k - 1] \in p[k]
  BY DEF Matches, p
<1>3. /\ Len(s) \in Nat /\ 1 \in 1 .. Len(p) /\ 2 \in 1 .. Len(p)
      /\ i + 1 - 1 = i /\ i + 2 - 1 = i + 1
  BY <1>1
<1>4. s[i] \in p[1] /\ s[i + 1] \in p[2]
  BY <1>1, <1>2, <1>3
<1>5. QED  BY <1>1, <1>2, <1>3, <1>4 DEF p

LEMMA MatchedThree ==
    ASSUME NEW s \in Seq(Byte), NEW i \in 1 .. Len(s), NEW A, NEW B, NEW C, Matches(s, i, <<A, B, C>>)
    PROVE  /\ Len(<<A, B, C>>) = 3 /\ i + 2 <= Len(s)
           /\ s[i] \in A /\ s[i + 1] \in B /\ s[i + 2] \in C
<1>. DEFINE p == <<A, B, C>>
<1>1. Len(p) = 3 /\ p[1] = A /\ p[2] = B /\ p[3] = C
  OBVIOUS
<1>. HIDE DEF p
<1>2. i + Len(p) <= Len(s) + 1 /\ \A k \in 1 .. Len(p) : s[i + k - 1] \in p[k]
  BY DEF Matches, p
<1>3. /\ Len(s) \in Nat /\ 1 \in 1 .. Len(p) /\ 2 \in 1 .. Len(p) /\ 3 \in 1 .. Len(p)
      /\ i + 1 - 1 = i /\ i + 2 - 1 = i + 1 /\ i + 3 - 1 = i + 2
  BY <1>1
<1>4. s[i] \in p[1] /\ s[i + 1] \in p[2] /\ s[i + 2] \in p[3]
  BY <1>1, <1>2, <1>3
<1>5. QED  BY <1>1, <1>2, <1>3, <1>4 DEF p

LEMMA MatchedFour ==
    ASSUME NEW s \in Seq(Byte), NEW i \in 1 .. Len(s), NEW A, NEW B, NEW C, NEW D, Matches(s, i, <<A, B, C, D>>)
    PROVE  /\ Len(<<A, B, C, D>>) = 4 /\ i + 3 <= Len(s)
           /\ s[i] \in A /\ s[i + 1] \in B /\ s[i + 2] \in C /\ s[i + 3] \in D
<1>. DEFINE p == <<A, B, C, D>>
<1>1. Len(p) = 4 /\ p[1] = A /\ p[2] = B /\ p[3] = C /\ p[4] = D
  OBVIOUS
<1>. HIDE DEF p
<1>2. i + Len(p) <= Len(s) + 1 /\ \A k \in 1 .. Len(p) : s[i + k - 1] \in p[k]
  BY DEF Matches, p
<1>3. /\ Len(s) \in Nat /\ 1 \in 1 .. Len(p) /\ 2 \in 1 .. Len(p) /\ 3 \in 1 .. Len(p) /\ 4 \in 1 .. Len(p)
      /\ i + 1 - 1 = i /\ i + 2 - 1 = i + 1 /\ i + 3 - 1 = i + 2 /\ i + 4 - 1 = i + 3
  BY <1>1
<1>4. s[i] \in p[1] /\ s[i + 1] \in p[2] /\ s[i + 2] \in p[3] /\ s[i + 3] \in p[4]
  BY <1>1, <1>2, <1>3
<1>5. QED  BY <1>1, <1>2, <1>3, <1>4 DEF p

\* Every piece that matches a pattern is a sequence that is_legal_utf8 does not object to.
LEMMA MatchedBytes ==
    ASSUME NEW s \in Seq(Byte), NEW i \in 1 .. Len(s), NEW p \in Utf8Patterns, Matches(s, i, p)
    PROVE  LET n == Len(p) - 1
               b == s[i]
           IN  /\ n \in 0 .. 3 /\ i + n <= Len(s) /\ \A k \in i + 1 .. i + n : s[k] \in Continuation
               /\ \/ n = 0 /\ b \in 0 .. 127
                  \/ n = 1 /\ b \in 194 .. 223
                  \/ n = 2 /\ b \in 224 .. 239
                  \/ n = 3 /\ b \in 240 .. 244
               /\ ~(b = 224 /\ s[i + 1] < 160) /\ ~(b = 237 /\ s[i + 1] > 159)
               /\ ~(b = 240 /\ s[i + 1] < 144) /\ ~(b = 244 /\ s[i + 1] > 143)
<1>. DEFINE b == s[i]
            c == s[i + 1]
            m == Len(p)
            t == Tail80BF
            OneByte == m = 1 /\ i <= Len(s) /\ b \in 0 .. 127
            TwoBytes == m = 2 /\ i + 1 <= Len(s) /\ b \in 194 .. 223 /\ c \in t
            ThreeBytes ==
                /\ m = 3 /\ i + 2 <= Len(s) /\ b \in 224 .. 239 /\ c \in t /\ s[i + 2] \in t
                /\ b = 224 => c \in 160 .. 191
                /\ b = 237 => c \in 128 .. 159
            FourBytes ==
                /\ m = 4 /\ i + 3 <= Len(s) /\ b \in 240 .. 244
                /\ c \in t /\ s[i + 2] \in t /\ s[i + 3] \in t
                /\ b = 240 => c \in 144 .. 191
                /\ b = 244 => c \in 128 .. 143
            Bounds == /\ ~(b = 224 /\ c < 160) /\ ~(b = 237 /\ c > 159)
                      /\ ~(b = 240 /\ c < 144) /\ ~(b = 244 /\ c > 143)
            Leads == \/ m - 1 = 0 /\ b \in 0 .. 127
                     \/ m - 1 = 1 /\ b \in 194 .. 223
                     \/ m - 1 = 2 /\ b \in 224 .. 239
                     \/ m - 1 = 3 /\ b \in 240 .. 244
            Tails == /\ m - 1 \in 0 .. 3 /\ i + (m - 1) <= Len(s)
                     /\ \A k \in i + 1 .. i + (m - 1) : s[k] \in Continuation
<1>. HIDE DEF b, c, m, t, OneByte, TwoBytes, ThreeBytes, FourBytes
<1>1. Len(s) \in Nat /\ i \in Nat /\ t = 128 .. 191 /\ t = Continuation /\ c = s[i + 1]
  BY DEF t, c, Tail80BF, Continuation
<1>2. OneByte \/ TwoBytes \/ ThreeBytes \/ FourBytes
  <2>1. \/ p = <<0 .. 127>> \/ p = <<194 .. 223, t>> \/ p = <<{224}, 160 .. 191, t>>
        \/ p = <<225 .. 236, t, t>> \/ p = <<{237}, 128 .. 159, t>> \/ p = <<238 .. 239, t, t>>
        \/ p = <<{240}, 144 .. 191, t, t>> \/ p = <<241 .. 243, t, t, t>> \/ p = <<{244}, 128 .. 143, t, t>>
    BY ZenonT(60) DEF Utf8Patterns, t
  <2>2. CASE p = <<0 .. 127>>
    <3>1. m = 1 /\ i <= Len(s) /\ b \in 0 .. 127
      BY <2>2, MatchedOne DEF b, c, m
    <3>2. QED  BY <3>1 DEF OneByte
  <2>3. CASE p = <<194 .. 223, t>>
    <3>1. m = 2 /\ i + 1 <= Len(s) /\ b \in 194 .. 223 /\ c \in t
      BY <2>3, MatchedTwo DEF b, c, m
    <3>2. QED  BY <3>1 DEF TwoBytes
  <2>4. CASE p = <<{224}, 160 .. 191, t>>
    <3>1. m = 3 /\ i + 2 <= Len(s) /\ b \in {224} /\ c \in 160 .. 191 /\ s[i + 2] \in t
      BY <2>4, MatchedThree DEF b, c, m
    <3>2. b \in 224 .. 239
      BY <3>1
    <3>3. c \in t
      BY <1>1, <3>1
    <3>4. b = 224 => c \in 160 .. 191
      BY <3>1
    <3>5. b = 237 => c \in 128 .. 159
      BY <3>1
    <3>6. QED  BY <3>1, <3>2, <3>3, <3>4, <3>5, Zenon DEF ThreeBytes
  <2>5. CASE p = <<225 .. 236, t, t>>
    <3>1. m = 3 /\ i + 2 <= Len(s) /\ b \in 225 .. 236 /\ c \in t /\ s[i + 2] \in t
      BY <2>5, MatchedThree DEF b, c, m
    <3>2. b \in 224 .. 239
      BY <3>1
    <3>3. c \in t
      BY <1>1, <3>1
    <3>4. b = 224 => c \in 160 .. 191
      BY <3>1
    <3>5. b = 237 => c \in 128 .. 159
      BY <3>1
    <3>6. QED  BY <3>1, <3>2, <3>3, <3>4, <3>5, Zenon DEF ThreeBytes
  <2>6. CASE p = <<{237}, 128 .. 159, t>>
    <3>1. m = 3 /\ i + 2 <= Len(s) /\ b \in {237} /\ c \in 128 .. 159 /\ s[i + 2] \in t
      BY <2>6, MatchedThree DEF b, c, m
    <3>2. b \in 224 .. 239
      BY <3>1
    <3>3. c \in t
      BY <1>1, <3>1
    <3>4. b = 224 => c \in 160 .. 191
      BY <3>1
    <3>5. b = 237 => c \in 128 .. 159
      BY <3>1
    <3>6. QED  BY <3>1, <3>2, <3>3, <3>4, <3>5, Zenon DEF ThreeBytes
  <2>7. CASE p = <<238 .. 239, t, t>>
    <3>1. m = 3 /\ i + 2 <= Len(s) /\ b \in 238 .. 239 /\ c \in t /\ s[i + 2] \in t
      BY <2>7, MatchedThree DEF b, c, m
    <3>2. b \in 224 .. 239
      BY <3>1
    <3>3. c \in t
      BY <1>1, <3>1
    <3>4. b = 224 => c \in 160 .. 191
      BY <3>1
    <3>5. b = 237 => c \in 128 .. 159
      BY <3>1
    <3>6. QED  BY <3>1, <3>2, <3>3, <3>4, <3>5, Zenon DEF ThreeBytes
  <2>8. CASE p = <<{240}, 144 .. 191, t, t>>
    <3>1. m = 4 /\ i + 3 <= Len(s) /\ b \in {240} /\ c \in 144 .. 191 /\ s[i + 2] \in t /\ s[i + 3] \in t
      BY <2>8, MatchedFour DEF b, c, m
    <3>2. b \in 240 .. 244
      BY <3>1
    <3>3. c \in t
      BY <1>1, <3>1
    <3>4. b = 240 => c \in 144 .. 191
      BY <3>1
    <3>5. b = 244 => c \in 128 .. 143
      BY <3>1
    <3>6. QED  BY <3>1, <3>2, <3>3, <3>4, <3>5, Zenon DEF FourBytes
  <2>9. CASE p = <<241 .. 243, t, t, t>>
    <3>1. m = 4 /\ i + 3 <= Len(s) /\ b \in 241 .. 243 /\ c \in t /\ s[i + 2] \in t /\ s[i + 3] \in t
      BY <2>9, MatchedFour DEF b, c, m
    <3>2. b \in 240 .. 244
      BY <3>1
    <3>3. c \in t
      BY <1>1, <3>1
    <3>4. b = 240 => c \in 144 .. 191
      BY <3>1
    <3>5. b = 244 => c \in 128 .. 143
      BY <3>1
    <3>6. QED  BY <3>1, <3>2, <3>3, <3>4, <3>5, Zenon DEF FourBytes
  <2>10. CASE p = <<{244}, 128 .. 143, t, t>>
    <3>1. m = 4 /\ i + 3 <= Len(s) /\ b \in {244} /\ c \in 128 .. 143 /\ s[i + 2] \in t /\ s[i + 3] \in t
      BY <2>10, MatchedFour DEF b, c, m
    <3>2. b \in 240 .. 244
      BY <3>1
    <3>3. c \in t
      BY <1>1, <3>1
    <3>4. b = 240 => c \in 144 .. 191
      BY <3>1
    <3>5. b = 244 => c \in 128 .. 143
      BY <3>1
    <3>6. QED  BY <3>1, <3>2, <3>3, <3>4, <3>5, Zenon DEF FourBytes
  <2>11. QED  BY <2>1, <2>2, <2>3, <2>4, <2>5, <2>6, <2>7, <2>8, <2>9, <2>10, ZenonT(60)
<1>3. CASE OneByte
  <2>1. Leads /\ Bounds
    BY <1>3 DEF OneByte
  <2>2. Tails
    BY <1>1, <1>3 DEF OneByte
  <2>3. QED  BY <2>1, <2>2 DEF b, c, m
<1>4. CASE TwoBytes
  <2>1. Leads /\ Bounds
    BY <1>4 DEF TwoBytes
  <2>2. Tails
    <3>1. \A k \in i + 1 .. i + (m - 1) : k = i + 1
      BY <1>1, <1>4 DEF TwoBytes
    <3>2. m - 1 = 1 /\ c \in Continuation
      BY <1>1, <1>4 DEF TwoBytes
    <3>3. QED  BY <1>1, <1>4, <3>1, <3>2 DEF TwoBytes
  <2>3. QED  BY <2>1, <2>2 DEF b, c, m
<1>5. CASE ThreeBytes
  <2>1. Leads
    BY <1>5 DEF ThreeBytes
  <2>2. Bounds
    <3>1. b \in 224 .. 239
      BY <1>5 DEF ThreeBytes
    <3>2. b = 224 => c \in 160 .. 191
      BY <1>5 DEF ThreeBytes
    <3>3. b = 237 => c \in 128 .. 159
      BY <1>5 DEF ThreeBytes
    <3>4. ~(b = 224 /\ c < 160)
      <4>1. \A x \in 160 .. 191 : ~(x < 160)
        OBVIOUS
      <4>2. QED  BY <3>2, <4>1, Zenon
    <3>5. ~(b = 237 /\ c > 159)
      <4>1. \A x \in 128 .. 159 : ~(x > 159)
        OBVIOUS
      <4>2. QED  BY <3>3, <4>1, Zenon
    <3>6. ~(b = 240 /\ c < 144)
      BY <3>1
    <3>7. ~(b = 244 /\ c > 143)
      BY <3>1
    <3>8. QED  BY <3>4, <3>5, <3>6, <3>7
  <2>3. Tails
    <3>1. m = 3 /\ i + 2 <= Len(s)
      BY <1>5 DEF ThreeBytes
    <3>2. s[i + 1] \in Continuation
      BY <1>1, <1>5, Zenon DEF ThreeBytes
    <3>3. s[i + 2] \in Continuation
      BY <1>1, <1>5, Zenon DEF ThreeBytes
    <3>4. \A k \in i + 1 .. i + (m - 1) : k = i + 1 \/ k = i + 2
      BY <1>1, <3>1
    <3>5. m - 1 \in 0 .. 3 /\ i + (m - 1) <= Len(s)
      BY <1>1, <3>1
    <3>6. QED  BY <3>2, <3>3, <3>4, <3>5, Zenon
  <2>4. QED  BY <2>1, <2>2, <2>3 DEF b, c, m
<1>6. CASE FourBytes
  <2>1. Leads
    BY <1>6 DEF FourBytes
  <2>2. Bounds
    <3>1. b \in 240 .. 244
      BY <1>6 DEF FourBytes
    <3>2. b = 240 => c \in 144 .. 191
      BY <1>6 DEF FourBytes
    <3>3. b = 244 => c \in 128 .. 143
      BY <1>6 DEF FourBytes
    <3>4. ~(b = 224 /\ c < 160)
      BY <3>1
    <3>5. ~(b = 237 /\ c > 159)
      BY <3>1
    <3>6. ~(b = 240 /\ c < 144)
      <4>1. \A x \in 144 .. 191 : ~(x < 144)
        OBVIOUS
      <4>2. QED  BY <3>2, <4>1, Zenon
    <3>7. ~(b = 244 /\ c > 143)
      <4>1. \A x \in 128 .. 143 : ~(x > 143)
        OBVIOUS
      <4>2. QED  BY <3>3, <4>1, Zenon
    <3>8. QED  BY <3>4, <3>5, <3>6, <3>7
  <2>3. Tails
    <3>1. m = 4 /\ i + 3 <= Len(s)
      BY <1>6 DEF FourBytes
    <3>2. s[i + 1] \in Continuation
      BY <1>1, <1>6, Zenon DEF FourBytes
    <3>3. s[i + 2] \in Continuation
      BY <1>1, <1>6, Zenon DEF FourBytes
    <3>4. s[i + 3] \in Continuation
      BY <1>1, <1>6, Zenon DEF FourBytes
    <3>5. \A k \in i + 1 .. i + (m - 1) : k = i + 1 \/ k = i + 2 \/ k = i + 3
      BY <1>1, <3>1
    <3>6. m - 1 \in 0 .. 3 /\ i + (m - 1) <= Len(s)
      BY <1>1, <3>1
    <3>7. QED  BY <3>2, <3>3, <3>4, <3>5, <3>6, Zenon
  <2>4. QED  BY <2>1, <2>2, <2>3 DEF b, c, m
<1>7. QED  BY <1>2, <1>3, <1>4, <1>5, <1>6

LEMMA MatchedIsLegal ==
    ASSUME NEW s \in Seq(Byte), NEW i \in 1 .. Len(s), NEW p \in Utf8Patterns, Matches(s, i, p)
    PROVE  /\ SequenceError(s, i) = "none" /\ s[i] \notin Continuation
           /\ Len(p) \in 1 .. 4 /\ Trailing(s[i]) = Len(p) - 1
           /\ \A k \in i + 1 .. i + Len(p) - 1 : s[k] \in Continuation
<1>. DEFINE n == Len(p) - 1
            b == s[i]
<1>1. /\ n \in 0 .. 3 /\ i + n <= Len(s) /\ \A k \in i + 1 .. i + n : s[k] \in Continuation
      /\ \/ n = 0 /\ b \in 0 .. 127
         \/ n = 1 /\ b \in 194 .. 223
         \/ n = 2 /\ b \in 224 .. 239
         \/ n = 3 /\ b \in 240 .. 244
      /\ ~(b = 224 /\ s[i + 1] < 160) /\ ~(b = 237 /\ s[i + 1] > 159)
      /\ ~(b = 240 /\ s[i + 1] < 144) /\ ~(b = 244 /\ s[i + 1] > 143)
  BY MatchedBytes
<1>2. b \in Byte /\ Len(s) \in Nat /\ Len(p) \in 1 .. 4 /\ i + n = i + Len(p) - 1
  BY <1>1
<1>. HIDE DEF n, b
<1>3. /\ n \in 0 .. 3
      /\ \/ n = 0 /\ b \in 0 .. 127
         \/ n = 1 /\ b \in 194 .. 223
         \/ n = 2 /\ b \in 224 .. 239
         \/ n = 3 /\ b \in 240 .. 244
  BY <1>1
<1>4. Trailing(b) = n
  <2>1. /\ b \in 0 .. 127 => Trailing(b) = 0
        /\ b \in 194 .. 223 => Trailing(b) = 1
        /\ b \in 224 .. 239 => Trailing(b) = 2
        /\ b \in 240 .. 244 => Trailing(b) = 3
    BY <1>2, TrailingOf
  <2>2. CASE n = 0 /\ b \in 0 .. 127
    BY <2>1, <2>2
  <2>3. CASE n = 1 /\ b \in 194 .. 223
    BY <2>1, <2>3
  <2>4. CASE n = 2 /\ b \in 224 .. 239
    BY <2>1, <2>4
  <2>5. CASE n = 3 /\ b \in 240 .. 244
    BY <2>1, <2>5
  <2>6. QED  BY <1>3, <2>2, <2>3, <2>4, <2>5
<1>5. b \in (0 .. 127) \cup (194 .. 244)
  BY <1>3
<1>6. b \notin Continuation /\ ~(b \in 128 .. 193) /\ ~(b > 244)
  BY <1>5 DEF Continuation
<1>7. ~(i + n > Len(s)) /\ ~(n > 3)
  <2>1. n \in 0 .. 3 /\ i + n <= Len(s)
    BY <1>1
  <2>2. QED  BY <1>2, <2>1
<1>8. ~(\E k \in i + 1 .. i + n : s[k] \notin Continuation)
  BY <1>1
<1>9. ~(\/ b \in 128 .. 193 \/ b > 244
        \/ b = 224 /\ s[i + 1] < 160
        \/ b = 237 /\ s[i + 1] > 159
        \/ b = 240 /\ s[i + 1] < 144
        \/ b = 244 /\ s[i + 1] > 143)
  BY <1>1, <1>6, Zenon
<1>10. SequenceError(s, i) = "none"
  BY <1>4, <1>7, <1>8, <1>9, Zenon DEF SequenceError, b
<1>11. QED  BY <1>1, <1>2, <1>4, <1>6, <1>10 DEF n, b

\* unicode_traits::validate accepts all well-formed UTF-8.
THEOREM WellFormedIsValidated ==
    ASSUME NEW s \in Seq(Byte), WellFormed(s)
    PROVE  ValidUtf8(s)
<1>1. PICK starts \in SUBSET DOMAIN s : CutAt(s, starts)
  BY DEF WellFormed
<1>2. Len(s) \in Nat /\ DOMAIN s = 1 .. Len(s) /\ starts \subseteq 1 .. Len(s)
  BY <1>1
<1>. DEFINE Piece(i, k) == \E p \in Utf8Patterns :
                               /\ Matches(s, i, p) /\ k \in i .. i + Len(p) - 1
                               /\ i + Len(p) \in starts \cup {Len(s) + 1}
            Within(k) == \E i \in starts : Piece(i, k)
            Outside == {k \in 1 .. Len(s) : ~Within(k)}
<1>3. ASSUME NEW i \in starts PROVE Within(i)
  <2>1. PICK p \in Utf8Patterns : Matches(s, i, p) /\ i + Len(p) \in starts \cup {Len(s) + 1}
    BY <1>1 DEF CutAt
  <2>2. i \in 1 .. Len(s)
    BY <1>2
  <2>3. Len(p) \in 1 .. 4
    BY <2>1, <2>2, MatchedIsLegal
  <2>. DEFINE m == Len(p)
  <2>. HIDE DEF m
  <2>4. i \in i .. i + m - 1
    <3>1. i \in Int /\ m \in 1 .. 4
      BY <2>2, <2>3 DEF m
    <3>2. QED  BY <3>1
  <2>5. QED  BY <2>1, <2>4 DEF m
<1>4. Outside = {}
  <2>. SUFFICES ASSUME Outside # {} PROVE FALSE
    OBVIOUS
  <2>1. Outside \subseteq Nat
    BY <1>2
  <2>. HIDE DEF Outside
  <2>2. PICK k \in Outside : \A j \in Outside : k <= j
    BY <2>1, LeastPosition
  <2>3. k \in 1 .. Len(s) /\ ~Within(k)
    BY <2>2 DEF Outside
  <2>4. k # 1
    <3>1. s # <<>>
      BY <1>2, <2>3
    <3>2. 1 \in starts
      BY <1>1, <3>1 DEF CutAt
    <3>3. QED  BY <1>3, <2>3, <3>2
  <2>. DEFINE j == k - 1
  <2>5. j \in 1 .. Len(s) /\ ~(k <= j) /\ k = j + 1
    BY <1>2, <2>3, <2>4
  <2>. HIDE DEF j
  <2>6. Within(j)
    <3>1. j \notin Outside
      BY <2>2, <2>5
    <3>. HIDE DEF Within
    <3>2. QED  BY <2>5, <3>1 DEF Outside
  <2>7. PICK i \in starts, p \in Utf8Patterns :
            /\ Matches(s, i, p) /\ j \in i .. i + Len(p) - 1
            /\ i + Len(p) \in starts \cup {Len(s) + 1}
    BY <2>6
  <2>8. i \in 1 .. Len(s) /\ Len(p) \in Nat
    <3>1. i \in 1 .. Len(s)
      BY <1>2
    <3>2. Len(p) \in 1 .. 4
      BY <2>7, <3>1, MatchedIsLegal
    <3>3. QED  BY <3>1, <3>2
  <2>9. CASE k \in i .. i + Len(p) - 1
    BY <2>3, <2>7, <2>9
  <2>10. CASE ~(k \in i .. i + Len(p) - 1)
    <3>1. k = i + Len(p)
      BY <1>2, <2>5, <2>7, <2>8, <2>10
    <3>2. k \in starts
      BY <1>2, <2>3, <2>7, <3>1
    <3>. HIDE DEF Within
    <3>3. QED  BY <1>3, <2>3, <3>2
  <2>11. QED  BY <2>9, <2>10
<1>5. ASSUME NEW k \in 1 .. Len(s), SequenceError(s, k) # "none"
      PROVE  InSequence(s, k)
  <2>1. Within(k)
    BY <1>4
  <2>2. PICK i \in starts, p \in Utf8Patterns : Matches(s, i, p) /\ k \in i .. i + Len(p) - 1
    BY <2>1
  <2>3. i \in 1 .. Len(s)
    BY <1>2
  <2>4. /\ SequenceError(s, i) = "none" /\ s[i] \notin Continuation
        /\ Len(p) \in 1 .. 4 /\ Trailing(s[i]) = Len(p) - 1
        /\ \A j \in i + 1 .. i + Len(p) - 1 : s[j] \in Continuation
    BY <2>2, <2>3, MatchedIsLegal
  <2>5. k # i
    BY <1>5, <2>4
  <2>6. k \in i + 1 .. i + Len(p) - 1 /\ i \in 1 .. k - 1
    BY <1>2, <2>2, <2>3, <2>4, <2>5
  <2>7. s[k] \in Continuation /\ i + Trailing(s[i]) >= k
    BY <2>4, <2>6
  <2>8. QED  BY <2>4, <2>6, <2>7 DEF InSequence
<1>6. QED  BY <1>2, <1>5 DEF ValidUtf8, IllegalAt

------------------------------------------------------------------------------
\* The parser.

\* Sequences: the stack after a push and a pop, and the rest of the input.
LEMMA Pushed ==
    ASSUME NEW S, NEW q \in Seq(S), NEW e \in S
    PROVE  /\ Append(q, e) \in Seq(S) /\ Len(Append(q, e)) = Len(q) + 1
           /\ Append(q, e)[Len(q) + 1] = e
           /\ \A i \in 1 .. Len(q) : Append(q, e)[i] = q[i]
OBVIOUS

LEMMA PoppedType ==
    ASSUME NEW S, NEW q \in Seq(S), Len(q) > 1
    PROVE  SubSeq(q, 1, Len(q) - 1) \in Seq(S)
BY SMTT(10)

LEMMA PoppedLen ==
    ASSUME NEW S, NEW q \in Seq(S), Len(q) > 1
    PROVE  Len(SubSeq(q, 1, Len(q) - 1)) = Len(q) - 1
BY SMTT(10)

LEMMA PoppedAt ==
    ASSUME NEW S, NEW q \in Seq(S), Len(q) > 1
    PROVE  \A i \in 1 .. Len(q) - 1 : SubSeq(q, 1, Len(q) - 1)[i] = q[i]
BY SMTT(10)

LEMMA LastType ==
    ASSUME NEW S, NEW q \in Seq(S), Len(q) > 0
    PROVE  q[Len(q)] \in S
BY SMTT(10)

LEMMA HeadTail ==
    ASSUME NEW S, NEW q \in Seq(S), q # <<>>
    PROVE  Head(q) \in S /\ Tail(q) \in Seq(S)
OBVIOUS

LEMMA NonemptyLen ==
    ASSUME NEW S, NEW q \in Seq(S), q # <<>>
    PROVE  Len(q) \in Nat /\ Len(q) > 0
OBVIOUS

LEMMA PoppedAll ==
    ASSUME NEW S, NEW q \in Seq(S), Len(SubSeq(q, 1, Len(q) - 1)) > 0
    PROVE  Len(q) > 1
<1>. DEFINE n == Len(q)
            r == SubSeq(q, 1, n - 1)
<1>1. n \in Nat /\ n - 1 \in Int
  BY LenProperties
<1>2. Len(r) = IF 1 <= n - 1 THEN (n - 1) - 1 + 1 ELSE 0
  <2>. HIDE DEF n
  <2>1. \A j \in 1 .. n - 1 : q[j] \in S
    <3>1. n = Len(q)  BY DEF n
    <3>2. QED  BY <1>1, <3>1
  <2>2. QED  BY <1>1, <2>1, SubSeqProperties DEF n
<1>3. Len(r) > 0
  OBVIOUS
<1>. HIDE DEF n, r
<1>4. n > 1
  BY <1>1, <1>2, <1>3
<1>5. QED  BY <1>4 DEF n

LEMMA MoreThanOne == ASSUME NEW k \in Nat, k > 0, k # 1 PROVE k \in Nat /\ k >= 2
OBVIOUS

LEMMA Dropped ==
    ASSUME NEW S, NEW q \in Seq(S), NEW n \in 1 .. Len(q)
    PROVE  SubSeq(q, n + 1, Len(q)) \in Seq(S)
BY SMTT(10)

------------------------------------------------------------------------------
\* The inductive invariant.
IInv == TypeOK /\ Consistent

\* While a loop of the parser runs there is a stack to look at.
LEMMA StackNonempty == ASSUME IInv, ec = "none" PROVE Len(stateStack) > 0 /\ Top \in States
<1>1. stateStack \in Seq(States) /\ Len(stateStack) >= level + 1 /\ level \in Nat
  BY DEF IInv, TypeOK, Consistent, StackShape, Frames
<1>2. Len(stateStack) > 0
  BY <1>1
<1>3. QED  BY <1>1, <1>2, LastType DEF Top

\* Types after the building blocks of the actions.
LEMMA StateNames ==
    /\ BetweenStates \cup LiteralStates \cup CommentStates \cup Containers \subseteq States
    /\ {"string", "number", "cr", "accept", "member_name", "done"} \subseteq States
    /\ ValueStates \cup NameStates \cup {"expect_comma_or_end", "expect_colon"} \subseteq States
BY DEF States, CaseStates, BetweenStates, Containers

LEMMA PushType == ASSUME TypeOK, NEW s \in States, Push(s) PROVE stateStack' \in Seq(States)
<1>1. stateStack \in Seq(States)
  BY DEF TypeOK
<1>2. QED  BY <1>1, Pushed DEF Push

LEMMA PopType ==
    ASSUME TypeOK, Len(stateStack) > 1
    PROVE  Top \in States /\ Popped \in Seq(States)
<1>1. stateStack \in Seq(States)
  BY DEF TypeOK
<1>2. Len(stateStack) > 0
  BY <1>1
<1>3. QED  BY <1>1, <1>2, PoppedType, LastType DEF Top, Popped

LEMMA InputType == ASSUME TypeOK, input # <<>> PROVE Here \in Byte /\ Tail(input) \in Seq(Byte)
BY HeadTail DEF TypeOK, Here

LEMMA TakeType ==
    ASSUME TypeOK, input # <<>>, Take
    PROVE  input' \in Seq(Byte) /\ position' \in Nat
<1>1. position \in Nat /\ Tail(input) \in Seq(Byte)
  BY InputType DEF TypeOK
<1>2. QED  BY <1>1 DEF Take

LEMMA SkipType ==
    ASSUME TypeOK, input # <<>>, NEW e \in Errors, Skip(e)
    PROVE  /\ input' \in Seq(Byte) /\ position' \in Nat
           /\ more' \in BOOLEAN /\ ec' \in Errors \cup {"none"}
<1>1. CASE Take /\ UNCHANGED <<more, ec>>
  BY <1>1, TakeType DEF TypeOK
<1>2. CASE Stay /\ Abort(e)
  BY <1>2 DEF TypeOK, Stay, Abort
<1>3. QED  BY <1>1, <1>2 DEF Skip

LEMMA VisitType ==
    ASSUME TypeOK, NEW c \in CallNames, NEW arg \in Seq(Byte), Visit(c, arg)
    PROVE  calls' \in Seq(CallNames \X Seq(Byte)) /\ ec' \in Errors \cup {"none"}
<1>1. <<c, arg>> \in CallNames \X Seq(Byte)
  OBVIOUS
<1>2. QED  BY <1>1, Pushed DEF TypeOK, Visit, Errors

LEMMA NoArgument == <<>> \in Seq(Byte)
OBVIOUS

LEMMA ProceedType == ASSUME TypeOK, Proceed PROVE more' \in BOOLEAN
BY DEF TypeOK, Proceed

LEMMA ValueDoneType == ASSUME TypeOK, NEW lvl, ValueDone(lvl) PROVE state' \in States
BY DEF TypeOK, ValueDone, States, CaseStates, BetweenStates

------------------------------------------------------------------------------
\* One lemma per action: it preserves the types.
LEMMA SkipSpaceType == ASSUME IInv, SkipSpace PROVE TypeOK'
<1>1. TypeOK /\ input # <<>> /\ Here \in Byte
  BY InputType DEF IInv, SkipSpace, At
<1>2. input' \in Seq(Byte) /\ position' \in Nat
  <2>1. CASE Here # CR \/ Len(input) = 1
    <3>1. Take  BY <2>1, Zenon DEF SkipSpace
    <3>2. QED  BY <1>1, <3>1, TakeType
  <2>2. CASE Here = CR /\ Len(input) # 1
    <3>. DEFINE n == LineEndLength(input[2])
    <3>1. Len(input) \in Nat /\ Len(input) >= 2
      <4>1. input \in Seq(Byte) /\ input # <<>>
        BY <1>1 DEF TypeOK
      <4>2. Len(input) \in Nat /\ Len(input) > 0
        BY <4>1, NonemptyLen
      <4>3. Len(input) # 1
        BY <2>2, Zenon
      <4>4. QED  BY <4>2, <4>3, MoreThanOne, Zenon
    <3>2. n \in {1, 2}
      BY DEF LineEndLength
    <3>3. input' = SubSeq(input, n + 1, Len(input)) /\ position' = position + n
      BY <2>2 DEF SkipSpace
    <3>. HIDE DEF n
    <3>4. n \in 1 .. Len(input)
      BY <3>1, <3>2
    <3>5. QED  BY <1>1, <3>3, <3>4, Dropped DEF TypeOK
  <2>3. QED  BY <2>1, <2>2
<1>3. line' \in Nat /\ markPosition' \in Nat
  BY <1>1, <1>2 DEF SkipSpace, TypeOK, marks
<1>4. state' \in States /\ stateStack' \in Seq(States) /\ level' \in Nat
  <2>1. UNCHANGED nest \/ (Push(state) /\ state' = "cr" /\ level' = level)
    BY Zenon DEF SkipSpace
  <2>2. CASE UNCHANGED nest
    BY <1>1, <2>2 DEF TypeOK, nest
  <2>3. CASE Push(state) /\ state' = "cr" /\ level' = level
    <3>1. state \in States /\ level \in Nat
      BY <1>1 DEF TypeOK
    <3>2. QED  BY <1>1, <2>3, <3>1, PushType, StateNames
  <2>4. QED  BY <2>1, <2>2, <2>3
<1>5. QED  BY <1>1, <1>2, <1>3, <1>4 DEF SkipSpace, TypeOK, LoopFrame, token, modes, supply

LEMMA ResumeCrType == ASSUME IInv, ResumeCr PROVE TypeOK'
<1>1. TypeOK /\ input # <<>> /\ Len(stateStack) > 1
  BY DEF IInv, ResumeCr, At, TypeOK, Consistent, StackShape, Frames
<1>2. input' \in Seq(Byte) /\ position' \in Nat
  BY <1>1, TakeType DEF ResumeCr, TypeOK, Stay
<1>3. line' \in Nat /\ markPosition' \in Nat
  BY <1>1, <1>2 DEF ResumeCr, TypeOK
<1>4. state' \in States /\ stateStack' \in Seq(States)
  BY <1>1, PopType DEF ResumeCr
<1>5. QED  BY <1>1, <1>2, <1>3, <1>4 DEF ResumeCr, TypeOK, LoopFrame, token, modes, supply

LEMMA ControlCharacterType == ASSUME IInv, ControlCharacter PROVE TypeOK'
<1>1. TypeOK /\ input # <<>>
  BY DEF IInv, ControlCharacter, At
<1>2. /\ input' \in Seq(Byte) /\ position' \in Nat
      /\ more' \in BOOLEAN /\ ec' \in Errors \cup {"none"}
  BY <1>1, SkipType DEF ControlCharacter, Stay, TypeOK, Errors
<1>3. QED  BY <1>1, <1>2 DEF ControlCharacter, TypeOK, LoopFrame, nest, token, marks, modes, supply

LEMMA BeginObjectType == ASSUME IInv, BeginObject PROVE TypeOK'
<1>1. TypeOK /\ input # <<>>
  BY DEF IInv, BeginObject, At
<1>2. input' \in Seq(Byte) /\ position' \in Nat
  BY <1>1, TakeType DEF BeginObject
<1>3. state' \in States /\ stateStack' \in Seq(States) /\ level' \in Nat
  BY <1>1, PushType, StateNames DEF BeginObject, TypeOK, Containers, NameStates
<1>4. calls' \in Seq(CallNames \X Seq(Byte)) /\ ec' \in Errors \cup {"none"} /\ more' \in BOOLEAN
  <2>1. CASE TooDeep
    BY <1>1, <2>1 DEF BeginObject, TypeOK, Abort, Errors
  <2>2. CASE ~TooDeep
    <3>1. Visit("begin_object", <<>>) /\ more' = ~cursorMode
      BY <2>2 DEF BeginObject
    <3>2. calls' \in Seq(CallNames \X Seq(Byte)) /\ ec' \in Errors \cup {"none"}
      BY <1>1, <3>1, VisitType, NoArgument DEF CallNames
    <3>3. more' \in BOOLEAN
      BY <1>1, <3>1, Zenon DEF TypeOK
    <3>4. QED  BY <3>2, <3>3
  <2>3. QED  BY <2>1, <2>2
<1>5. QED  BY <1>1, <1>2, <1>3, <1>4 DEF BeginObject, TypeOK, LoopFrame, token, marks, modes, supply

LEMMA BeginArrayType == ASSUME IInv, BeginArray PROVE TypeOK'
<1>1. TypeOK /\ input # <<>>
  BY DEF IInv, BeginArray, At
<1>2. input' \in Seq(Byte) /\ position' \in Nat
  BY <1>1, TakeType DEF BeginArray
<1>3. state' \in States /\ stateStack' \in Seq(States) /\ level' \in Nat
  BY <1>1, PushType, StateNames DEF BeginArray, TypeOK, Containers, ValueStates
<1>4. calls' \in Seq(CallNames \X Seq(Byte)) /\ ec' \in Errors \cup {"none"} /\ more' \in BOOLEAN
  <2>1. CASE TooDeep
    BY <1>1, <2>1 DEF BeginArray, TypeOK, Abort, Errors
  <2>2. CASE ~TooDeep
    <3>1. Visit("begin_array", <<>>) /\ Proceed
      BY <2>2 DEF BeginArray
    <3>2. calls' \in Seq(CallNames \X Seq(Byte)) /\ ec' \in Errors \cup {"none"}
      BY <1>1, <3>1, VisitType, NoArgument DEF CallNames
    <3>3. QED  BY <1>1, <3>1, <3>2, ProceedType
  <2>3. QED  BY <2>1, <2>2
<1>5. QED  BY <1>1, <1>2, <1>3, <1>4 DEF BeginArray, TypeOK, LoopFrame, token, marks, modes, supply

LEMMA EndContainerType ==
    ASSUME IInv, ec = "none", NEW kind, NEW c \in CallNames, NEW mismatch \in Errors,
           NEW unexpected \in Errors, EndContainer(kind, c, mismatch, unexpected)
    PROVE  /\ state' \in States /\ stateStack' \in Seq(States) /\ level' \in Nat
           /\ calls' \in Seq(CallNames \X Seq(Byte))
           /\ ec' \in Errors \cup {"none"} /\ more' \in BOOLEAN
<1>1. TypeOK /\ level \in Nat
  BY DEF IInv, TypeOK
<1>2. CASE level < 1
  BY <1>1, <1>2 DEF EndContainer, Abort, TypeOK, nest
<1>3. CASE level >= 1
  <2>1. Top \in States /\ Popped \in Seq(States)
    <3>1. Len(stateStack) > 1
      BY <1>1, <1>3 DEF IInv, TypeOK, Consistent, StackShape, Frames
    <3>2. QED  BY <1>1, <3>1, PopType
  <2>2. CASE Top = kind
    <3>1. Visit(c, <<>>) /\ stateStack' = Popped
      BY <1>1, <1>3, <2>2 DEF EndContainer
    <3>2. \/ more' = (~cursorMode /\ level # markLevel) /\ level' = level - 1 /\ ValueDone(level - 1)
          \/ state' = Top /\ UNCHANGED <<level, more>>
      BY <1>1, <1>3, <2>2 DEF EndContainer
    <3>3. state' \in States
      BY <1>1, <2>1, <3>2, ValueDoneType
    <3>4. level' \in Nat
      BY <1>1, <1>3, <3>2
    <3>5. more' \in BOOLEAN
      BY <1>1, <3>2, Zenon DEF TypeOK
    <3>6. QED  BY <1>1, <2>1, <3>1, <3>3, <3>4, <3>5, VisitType, NoArgument
  <2>3. CASE Top # kind
    <3>1. /\ stateStack' = Popped /\ state' = Top /\ UNCHANGED <<level, calls>>
          /\ ec' \in {mismatch, unexpected} /\ more' = FALSE
      BY <1>1, <1>3, <2>3 DEF EndContainer, Abort
    <3>2. QED  BY <1>1, <2>1, <3>1 DEF TypeOK
  <2>4. QED  BY <2>2, <2>3
<1>4. QED  BY <1>1, <1>2, <1>3

LEMMA EndObjectType == ASSUME IInv, EndObject PROVE TypeOK'
<1>1. TypeOK /\ input # <<>> /\ ec = "none"
  BY DEF IInv, EndObject, At
<1>2. input' \in Seq(Byte) /\ position' \in Nat
  BY <1>1, TakeType DEF EndObject
<1>3. /\ state' \in States /\ stateStack' \in Seq(States) /\ level' \in Nat
      /\ calls' \in Seq(CallNames \X Seq(Byte))
      /\ ec' \in Errors \cup {"none"} /\ more' \in BOOLEAN
  <2>1. CASE Abort("extra_comma") /\ UNCHANGED <<nest, calls>>
    BY <1>1, <2>1 DEF TypeOK, Abort, Errors, nest
  <2>2. CASE EndContainer("object", "end_object", "expected_comma_or_rbracket", "unexpected_rbrace")
    BY <1>1, <2>2, EndContainerType DEF Errors, CallNames
  <2>3. QED  BY <2>1, <2>2 DEF EndObject
<1>4. QED  BY <1>1, <1>2, <1>3 DEF EndObject, TypeOK, LoopFrame, token, marks, modes, supply

LEMMA EndArrayType == ASSUME IInv, EndArray PROVE TypeOK'
<1>1. TypeOK /\ input # <<>> /\ ec = "none"
  BY DEF IInv, EndArray, At
<1>2. input' \in Seq(Byte) /\ position' \in Nat
  BY <1>1, TakeType DEF EndArray
<1>3. /\ state' \in States /\ stateStack' \in Seq(States) /\ level' \in Nat
      /\ calls' \in Seq(CallNames \X Seq(Byte))
      /\ ec' \in Errors \cup {"none"} /\ more' \in BOOLEAN
  <2>1. CASE /\ UNCHANGED <<nest, calls>>
             /\ Abort("extra_comma") \/ Abort("expected_value") \/ UNCHANGED <<more, ec>>
    BY <1>1, <2>1 DEF TypeOK, Abort, Errors, nest
  <2>2. CASE EndContainer("array", "end_array", "expected_comma_or_rbrace", "unexpected_rbracket")
    BY <1>1, <2>2, EndContainerType DEF Errors, CallNames
  <2>3. QED  BY <2>1, <2>2 DEF EndArray
<1>4. QED  BY <1>1, <1>2, <1>3 DEF EndArray, TypeOK, LoopFrame, token, marks, modes, supply

LEMMA NextMemberType == ASSUME IInv, NextMember PROVE TypeOK'
<1>1. TypeOK /\ input # <<>> /\ ec = "none"
  BY DEF IInv, NextMember, At
<1>2. CASE Take /\ UNCHANGED <<more, ec>> /\ state' \in {"expect_member_name", "expect_value", state}
  <2>1. input' \in Seq(Byte) /\ position' \in Nat
    BY <1>1, <1>2, TakeType
  <2>2. state' \in States
    BY <1>1, <1>2, StateNames DEF TypeOK, NameStates, ValueStates
  <2>3. QED  BY <1>1, <1>2, <2>1, <2>2 DEF NextMember, TypeOK, LoopFrame, token, marks, modes, supply
<1>3. CASE Skip("syntax_error") /\ UNCHANGED state
  <2>1. /\ input' \in Seq(Byte) /\ position' \in Nat
        /\ more' \in BOOLEAN /\ ec' \in Errors \cup {"none"}
    BY <1>1, <1>3, SkipType DEF Errors
  <2>2. QED  BY <1>1, <1>3, <2>1 DEF NextMember, TypeOK, LoopFrame, token, marks, modes, supply
<1>4. QED  BY <1>2, <1>3 DEF NextMember, Containers

LEMMA TakeColonType == ASSUME IInv, TakeColon PROVE TypeOK'
<1>1. TypeOK /\ input # <<>>
  BY DEF IInv, TakeColon, At
<1>2. input' \in Seq(Byte) /\ position' \in Nat /\ state' \in States
  BY <1>1, TakeType, StateNames DEF TakeColon, ValueStates
<1>3. QED  BY <1>1, <1>2 DEF TakeColon, TypeOK, LoopFrame, token, marks, modes, supply

LEMMA UnexpectedType == ASSUME IInv, Unexpected PROVE TypeOK'
<1>1. TypeOK /\ input # <<>> /\ state \in BetweenStates \ {"start"}
  BY DEF IInv, Unexpected, At
<1>2. PICK e \in Errors : Skip(e)
  BY <1>1 DEF Unexpected, Errors, BetweenStates
<1>3. /\ input' \in Seq(Byte) /\ position' \in Nat
      /\ more' \in BOOLEAN /\ ec' \in Errors \cup {"none"}
  BY <1>1, <1>2, SkipType
<1>4. QED  BY <1>1, <1>3 DEF Unexpected, TypeOK, LoopFrame, nest, token, marks, modes, supply

LEMMA UnexpectedAtStartType == ASSUME IInv, UnexpectedAtStart PROVE TypeOK'
<1>1. TypeOK
  BY DEF IInv
<1>2. ec' \in Errors /\ more' = FALSE
  BY DEF UnexpectedAtStart, Abort, Errors
<1>3. QED
  BY <1>1, <1>2 DEF UnexpectedAtStart, TypeOK, Stay, LoopFrame, nest, token, marks, modes, supply

LEMMA BeginCommentType == ASSUME IInv, BeginComment PROVE TypeOK'
<1>1. TypeOK /\ input # <<>> /\ state \in States
  BY DEF IInv, BeginComment, At, TypeOK
<1>2. input' \in Seq(Byte) /\ position' \in Nat
  BY <1>1, TakeType DEF BeginComment
<1>3. state' \in States /\ stateStack' \in Seq(States)
  BY <1>1, PushType, StateNames DEF BeginComment, CommentStates
<1>4. QED  BY <1>1, <1>2, <1>3 DEF BeginComment, TypeOK, LoopFrame, token, marks, modes, supply

LEMMA CommentKindType == ASSUME IInv, CommentKind PROVE TypeOK'
<1>1. TypeOK /\ input # <<>>
  BY DEF IInv, CommentKind, At
<1>2. CASE Stay /\ ec' = "illegal_comment" /\ UNCHANGED <<more, state>>
  BY <1>1, <1>2 DEF CommentKind, TypeOK, Errors, Stay, LoopFrame, token, marks, modes, supply
<1>3. CASE /\ Skip("syntax_error") \/ Skip("illegal_comment")
           /\ state' \in {state, "slash_star", "slash_slash"}
  <2>1. /\ input' \in Seq(Byte) /\ position' \in Nat
        /\ more' \in BOOLEAN /\ ec' \in Errors \cup {"none"}
    BY <1>1, <1>3, SkipType DEF Errors
  <2>2. state' \in States
    BY <1>1, <1>3, StateNames DEF TypeOK, CommentStates
  <2>3. QED  BY <1>1, <2>1, <2>2 DEF CommentKind, TypeOK, LoopFrame, token, marks, modes, supply
<1>4. QED  BY <1>2, <1>3 DEF CommentKind

\* A comment is over: the stack has something to go back to.
LEMMA CommentOnStack == ASSUME IInv, ec = "none", state \in CommentStates PROVE Len(stateStack) > 1
BY DEF IInv, TypeOK, Consistent, StackShape, Frames

LEMMA LineCommentType == ASSUME IInv, LineComment PROVE TypeOK'
<1>1. TypeOK /\ input # <<>> /\ Len(stateStack) > 1
  BY CommentOnStack DEF IInv, LineComment, At, CommentStates
<1>2. input' \in Seq(Byte) /\ position' \in Nat
  BY <1>1, TakeType DEF LineComment, Stay, TypeOK
<1>3. state' \in States /\ stateStack' \in Seq(States)
  BY <1>1, PopType DEF LineComment, TypeOK
<1>4. QED  BY <1>1, <1>2, <1>3 DEF LineComment, TypeOK, LoopFrame, token, marks, modes, supply

LEMMA BlockCommentType == ASSUME IInv, BlockComment PROVE TypeOK'
<1>1. TypeOK /\ input # <<>> /\ state \in States /\ stateStack \in Seq(States)
  BY DEF IInv, BlockComment, At, TypeOK
<1>2. input' \in Seq(Byte) /\ position' \in Nat
  BY <1>1, TakeType DEF BlockComment
<1>3. line' \in Nat /\ markPosition' \in Nat
  BY <1>1, <1>2 DEF BlockComment, TypeOK
<1>4. state' \in States
  BY <1>1, StateNames DEF BlockComment, CommentStates
<1>5. stateStack' \in Seq(States)
  BY <1>1, Pushed DEF BlockComment
<1>6. QED
  BY <1>1, <1>2, <1>3, <1>4, <1>5 DEF BlockComment, TypeOK, LoopFrame, token, modes, supply

LEMMA BlockCommentStarType == ASSUME IInv, BlockCommentStar PROVE TypeOK'
<1>1. TypeOK /\ input # <<>> /\ Len(stateStack) > 1
  BY CommentOnStack DEF IInv, BlockCommentStar, At, CommentStates
<1>2. input' \in Seq(Byte) /\ position' \in Nat
  BY <1>1, TakeType DEF BlockCommentStar
<1>3. state' \in States /\ stateStack' \in Seq(States)
  BY <1>1, PopType, StateNames DEF BlockCommentStar, TypeOK, CommentStates
<1>4. QED  BY <1>1, <1>2, <1>3 DEF BlockCommentStar, TypeOK, LoopFrame, token, marks, modes, supply

\* A call for a scalar, and what follows it.
LEMMA ScalarType ==
    ASSUME TypeOK, NEW c \in CallNames, NEW word \in Seq(Byte),
           Visit(c, word), Proceed
    PROVE  /\ calls' \in Seq(CallNames \X Seq(Byte))
           /\ ec' \in Errors \cup {"none"} /\ more' \in BOOLEAN
BY VisitType, ProceedType

LEMMA WordType ==
    /\ TrueWord \in Seq(Byte) /\ FalseWord \in Seq(Byte) /\ NullWord \in Seq(Byte)
    /\ Len(TrueWord) > 0 /\ Len(FalseWord) > 0 /\ Len(NullWord) > 0
BY DEF TrueWord, FalseWord, NullWord, Byte, LowT, LowR, LowU, LowE, LowF, LowA, LowL, LowS, LowN

LEMMA BeginLiteralType ==
    ASSUME IInv, NEW word \in Seq(Byte), Len(word) > 0, NEW c \in CallNames, NEW s \in States,
           BeginLiteral(word, c, s)
    PROVE  TypeOK'
<1>1. TypeOK /\ input # <<>> /\ Len(input) \in Nat /\ Len(word) \in Nat
  BY DEF IInv, BeginLiteral, At, TypeOK
<1>2. CASE Len(input) < Len(word)
  <2>1. input' \in Seq(Byte) /\ position' \in Nat
    BY <1>1, <1>2, TakeType DEF BeginLiteral
  <2>2. QED  BY <1>1, <1>2, <2>1 DEF BeginLiteral, TypeOK, LoopFrame, token, marks, modes, supply
<1>3. CASE Len(input) >= Len(word) /\ SubSeq(input, 1, Len(word)) = word
  <2>1. /\ input' = SubSeq(input, Len(word) + 1, Len(input))
        /\ position' = position + Len(word)
        /\ Visit(c, word) /\ Proceed /\ ValueDone(level)
    BY <1>1, <1>3 DEF BeginLiteral
  <2>2. input' \in Seq(Byte)
    BY <1>1, <1>3, <2>1, Dropped DEF TypeOK
  <2>3. position' \in Nat
    BY <1>1, <2>1 DEF TypeOK
  <2>4. state' \in States
    BY <1>1, <2>1, ValueDoneType
  <2>5. /\ calls' \in Seq(CallNames \X Seq(Byte))
        /\ ec' \in Errors \cup {"none"} /\ more' \in BOOLEAN
    BY <1>1, <2>1, ScalarType
  <2>6. QED
    BY <1>1, <2>2, <2>3, <2>4, <2>5 DEF BeginLiteral, TypeOK, LoopFrame, token, marks, modes, supply
<1>4. CASE Len(input) >= Len(word) /\ SubSeq(input, 1, Len(word)) # word
  <2>1. Stay /\ Abort("invalid_value") /\ UNCHANGED <<state, calls>>
    BY <1>1, <1>4 DEF BeginLiteral
  <2>2. QED
    BY <1>1, <2>1
    DEF BeginLiteral, TypeOK, Stay, Abort, Errors, LoopFrame, token, marks, modes, supply
<1>5. QED  BY <1>1, <1>2, <1>3, <1>4

LEMMA LiteralNames ==
    /\ {"t", "f", "n"} \subseteq States
    /\ {"bool_value", "null_value"} \subseteq CallNames
BY StateNames DEF LiteralStates, CallNames

LEMMA ParseTrueType == ASSUME IInv, ParseTrue PROVE TypeOK'
BY BeginLiteralType, WordType, LiteralNames DEF ParseTrue

LEMMA ParseFalseType == ASSUME IInv, ParseFalse PROVE TypeOK'
BY BeginLiteralType, WordType, LiteralNames DEF ParseFalse

LEMMA ParseNullType == ASSUME IInv, ParseNull PROVE TypeOK'
BY BeginLiteralType, WordType, LiteralNames DEF ParseNull

LEMMA LiteralStepType == ASSUME NEW s \in LiteralStates PROVE LiteralStep[s][2] \in States \cup {""}
<1>1. LiteralStep[s][2] \in LiteralStates \cup {""}
  BY DEF LiteralStep, LiteralStates
<1>2. QED  BY <1>1, StateNames

LEMMA ContinueLiteralType == ASSUME IInv, ContinueLiteral PROVE TypeOK'
<1>. DEFINE next == LiteralStep[state][2]
            byte == LiteralStep[state][1]
<1>1. TypeOK /\ input # <<>> /\ state \in LiteralStates
  BY DEF IInv, ContinueLiteral, At
<1>2. next \in States \cup {""}
  BY <1>1, LiteralStepType
<1>3. position' \in Nat /\ input' \in Seq(Byte)
  <2>1. position' \in {position, position + 1} /\ input' \in {input, Tail(input)}
    BY DEF ContinueLiteral
  <2>2. position \in Nat /\ input \in Seq(Byte) /\ Tail(input) \in Seq(Byte)
    BY <1>1, InputType DEF TypeOK
  <2>3. QED  BY <2>1, <2>2
<1>. HIDE DEF next, byte
<1>4. \/ Abort("invalid_value") /\ UNCHANGED <<state, calls>>
      \/ next # "" /\ state' = next /\ UNCHANGED <<more, ec, calls>>
      \/ /\ \/ Visit("null_value", NullWord)
            \/ Visit("bool_value", TrueWord) \/ Visit("bool_value", FalseWord)
         /\ Proceed /\ ValueDone(level)
  <2>1. CASE Here # byte
    BY <2>1 DEF ContinueLiteral, byte
  <2>2. CASE Here = byte /\ next # ""
    BY <2>2 DEF ContinueLiteral, byte, next
  <2>3. CASE Here = byte /\ next = ""
    BY <2>3 DEF ContinueLiteral, byte, next
  <2>4. QED  BY <2>1, <2>2, <2>3
<1>5. /\ state' \in States /\ calls' \in Seq(CallNames \X Seq(Byte))
      /\ ec' \in Errors \cup {"none"} /\ more' \in BOOLEAN
  <2>1. CASE Abort("invalid_value") /\ UNCHANGED <<state, calls>>
    BY <1>1, <2>1 DEF TypeOK, Abort, Errors
  <2>2. CASE next # "" /\ state' = next /\ UNCHANGED <<more, ec, calls>>
    BY <1>1, <1>2, <2>2 DEF TypeOK
  <2>3. CASE /\ \/ Visit("null_value", NullWord)
                \/ Visit("bool_value", TrueWord) \/ Visit("bool_value", FalseWord)
             /\ Proceed /\ ValueDone(level)
    BY <1>1, <2>3, ScalarType, ValueDoneType, WordType DEF CallNames
  <2>4. QED  BY <1>4, <2>1, <2>2, <2>3
<1>6. QED
  BY <1>1, <1>3, <1>5 DEF ContinueLiteral, TypeOK, LoopFrame, token, marks, modes, supply

LEMMA ResumeType == ASSUME NEW s \in NumberStates, NEW rest PROVE Resume(s, rest) \in NumberStates
BY DEF Resume, NumberStates

LEMMA BeginNumberType == ASSUME IInv, BeginNumber PROVE TypeOK'
<1>1. TypeOK /\ input # <<>> /\ Here \in Byte
  BY InputType DEF IInv, BeginNumber, At
<1>2. input' \in Seq(Byte) /\ position' \in Nat
  BY <1>1, TakeType DEF BeginNumber
<1>3. buffer' \in Seq(Byte)
  BY <1>1 DEF BeginNumber
<1>4. state' \in States
  BY StateNames DEF BeginNumber
<1>5. numberState' \in NumberStates
  <2>1. numberState' = Resume("minus", input') \/ numberState' = Resume("zero", input')
        \/ numberState' = Resume("integer", input')
    BY DEF BeginNumber
  <2>2. {"minus", "zero", "integer"} \subseteq NumberStates
    BY DEF NumberStates
  <2>3. QED  BY <2>1, <2>2, ResumeType
<1>6. QED
  BY <1>1, <1>2, <1>3, <1>4, <1>5 DEF BeginNumber, TypeOK, LoopFrame, marks, modes, supply

LEMMA NumberByteType == ASSUME IInv, NumberByte PROVE TypeOK'
<1>1. TypeOK /\ input # <<>> /\ Here \in Byte /\ buffer \in Seq(Byte)
  BY InputType DEF IInv, NumberByte, At, TypeOK
<1>2. input' \in Seq(Byte) /\ position' \in Nat
  BY <1>1, TakeType DEF NumberByte
<1>3. buffer' \in Seq(Byte)
  BY <1>1, Pushed DEF NumberByte
<1>4. numberState' \in NumberStates
  BY ResumeType DEF NumberByte
<1>5. QED
  BY <1>1, <1>2, <1>3, <1>4 DEF NumberByte, TypeOK, LoopFrame, nest, marks, modes, supply

LEMMA NumberErrorType == ASSUME IInv, NumberError PROVE TypeOK'
<1>1. TypeOK
  BY DEF IInv
<1>2. ec' \in Errors /\ more' = FALSE
  BY DEF NumberError, Abort, Errors
<1>3. QED
  BY <1>1, <1>2 DEF NumberError, TypeOK, Stay, LoopFrame, nest, token, marks, modes, supply

LEMMA CompleteNumberType ==
    ASSUME TypeOK, CompleteNumber
    PROVE  /\ state' \in States /\ calls' \in Seq(CallNames \X Seq(Byte))
           /\ ec' \in Errors \cup {"none"} /\ more' \in BOOLEAN
<1>1. NumberCall \in CallNames /\ buffer \in Seq(Byte)
  BY DEF NumberCall, CallNames, TypeOK
<1>2. Visit(NumberCall, buffer) /\ Proceed /\ state' \in {state, "expect_comma_or_end", "accept"}
  BY DEF CompleteNumber
<1>3. state' \in States
  BY <1>2, StateNames DEF TypeOK
<1>4. QED  BY <1>1, <1>2, <1>3, ScalarType

LEMMA EndNumberType == ASSUME IInv, EndNumber PROVE TypeOK'
<1>1. TypeOK
  BY DEF IInv
<1>2. /\ state' \in States /\ calls' \in Seq(CallNames \X Seq(Byte))
      /\ ec' \in Errors \cup {"none"} /\ more' \in BOOLEAN
  BY <1>1, CompleteNumberType DEF EndNumber
<1>3. QED  BY <1>1, <1>2 DEF EndNumber, TypeOK, Stay, LoopFrame, token, marks, modes, supply

LEMMA BeginStringType == ASSUME IInv, BeginString PROVE TypeOK'
<1>1. TypeOK /\ input # <<>>
  BY DEF IInv, BeginString, At
<1>2. input' \in Seq(Byte) /\ position' \in Nat
  BY <1>1, TakeType DEF BeginString
<1>3. state' \in States /\ stateStack' \in Seq(States)
  BY <1>1, PushType, StateNames DEF BeginString, TypeOK
<1>4. stringState' \in StringStates /\ buffer' \in Seq(Byte)
  BY NoArgument DEF BeginString, StringStates
<1>5. QED
  BY <1>1, <1>2, <1>3, <1>4 DEF BeginString, TypeOK, LoopFrame, marks, modes, supply

\* Inside a string, an action changes only the members of its own.
LEMMA InStringType ==
    ASSUME TypeOK, StringFrame, input' \in Seq(Byte), position' \in Nat,
           stringState' \in StringStates, buffer' \in Seq(Byte), cp' \in Nat, cp2' \in Nat,
           more' \in BOOLEAN, ec' \in Errors \cup {"none"}
    PROVE  TypeOK'
BY DEF TypeOK, StringFrame, LoopFrame, nest, marks, modes, supply

LEMMA TextByteType == ASSUME IInv, TextByte PROVE TypeOK'
<1>1. TypeOK /\ input # <<>> /\ Here \in Byte /\ buffer \in Seq(Byte)
  BY InputType DEF IInv, TextByte, InString, At, TypeOK
<1>2. input' \in Seq(Byte) /\ position' \in Nat
  BY <1>1, TakeType DEF TextByte
<1>3. buffer' \in Seq(Byte)
  BY <1>1, Pushed DEF TextByte
<1>4. QED  BY <1>1, <1>2, <1>3, InStringType DEF TextByte, TypeOK

LEMMA IllegalTextByteType == ASSUME IInv, IllegalTextByte PROVE TypeOK'
<1>1. TypeOK /\ input # <<>> /\ Tail(input) \in Seq(Byte)
  BY InputType DEF IInv, IllegalTextByte, InString, At
<1>2. /\ position' = position + 1 /\ input' \in {input, Tail(input)}
      /\ \/ UNCHANGED <<more, ec>>
         \/ more' = FALSE /\ ec' \in {"illegal_control_character", "illegal_character_in_string"}
  BY DEF IllegalTextByte, Abort
<1>3. /\ input' \in Seq(Byte) /\ position' \in Nat
      /\ more' \in BOOLEAN /\ ec' \in Errors \cup {"none"}
  <2>1. input' \in Seq(Byte) /\ position' \in Nat
    <3>1. input \in Seq(Byte) /\ position \in Nat
      BY <1>1 DEF TypeOK
    <3>2. QED  BY <1>1, <1>2, <3>1
  <2>2. CASE UNCHANGED <<more, ec>>
    BY <1>1, <2>1, <2>2 DEF TypeOK
  <2>3. CASE more' = FALSE /\ ec' \in {"illegal_control_character", "illegal_character_in_string"}
    BY <2>1, <2>3 DEF Errors
  <2>4. QED  BY <1>2, <2>2, <2>3
<1>4. QED  BY <1>1, <1>3, InStringType DEF IllegalTextByte, TypeOK, token

LEMMA LabelType ==
    ASSUME TypeOK, input # <<>>, NEW s \in StringStates, Label(s)
    PROVE  /\ input' \in Seq(Byte) /\ position' \in Nat /\ stringState' \in StringStates
           /\ more' \in BOOLEAN /\ ec' \in Errors \cup {"none"}
BY TakeType DEF TypeOK, Label

LEMMA StringNames ==
    {"text", "escape", "escape_u1", "escape_u5", "escape_expect_surrogate_pair2"} \subseteq StringStates
BY DEF StringStates, HexStates

LEMMA BeginEscapeType == ASSUME IInv, BeginEscape PROVE TypeOK'
<1>1. TypeOK /\ input # <<>>
  BY DEF IInv, BeginEscape, InString, At
<1>2. /\ input' \in Seq(Byte) /\ position' \in Nat /\ stringState' \in StringStates
      /\ more' \in BOOLEAN /\ ec' \in Errors \cup {"none"}
  BY <1>1, LabelType, StringNames DEF BeginEscape
<1>3. QED  BY <1>1, <1>2, InStringType DEF BeginEscape, TypeOK

LEMMA SimpleEscapeType == ASSUME IInv, SimpleEscape PROVE TypeOK'
<1>1. TypeOK /\ input # <<>> /\ Here \in Byte /\ buffer \in Seq(Byte)
  BY InputType DEF IInv, SimpleEscape, InString, At, TypeOK
<1>2. /\ input' \in Seq(Byte) /\ position' \in Nat /\ stringState' \in StringStates
      /\ more' \in BOOLEAN /\ ec' \in Errors \cup {"none"}
  BY <1>1, LabelType, StringNames DEF SimpleEscape
<1>3. Unescaped(Here) \in Byte
  BY <1>1 DEF Unescaped, Byte, LF, CR, HTab
<1>4. buffer' \in Seq(Byte)
  BY <1>1, <1>3, Pushed DEF SimpleEscape
<1>5. QED  BY <1>1, <1>2, <1>4, InStringType DEF SimpleEscape, TypeOK

LEMMA UnicodeEscapeType == ASSUME IInv, UnicodeEscape PROVE TypeOK'
<1>1. TypeOK /\ input # <<>>
  BY DEF IInv, UnicodeEscape, InString, At
<1>2. /\ input' \in Seq(Byte) /\ position' \in Nat /\ stringState' \in StringStates
      /\ more' \in BOOLEAN /\ ec' \in Errors \cup {"none"}
  BY <1>1, LabelType, StringNames DEF UnicodeEscape
<1>3. QED  BY <1>1, <1>2, InStringType DEF UnicodeEscape, TypeOK

LEMMA SurrogateBackslashType == ASSUME IInv, SurrogateBackslash PROVE TypeOK'
<1>1. TypeOK /\ input # <<>>
  BY DEF IInv, SurrogateBackslash, InString, At
<1>2. /\ input' \in Seq(Byte) /\ position' \in Nat /\ stringState' \in StringStates
      /\ more' \in BOOLEAN /\ ec' \in Errors \cup {"none"}
  BY <1>1, LabelType, StringNames DEF SurrogateBackslash
<1>3. QED  BY <1>1, <1>2, InStringType DEF SurrogateBackslash, TypeOK

LEMMA SurrogateUType == ASSUME IInv, SurrogateU PROVE TypeOK'
<1>1. TypeOK /\ input # <<>>
  BY DEF IInv, SurrogateU, InString, At
<1>2. /\ input' \in Seq(Byte) /\ position' \in Nat /\ stringState' \in StringStates
      /\ more' \in BOOLEAN /\ ec' \in Errors \cup {"none"}
  BY <1>1, LabelType, StringNames DEF SurrogateU
<1>3. QED  BY <1>1, <1>2, InStringType DEF SurrogateU, TypeOK

LEMMA EscapeErrorType == ASSUME IInv, EscapeError PROVE TypeOK'
<1>1. TypeOK
  BY DEF IInv
<1>2. ec' \in Errors /\ more' = FALSE
  BY DEF EscapeError, Abort, Errors
<1>3. QED  BY <1>1, <1>2, InStringType DEF EscapeError, TypeOK, Stay, token

LEMMA HexByteType == ASSUME IInv, HexByte PROVE TypeOK'
<1>. DEFINE base == IF stringState \in {"escape_u1", "escape_u5"} THEN 0
                    ELSE IF stringState \in {"escape_u2", "escape_u3", "escape_u4"} THEN cp ELSE cp2
            value == base * 16 + HexValue(Here)
            inPair == stringState \in {"escape_u5", "escape_u6", "escape_u7", "escape_u8"}
            plain == stringState = "escape_u4" /\ value \notin HighSurrogate
<1>1. TypeOK /\ input # <<>> /\ Here \in Byte /\ buffer \in Seq(Byte) /\ cp \in Nat /\ cp2 \in Nat
  BY InputType DEF IInv, HexByte, InString, At, TypeOK
<1>2. stringState \in HexStates
  BY DEF HexByte, InString
<1>3. value \in Nat
  <2>1. base \in Nat /\ HexValue(Here) \in Nat
    BY <1>1, HexType
  <2>. HIDE DEF base
  <2>2. QED  BY <2>1
<1>. HIDE DEF value
<1>4. cp' \in Nat /\ cp2' \in Nat
  <2>1. cp' = (IF inPair THEN cp ELSE value) /\ cp2' = (IF inPair THEN value ELSE cp2)
    BY DEF HexByte, value
  <2>2. QED  BY <1>1, <1>3, <2>1
<1>5. CASE Here \notin HexDigit /\ "invalid_unicode_escape_sequence" \notin Lenient
  <2>1. /\ Stay /\ Abort("invalid_unicode_escape_sequence") /\ UNCHANGED <<stringState, buffer>>
        /\ StringFrame
    BY <1>5 DEF HexByte
  <2>2. ec' \in Errors /\ more' = FALSE
    BY <2>1 DEF Abort, Errors
  <2>3. QED  BY <1>1, <1>4, <2>1, <2>2, InStringType DEF TypeOK, Stay
<1>6. CASE ~(Here \notin HexDigit /\ "invalid_unicode_escape_sequence" \notin Lenient)
  <2>1. /\ Label(IF plain THEN "text" ELSE HexNext[stringState])
        /\ buffer' = IF stringState = "escape_u8"
                     THEN buffer \o Utf8(CombineSurrogates(cp, value))
                     ELSE IF plain THEN buffer \o Utf8(value)
                     ELSE buffer
        /\ StringFrame
    BY <1>6 DEF HexByte, value
  <2>2. HexNext[stringState] \in StringStates
    BY <1>2 DEF HexNext, HexStates, StringStates
  <2>3. /\ input' \in Seq(Byte) /\ position' \in Nat /\ stringState' \in StringStates
        /\ more' \in BOOLEAN /\ ec' \in Errors \cup {"none"}
    <3>1. (IF plain THEN "text" ELSE HexNext[stringState]) \in StringStates
      BY <2>2, StringNames
    <3>2. QED  BY <1>1, <2>1, <3>1, LabelType
  <2>4. buffer' \in Seq(Byte)
    <3>1. Utf8(CombineSurrogates(cp, value)) \in Seq(Byte)
      BY <1>1, <1>3, CombineType, Utf8Type
    <3>2. Utf8(value) \in Seq(Byte)
      BY <1>3, Utf8Type
    <3>3. QED  BY <1>1, <2>1, <3>1, <3>2
  <2>5. QED  BY <1>1, <1>4, <2>1, <2>3, <2>4, InStringType
<1>7. QED  BY <1>5, <1>6

LEMMA EndStringType == ASSUME IInv, EndString PROVE TypeOK'
<1>1. TypeOK /\ input # <<>> /\ Tail(input) \in Seq(Byte) /\ buffer \in Seq(Byte) /\ position \in Nat
  BY InputType DEF IInv, EndString, InString, At, TypeOK
<1>2. input' \in Seq(Byte)
  BY <1>1 DEF EndString, TypeOK
<1>3. CASE ~ValidUtf8(buffer)
  <2>1. PICK stop \in Utf8Stop(buffer) :
            Abort(SequenceError(buffer, stop)) /\ position' = position + stop
    BY <1>3 DEF EndString
  <2>2. stop \in Nat /\ SequenceError(buffer, stop) \in Utf8Error
    BY <1>1, StopType
  <2>3. position' \in Nat /\ ec' \in Errors /\ more' = FALSE
    BY <1>1, <2>1, <2>2 DEF Abort, Errors
  <2>4. UNCHANGED <<state, stateStack, calls>>
    BY <1>3 DEF EndString
  <2>5. QED
    BY <1>1, <1>2, <2>3, <2>4 DEF EndString, TypeOK, LoopFrame, token, marks, modes, supply
<1>4. CASE ValidUtf8(buffer)
  <2>1. /\ Visit("key", buffer) \/ Visit("double_value", buffer) \/ Visit("string_value", buffer)
        /\ Proceed /\ position' = position + 1
        /\ state' \in {state, "expect_colon", "accept", "expect_comma_or_end"}
        /\ (stateStack' = Popped /\ Top = "member_name") \/ UNCHANGED stateStack
    BY <1>4 DEF EndString
  <2>2. /\ calls' \in Seq(CallNames \X Seq(Byte))
        /\ ec' \in Errors \cup {"none"} /\ more' \in BOOLEAN
    BY <1>1, <2>1, ScalarType DEF CallNames
  <2>3. state' \in States /\ position' \in Nat
    BY <1>1, <2>1, StateNames DEF TypeOK
  <2>4. stateStack' \in Seq(States)
    <3>1. Top = "member_name" => Len(stateStack) > 1
      BY DEF EndString, InString, At, IInv, TypeOK, Consistent, StackShape, Frames, Top
    <3>2. QED  BY <1>1, <2>1, <3>1, PopType DEF TypeOK
  <2>5. QED
    BY <1>1, <1>2, <2>2, <2>3, <2>4 DEF EndString, TypeOK, LoopFrame, token, marks, modes, supply
<1>5. QED  BY <1>3, <1>4

LEMMA CheckByteType == ASSUME IInv, CheckByte PROVE TypeOK'
<1>1. TypeOK /\ input # <<>> /\ Tail(input) \in Seq(Byte)
  BY InputType DEF IInv, CheckByte
<1>2. /\ input' \in {input, Tail(input)}
      /\ ec' \in {ec, "extra_character"} /\ more' \in {more, TRUE, FALSE}
  BY DEF CheckByte, Abort
<1>3. input' \in Seq(Byte) /\ ec' \in Errors \cup {"none"}
  BY <1>1, <1>2 DEF TypeOK, Errors
<1>4. more' \in BOOLEAN
  BY <1>1, <1>2, Zenon DEF TypeOK
<1>5. QED  BY <1>1, <1>3, <1>4 DEF CheckByte, TypeOK, nest, token, marks, modes, supply

LEMMA FinishType ==
    ASSUME TypeOK, Finish
    PROVE  /\ calls' \in Seq(CallNames \X Seq(Byte)) /\ state' \in States
           /\ done' \in BOOLEAN /\ more' \in BOOLEAN /\ ec' \in Errors \cup {"none"}
<1>1. <<"flush", <<>>>> \in CallNames \X Seq(Byte)
  BY NoArgument DEF CallNames
<1>2. calls' \in Seq(CallNames \X Seq(Byte))
  BY <1>1, Pushed DEF Finish, TypeOK
<1>3. QED  BY <1>2, StateNames DEF Finish, TypeOK

LEMMA AcceptInLoopType == ASSUME IInv, AcceptInLoop PROVE TypeOK'
<1>1. /\ TypeOK
      /\ calls' \in Seq(CallNames \X Seq(Byte)) /\ state' \in States
      /\ done' \in BOOLEAN /\ more' \in BOOLEAN /\ ec' \in Errors \cup {"none"}
  BY FinishType DEF IInv, AcceptInLoop
<1>2. QED  BY <1>1 DEF AcceptInLoop, TypeOK, Stay, LoopFrame, token, marks, modes, supply

LEMMA ParseAcceptedType == ASSUME IInv, ParseAccepted PROVE TypeOK'
<1>1. /\ TypeOK
      /\ calls' \in Seq(CallNames \X Seq(Byte)) /\ state' \in States
      /\ done' \in BOOLEAN /\ more' \in BOOLEAN /\ ec' \in Errors \cup {"none"}
  BY FinishType DEF IInv, ParseAccepted
<1>2. QED  BY <1>1 DEF ParseAccepted, TypeOK, token, marks, modes, supply

LEMMA EndOfNumberType == ASSUME IInv, EndOfNumber PROVE TypeOK'
<1>1. TypeOK
  BY DEF IInv
<1>2. /\ state' \in States /\ calls' \in Seq(CallNames \X Seq(Byte))
      /\ ec' \in Errors \cup {"none"} /\ more' \in BOOLEAN
  <2>1. CASE CompleteNumber
    BY <1>1, <2>1, CompleteNumberType
  <2>2. CASE Abort("unexpected_eof") /\ UNCHANGED <<state, calls>>
    BY <1>1, <2>2 DEF Abort, Errors, TypeOK
  <2>3. QED  BY <2>1, <2>2 DEF EndOfNumber
<1>3. QED  BY <1>1, <1>2 DEF EndOfNumber, AtEnd, TypeOK, token, marks, modes, supply

LEMMA EndOfCrType == ASSUME IInv, EndOfCr PROVE TypeOK'
<1>1. TypeOK /\ Len(stateStack) > 1
  BY DEF EndOfCr, AtEnd, Calling, IInv, TypeOK, Consistent, StackShape, Frames
<1>2. state' \in States /\ stateStack' \in Seq(States)
  BY <1>1, PopType DEF EndOfCr
<1>3. QED  BY <1>1, <1>2 DEF EndOfCr, AtEnd, TypeOK, token, marks, modes, supply

LEMMA UnexpectedEndType == ASSUME IInv, UnexpectedEnd PROVE TypeOK'
<1>1. TypeOK /\ ec' \in Errors /\ more' = FALSE
  BY DEF IInv, UnexpectedEnd, Abort, Errors
<1>2. QED  BY <1>1 DEF UnexpectedEnd, AtEnd, TypeOK, token, marks, modes, supply

LEMMA UpdateType ==
    ASSUME IInv, NEW chunk \in Callers[caller].chunks \cup {<<>>}, NEW last \in BOOLEAN,
           Update(chunk, last)
    PROVE  TypeOK'
<1>1. TypeOK /\ caller \in DOMAIN Callers /\ text \in Seq(Byte)
  BY DEF IInv, TypeOK
<1>2. chunk \in Seq(Byte)
  <2>1. CASE chunk = <<>>
    BY <2>1, NoArgument
  <2>2. CASE chunk \in Callers[caller].chunks
    <3>1. Callers[caller].chunks \subseteq Seq(Byte) \ {<<>>}
      BY <1>1, CallerAssumption
    <3>2. QED  BY <2>2, <3>1
  <2>3. QED  BY <2>1, <2>2
<1>3. input' = chunk /\ text' = text \o chunk /\ ended' = last
  BY DEF Update
<1>4. input' \in Seq(Byte) /\ text' \in Seq(Byte) /\ ended' \in BOOLEAN
  BY <1>1, <1>2, <1>3
<1>5. QED  BY <1>1, <1>4 DEF Update, TypeOK, nest, token, marks, modes

LEMMA ResetType == ASSUME IInv, Reset PROVE TypeOK'
<1>1. TypeOK
  BY DEF IInv
<1>2. state' \in States /\ stateStack' \in Seq(States) /\ level' \in Nat
  <2>1. "root" \in States /\ "start" \in States
    BY DEF States, CaseStates, BetweenStates, ValueStates
  <2>2. QED  BY <2>1 DEF Reset, FreshNest
<1>3. calls' \in Seq(CallNames \X Seq(Byte))
  BY DEF Reset
<1>4. QED  BY <1>1, <1>2, <1>3 DEF Reset, TypeOK, token, modes

LEMMA SetCursorModeType ==
    ASSUME IInv, NEW on \in Callers[caller].cursorModes, SetCursorMode(on)
    PROVE  TypeOK'
<1>1. TypeOK /\ cursorMode' \in BOOLEAN
  BY CallerAssumption DEF IInv, TypeOK, SetCursorMode
<1>2. QED  BY <1>1 DEF SetCursorMode, TypeOK, nest, token, marks, supply

LEMMA SetMarkLevelType ==
    ASSUME IInv, NEW lvl \in Callers[caller].markLevels, SetMarkLevel(lvl)
    PROVE  TypeOK'
<1>1. TypeOK /\ markLevel' \in Nat
  BY CallerAssumption DEF IInv, TypeOK, SetMarkLevel
<1>2. QED  BY <1>1 DEF SetMarkLevel, TypeOK, nest, token, marks, supply

\* The steps that only start or stop a function, or ask for the next call.
LEMMA ControlType ==
    ASSUME IInv, ParseSome \/ SkipWhitespace \/ CheckDone \/ Return \/ Restart \/ UNCHANGED vars
    PROVE  TypeOK'
<1>1. TypeOK
  BY DEF IInv
<1>2. CASE ParseSome
  BY <1>1, <1>2 DEF ParseSome, TypeOK, nest, token, marks, modes, supply
<1>3. CASE SkipWhitespace
  BY <1>1, <1>3 DEF SkipWhitespace, TypeOK, nest, token, marks, modes, supply
<1>4. CASE CheckDone
  BY <1>1, <1>4 DEF CheckDone, TypeOK, nest, token, marks, modes, supply
<1>5. CASE Return
  BY <1>1, <1>5 DEF Return, TypeOK, nest, token, marks, modes, supply
<1>6. CASE Restart
  BY <1>1, <1>6 DEF Restart, TypeOK, nest, token, marks, modes, supply
<1>7. CASE UNCHANGED vars
  BY <1>1, <1>7 DEF TypeOK, vars, nest, token, marks, modes, supply
<1>8. QED  BY <1>2, <1>3, <1>4, <1>5, <1>6, <1>7

------------------------------------------------------------------------------
LEMMA IterateType == ASSUME IInv, Iterate PROVE TypeOK'
BY ControlCharacterType, BeginObjectType, EndObjectType, BeginArrayType, EndArrayType,
   NextMemberType, TakeColonType, UnexpectedType, UnexpectedAtStartType,
   BeginCommentType, CommentKindType, LineCommentType, BlockCommentType, BlockCommentStarType,
   ParseTrueType, ParseFalseType, ParseNullType, ContinueLiteralType,
   BeginNumberType, NumberByteType, NumberErrorType, EndNumberType,
   BeginStringType, TextByteType, IllegalTextByteType, BeginEscapeType, SimpleEscapeType,
   UnicodeEscapeType, SurrogateBackslashType, SurrogateUType, EscapeErrorType, HexByteType,
   EndStringType, AcceptInLoopType, Zenon
DEF Iterate

\* Every step preserves the types.
LEMMA NextType == ASSUME IInv, [Next]_vars PROVE TypeOK'
<1>1. ASSUME Work PROVE TypeOK'
  BY <1>1, IterateType, SkipSpaceType, ResumeCrType, CheckByteType, ParseAcceptedType,
     EndOfNumberType, EndOfCrType, UnexpectedEndType, ControlType, Zenon
  DEF Work
<1>2. ASSUME NEW chunk \in Callers[caller].chunks \cup {<<>>}, NEW last \in BOOLEAN,
             Update(chunk, last)
      PROVE  TypeOK'
  BY <1>2, UpdateType
<1>3. ASSUME NEW on \in Callers[caller].cursorModes, SetCursorMode(on) PROVE TypeOK'
  BY <1>3, SetCursorModeType
<1>4. ASSUME NEW lvl \in Callers[caller].markLevels, SetMarkLevel(lvl) PROVE TypeOK'
  BY <1>4, SetMarkLevelType
<1>5. QED  BY <1>1, <1>2, <1>3, <1>4, ResetType, ControlType, Zenon DEF Next

------------------------------------------------------------------------------
\* How the shape of the stack survives a step.

\* What the invariant says while no error has been reported.
LEMMA BeforeStep ==
    ASSUME IInv, ec = "none"
    PROVE  /\ StackShape /\ BaseFits /\ RunsFit
           /\ stateStack \in Seq(States) /\ level \in Nat /\ state \in States
BY DEF IInv, TypeOK, Consistent

\* After an error nothing but skip_whitespace matters.
LEMMA Failed == ASSUME ec' # "none", phase' # "skip" PROVE Consistent'
BY DEF Consistent

LEMMA Preserved ==
    ASSUME StackShape', BaseFits', RunsFit', phase' = "skip" => ec' = "none"
    PROVE  Consistent'
BY DEF Consistent

\* The place in the text is the same.
LEMMA SamePlace ==
    ASSUME StackShape, BaseFits, UNCHANGED <<nest, done>>
    PROVE  StackShape' /\ BaseFits'
BY DEF StackShape, BaseFits, Frames, Base, nest

\* The loop goes on: only a number could be read without a first byte.
LEMMA LoopGoesOn ==
    ASSUME RunsFit, phase = "parse", more, UNCHANGED <<phase, done>>,
           state' = "number" => buffer' # <<>>
    PROVE  RunsFit'
BY DEF RunsFit

\* state_ changes between containers, strings and comments, the stack does not.
LEMMA Moved ==
    ASSUME StackShape, level \in Nat, Len(stateStack) = Frames, UNCHANGED <<stateStack, level>>,
           state' \in BetweenStates \cup LiteralStates \cup {"number", "string", "accept", "done"}
    PROVE  StackShape' /\ Base' = state' /\ stateStack'[Frames'] = stateStack[Frames]
<1>1. Frames' = Frames /\ Len(stateStack') = Frames' /\ Frames \in Nat
  BY DEF Frames
<1>2. state' \notin CommentStates /\ state' # "cr"
  BY DEF BetweenStates, ValueStates, NameStates, LiteralStates, CommentStates
<1>3. Base' = state'
  BY <1>1 DEF Base
<1>4. StackShape'
  BY <1>1, <1>2 DEF StackShape
<1>5. QED  BY <1>1, <1>3, <1>4

\* What was put off on the stack is put off still, in another state.
LEMMA PutOff ==
    ASSUME StackShape, BaseFits, level \in Nat, Len(stateStack) = Frames + 1,
           Base \in BetweenStates, UNCHANGED <<stateStack, level, done>>, state' \in CommentStates
    PROVE  StackShape' /\ BaseFits'
<1>1. Frames' = Frames /\ Len(stateStack') = Frames + 1 /\ Frames \in Nat
  BY DEF Frames
<1>2. Base' = Base
  BY <1>1 DEF Base
<1>3. state' \in CommentStates /\ state' \notin {"cr", "string"}
  BY DEF CommentStates
<1>4. StackShape'
  BY <1>1, <1>2, <1>3 DEF StackShape
<1>5. BaseFits'
  BY <1>1, <1>2 DEF BaseFits
<1>6. QED  BY <1>4, <1>5

\* state_ is put off: push_state(state_) and a state that comes back to it.
LEMMA PutsOff ==
    ASSUME StackShape, BaseFits, stateStack \in Seq(States), level \in Nat, state \in States,
           Len(stateStack) = Frames, Push(state), UNCHANGED <<level, done>>,
           \/ state \in BetweenStates /\ state' \in CommentStates \cup {"cr"}
           \/ state \in {"accept", "done"} /\ state' = "cr"
    PROVE  StackShape' /\ BaseFits' /\ Top' = state
<1>1. /\ Frames' = Frames /\ Frames \in Nat /\ Frames > 0
      /\ Len(stateStack') = Frames + 1 /\ stateStack'[Frames + 1] = state
      /\ \A i \in 1 .. Frames : stateStack'[i] = stateStack[i]
  BY Pushed DEF Push, Frames
<1>2. Base' = state /\ Base = state /\ Top' = state
  BY <1>1 DEF Base, Top
<1>3. state' \in CommentStates \cup {"cr"} /\ state' # "string"
  BY DEF CommentStates
<1>4. StackShape'
  BY <1>1, <1>2, <1>3 DEF StackShape, CommentStates
<1>5. BaseFits'
  BY <1>1, <1>2 DEF BaseFits
<1>6. QED  BY <1>2, <1>4, <1>5

\* state_ = pop_state(), back to the state that was put off.
LEMMA ComesBack ==
    ASSUME StackShape, BaseFits, stateStack \in Seq(States), level \in Nat,
           Len(stateStack) = Frames + 1, Base \in BetweenStates \cup {"accept", "done"},
           state' = Top, stateStack' = Popped, UNCHANGED <<level, done>>
    PROVE  StackShape' /\ BaseFits' /\ state' = Base
<1>1. Frames \in Nat /\ Frames > 0 /\ Frames' = Frames /\ Len(stateStack) > 1
  BY DEF Frames
<1>2. Len(stateStack') = Frames /\ \A i \in 1 .. Frames : stateStack'[i] = stateStack[i]
  BY <1>1, PoppedLen, PoppedAt DEF Popped
<1>3. state' = Base /\ Base' = Base
  BY <1>1, <1>2 DEF Base, Top
<1>4. Base \notin CommentStates \cup {"cr", "string"}
  BY DEF CommentStates, BetweenStates, ValueStates, NameStates
<1>5. StackShape'
  BY <1>1, <1>2, <1>3, <1>4 DEF StackShape
<1>6. BaseFits'
  BY <1>1, <1>2, <1>3 DEF BaseFits
<1>7. QED  BY <1>3, <1>5, <1>6

\* A carriage return inside a comment is over.
LEMMA BackToComment ==
    ASSUME StackShape, BaseFits, stateStack \in Seq(States), level \in Nat,
           Len(stateStack) = Frames + 2, Base \in BetweenStates, Top = "slash_star",
           state' = Top, stateStack' = Popped, UNCHANGED <<level, done>>
    PROVE  StackShape' /\ BaseFits'
<1>1. Frames \in Nat /\ Frames > 0 /\ Frames' = Frames /\ Len(stateStack) > 1
  BY DEF Frames
<1>2. Len(stateStack') = Frames + 1 /\ \A i \in 1 .. Frames + 1 : stateStack'[i] = stateStack[i]
  BY <1>1, PoppedLen, PoppedAt DEF Popped
<1>3. Base' = Base
  BY <1>1, <1>2 DEF Base
<1>4. state' \in CommentStates /\ state' \notin {"cr", "string"}
  BY DEF CommentStates
<1>5. StackShape'
  BY <1>1, <1>2, <1>3, <1>4 DEF StackShape
<1>6. BaseFits'
  BY <1>1, <1>2, <1>3 DEF BaseFits
<1>7. QED  BY <1>5, <1>6

\* Where the loop finds a state between tokens, a literal or a number, the
\* stack holds the containers only, and the innermost is parent().
LEMMA OnTop ==
    ASSUME StackShape, BaseFits, level \in Nat, stateStack \in Seq(States),
           state \notin CommentStates \cup {"cr", "string"}
    PROVE  /\ Len(stateStack) = Frames /\ Base = state /\ Top = stateStack[Frames]
           /\ level > 0 => Top \in Containers
           /\ level = 0 => Top = "root"
<1>1. Len(stateStack) = Frames /\ Frames \in Nat
  BY DEF StackShape, Frames
<1>2. Base = state /\ Top = stateStack[Frames]
  BY <1>1 DEF Base, Top
<1>3. level > 0 => Top \in Containers
  BY <1>1, <1>2 DEF StackShape, Frames
<1>4. level = 0 => Top = "root"
  BY <1>1, <1>2 DEF StackShape, Frames
<1>5. QED  BY <1>1, <1>2, <1>3, <1>4

\* A value is complete, in the place where it was begun.
LEMMA ValueComplete ==
    ASSUME StackShape, BaseFits, level \in Nat, stateStack \in Seq(States),
           Len(stateStack) = Frames, ~done, UNCHANGED <<stateStack, level, done>>,
           level = 0 => state' = "accept",
           level > 0 => state' = "expect_comma_or_end"
    PROVE  StackShape' /\ BaseFits'
<1>1. state' \in {"accept", "expect_comma_or_end"}
  OBVIOUS
<1>2. StackShape' /\ Base' = state'
  BY <1>1, Moved DEF BetweenStates
<1>3. BaseFits'
  BY <1>1, <1>2 DEF BaseFits, BetweenStates, ValueStates, NameStates
<1>4. QED  BY <1>2, <1>3

------------------------------------------------------------------------------
\* One lemma per action, or group of actions: it keeps the parser consistent.

\* An iteration that stays at its place, or ends in an error.
LEMMA StaysConsistent ==
    ASSUME IInv, ec = "none", phase = "parse", more, phase' = phase,
           \/ ec' # "none"
           \/ UNCHANGED <<nest, done>> /\ (state = "number" => buffer' # <<>>)
    PROVE  Consistent'
<1>1. CASE ec' # "none"
  BY <1>1, Failed
<1>2. CASE ec' = "none" /\ UNCHANGED <<nest, done>> /\ (state = "number" => buffer' # <<>>)
  <2>1. StackShape /\ BaseFits /\ RunsFit
    BY BeforeStep
  <2>2. StackShape' /\ BaseFits'
    BY <1>2, <2>1, SamePlace
  <2>3. RunsFit'
    BY <1>2, <2>1, LoopGoesOn DEF nest
  <2>4. QED  BY <1>2, <2>2, <2>3, Preserved
<1>3. QED  BY <1>1, <1>2

LEMMA SkipsConsistent ==
    ASSUME IInv,
           \/ ControlCharacter \/ Unexpected \/ UnexpectedAtStart \/ NumberError
           \/ TextByte \/ IllegalTextByte \/ BeginEscape \/ SimpleEscape \/ UnicodeEscape
           \/ SurrogateBackslash \/ SurrogateU \/ EscapeError \/ HexByte
    PROVE  Consistent'
<1>1. ec = "none" /\ phase = "parse" /\ more /\ phase' = phase /\ UNCHANGED <<nest, done>>
  BY DEF ControlCharacter, Unexpected, UnexpectedAtStart, NumberError, TextByte, IllegalTextByte,
         BeginEscape, SimpleEscape, UnicodeEscape, SurrogateBackslash, SurrogateU, EscapeError,
         HexByte, InString, At, LoopFrame, StringFrame
<1>2. state = "number" => UNCHANGED buffer
  BY DEF ControlCharacter, Unexpected, UnexpectedAtStart, NumberError, TextByte, IllegalTextByte,
         BeginEscape, SimpleEscape, UnicodeEscape, SurrogateBackslash, SurrogateU, EscapeError,
         HexByte, InString, At, token, BetweenStates, ValueStates, NameStates
<1>3. state = "number" => buffer # <<>>
  BY <1>1, BeforeStep DEF RunsFit
<1>4. QED  BY <1>1, <1>2, <1>3, StaysConsistent

LEMMA NumberByteConsistent == ASSUME IInv, NumberByte PROVE Consistent'
<1>1. ec = "none" /\ phase = "parse" /\ more /\ phase' = phase /\ UNCHANGED <<nest, done>>
  BY DEF NumberByte, At, LoopFrame
<1>2. buffer' # <<>>
  <2>1. buffer' = Append(buffer, Here) /\ buffer \in Seq(Byte) /\ Here \in Byte
    BY InputType DEF NumberByte, At, IInv, TypeOK
  <2>2. Len(buffer') = Len(buffer) + 1
    BY <2>1, Pushed
  <2>3. QED  BY <2>1, <2>2
<1>3. QED  BY <1>1, <1>2, StaysConsistent

LEMMA SkipSpaceConsistent == ASSUME IInv, SkipSpace PROVE Consistent'
<1>1. ec = "none" /\ UNCHANGED <<ec, phase, more, done, buffer>>
  BY DEF SkipSpace, At, IInv, Consistent, LoopFrame, token
<1>2. /\ StackShape /\ BaseFits /\ RunsFit
      /\ stateStack \in Seq(States) /\ level \in Nat /\ state \in States
  BY <1>1, BeforeStep
<1>3. \/ phase = "parse" /\ state \in BetweenStates
      \/ phase = "skip" /\ state \in {"start", "accept", "done"}
  <2>1. (phase = "parse" /\ state \in BetweenStates) \/ (phase = "skip" /\ state # "cr")
    BY DEF SkipSpace, At
  <2>2. phase = "skip" => BetweenTexts
    BY <1>2 DEF RunsFit
  <2>3. QED  BY <2>1, <2>2 DEF BetweenTexts
<1>4. CASE UNCHANGED nest
  <2>1. StackShape' /\ BaseFits'
    BY <1>1, <1>2, <1>4, SamePlace
  <2>2. RunsFit'
    BY <1>1, <1>2, <1>3, <1>4 DEF RunsFit, BetweenTexts, Top, nest
  <2>3. QED  BY <1>1, <2>1, <2>2, Preserved
<1>5. CASE Push(state) /\ state' = "cr" /\ level' = level
  <2>1. state \in BetweenStates \cup {"accept", "done"}
    BY <1>3 DEF BetweenStates, ValueStates
  <2>2. Len(stateStack) = Frames
    <3>1. state \notin CommentStates \cup {"cr", "string"}
      BY <2>1 DEF BetweenStates, ValueStates, NameStates, CommentStates
    <3>2. QED  BY <1>2, <3>1, OnTop
  <2>3. StackShape' /\ BaseFits' /\ Top' = state
    BY <1>1, <1>2, <1>5, <2>1, <2>2, PutsOff
  <2>4. RunsFit'
    BY <1>1, <1>2, <1>3, <1>5, <2>3 DEF RunsFit, BetweenTexts
  <2>5. QED  BY <1>1, <2>3, <2>4, Preserved
<1>6. QED  BY <1>4, <1>5, Zenon DEF SkipSpace

LEMMA ResumeCrConsistent == ASSUME IInv, ResumeCr PROVE Consistent'
<1>1. ec = "none" /\ state = "cr" /\ UNCHANGED <<ec, phase, more, done, buffer, level>>
  BY DEF ResumeCr, At, IInv, Consistent, LoopFrame, token
<1>2. /\ StackShape /\ BaseFits /\ RunsFit
      /\ stateStack \in Seq(States) /\ level \in Nat
  BY <1>1, BeforeStep
<1>3. state' = Top /\ stateStack' = Popped /\ phase \in {"parse", "skip"}
  BY DEF ResumeCr, At
<1>4. CASE Len(stateStack) = Frames + 1 /\ Base \in BetweenStates \cup {"accept", "done"}
  <2>1. StackShape' /\ BaseFits' /\ state' = Base
    BY <1>1, <1>2, <1>3, <1>4, ComesBack
  <2>2. phase = "skip" => state' \in {"start", "accept", "done"}
    BY <1>1, <1>2, <1>3 DEF RunsFit, BetweenTexts
  <2>3. state' \notin {"cr", "number"}
    BY <1>4, <2>1 DEF BetweenStates, ValueStates, NameStates
  <2>4. RunsFit'
    BY <1>1, <1>2, <2>2, <2>3 DEF RunsFit, BetweenTexts
  <2>5. QED  BY <1>1, <2>1, <2>4, Preserved
<1>5. CASE /\ Len(stateStack) = Frames + 2 /\ stateStack[Frames + 2] = "slash_star"
           /\ Base \in BetweenStates
  <2>1. Top = "slash_star"
    BY <1>2, <1>5 DEF Top
  <2>2. StackShape' /\ BaseFits'
    BY <1>1, <1>2, <1>3, <1>5, <2>1, BackToComment
  <2>3. phase # "skip"
    BY <1>1, <1>2, <2>1 DEF RunsFit, BetweenTexts
  <2>4. RunsFit'
    BY <1>1, <1>2, <1>3, <2>1, <2>3 DEF RunsFit
  <2>5. QED  BY <1>1, <2>2, <2>4, Preserved
<1>6. QED  BY <1>1, <1>2, <1>4, <1>5 DEF StackShape

\* The facts that an iteration starts from.
LEMMA Iterates ==
    ASSUME IInv, ec = "none", phase = "parse", more
    PROVE  /\ StackShape /\ BaseFits /\ RunsFit /\ ~done
           /\ stateStack \in Seq(States) /\ level \in Nat /\ state \in States
<1>1. /\ StackShape /\ BaseFits /\ RunsFit
      /\ stateStack \in Seq(States) /\ level \in Nat /\ state \in States
  BY BeforeStep
<1>2. done \in BOOLEAN
  BY DEF IInv, TypeOK
<1>3. ~done
  BY <1>1, <1>2 DEF RunsFit
<1>4. QED  BY <1>1, <1>3

\* An iteration that moves within the stack's invariant.
LEMMA MovesConsistent ==
    ASSUME IInv, ec = "none", phase = "parse", more, UNCHANGED <<phase, done>>,
           StackShape', BaseFits', state' = "number" => buffer' # <<>>
    PROVE  Consistent'
<1>1. RunsFit'
  BY Iterates, LoopGoesOn
<1>2. QED  BY <1>1, Preserved

\* A container is opened.
LEMMA Opened ==
    ASSUME StackShape, stateStack \in Seq(States), level \in Nat, Len(stateStack) = Frames,
           ~done, done' = done, level' = level + 1,
           \/ Push("object") /\ state' = "expect_member_name_or_end"
           \/ Push("array") /\ state' = "expect_value_or_end"
    PROVE  StackShape' /\ BaseFits'
<1>. DEFINE kind == IF state' = "expect_value_or_end" THEN "array" ELSE "object"
<1>1. stateStack' = Append(stateStack, kind)
  BY DEF Push
<1>2. kind \in States /\ kind \in Containers
  BY DEF States, Containers
<1>3. /\ Frames' = Frames + 1 /\ Frames \in Nat /\ Frames > 0
      /\ Len(stateStack') = Frames' /\ stateStack'[Frames'] = kind
      /\ \A i \in 1 .. Frames : stateStack'[i] = stateStack[i]
  <2>. HIDE DEF kind
  <2>1. QED  BY <1>1, <1>2, Pushed DEF Frames
<1>4. Base' = state'
  BY <1>3 DEF Base
<1>5. \A i \in 2 .. Frames' : stateStack'[i] \in Containers
  <2>. HIDE DEF kind
  <2>1. QED  BY <1>2, <1>3 DEF StackShape
<1>6. state' \in {"expect_member_name_or_end", "expect_value_or_end"}
  OBVIOUS
<1>7. state' \in BetweenStates /\ state' \notin CommentStates \cup {"cr", "string"}
  BY <1>6 DEF BetweenStates, ValueStates, NameStates, CommentStates
<1>8. StackShape'
  BY <1>3, <1>5, <1>7 DEF StackShape
<1>9. BaseFits'
  <2>1. level' > 0 /\ ~done'
    OBVIOUS
  <2>2. QED  BY <1>3, <1>4, <1>6, <2>1 DEF BaseFits, NameStates
<1>10. QED  BY <1>8, <1>9

LEMMA BeginContainerConsistent == ASSUME IInv, BeginObject \/ BeginArray PROVE Consistent'
<1>1. /\ ec = "none" /\ phase = "parse" /\ more /\ UNCHANGED <<phase, done>>
      /\ state \in ValueStates /\ level' = level + 1
  BY DEF BeginObject, BeginArray, At, LoopFrame
<1>2. /\ StackShape /\ BaseFits /\ RunsFit /\ ~done
      /\ stateStack \in Seq(States) /\ level \in Nat /\ state \in States
  BY <1>1, Iterates
<1>3. Len(stateStack) = Frames
  BY <1>1, <1>2, OnTop DEF ValueStates, CommentStates
<1>4. CASE ec' # "none"
  BY <1>1, <1>4, Failed
<1>5. CASE ec' = "none"
  <2>1. \/ Push("object") /\ state' = "expect_member_name_or_end"
        \/ Push("array") /\ state' = "expect_value_or_end"
    BY <1>5 DEF BeginObject, BeginArray, Abort
  <2>2. StackShape' /\ BaseFits'
    BY <1>1, <1>2, <1>3, <2>1, Opened
  <2>3. QED  BY <1>1, <2>1, <2>2, MovesConsistent
<1>6. QED  BY <1>4, <1>5

\* A container is closed.
LEMMA Closed ==
    ASSUME StackShape, BaseFits, stateStack \in Seq(States), level \in Nat,
           Len(stateStack) = Frames, ~done, done' = done, level > 0,
           stateStack' = Popped, level' = level - 1,
           state' = IF level - 1 = 0 THEN "accept" ELSE "expect_comma_or_end"
    PROVE  StackShape' /\ BaseFits'
<1>1. /\ Frames' = level /\ Frames = level + 1 /\ level' \in Nat /\ Len(stateStack) > 1
      /\ state' \in {"accept", "expect_comma_or_end"}
  BY DEF Frames
<1>2. Len(stateStack') = Frames' /\ \A i \in 1 .. Frames' : stateStack'[i] = stateStack[i]
  BY <1>1, PoppedLen, PoppedAt DEF Popped
<1>3. Base' = state'
  BY <1>1, <1>2 DEF Base
<1>4. state' \notin CommentStates \cup {"cr", "string"} /\ state' \in BetweenStates \cup {"accept"}
  BY <1>1 DEF CommentStates, BetweenStates
<1>5. StackShape'
  BY <1>1, <1>2, <1>4 DEF StackShape
<1>6. BaseFits'
  BY <1>1, <1>2, <1>3 DEF BaseFits, BetweenStates, NameStates, ValueStates
<1>7. QED  BY <1>5, <1>6

LEMMA EndContainerConsistent ==
    ASSUME IInv, ec = "none", phase = "parse", more, UNCHANGED <<phase, done>>,
           state \notin CommentStates \cup {"cr", "string"},
           NEW kind, NEW c, NEW mismatch \in Errors, NEW unexpected \in Errors,
           EndContainer(kind, c, mismatch, unexpected)
    PROVE  Consistent'
<1>1. /\ StackShape /\ BaseFits /\ RunsFit /\ ~done
      /\ stateStack \in Seq(States) /\ level \in Nat
  BY Iterates
<1>2. Len(stateStack) = Frames
  BY <1>1, OnTop
<1>3. CASE ec' # "none"
  BY <1>3, Failed
<1>4. CASE ec' = "none"
  <2>1. mismatch # "none" /\ unexpected # "none"
    BY DEF Errors, Utf8Error
  <2>2. ~(level < 1)
    BY <1>4, <2>1 DEF EndContainer, Abort
  <2>3. Top = kind
    BY <1>4, <2>1, <2>2 DEF EndContainer, Abort
  <2>4. /\ stateStack' = Popped /\ level' = level - 1
        /\ state' = IF level - 1 = 0 THEN "accept" ELSE "expect_comma_or_end"
    BY <1>4, <2>2, <2>3 DEF EndContainer, ValueDone
  <2>5. StackShape' /\ BaseFits'
    BY <1>1, <1>2, <2>2, <2>4, Closed
  <2>6. QED  BY <2>4, <2>5, MovesConsistent
<1>5. QED  BY <1>3, <1>4

LEMMA EndObjectConsistent == ASSUME IInv, EndObject PROVE Consistent'
<1>1. /\ ec = "none" /\ phase = "parse" /\ more /\ UNCHANGED <<phase, done>>
      /\ state \in NameStates \cup {"expect_comma_or_end"}
  BY DEF EndObject, At, LoopFrame
<1>2. CASE Abort("extra_comma")
  BY <1>1, <1>2, Failed DEF Abort
<1>3. CASE EndContainer("object", "end_object", "expected_comma_or_rbracket", "unexpected_rbrace")
  <2>1. state \notin CommentStates \cup {"cr", "string"}
    BY <1>1 DEF NameStates, CommentStates
  <2>2. {"expected_comma_or_rbracket", "unexpected_rbrace"} \subseteq Errors
    BY DEF Errors
  <2>3. QED  BY <1>1, <1>3, <2>1, <2>2, EndContainerConsistent
<1>4. QED  BY <1>2, <1>3 DEF EndObject

LEMMA EndArrayConsistent == ASSUME IInv, EndArray PROVE Consistent'
<1>1. /\ ec = "none" /\ phase = "parse" /\ more /\ UNCHANGED <<phase, done>>
      /\ state \in {"expect_value", "expect_value_or_end", "expect_comma_or_end"}
  BY DEF EndArray, At, LoopFrame
<1>2. CASE Abort("extra_comma") \/ Abort("expected_value")
  BY <1>1, <1>2, Failed DEF Abort
<1>3. CASE UNCHANGED nest
  BY <1>1, <1>3, StaysConsistent
<1>4. CASE EndContainer("array", "end_array", "expected_comma_or_rbrace", "unexpected_rbracket")
  <2>1. state \notin CommentStates \cup {"cr", "string"}
    BY <1>1 DEF CommentStates
  <2>2. {"expected_comma_or_rbrace", "unexpected_rbracket"} \subseteq Errors
    BY DEF Errors
  <2>3. QED  BY <1>1, <1>4, <2>1, <2>2, EndContainerConsistent
<1>5. QED  BY <1>2, <1>3, <1>4 DEF EndArray

LEMMA NextMemberConsistent == ASSUME IInv, NextMember PROVE Consistent'
<1>1. /\ ec = "none" /\ phase = "parse" /\ more /\ UNCHANGED <<phase, done, stateStack, level>>
      /\ state = "expect_comma_or_end"
  BY DEF NextMember, At, LoopFrame
<1>2. /\ StackShape /\ BaseFits /\ RunsFit /\ ~done
      /\ stateStack \in Seq(States) /\ level \in Nat
  BY <1>1, Iterates
<1>3. /\ Len(stateStack) = Frames /\ Base = state /\ Top = stateStack[Frames]
      /\ level > 0 /\ Top \in Containers
  BY <1>1, <1>2, OnTop DEF CommentStates, BaseFits, BetweenStates
<1>4. CASE ~(state' \in {"expect_member_name", "expect_value"})
  <2>1. state' = state
    BY <1>4 DEF NextMember, Containers
  <2>2. QED  BY <1>1, <2>1, StaysConsistent DEF nest
<1>5. CASE state' \in {"expect_member_name", "expect_value"}
  <2>1. state' = "expect_member_name" => Top = "object"
    BY <1>1, <1>3 DEF NextMember, Containers
  <2>2. StackShape' /\ Base' = state' /\ stateStack'[Frames'] = stateStack[Frames]
    BY <1>1, <1>2, <1>3, <1>5, Moved DEF BetweenStates, NameStates, ValueStates
  <2>3. BaseFits'
    BY <1>1, <1>2, <1>3, <1>5, <2>1, <2>2 DEF BaseFits, NameStates
  <2>4. QED  BY <1>1, <1>5, <2>2, <2>3, MovesConsistent
<1>6. QED  BY <1>4, <1>5

LEMMA TakeColonConsistent == ASSUME IInv, TakeColon PROVE Consistent'
<1>1. /\ ec = "none" /\ phase = "parse" /\ more /\ UNCHANGED <<phase, done, stateStack, level>>
      /\ state = "expect_colon" /\ state' = "expect_value"
  BY DEF TakeColon, At, LoopFrame
<1>2. /\ StackShape /\ BaseFits /\ RunsFit /\ ~done
      /\ stateStack \in Seq(States) /\ level \in Nat
  BY <1>1, Iterates
<1>3. Len(stateStack) = Frames /\ Base = state /\ level > 0
  BY <1>1, <1>2, OnTop DEF CommentStates, BaseFits
<1>4. StackShape' /\ Base' = state' /\ stateStack'[Frames'] = stateStack[Frames]
  BY <1>1, <1>2, <1>3, Moved DEF BetweenStates, ValueStates
<1>5. BaseFits'
  BY <1>1, <1>2, <1>3, <1>4 DEF BaseFits, NameStates
<1>6. QED  BY <1>1, <1>4, <1>5, MovesConsistent

LEMMA BeginCommentConsistent == ASSUME IInv, BeginComment PROVE Consistent'
<1>1. /\ ec = "none" /\ phase = "parse" /\ more /\ UNCHANGED <<phase, done, level>>
      /\ state \in BetweenStates /\ Push(state) /\ state' = "slash"
  BY DEF BeginComment, At, LoopFrame
<1>2. /\ StackShape /\ BaseFits /\ RunsFit /\ ~done
      /\ stateStack \in Seq(States) /\ level \in Nat /\ state \in States
  BY <1>1, Iterates
<1>3. Len(stateStack) = Frames
  BY <1>1, <1>2, OnTop DEF CommentStates, BetweenStates, NameStates, ValueStates
<1>4. StackShape' /\ BaseFits'
  BY <1>1, <1>2, <1>3, PutsOff DEF CommentStates
<1>5. QED  BY <1>1, <1>4, MovesConsistent

\* Inside a comment.
LEMMA InComment ==
    ASSUME IInv, ec = "none", phase = "parse", more, UNCHANGED <<phase, done, level>>,
           state \in CommentStates,
           \/ state' \in CommentStates /\ UNCHANGED stateStack
           \/ state' = Top /\ stateStack' = Popped
    PROVE  Consistent'
<1>1. /\ StackShape /\ BaseFits /\ RunsFit /\ ~done
      /\ stateStack \in Seq(States) /\ level \in Nat /\ state \in States
  BY Iterates
<1>2. Len(stateStack) = Frames + 1 /\ Base \in BetweenStates
  BY <1>1 DEF StackShape
<1>3. CASE state' \in CommentStates /\ UNCHANGED stateStack
  <2>1. StackShape' /\ BaseFits'
    BY <1>1, <1>2, <1>3, PutOff
  <2>2. state' # "number"
    BY <1>3 DEF CommentStates
  <2>3. QED  BY <2>1, <2>2, MovesConsistent
<1>4. CASE state' = Top /\ stateStack' = Popped
  <2>1. StackShape' /\ BaseFits' /\ state' = Base
    BY <1>1, <1>2, <1>4, ComesBack
  <2>2. state' # "number"
    BY <1>2, <2>1 DEF BetweenStates, NameStates, ValueStates
  <2>3. QED  BY <2>1, <2>2, MovesConsistent
<1>5. QED  BY <1>3, <1>4

LEMMA CommentKindConsistent == ASSUME IInv, CommentKind PROVE Consistent'
<1>1. /\ ec = "none" /\ phase = "parse" /\ more /\ UNCHANGED <<phase, done, level, stateStack>>
      /\ state = "slash"
  BY DEF CommentKind, At, LoopFrame
<1>2. state' \in {"slash", "slash_star", "slash_slash"}
  BY <1>1 DEF CommentKind
<1>3. QED  BY <1>1, <1>2, InComment DEF CommentStates

LEMMA LineCommentConsistent == ASSUME IInv, LineComment PROVE Consistent'
<1>1. /\ ec = "none" /\ phase = "parse" /\ more /\ UNCHANGED <<phase, done, level>>
      /\ state = "slash_slash"
  BY DEF LineComment, At, LoopFrame
<1>2. \/ state' = Top /\ stateStack' = Popped
      \/ state' = state /\ UNCHANGED stateStack
  BY DEF LineComment
<1>3. QED  BY <1>1, <1>2, InComment DEF CommentStates

LEMMA BlockCommentStarConsistent == ASSUME IInv, BlockCommentStar PROVE Consistent'
<1>1. /\ ec = "none" /\ phase = "parse" /\ more /\ UNCHANGED <<phase, done, level>>
      /\ state = "slash_star_star"
  BY DEF BlockCommentStar, At, LoopFrame
<1>2. \/ state' = Top /\ stateStack' = Popped
      \/ state' = "slash_star" /\ UNCHANGED stateStack
  BY DEF BlockCommentStar
<1>3. QED  BY <1>1, <1>2, InComment DEF CommentStates

LEMMA BlockCommentConsistent == ASSUME IInv, BlockComment PROVE Consistent'
<1>1. /\ ec = "none" /\ phase = "parse" /\ more /\ UNCHANGED <<phase, done, level>>
      /\ state = "slash_star"
  BY DEF BlockComment, At, LoopFrame
<1>2. CASE Here # CR
  <2>1. state' \in {"slash_star", "slash_star_star"} /\ UNCHANGED stateStack
    BY <1>1, <1>2 DEF BlockComment
  <2>2. QED  BY <1>1, <2>1, InComment DEF CommentStates
<1>3. CASE Here = CR
  <2>1. state' = "cr" /\ stateStack' = Append(stateStack, "slash_star")
    BY <1>1, <1>3 DEF BlockComment, CR, Asterisk
  <2>2. /\ StackShape /\ BaseFits /\ RunsFit /\ ~done
        /\ stateStack \in Seq(States) /\ level \in Nat /\ state \in States
    BY <1>1, Iterates
  <2>3. Len(stateStack) = Frames + 1 /\ Base \in BetweenStates
    BY <1>1, <2>2 DEF StackShape, CommentStates
  <2>4. /\ Frames' = Frames /\ Frames \in Nat /\ Frames > 0
        /\ Len(stateStack') = Frames + 2 /\ stateStack'[Frames + 2] = "slash_star"
        /\ \A i \in 1 .. Frames + 1 : stateStack'[i] = stateStack[i]
    BY <1>1, <2>1, <2>2, <2>3, Pushed DEF Frames
  <2>5. Base' = Base
    BY <2>3, <2>4 DEF Base
  <2>6. StackShape'
    BY <2>1, <2>2, <2>3, <2>4, <2>5 DEF StackShape, CommentStates
  <2>7. BaseFits'
    BY <1>1, <2>2, <2>4, <2>5 DEF BaseFits
  <2>8. QED  BY <1>1, <2>1, <2>6, <2>7, MovesConsistent
<1>4. QED  BY <1>2, <1>3

\* A value that is begun, or ends: the place in the text was one for a value,
\* or inside one.
LEMMA InValue ==
    ASSUME IInv, ec = "none", phase = "parse", more, UNCHANGED <<phase, done, stateStack, level>>,
           state \in ValueStates \cup LiteralStates \cup {"number"},
           \/ state' \in LiteralStates
           \/ state' = "number" /\ buffer' # <<>>
           \/ state' = "string"
           \/ ec' # "none"
           \/ ValueDone(level)
    PROVE  Consistent'
<1>1. /\ StackShape /\ BaseFits /\ RunsFit /\ ~done
      /\ stateStack \in Seq(States) /\ level \in Nat
  BY Iterates
<1>2. state \notin CommentStates \cup {"cr", "string"}
  BY DEF ValueStates, LiteralStates, CommentStates
<1>3. Len(stateStack) = Frames
  BY <1>1, <1>2, OnTop
<1>4. CASE ec' # "none"
  BY <1>4, Failed
<1>5. CASE ec' = "none" /\ ValueDone(level)
  <2>1. StackShape' /\ BaseFits'
    BY <1>1, <1>3, <1>5, ValueComplete DEF ValueDone
  <2>2. state' # "number"
    BY <1>5 DEF ValueDone
  <2>3. QED  BY <2>1, <2>2, MovesConsistent
<1>6. CASE state' \in LiteralStates \cup {"number", "string"} /\ (state' = "number" => buffer' # <<>>)
  <2>1. StackShape' /\ Base' = state'
    BY <1>1, <1>3, <1>6, Moved
  <2>2. Base' \notin BetweenStates \cup {"accept", "done", "member_name"}
    BY <1>6, <2>1 DEF LiteralStates, BetweenStates, ValueStates, NameStates
  <2>3. BaseFits'
    BY <1>1, <2>2 DEF BaseFits, BetweenStates, ValueStates, NameStates
  <2>4. QED  BY <1>6, <2>1, <2>3, MovesConsistent
<1>7. QED  BY <1>4, <1>5, <1>6 DEF LiteralStates

LEMMA BeginLiteralConsistent ==
    ASSUME IInv, NEW word, NEW c, NEW s \in LiteralStates, BeginLiteral(word, c, s)
    PROVE  Consistent'
<1>1. /\ ec = "none" /\ phase = "parse" /\ more /\ UNCHANGED <<phase, done, level, stateStack>>
      /\ state \in ValueStates
  BY DEF BeginLiteral, At, LoopFrame
<1>2. state' = s \/ ValueDone(level) \/ ec' = "invalid_value"
  BY DEF BeginLiteral, Abort
<1>3. QED  BY <1>1, <1>2, InValue

LEMMA LiteralConsistent == ASSUME IInv, ParseTrue \/ ParseFalse \/ ParseNull PROVE Consistent'
<1>1. {"t", "f", "n"} \subseteq LiteralStates
  BY DEF LiteralStates
<1>2. QED  BY <1>1, BeginLiteralConsistent DEF ParseTrue, ParseFalse, ParseNull

LEMMA ContinueLiteralConsistent == ASSUME IInv, ContinueLiteral PROVE Consistent'
<1>. DEFINE next == LiteralStep[state][2]
<1>1. /\ ec = "none" /\ phase = "parse" /\ more /\ UNCHANGED <<phase, done, level, stateStack>>
      /\ state \in LiteralStates
  BY DEF ContinueLiteral, At, LoopFrame
<1>2. next \in LiteralStates \cup {""}
  BY <1>1 DEF LiteralStep, LiteralStates
<1>. HIDE DEF next
<1>3. ec' = "invalid_value" \/ (next # "" /\ state' = next) \/ ValueDone(level)
  BY DEF ContinueLiteral, Abort, next
<1>4. QED  BY <1>1, <1>2, <1>3, InValue

LEMMA BeginNumberConsistent == ASSUME IInv, BeginNumber PROVE Consistent'
<1>1. /\ ec = "none" /\ phase = "parse" /\ more /\ UNCHANGED <<phase, done, level, stateStack>>
      /\ state \in ValueStates /\ state' = "number"
  BY DEF BeginNumber, At, LoopFrame
<1>2. buffer' # <<>>
  <2>1. buffer' = <<Here>>
    BY DEF BeginNumber
  <2>2. QED  BY <2>1
<1>3. QED  BY <1>1, <1>2, InValue

\* after_value looks at parent(), the other values at level_: they agree.
LEMMA NumberDone ==
    ASSUME StackShape, BaseFits, level \in Nat, stateStack \in Seq(States), state = "number",
           CompleteNumber
    PROVE  ec' = "none" => state' = IF level = 0 THEN "accept" ELSE "expect_comma_or_end"
<1>1. level > 0 => Top \in Containers
  BY OnTop DEF CommentStates
<1>2. level = 0 => Top \notin Containers
  BY OnTop DEF CommentStates, Containers
<1>3. QED  BY <1>1, <1>2 DEF CompleteNumber

LEMMA EndNumberConsistent == ASSUME IInv, EndNumber PROVE Consistent'
<1>1. /\ ec = "none" /\ phase = "parse" /\ more /\ UNCHANGED <<phase, done, level, stateStack>>
      /\ state = "number" /\ CompleteNumber
  BY DEF EndNumber, At, LoopFrame
<1>2. /\ StackShape /\ BaseFits
      /\ stateStack \in Seq(States) /\ level \in Nat
  BY <1>1, Iterates
<1>3. CASE ec' # "none"
  BY <1>1, <1>3, Failed
<1>4. CASE ec' = "none"
  <2>1. ValueDone(level)
    BY <1>1, <1>2, <1>4, NumberDone DEF ValueDone
  <2>2. QED  BY <1>1, <2>1, InValue
<1>5. QED  BY <1>3, <1>4

LEMMA BeginStringConsistent == ASSUME IInv, BeginString PROVE Consistent'
<1>1. /\ ec = "none" /\ phase = "parse" /\ more /\ UNCHANGED <<phase, done, level>>
      /\ state \in ValueStates \cup NameStates /\ state' = "string"
  BY DEF BeginString, At, LoopFrame
<1>2. CASE state \notin NameStates
  BY <1>1, <1>2, InValue DEF BeginString
<1>3. CASE state \in NameStates
  <2>1. Push("member_name") /\ "member_name" \in States
    BY <1>3, StateNames DEF BeginString
  <2>2. /\ StackShape /\ BaseFits /\ ~done
        /\ stateStack \in Seq(States) /\ level \in Nat
    BY <1>1, Iterates
  <2>3. Len(stateStack) = Frames /\ Base = state
    BY <1>3, <2>2, OnTop DEF NameStates, CommentStates
  <2>4. level > 0 /\ stateStack[Frames] = "object"
    BY <1>3, <2>2, <2>3 DEF BaseFits
  <2>5. /\ Frames' = Frames /\ Frames \in Nat /\ Frames > 0
        /\ Len(stateStack') = Frames + 1 /\ stateStack'[Frames + 1] = "member_name"
        /\ \A i \in 1 .. Frames : stateStack'[i] = stateStack[i]
    BY <1>1, <2>1, <2>2, <2>3, Pushed DEF Push, Frames
  <2>6. Base' = "member_name"
    BY <2>5 DEF Base
  <2>7. StackShape'
    BY <1>1, <2>2, <2>5, <2>6 DEF StackShape, CommentStates
  <2>8. BaseFits'
    BY <1>1, <2>2, <2>4, <2>5, <2>6 DEF BaseFits, BetweenStates, ValueStates, NameStates
  <2>9. QED  BY <1>1, <2>7, <2>8, MovesConsistent
<1>4. QED  BY <1>2, <1>3

\* A member name is complete.
LEMMA NameDone ==
    ASSUME StackShape, BaseFits, stateStack \in Seq(States), level \in Nat, state = "string",
           Top = "member_name", ~done, UNCHANGED <<level, done>>,
           stateStack' = Popped, state' = "expect_colon"
    PROVE  StackShape' /\ BaseFits'
<1>1. Frames' = Frames /\ Frames \in Nat /\ Frames > 0
  BY DEF Frames
<1>2. Len(stateStack) = Frames + 1 /\ Base = "member_name"
  <2>1. Len(stateStack) # Frames
    BY <1>1 DEF StackShape, Top, Containers
  <2>2. QED  BY <2>1 DEF StackShape
<1>3. Len(stateStack') = Frames /\ \A i \in 1 .. Frames : stateStack'[i] = stateStack[i]
  BY <1>1, <1>2, PoppedLen, PoppedAt DEF Popped
<1>4. Base' = "expect_colon"
  BY <1>1, <1>3 DEF Base
<1>5. state' \in BetweenStates /\ state' \notin CommentStates \cup {"cr", "string"}
  BY DEF BetweenStates, CommentStates
<1>6. StackShape'
  BY <1>1, <1>3, <1>5 DEF StackShape
<1>7. BaseFits'
  BY <1>1, <1>2, <1>3, <1>4 DEF BaseFits, NameStates
<1>8. QED  BY <1>6, <1>7

LEMMA EndStringConsistent == ASSUME IInv, EndString PROVE Consistent'
<1>1. /\ ec = "none" /\ phase = "parse" /\ more /\ UNCHANGED <<phase, done, level>>
      /\ state = "string"
  BY DEF EndString, InString, At, LoopFrame
<1>2. /\ StackShape /\ BaseFits /\ ~done
      /\ stateStack \in Seq(States) /\ level \in Nat
  BY <1>1, Iterates
<1>3. CASE ec' # "none"
  BY <1>1, <1>3, Failed
<1>4. CASE ec' = "none"
  <2>1. ValidUtf8(buffer)
    <3>1. ASSUME NEW stop \in Utf8Stop(buffer), Abort(SequenceError(buffer, stop)) PROVE FALSE
      BY <1>4, <3>1 DEF Abort, Utf8Stop, IllegalAt
    <3>2. QED  BY <3>1 DEF EndString
  <2>2. CASE Top = "member_name"
    <3>1. stateStack' = Popped /\ state' = "expect_colon"
      BY <1>4, <2>1, <2>2 DEF EndString
    <3>2. StackShape' /\ BaseFits'
      BY <1>1, <1>2, <2>2, <3>1, NameDone
    <3>3. QED  BY <1>1, <3>1, <3>2, MovesConsistent
  <2>3. CASE Top # "member_name"
    <3>1. /\ UNCHANGED stateStack
          /\ state' = IF Top = "root" THEN "accept" ELSE "expect_comma_or_end"
      BY <1>4, <2>1, <2>3 DEF EndString
    <3>2. Len(stateStack) = Frames
      <4>1. Len(stateStack) = Frames + 1 /\ Base = "member_name" => Top = "member_name"
        BY <1>2 DEF Base, Top, Frames
      <4>2. QED  BY <1>1, <1>2, <2>3, <4>1 DEF StackShape
    <3>3. Top = "root" <=> level = 0
      BY <1>2, <3>2 DEF StackShape, Top, Frames, Containers
    <3>4. StackShape' /\ BaseFits'
      BY <1>1, <1>2, <3>1, <3>2, <3>3, ValueComplete
    <3>5. QED  BY <1>1, <3>1, <3>4, MovesConsistent
  <2>4. QED  BY <2>2, <2>3
<1>5. QED  BY <1>3, <1>4

------------------------------------------------------------------------------
\* The top-level value is complete: flush.
LEMMA FinishedFits ==
    ASSUME StackShape, BaseFits, stateStack \in Seq(States), level \in Nat, state = "accept",
           Finish, UNCHANGED <<stateStack, level>>, phase # "skip", phase' = phase
    PROVE  Consistent'
<1>1. Len(stateStack) = Frames /\ Base = "accept" /\ level = 0
  BY OnTop DEF CommentStates, BaseFits
<1>2. state' = "done" /\ done' = TRUE /\ more' = FALSE
  BY DEF Finish
<1>3. StackShape' /\ Base' = "done"
  BY <1>1, <1>2, Moved
<1>4. BaseFits'
  BY <1>1, <1>2, <1>3 DEF BaseFits, BetweenStates, NameStates, ValueStates
<1>5. RunsFit'
  BY <1>2 DEF RunsFit
<1>6. QED  BY <1>3, <1>4, <1>5, Preserved

LEMMA AcceptConsistent == ASSUME IInv, AcceptInLoop \/ ParseAccepted PROVE Consistent'
<1>1. /\ ec = "none" /\ phase # "skip" /\ phase' = phase /\ UNCHANGED <<stateStack, level>>
      /\ state = "accept" /\ Finish
  BY DEF AcceptInLoop, ParseAccepted, At, Calling, LoopFrame
<1>2. /\ StackShape /\ BaseFits
      /\ stateStack \in Seq(States) /\ level \in Nat
  BY <1>1, BeforeStep
<1>3. QED  BY <1>1, <1>2, FinishedFits

LEMMA EndOfNumberConsistent == ASSUME IInv, EndOfNumber PROVE Consistent'
<1>1. /\ ec = "none" /\ phase = "idle" /\ phase' = phase /\ ~done
      /\ UNCHANGED <<done, level, stateStack, buffer>> /\ state = "number"
  BY DEF EndOfNumber, AtEnd, Calling, token
<1>2. /\ StackShape /\ BaseFits /\ RunsFit
      /\ stateStack \in Seq(States) /\ level \in Nat
  BY <1>1, BeforeStep
<1>3. CASE ec' # "none"
  BY <1>1, <1>3, Failed
<1>4. CASE ec' = "none"
  <2>1. CompleteNumber
    BY <1>4 DEF EndOfNumber, Abort
  <2>2. state' = IF level = 0 THEN "accept" ELSE "expect_comma_or_end"
    BY <1>1, <1>2, <1>4, <2>1, NumberDone
  <2>3. Len(stateStack) = Frames
    BY <1>1, <1>2, OnTop DEF CommentStates
  <2>4. StackShape' /\ BaseFits'
    BY <1>1, <1>2, <2>2, <2>3, ValueComplete
  <2>5. RunsFit'
    BY <1>1, <2>2 DEF RunsFit
  <2>6. QED  BY <1>1, <2>4, <2>5, Preserved
<1>5. QED  BY <1>3, <1>4

LEMMA EndOfCrConsistent == ASSUME IInv, EndOfCr PROVE Consistent'
<1>1. /\ ec = "none" /\ phase = "idle" /\ phase' = phase
      /\ UNCHANGED <<done, level, buffer>> /\ state = "cr"
      /\ state' = Top /\ stateStack' = Popped
  BY DEF EndOfCr, AtEnd, Calling, token
<1>2. /\ StackShape /\ BaseFits /\ RunsFit
      /\ stateStack \in Seq(States) /\ level \in Nat
  BY <1>1, BeforeStep
<1>3. CASE Len(stateStack) = Frames + 1 /\ Base \in BetweenStates \cup {"accept", "done"}
  <2>1. StackShape' /\ BaseFits' /\ state' = Base
    BY <1>1, <1>2, <1>3, ComesBack
  <2>2. RunsFit'
    BY <1>1, <1>3, <2>1 DEF RunsFit, BetweenStates, ValueStates, NameStates
  <2>3. QED  BY <1>1, <2>1, <2>2, Preserved
<1>4. CASE /\ Len(stateStack) = Frames + 2 /\ stateStack[Frames + 2] = "slash_star"
           /\ Base \in BetweenStates
  <2>1. Top = "slash_star"
    BY <1>2, <1>4 DEF Top
  <2>2. StackShape' /\ BaseFits'
    BY <1>1, <1>2, <1>4, <2>1, BackToComment
  <2>3. RunsFit'
    BY <1>1, <2>1 DEF RunsFit
  <2>4. QED  BY <1>1, <2>2, <2>3, Preserved
<1>5. QED  BY <1>1, <1>2, <1>3, <1>4 DEF StackShape

LEMMA UnexpectedEndConsistent == ASSUME IInv, UnexpectedEnd PROVE Consistent'
BY Failed DEF UnexpectedEnd, AtEnd, Calling, Abort

\* A step that stays at its place, outside the loop.
LEMMA OutsideConsistent ==
    ASSUME IInv, UNCHANGED <<nest, done, ec, buffer>>,
           phase' = "skip" => ec = "none",
           ec = "none" /\ phase' = "skip" => BetweenTexts,
           ec = "none" /\ phase' = "parse" => ~done
    PROVE  Consistent'
<1>1. CASE ec # "none"
  BY <1>1 DEF Consistent
<1>2. CASE ec = "none"
  <2>1. StackShape /\ BaseFits /\ RunsFit
    BY <1>2, BeforeStep
  <2>2. StackShape' /\ BaseFits'
    BY <2>1, SamePlace
  <2>3. BetweenTexts' = BetweenTexts
    BY DEF BetweenTexts, Top, nest
  <2>4. RunsFit'
    BY <1>2, <2>1, <2>3 DEF RunsFit, nest
  <2>5. QED  BY <1>2, <2>2, <2>4, Preserved
<1>3. QED  BY <1>1, <1>2

LEMMA ControlConsistent ==
    ASSUME IInv,
           \/ ParseSome \/ SkipWhitespace \/ CheckDone \/ Return \/ Restart \/ UNCHANGED vars
    PROVE  Consistent'
<1>1. CASE ParseSome
  BY <1>1, OutsideConsistent DEF ParseSome, Calling, token
<1>2. CASE SkipWhitespace
  BY <1>2, OutsideConsistent DEF SkipWhitespace, Calling, token
<1>3. CASE CheckDone
  BY <1>3, OutsideConsistent DEF CheckDone, token
<1>4. CASE Return
  BY <1>4, OutsideConsistent DEF Return, token
<1>5. CASE Restart
  BY <1>5, OutsideConsistent DEF Restart, Calling, token
<1>6. CASE UNCHANGED vars
  BY <1>6 DEF IInv, Consistent, StackShape, BaseFits, RunsFit, BetweenTexts, Base, Frames, Top,
              vars, nest, token
<1>7. QED  BY <1>1, <1>2, <1>3, <1>4, <1>5, <1>6

LEMMA CheckByteConsistent == ASSUME IInv, CheckByte PROVE Consistent'
<1>1. /\ ec = "none" /\ phase = "check" /\ phase' = phase /\ UNCHANGED <<nest, done, buffer>>
  BY DEF CheckByte, token
<1>2. CASE ec' # "none"
  BY <1>1, <1>2, Failed
<1>3. CASE ec' = "none"
  BY <1>1, <1>3, OutsideConsistent
<1>4. QED  BY <1>2, <1>3

LEMMA UpdateConsistent == ASSUME IInv, NEW chunk, NEW last, Update(chunk, last) PROVE Consistent'
BY OutsideConsistent DEF Update, token

LEMMA SetCursorModeConsistent == ASSUME IInv, NEW on, SetCursorMode(on) PROVE Consistent'
BY OutsideConsistent DEF SetCursorMode, token

LEMMA SetMarkLevelConsistent == ASSUME IInv, NEW lvl, SetMarkLevel(lvl) PROVE Consistent'
BY OutsideConsistent DEF SetMarkLevel, token

\* A parser that is new, or reset.
LEMMA FreshConsistent ==
    ASSUME state = "start", stateStack = <<"root">>, level = 0, ~done, phase = "idle"
    PROVE  Consistent
<1>1. Frames = 1 /\ Len(stateStack) = 1 /\ stateStack[1] = "root"
  BY DEF Frames
<1>2. Base = "start" /\ state \in BetweenStates /\ state \notin CommentStates \cup {"cr", "string"}
  BY <1>1 DEF Base, BetweenStates, ValueStates, CommentStates
<1>3. StackShape
  BY <1>1, <1>2 DEF StackShape
<1>4. BaseFits
  BY <1>1, <1>2 DEF BaseFits, NameStates
<1>5. RunsFit
  BY DEF RunsFit
<1>6. QED  BY <1>3, <1>4, <1>5 DEF Consistent

LEMMA ResetConsistent == ASSUME Reset PROVE Consistent'
<1>1. /\ state' = "start" /\ stateStack' = <<"root">> /\ level' = 0 /\ ~done' /\ phase' = "idle"
  BY DEF Reset, FreshNest
<1>2. Frames' = 1 /\ Len(stateStack') = 1 /\ stateStack'[1] = "root"
  BY <1>1 DEF Frames
<1>3. Base' = "start" /\ state' \in BetweenStates /\ state' \notin CommentStates \cup {"cr", "string"}
  BY <1>1, <1>2 DEF Base, BetweenStates, ValueStates, CommentStates
<1>4. StackShape'
  BY <1>1, <1>2, <1>3 DEF StackShape
<1>5. BaseFits'
  BY <1>1, <1>2, <1>3 DEF BaseFits, NameStates
<1>6. RunsFit'
  BY <1>1 DEF RunsFit
<1>7. QED  BY <1>1, <1>4, <1>5, <1>6 DEF Consistent

------------------------------------------------------------------------------
LEMMA IterateConsistent == ASSUME IInv, Iterate PROVE Consistent'
BY SkipsConsistent, BeginContainerConsistent, EndObjectConsistent, EndArrayConsistent,
   NextMemberConsistent, TakeColonConsistent,
   BeginCommentConsistent, CommentKindConsistent, LineCommentConsistent,
   BlockCommentConsistent, BlockCommentStarConsistent,
   LiteralConsistent, ContinueLiteralConsistent,
   BeginNumberConsistent, NumberByteConsistent, EndNumberConsistent,
   BeginStringConsistent, EndStringConsistent, AcceptConsistent, Zenon
DEF Iterate

\* Every step keeps the parser consistent.
LEMMA NextConsistent == ASSUME IInv, [Next]_vars PROVE Consistent'
<1>1. ASSUME Work PROVE Consistent'
  BY <1>1, IterateConsistent, SkipSpaceConsistent, ResumeCrConsistent, CheckByteConsistent,
     AcceptConsistent, EndOfNumberConsistent, EndOfCrConsistent, UnexpectedEndConsistent,
     ControlConsistent, Zenon
  DEF Work
<1>2. QED
  BY <1>1, UpdateConsistent, SetCursorModeConsistent, SetMarkLevelConsistent, ResetConsistent,
     ControlConsistent, Zenon
  DEF Next

LEMMA InitIInv == Init => IInv
<1>. SUFFICES ASSUME Init PROVE IInv
  OBVIOUS
<1>1. "root" \in States /\ "start" \in States
  BY DEF States, CaseStates, BetweenStates, ValueStates
<1>2. TypeOK
  <2>1. state \in States /\ stateStack \in Seq(States) /\ level \in Nat
    BY <1>1 DEF Init
  <2>2. numberState \in NumberStates /\ stringState \in StringStates
    BY DEF Init, NumberStates, StringStates
  <2>3. /\ input \in Seq(Byte) /\ text \in Seq(Byte) /\ buffer \in Seq(Byte)
        /\ calls \in Seq(CallNames \X Seq(Byte))
    BY DEF Init
  <2>4. QED  BY <2>1, <2>2, <2>3 DEF Init, TypeOK
<1>3. Consistent
  BY FreshConsistent DEF Init
<1>4. QED  BY <1>2, <1>3 DEF IInv

\* The members keep their types.
THEOREM TypesHold == Spec => []TypeOK
<1>1. IInv /\ [Next]_vars => IInv'
  BY NextType, NextConsistent DEF IInv
<1>2. IInv => TypeOK
  BY DEF IInv
<1>3. QED  BY InitIInv, <1>1, <1>2, PTL DEF Spec

\* The parser is consistent in every state that any caller can bring it to:
\* the stack is never popped empty, and no function runs in a state it has no
\* case for.
THEOREM ConsistencyHolds == Spec => []Consistent
<1>1. IInv /\ [Next]_vars => IInv'
  BY NextType, NextConsistent DEF IInv
<1>2. IInv => Consistent
  BY DEF IInv
<1>3. QED  BY InitIInv, <1>1, <1>2, PTL DEF Spec

\* No assertion of the parser fails: the loop has a case for the state it is
\* in, and pop_state() and parent() find what they look for.
THEOREM AssertionsHold == Spec => []NoAssertionFails
<1>1. IInv => NoAssertionFails
  <2>. SUFFICES ASSUME IInv, ec = "none" PROVE NoAssertionFails
    BY DEF NoAssertionFails
  <2>1. /\ StackShape /\ BaseFits /\ RunsFit
        /\ stateStack \in Seq(States) /\ level \in Nat /\ state \in States
    BY BeforeStep
  <2>2. Len(stateStack) >= level + 1 /\ stateStack # <<>>
    BY <2>1 DEF StackShape, Frames
  <2>3. state \in CommentStates \cup {"cr"} => Len(stateStack) > 1
    BY <2>1 DEF StackShape, Frames
  <2>4. phase = "parse" /\ more => state \in CaseStates
    <3>1. SUFFICES ASSUME phase = "parse", more PROVE state \in CaseStates
      OBVIOUS
    <3>2. ~done
      BY <3>1, Iterates
    <3>3. state # "done"
      BY <2>1, <3>2, OnTop DEF BaseFits, CommentStates
    <3>4. state \in CommentStates \cup {"cr", "string"} \cup BetweenStates \cup LiteralStates
                   \cup {"number", "accept", "done"}
      BY <2>1 DEF StackShape
    <3>5. QED  BY <3>3, <3>4 DEF CaseStates
  <2>5. QED  BY <2>1, <2>2, <2>3, <2>4 DEF NoAssertionFails
<1>2. QED  BY ConsistencyHolds, TypesHold, <1>1, PTL DEF IInv

\* A text that is accepted has every container closed, and once flush is
\* called the parser is not about to call it again.
THEOREM AcceptanceHolds == Spec => []AcceptedIsClosed
<1>1. IInv => AcceptedIsClosed
  <2>. SUFFICES ASSUME IInv, ec = "none" PROVE AcceptedIsClosed
    BY DEF AcceptedIsClosed
  <2>1. /\ StackShape /\ BaseFits /\ RunsFit
        /\ stateStack \in Seq(States) /\ level \in Nat /\ state \in States
    BY BeforeStep
  <2>2. state = "accept" => Base = "accept"
    BY <2>1, OnTop DEF CommentStates
  <2>3. QED  BY <2>1, <2>2 DEF AcceptedIsClosed, BaseFits
<1>2. QED  BY ConsistencyHolds, TypesHold, <1>1, PTL DEF IInv

------------------------------------------------------------------------------
\* How the level changes.

LEMMA IterateLevel ==
    ASSUME IInv, Iterate
    PROVE  \/ level' = level
           \/ level' = level - 1
           \/ level' = level + 1 /\ (ec' # "none" \/ ~TooDeep)
<1>1. CASE BeginObject \/ BeginArray
  BY <1>1 DEF BeginObject, BeginArray, Abort
<1>2. CASE EndObject \/ EndArray
  BY <1>2, Zenon DEF EndObject, EndArray, EndContainer, nest
<1>3. CASE ~(BeginObject \/ BeginArray) /\ ~(EndObject \/ EndArray)
  <2>1. CASE NextMember \/ TakeColon \/ CommentKind \/ LineComment \/ BlockComment
             \/ BlockCommentStar \/ BeginComment \/ BeginString \/ BeginNumber \/ EndNumber
             \/ EndString \/ AcceptInLoop \/ ContinueLiteral
    BY <2>1, Zenon DEF NextMember, TakeColon, CommentKind, LineComment, BlockComment,
       BlockCommentStar, BeginComment, BeginString, BeginNumber, EndNumber, EndString,
       AcceptInLoop, ContinueLiteral
  <2>2. CASE ControlCharacter \/ Unexpected \/ UnexpectedAtStart \/ NumberByte \/ NumberError
             \/ TextByte \/ IllegalTextByte \/ BeginEscape \/ SimpleEscape \/ UnicodeEscape
             \/ SurrogateBackslash \/ SurrogateU \/ EscapeError \/ HexByte
    BY <2>2, Zenon DEF ControlCharacter, Unexpected, UnexpectedAtStart, NumberByte, NumberError,
       TextByte, IllegalTextByte, BeginEscape, SimpleEscape, UnicodeEscape, SurrogateBackslash,
       SurrogateU, EscapeError, HexByte, StringFrame, nest
  <2>3. CASE ParseTrue \/ ParseFalse \/ ParseNull
    BY <2>3, Zenon DEF ParseTrue, ParseFalse, ParseNull, BeginLiteral
  <2>4. QED  BY <1>3, <2>1, <2>2, <2>3, Zenon DEF Iterate
<1>4. QED  BY <1>1, <1>2, <1>3

LEMMA IterateBegins == ASSUME Iterate PROVE ec = "none"
BY DEF Iterate, ControlCharacter, BeginObject, EndObject, BeginArray, EndArray, NextMember,
   TakeColon, Unexpected, UnexpectedAtStart, BeginComment, CommentKind, LineComment, BlockComment,
   BlockCommentStar, ParseTrue, ParseFalse, ParseNull, BeginLiteral, ContinueLiteral, BeginNumber,
   NumberByte, NumberError, EndNumber, BeginString, TextByte, IllegalTextByte, BeginEscape,
   SimpleEscape, UnicodeEscape, SurrogateBackslash, SurrogateU, EscapeError, HexByte, EndString,
   AcceptInLoop, InString, At

LEMMA WorkLevel ==
    ASSUME IInv, Work, ~Iterate
    PROVE  level' = level /\ (ec' = "none" => ec = "none")
<1>1. CASE SkipSpace
  BY <1>1, Zenon DEF SkipSpace, nest
<1>2. CASE ResumeCr \/ CheckByte \/ Return
  BY <1>2 DEF ResumeCr, CheckByte, Return, nest
<1>3. CASE ParseAccepted \/ EndOfNumber \/ EndOfCr \/ UnexpectedEnd
  BY <1>3 DEF ParseAccepted, EndOfNumber, EndOfCr, UnexpectedEnd, AtEnd, Calling
<1>4. QED  BY <1>1, <1>2, <1>3, Zenon DEF Work

\* The containers that are open never outnumber max_nesting_depth, unless the
\* handler lets them.
THEOREM DepthHolds == Spec => []DepthBounded
<1>1. Init => DepthBounded
  BY OptionAssumption DEF Init, DepthBounded
<1>2. ASSUME IInv, DepthBounded, [Next]_vars PROVE DepthBounded'
  <2>. SUFFICES ASSUME ec' = "none", "max_nesting_depth_exceeded" \notin Lenient
                PROVE  level' <= MaxNestingDepth
    BY DEF DepthBounded
  <2>1. level \in Nat /\ MaxNestingDepth \in Nat
    BY <1>2, OptionAssumption DEF IInv, TypeOK
  <2>2. CASE Iterate
    <3>1. level <= MaxNestingDepth
      BY <1>2, <2>2, IterateBegins DEF DepthBounded
    <3>2. QED  BY <1>2, <2>1, <2>2, <3>1, IterateLevel DEF TooDeep
  <2>3. CASE Reset
    BY <2>1, <2>3 DEF Reset, FreshNest
  <2>4. CASE level' = level /\ ec = "none"
    BY <1>2, <2>1, <2>4 DEF DepthBounded
  <2>5. CASE \/ ParseSome \/ SkipWhitespace \/ CheckDone \/ Restart \/ UNCHANGED vars
             \/ \E chunk \in Callers[caller].chunks \cup {<<>>}, last \in BOOLEAN : Update(chunk, last)
             \/ \E on \in Callers[caller].cursorModes : SetCursorMode(on)
             \/ \E lvl \in Callers[caller].markLevels : SetMarkLevel(lvl)
    <3>1. level' = level /\ ec = "none"
      BY <2>5 DEF ParseSome, SkipWhitespace, CheckDone, Restart, Update, SetCursorMode,
                  SetMarkLevel, vars, nest
    <3>2. QED  BY <2>4, <3>1
  <2>6. QED  BY <1>2, <2>2, <2>3, <2>4, <2>5, WorkLevel, Zenon DEF Next
<1>3. IInv /\ [Next]_vars => IInv'
  BY NextType, NextConsistent DEF IInv
<1>4. QED  BY InitIInv, <1>1, <1>2, <1>3, PTL DEF Spec

-------------------------------------------------------------------------------
\* What JsonParser owes those who use it.  The visitor of a parser sees a run of
\* VisitorProtocol: JsonParser implements it, under the mapping of JsonParserContract.
\* The lines and columns that it reports are right for every text, however it is cut
\* into chunks.

\* A step of the protocol, or none.
Seen == Visitor!Next \/ UNCHANGED Visitor!vars

\* Where an object is at a place for a key, or for its end.
KeyPlaces == NameStates \cup {"member_name", "expect_comma_or_end"}

LEMMA WantedNow ==
    ASSUME ec = "none"
    PROVE  /\ Base = "done" => Wanted = "none"
           /\ Base = "accept" => Wanted = "flush"
           /\ Base \notin {"done", "accept"} =>
                  Wanted = IF level > 0 /\ stateStack[Frames] = "object" /\ Base \in KeyPlaces
                           THEN "key" ELSE "value"
BY DEF Wanted, KeyPlaces

------------------------------------------------------------------------------
\* Steps without a call

LEMMA NoCall == ASSUME UNCHANGED calls PROVE CallsMade' = CallsMade
BY DEF CallsMade

\* An error is reported.
LEMMA ErrorSeen == ASSUME ec = "none", ec' # "none", UNCHANGED calls PROVE Seen
<1>1. Wanted # "failed" /\ Wanted' = "failed" /\ OpenContainers' = <<>>
  BY DEF Wanted, OpenContainers
<1>2. Visitor!Fail
  BY <1>1, NoCall DEF Visitor!Fail
<1>3. QED  BY <1>2 DEF Seen, Visitor!Next

LEMMA NothingSeen ==
    ASSUME UNCHANGED calls, OpenContainers' = OpenContainers, Wanted' = Wanted
    PROVE  Seen
BY NoCall DEF Seen, Visitor!vars

\* The place in the text is the same, but for an error.
LEMMA StaysUnseen ==
    ASSUME UNCHANGED <<nest, calls>>, ec = "none" \/ ec' = ec
    PROVE  Seen
<1>1. CASE ec' = ec
  <2>1. OpenContainers' = OpenContainers /\ Wanted' = Wanted
    BY <1>1 DEF OpenContainers, Wanted, Base, Frames, nest
  <2>2. QED  BY <2>1, NothingSeen
<1>2. CASE ec' # ec
  BY <1>2, ErrorSeen
<1>3. QED  BY <1>1, <1>2

\* The root and the containers on the stack, under what is put off.
LEMMA FramesKept ==
    ASSUME stateStack \in Seq(States), state \in States, level \in Nat,
           Len(stateStack) >= Frames, Len(stateStack') >= Frames', UNCHANGED level,
           \/ \E s \in States : Push(s)
           \/ stateStack' = Popped \/ UNCHANGED stateStack
    PROVE  /\ Frames' = Frames /\ Frames \in Nat /\ Frames > 0
           /\ \A i \in 1 .. Frames : stateStack'[i] = stateStack[i]
<1>1. Frames' = Frames /\ Frames \in Nat /\ Frames > 0
  BY DEF Frames
<1>2. CASE \E s \in States : Push(s)
  BY <1>1, <1>2, Pushed DEF Push
<1>3. CASE stateStack' = Popped
  <2>1. Len(stateStack) > 0 /\ Len(stateStack) \in Nat
    BY <1>1
  <2>2. Len(stateStack) > 1
    <3>1. Len(stateStack') > 0
      BY <1>1
    <3>2. Len(SubSeq(stateStack, 1, Len(stateStack) - 1)) > 0
      BY <1>3, <3>1, Zenon DEF Popped
    <3>3. QED  BY <3>2, PoppedAll, Zenon
  <2>3. Len(stateStack') = Len(stateStack) - 1
    BY <1>3, <2>2, PoppedLen DEF Popped
  <2>4. \A i \in 1 .. Len(stateStack) - 1 : stateStack'[i] = stateStack[i]
    BY <1>3, <2>2, PoppedAt DEF Popped
  <2>5. QED  BY <1>1, <2>3, <2>4
<1>4. CASE UNCHANGED stateStack
  BY <1>1, <1>4
<1>5. QED  BY <1>1, <1>2, <1>3, <1>4

LEMMA OpenKept ==
    ASSUME level \in Nat, UNCHANGED <<level, ec>>, Frames' = Frames,
           \A i \in 1 .. Frames : stateStack'[i] = stateStack[i]
    PROVE  OpenContainers' = OpenContainers
<1>1. \A i \in 1 .. level : i + 1 \in 1 .. Frames
  BY DEF Frames
<1>2. \A i \in 1 .. level : stateStack'[i + 1] = stateStack[i + 1]
  BY <1>1, Zenon
<1>3. level' = level /\ ec' = ec
  OBVIOUS
<1>4. [i \in 1 .. level |-> stateStack'[i + 1]] = [i \in 1 .. level |-> stateStack[i + 1]]
  BY <1>2
<1>5. QED  BY <1>3, <1>4, Zenon DEF OpenContainers

\* What state_ puts off, and comes back to, is where the parser is in the text.
LEMMA BaseKept ==
    ASSUME stateStack \in Seq(States), state \in States, level \in Nat,
           Len(stateStack) >= Frames, Len(stateStack') >= Frames', UNCHANGED level,
           \/ Push(state)
           \/ stateStack' = Popped /\ state' = Top
           \/ UNCHANGED stateStack /\ Len(stateStack) > Frames
           \/ UNCHANGED <<stateStack, state>>
    PROVE  Base' = Base
<1>1. /\ Frames' = Frames /\ Frames \in Nat /\ Frames > 0
      /\ Len(stateStack) \in Nat /\ Len(stateStack') \in Nat
  BY DEF Frames, Push, Popped
<1>2. CASE Push(state)
  <2>1. /\ Len(stateStack') = Len(stateStack) + 1
        /\ stateStack'[Len(stateStack) + 1] = state
        /\ \A i \in 1 .. Len(stateStack) : stateStack'[i] = stateStack[i]
    BY <1>2, Pushed DEF Push
  <2>2. Len(stateStack') > Frames' /\ Base' = stateStack'[Frames + 1]
    BY <1>1, <2>1 DEF Base
  <2>3. CASE Len(stateStack) = Frames
    BY <1>1, <2>1, <2>2, <2>3 DEF Base
  <2>4. CASE Len(stateStack) > Frames
    <3>1. Frames + 1 \in 1 .. Len(stateStack)
      BY <1>1, <2>4
    <3>2. QED  BY <2>1, <2>2, <2>4, <3>1 DEF Base
  <2>5. QED  BY <1>1, <2>3, <2>4
<1>3. CASE stateStack' = Popped /\ state' = Top
  <2>1. Len(stateStack) > 1
    <3>1. Len(stateStack') > 0
      BY <1>1
    <3>2. Len(SubSeq(stateStack, 1, Len(stateStack) - 1)) > 0
      BY <1>3, <3>1, Zenon DEF Popped
    <3>3. QED  BY <3>2, PoppedAll, Zenon
  <2>2. /\ Len(stateStack') = Len(stateStack) - 1
        /\ \A i \in 1 .. Len(stateStack) - 1 : stateStack'[i] = stateStack[i]
    BY <1>3, <2>1, PoppedLen, PoppedAt DEF Popped
  <2>3. CASE Len(stateStack') = Frames
    BY <1>1, <1>3, <2>2, <2>3 DEF Base, Top
  <2>4. CASE Len(stateStack') > Frames
    <3>1. Frames + 1 \in 1 .. Len(stateStack) - 1
      BY <1>1, <2>2, <2>4
    <3>2. QED  BY <1>1, <2>2, <2>4, <3>1 DEF Base
  <2>5. QED  BY <1>1, <2>3, <2>4
<1>4. CASE UNCHANGED stateStack /\ Len(stateStack) > Frames
  BY <1>1, <1>4 DEF Base
<1>5. CASE UNCHANGED <<stateStack, state>>
  BY <1>1, <1>5 DEF Base
<1>6. QED  BY <1>2, <1>3, <1>4, <1>5

\* A step that makes no call and opens or closes nothing, to a place where the
\* visitor wants the same.
LEMMA MovesUnseen ==
    ASSUME IInv, IInv', ec = "none", UNCHANGED <<level, calls>>,
           \/ \E s \in States : Push(s)
           \/ stateStack' = Popped \/ UNCHANGED stateStack,
           ec' = "none" =>
               \/ Base' = Base
               \/ /\ {Base, Base'} \cap {"done", "accept"} = {}
                  /\ level > 0 /\ stateStack[Frames] = "object" =>
                         (Base \in KeyPlaces <=> Base' \in KeyPlaces)
    PROVE  Seen
<1>1. CASE ec' # "none"
  BY <1>1, ErrorSeen
<1>2. CASE ec' = "none"
  <2>1. /\ stateStack \in Seq(States) /\ state \in States /\ level \in Nat
        /\ Len(stateStack) >= Frames /\ Len(stateStack') >= Frames'
    BY <1>2 DEF IInv, TypeOK, Consistent, StackShape
  <2>2. /\ Frames' = Frames /\ Frames \in Nat /\ Frames > 0
        /\ \A i \in 1 .. Frames : stateStack'[i] = stateStack[i]
    BY <2>1, FramesKept
  <2>3. OpenContainers' = OpenContainers
    BY <1>2, <2>1, <2>2, OpenKept
  <2>4. Wanted' = Wanted
    <3>1. stateStack'[Frames'] = stateStack[Frames]
      BY <2>2
    <3>2. QED  BY <1>2, <3>1 DEF Wanted, KeyPlaces
  <2>5. QED  BY <2>3, <2>4, NothingSeen
<1>3. QED  BY <1>1, <1>2

------------------------------------------------------------------------------
\* One lemma per action, or group of actions, without a call.

LEMMA UnseenInPlace ==
    ASSUME IInv,
           \/ ControlCharacter \/ Unexpected \/ UnexpectedAtStart
           \/ NumberByte \/ NumberError
           \/ TextByte \/ IllegalTextByte \/ BeginEscape \/ SimpleEscape \/ UnicodeEscape
           \/ SurrogateBackslash \/ SurrogateU \/ EscapeError \/ HexByte
           \/ CheckByte
    PROVE  Seen
<1>1. ec = "none" /\ UNCHANGED <<nest, calls>>
  BY DEF ControlCharacter, Unexpected, UnexpectedAtStart, NumberByte, NumberError, TextByte,
         IllegalTextByte, BeginEscape, SimpleEscape, UnicodeEscape, SurrogateBackslash, SurrogateU,
         EscapeError, HexByte, CheckByte, InString, At, StringFrame
<1>2. QED  BY <1>1, StaysUnseen

LEMMA UnseenControl ==
    ASSUME \/ ParseSome \/ SkipWhitespace \/ CheckDone \/ Return \/ Restart \/ UNCHANGED vars
           \/ \E chunk, last : Update(chunk, last)
           \/ \E on : SetCursorMode(on)
           \/ \E lvl : SetMarkLevel(lvl)
    PROVE  Seen
<1>1. ec' = ec /\ UNCHANGED <<nest, calls>>
  BY DEF ParseSome, SkipWhitespace, CheckDone, Return, Restart, Update, SetCursorMode, SetMarkLevel,
         vars
<1>2. QED  BY <1>1, StaysUnseen

\* What an action may rely on before an error.
LEMMA Known ==
    ASSUME IInv, ec = "none"
    PROVE  /\ StackShape /\ BaseFits /\ RunsFit
           /\ stateStack \in Seq(States) /\ state \in States /\ level \in Nat
           /\ Len(stateStack) >= Frames
BY DEF IInv, TypeOK, Consistent, StackShape

\* What is put off, and what comes back.
LEMMA UnseenPutOff ==
    ASSUME IInv, IInv', ec = "none", UNCHANGED <<level, calls>>,
           \/ Push(state)
           \/ stateStack' = Popped /\ state' = Top
           \/ UNCHANGED stateStack /\ Len(stateStack) > Frames
           \/ UNCHANGED <<stateStack, state>>
    PROVE  Seen
<1>1. CASE ec' # "none"
  BY <1>1, ErrorSeen
<1>2. CASE ec' = "none"
  <2>1. /\ stateStack \in Seq(States) /\ state \in States /\ level \in Nat
        /\ Len(stateStack) >= Frames /\ Len(stateStack') >= Frames'
    BY <1>2 DEF IInv, TypeOK, Consistent, StackShape
  <2>2. Base' = Base
    BY <2>1, BaseKept
  <2>3. QED  BY <2>1, <2>2, MovesUnseen
<1>3. QED  BY <1>1, <1>2

LEMMA UnseenSpace == ASSUME IInv, IInv', SkipSpace \/ ResumeCr PROVE Seen
<1>1. ec = "none" /\ UNCHANGED <<level, calls>>
  BY DEF SkipSpace, ResumeCr, At, IInv, Consistent, nest
<1>2. CASE SkipSpace
  <2>1. UNCHANGED nest \/ Push(state)
    BY <1>2, Zenon DEF SkipSpace
  <2>2. QED  BY <1>1, <2>1, UnseenPutOff DEF nest
<1>3. CASE ResumeCr
  BY <1>1, <1>3, UnseenPutOff DEF ResumeCr
<1>4. QED  BY <1>2, <1>3

\* Comments: the stack holds what they interrupt.
LEMMA UnseenComment ==
    ASSUME IInv, IInv',
           BeginComment \/ CommentKind \/ LineComment \/ BlockComment \/ BlockCommentStar
    PROVE  Seen
<1>1. ec = "none" /\ UNCHANGED <<level, calls>>
  BY DEF BeginComment, CommentKind, LineComment, BlockComment, BlockCommentStar, At
<1>2. state \in CommentStates => Len(stateStack) > Frames
  BY <1>1, Known DEF StackShape, Frames
<1>3. CASE BeginComment
  BY <1>1, <1>3, UnseenPutOff DEF BeginComment
<1>4. CASE CommentKind
  BY <1>1, <1>2, <1>4, UnseenPutOff DEF CommentKind, At, CommentStates
<1>5. CASE LineComment
  BY <1>1, <1>2, <1>5, UnseenPutOff DEF LineComment, At, CommentStates
<1>6. CASE BlockComment
  <2>1. UNCHANGED stateStack \/ Push(state)
    BY <1>6 DEF BlockComment, Push
  <2>2. QED  BY <1>1, <1>2, <1>6, <2>1, UnseenPutOff DEF BlockComment, At, CommentStates
<1>7. CASE BlockCommentStar
  BY <1>1, <1>2, <1>7, UnseenPutOff DEF BlockCommentStar, At, CommentStates
<1>8. QED  BY <1>3, <1>4, <1>5, <1>6, <1>7

LEMMA UnseenEnd == ASSUME IInv, IInv', EndOfCr \/ UnexpectedEnd PROVE Seen
<1>1. ec = "none" /\ UNCHANGED <<level, calls>>
  BY DEF EndOfCr, UnexpectedEnd, AtEnd, Calling
<1>2. CASE EndOfCr
  BY <1>1, <1>2, UnseenPutOff DEF EndOfCr
<1>3. CASE UnexpectedEnd
  BY <1>1, <1>3, ErrorSeen DEF UnexpectedEnd, Abort
<1>4. QED  BY <1>2, <1>3

\* A comma or a colon.
LEMMA UnseenSeparator == ASSUME IInv, IInv', NextMember \/ TakeColon PROVE Seen
<1>1. /\ ec = "none" /\ UNCHANGED <<level, calls, stateStack>>
      /\ state \in {"expect_comma_or_end", "expect_colon"}
  BY DEF NextMember, TakeColon, At
<1>2. StackShape /\ BaseFits /\ stateStack \in Seq(States) /\ level \in Nat
  BY <1>1, Known
<1>3. Len(stateStack) = Frames /\ Base = state /\ Top = stateStack[Frames]
  BY <1>1, <1>2, OnTop DEF CommentStates
<1>4. Base' = state'
  BY <1>1, <1>3 DEF Base, Frames
<1>5. CASE NextMember
  <2>1. /\ state = "expect_comma_or_end" /\ state' \in {state, "expect_member_name", "expect_value"}
        /\ Top = "object" => state' \in {state, "expect_member_name"}
    BY <1>5 DEF NextMember, At, Containers
  <2>2. QED  BY <1>1, <1>3, <1>4, <2>1, MovesUnseen DEF KeyPlaces, NameStates
<1>6. CASE TakeColon
  <2>1. state = "expect_colon" /\ state' = "expect_value"
    BY <1>6 DEF TakeColon, At
  <2>2. QED  BY <1>1, <1>3, <1>4, <2>1, MovesUnseen DEF KeyPlaces, NameStates
<1>7. QED  BY <1>5, <1>6

\* A literal, a number or a string is begun, or goes on: the visitor waits for a value.
LEMMA UnseenValue ==
    ASSUME IInv, IInv', ec = "none", UNCHANGED <<level, calls, stateStack>>,
           state \in ValueStates \cup LiteralStates,
           ec' = "none" => state' \in LiteralStates \cup {"number", "string"}
    PROVE  Seen
<1>1. StackShape /\ BaseFits /\ stateStack \in Seq(States) /\ level \in Nat
  BY Known
<1>2. Len(stateStack) = Frames /\ Base = state
  BY <1>1, OnTop DEF CommentStates, ValueStates, LiteralStates
<1>3. Base' = state'
  BY <1>2 DEF Base, Frames
<1>4. \A s \in ValueStates \cup LiteralStates \cup {"number", "string"} :
          s \notin KeyPlaces \cup {"done", "accept"}
  BY DEF KeyPlaces, NameStates, ValueStates, LiteralStates
<1>5. QED  BY <1>2, <1>3, <1>4, MovesUnseen

LEMMA UnseenNumber == ASSUME IInv, IInv', BeginNumber PROVE Seen
BY UnseenValue DEF BeginNumber, At

LEMMA UnseenString == ASSUME IInv, IInv', BeginString PROVE Seen
<1>1. ec = "none" /\ UNCHANGED <<level, calls>> /\ state \in ValueStates \cup NameStates
  BY DEF BeginString, At
<1>2. CASE state \notin NameStates
  BY <1>1, <1>2, UnseenValue DEF BeginString
<1>3. CASE state \in NameStates
  <2>1. Push("member_name") /\ "member_name" \in States
    BY <1>3, StateNames DEF BeginString
  <2>2. StackShape /\ BaseFits /\ stateStack \in Seq(States) /\ level \in Nat
    BY <1>1, Known
  <2>3. Len(stateStack) = Frames /\ Base = state /\ Frames \in Nat /\ Frames' = Frames
    BY <1>1, <1>3, <2>2, OnTop DEF CommentStates, NameStates, Frames
  <2>4. Base' = "member_name"
    BY <2>1, <2>2, <2>3, Pushed DEF Base, Push
  <2>5. QED  BY <1>1, <1>3, <2>1, <2>3, <2>4, MovesUnseen DEF KeyPlaces, NameStates
<1>4. QED  BY <1>2, <1>3

------------------------------------------------------------------------------
\* Steps with a call

LEMMA MadeType ==
    ASSUME calls \in Seq(CallNames \X Seq(Byte))
    PROVE  /\ CallsMade \in Seq(CallNames) /\ Len(CallsMade) = Len(calls)
           /\ \A i \in 1 .. Len(calls) : CallsMade[i] = calls[i][1]
<1>1. Len(calls) \in Nat /\ DOMAIN calls = 1 .. Len(calls)
  OBVIOUS
<1>2. \A i \in 1 .. Len(calls) : calls[i][1] \in CallNames
  OBVIOUS
<1>3. QED  BY <1>1, <1>2 DEF CallsMade

\* The names of the calls grow by the name of the call.
LEMMA CallMade ==
    ASSUME TypeOK, TypeOK', NEW c \in CallNames, NEW arg \in Seq(Byte),
           calls' = Append(calls, <<c, arg>>)
    PROVE  CallsMade' = Append(CallsMade, c)
<1>1. /\ calls \in Seq(CallNames \X Seq(Byte)) /\ calls' \in Seq(CallNames \X Seq(Byte))
      /\ <<c, arg>> \in CallNames \X Seq(Byte)
  BY DEF TypeOK
<1>2. /\ Len(calls') = Len(calls) + 1 /\ calls'[Len(calls) + 1] = <<c, arg>>
      /\ \A i \in 1 .. Len(calls) : calls'[i] = calls[i]
  BY <1>1, Pushed
<1>3. /\ CallsMade \in Seq(CallNames) /\ Len(CallsMade) = Len(calls)
      /\ \A i \in 1 .. Len(calls) : CallsMade[i] = calls[i][1]
  BY <1>1, MadeType
<1>4. /\ CallsMade' \in Seq(CallNames) /\ Len(CallsMade') = Len(calls')
      /\ \A i \in 1 .. Len(calls') : CallsMade'[i] = calls'[i][1]
  <2>1. Len(calls') \in Nat /\ DOMAIN calls' = 1 .. Len(calls')
    BY <1>1
  <2>2. \A i \in 1 .. Len(calls') : calls'[i][1] \in CallNames
    BY <1>1
  <2>3. QED  BY <2>1, <2>2 DEF CallsMade
<1>. DEFINE longer == Append(CallsMade, c)
<1>5. /\ longer \in Seq(CallNames) /\ Len(longer) = Len(calls) + 1
      /\ longer[Len(calls) + 1] = c
      /\ \A i \in 1 .. Len(calls) : longer[i] = CallsMade[i]
  BY <1>3, Pushed
<1>. HIDE DEF longer
<1>6. Len(calls) \in Nat
  BY <1>1
<1>7. \A i \in 1 .. Len(calls') : CallsMade'[i] = longer[i]
  <2>1. SUFFICES ASSUME NEW i \in 1 .. Len(calls') PROVE CallsMade'[i] = longer[i]
    OBVIOUS
  <2>2. CASE i \in 1 .. Len(calls)
    <3>1. CallsMade'[i] = calls'[i][1]
      BY <1>4, <2>1
    <3>2. calls'[i] = calls[i]
      BY <1>2, <2>2
    <3>3. CallsMade[i] = calls[i][1] /\ longer[i] = CallsMade[i]
      BY <1>3, <1>5, <2>2
    <3>4. QED  BY <3>1, <3>2, <3>3
  <2>3. CASE i = Len(calls) + 1
    <3>1. CallsMade'[i] = calls'[i][1] /\ calls'[i] = <<c, arg>>
      BY <1>2, <1>4, <2>3
    <3>2. CallsMade'[i] = c
      BY <3>1
    <3>3. QED  BY <1>5, <2>3, <3>2
  <2>4. QED  BY <1>2, <1>6, <2>1, <2>2, <2>3
<1>8. Len(CallsMade') = Len(longer)
  BY <1>2, <1>4, <1>5
<1>9. CallsMade' = longer
  BY <1>4, <1>5, <1>7, <1>8, SeqEqual
<1>10. QED  BY <1>9 DEF longer

\* The call is seen; after it the visitor is as o and w say, or has failed.
LEMMA CallSeen ==
    ASSUME IInv, IInv', NEW c \in CallNames, NEW arg \in Seq(Byte), Visit(c, arg),
           NEW o, NEW w, ec' = "none" => OpenContainers' = o /\ Wanted' = w
    PROVE  Visitor!Call(c, o, w)
<1>1. CallsMade' = Append(CallsMade, c)
  BY CallMade DEF IInv, Visit
<1>2. ec' # "none" => OpenContainers' = <<>> /\ Wanted' = "failed"
  BY DEF OpenContainers, Wanted
<1>3. QED  BY <1>1, <1>2 DEF Visitor!Call

LEMMA NextIndex == ASSUME NEW n \in Nat PROVE \A i \in 1 .. n : i + 1 \in 2 .. n + 1
OBVIOUS

\* The open containers, before a step and after it.
LEMMA OpenType ==
    ASSUME IInv, ec = "none"
    PROVE  /\ OpenContainers \in Seq(Containers) /\ Len(OpenContainers) = level /\ level \in Nat
           /\ \A i \in 1 .. level : OpenContainers[i] = stateStack[i + 1]
<1>1. StackShape /\ level \in Nat /\ Frames = level + 1
  BY Known DEF Frames
<1>2. \A i \in 1 .. level : stateStack[i + 1] \in Containers
  BY <1>1 DEF StackShape
<1>3. OpenContainers = [i \in 1 .. level |-> stateStack[i + 1]]
  BY DEF OpenContainers
<1>4. QED  BY <1>1, <1>2, <1>3

LEMMA OpenTypeAfter ==
    ASSUME IInv', ec' = "none"
    PROVE  /\ OpenContainers' \in Seq(Containers) /\ Len(OpenContainers') = level' /\ level' \in Nat
           /\ \A i \in 1 .. level' : OpenContainers'[i] = stateStack'[i + 1]
<1>1. StackShape' /\ level' \in Nat /\ Frames' = level' + 1
  BY DEF IInv, TypeOK, Consistent, Frames
<1>2. \A i \in 1 .. level' : stateStack'[i + 1] \in Containers
  <2>1. \A i \in 2 .. level' + 1 : stateStack'[i] \in Containers
    BY <1>1 DEF StackShape
  <2>2. \A i \in 1 .. level' : i + 1 \in 2 .. level' + 1
    BY <1>1, NextIndex
  <2>3. QED  BY <2>1, <2>2, Zenon
<1>3. OpenContainers' = [i \in 1 .. level' |-> stateStack'[i + 1]]
  BY DEF OpenContainers
<1>4. QED  BY <1>1, <1>2, <1>3

\* A container is opened.
LEMMA OpenGrows ==
    ASSUME IInv, IInv', ec = "none", ec' = "none", level' = level + 1,
           Len(stateStack) = Frames, NEW kind \in Containers, Push(kind)
    PROVE  OpenContainers' = Append(OpenContainers, kind)
<1>1. /\ OpenContainers \in Seq(Containers) /\ Len(OpenContainers) = level /\ level \in Nat
      /\ \A i \in 1 .. level : OpenContainers[i] = stateStack[i + 1]
  BY OpenType
<1>2. /\ OpenContainers' \in Seq(Containers) /\ Len(OpenContainers') = level + 1
      /\ \A i \in 1 .. level + 1 : OpenContainers'[i] = stateStack'[i + 1]
  BY OpenTypeAfter
<1>3. /\ \A i \in 1 .. level + 1 : stateStack'[i] = stateStack[i]
      /\ stateStack'[level + 2] = kind
  <2>1. stateStack \in Seq(States) /\ kind \in States /\ Len(stateStack) = level + 1
    BY Known, StateNames DEF Frames
  <2>2. /\ \A i \in 1 .. Len(stateStack) : stateStack'[i] = stateStack[i]
        /\ stateStack'[Len(stateStack) + 1] = kind
    BY <2>1, Pushed DEF Push
  <2>3. Len(stateStack) + 1 = level + 2
    BY <1>1, <2>1
  <2>4. QED  BY <2>1, <2>2, <2>3
<1>. DEFINE longer == Append(OpenContainers, kind)
<1>4. /\ longer \in Seq(Containers) /\ Len(longer) = level + 1
      /\ longer[level + 1] = kind
      /\ \A i \in 1 .. level : longer[i] = OpenContainers[i]
  BY <1>1, Pushed
<1>. HIDE DEF longer
<1>5. \A i \in 1 .. level + 1 : OpenContainers'[i] = longer[i]
  <2>1. SUFFICES ASSUME NEW i \in 1 .. level + 1 PROVE OpenContainers'[i] = longer[i]
    OBVIOUS
  <2>2. CASE i \in 1 .. level
    <3>1. i + 1 \in 1 .. level + 1
      BY <1>1, <2>2
    <3>2. QED  BY <1>1, <1>2, <1>3, <1>4, <2>2, <3>1
  <2>3. CASE i = level + 1
    BY <1>1, <1>2, <1>3, <1>4, <2>3
  <2>4. QED  BY <1>1, <2>1, <2>2, <2>3
<1>6. OpenContainers' = longer
  BY <1>1, <1>2, <1>4, <1>5, SeqEqual
<1>7. QED  BY <1>6 DEF longer

\* A container is closed: the innermost was kind.
LEMMA OpenShrinks ==
    ASSUME IInv, IInv', ec = "none", ec' = "none", level > 0, level' = level - 1,
           Len(stateStack) = Frames, stateStack' = Popped
    PROVE  /\ OpenContainers # <<>> /\ OpenContainers[Len(OpenContainers)] = Top
           /\ OpenContainers' = SubSeq(OpenContainers, 1, Len(OpenContainers) - 1)
<1>1. /\ OpenContainers \in Seq(Containers) /\ Len(OpenContainers) = level /\ level \in Nat
      /\ \A i \in 1 .. level : OpenContainers[i] = stateStack[i + 1]
  BY OpenType
<1>2. /\ OpenContainers' \in Seq(Containers) /\ Len(OpenContainers') = level - 1
      /\ \A i \in 1 .. level - 1 : OpenContainers'[i] = stateStack'[i + 1]
  BY OpenTypeAfter
<1>3. stateStack \in Seq(States) /\ Len(stateStack) = level + 1
  BY <1>1, Known DEF Frames
<1>4. OpenContainers # <<>> /\ OpenContainers[Len(OpenContainers)] = Top
  BY <1>1, <1>3 DEF Top
<1>5. \A i \in 1 .. level - 1 : OpenContainers'[i] = OpenContainers[i]
  <2>1. \A i \in 1 .. level : stateStack'[i] = stateStack[i]
    BY <1>1, <1>3, PoppedAt DEF Popped
  <2>2. QED  BY <1>1, <1>2, <2>1
<1>. DEFINE outer == SubSeq(OpenContainers, 1, Len(OpenContainers) - 1)
<1>6. /\ outer \in Seq(Containers) /\ Len(outer) = level - 1
      /\ \A i \in 1 .. level - 1 : outer[i] = OpenContainers[i]
  BY <1>1, SMTT(20)
<1>7. outer = OpenContainers'
  <2>. HIDE DEF outer
  <2>1. QED  BY <1>1, <1>2, <1>5, <1>6, SeqEqual
<1>8. QED  BY <1>4, <1>7

------------------------------------------------------------------------------
\* One lemma per action, or group of actions, with a call.

LEMMA NotMore == ASSUME NEW n \in Nat PROVE ~(n + 1 > n + 1)
OBVIOUS

\* Nothing is put off after a step.
LEMMA OnTopAfter ==
    ASSUME IInv', ec' = "none", level' \in Nat, state' \notin CommentStates \cup {"cr", "string"}
    PROVE  Base' = state' /\ Frames' = level' + 1
<1>1. StackShape'
  BY DEF IInv, Consistent
<1>2. Len(stateStack') = Frames'
  BY <1>1 DEF StackShape
<1>3. Frames' = level' + 1
  BY DEF Frames
<1>4. ~(Len(stateStack') > Frames')
  BY <1>2, <1>3, NotMore
<1>5. QED  BY <1>3, <1>4 DEF Base

\* What the visitor wants when a value is complete.
LEMMA WantedAfter ==
    ASSUME IInv', ec' = "none", level' \in Nat,
           state' = IF level' = 0 THEN "accept" ELSE "expect_comma_or_end"
    PROVE  Wanted' = Visitor!AfterValue(OpenContainers)'
<1>1. /\ OpenContainers' \in Seq(Containers) /\ Len(OpenContainers') = level'
      /\ \A i \in 1 .. level' : OpenContainers'[i] = stateStack'[i + 1]
  BY OpenTypeAfter
<1>2. Base' = state' /\ Frames' = level' + 1
  <2>1. state' \notin CommentStates \cup {"cr", "string"}
    BY DEF CommentStates
  <2>2. QED  BY <2>1, OnTopAfter
<1>3. CASE level' = 0
  <2>1. Wanted' = "flush" /\ OpenContainers' = <<>>
    BY <1>1, <1>2, <1>3 DEF Wanted
  <2>2. QED  BY <2>1 DEF Visitor!AfterValue
<1>4. CASE level' > 0
  <2>1. OpenContainers'[Len(OpenContainers')] = stateStack'[Frames'] /\ OpenContainers' # <<>>
    BY <1>1, <1>2, <1>4
  <2>2. Wanted' = IF stateStack'[Frames'] = "object" THEN "key" ELSE "value"
    BY <1>2, <1>4 DEF Wanted
  <2>3. QED  BY <2>1, <2>2 DEF Visitor!AfterValue
<1>5. QED  BY <1>3, <1>4

\* A scalar.
LEMMA ScalarSeen ==
    ASSUME IInv, IInv', ec = "none", UNCHANGED <<level, stateStack>>,
           NEW c \in Visitor!ScalarCall, NEW arg \in Seq(Byte), Visit(c, arg),
           Base \in ValueStates \cup LiteralStates \cup {"number", "string"},
           ec' = "none" =>
               state' = IF level = 0 THEN "accept" ELSE "expect_comma_or_end"
    PROVE  Seen
<1>1. Wanted = "value"
  BY WantedNow DEF KeyPlaces, NameStates, ValueStates, LiteralStates
<1>2. c \in CallNames
  BY DEF Visitor!ScalarCall, CallNames
<1>3. ASSUME ec' = "none"
      PROVE  OpenContainers' = OpenContainers /\ Wanted' = Visitor!AfterValue(OpenContainers)
  <2>1. level \in Nat
    BY Known
  <2>2. OpenContainers' = OpenContainers
    BY <1>3 DEF OpenContainers
  <2>3. Wanted' = Visitor!AfterValue(OpenContainers)'
    BY <1>3, <2>1, WantedAfter
  <2>4. QED  BY <2>2, <2>3 DEF Visitor!AfterValue
<1>4. Visitor!Call(c, OpenContainers, Visitor!AfterValue(OpenContainers))
  BY <1>2, <1>3, CallSeen
<1>5. Visitor!Scalar
  BY <1>1, <1>4 DEF Visitor!Scalar
<1>6. QED  BY <1>5 DEF Seen, Visitor!Next

\* Where a value may begin the visitor wants one.
LEMMA ValueWanted ==
    ASSUME IInv, ec = "none", state \in ValueStates \cup LiteralStates \cup {"number"}
    PROVE  /\ Wanted = "value" /\ Base = state
           /\ Len(stateStack) = Frames /\ level \in Nat
<1>1. StackShape /\ BaseFits /\ stateStack \in Seq(States) /\ level \in Nat
  BY Known
<1>2. Len(stateStack) = Frames /\ Base = state
  BY <1>1, OnTop DEF CommentStates, ValueStates, LiteralStates
<1>3. QED  BY <1>1, <1>2, WantedNow DEF KeyPlaces, NameStates, ValueStates, LiteralStates

\* A container is begun: the parser goes on in state s, the visitor wants w.
LEMMA Began ==
    ASSUME IInv, IInv', ec = "none", state \in ValueStates, level' = level + 1,
           NEW kind \in Containers, Push(kind),
           NEW c \in CallNames, Visit(c, <<>>), state' \in BetweenStates,
           NEW w, w = (IF kind = "object" /\ state' \in NameStates THEN "key" ELSE "value"),
           state' # "expect_comma_or_end"
    PROVE  Wanted = "value" /\ Visitor!Call(c, Append(OpenContainers, kind), w)
<1>1. Wanted = "value" /\ Len(stateStack) = Frames /\ level \in Nat
  BY ValueWanted
<1>2. ASSUME ec' = "none"
      PROVE  OpenContainers' = Append(OpenContainers, kind) /\ Wanted' = w
  <2>1. OpenContainers' = Append(OpenContainers, kind)
    BY <1>1, <1>2, OpenGrows
  <2>2. Base' = state' /\ Frames' = level + 2
    <3>1. level' \in Nat /\ state' \notin CommentStates \cup {"cr", "string"}
      BY <1>1 DEF BetweenStates, ValueStates, NameStates, CommentStates
    <3>2. QED  BY <1>1, <1>2, <3>1, OnTopAfter
  <2>3. stateStack'[Frames'] = kind /\ level' > 0
    <3>1. stateStack \in Seq(States) /\ kind \in States /\ Len(stateStack) + 1 = level + 2
      BY <1>1, Known, StateNames DEF Frames
    <3>2. stateStack'[Len(stateStack) + 1] = kind
      BY <3>1, Pushed DEF Push
    <3>3. QED  BY <1>1, <2>2, <3>1, <3>2
  <2>4. /\ state' \in KeyPlaces <=> state' \in NameStates
        /\ state' \notin {"done", "accept"}
    BY DEF KeyPlaces, BetweenStates, ValueStates, NameStates
  <2>5. Wanted' = IF kind = "object" /\ state' \in KeyPlaces THEN "key" ELSE "value"
    BY <1>2, <2>2, <2>3, <2>4 DEF Wanted, KeyPlaces
  <2>6. QED  BY <2>1, <2>4, <2>5
<1>3. QED  BY <1>1, <1>2, NoArgument, CallSeen

LEMMA SeenBegin == ASSUME IInv, IInv', BeginObject \/ BeginArray PROVE Seen
<1>1. ec = "none" /\ state \in ValueStates /\ level' = level + 1
  BY DEF BeginObject, BeginArray, At
<1>2. CASE TooDeep
  <2>1. ec' # "none" /\ UNCHANGED calls
    BY <1>2 DEF BeginObject, BeginArray, Abort
  <2>2. QED  BY <1>1, <2>1, ErrorSeen
<1>3. CASE ~TooDeep /\ BeginObject
  <2>1. Push("object") /\ state' = "expect_member_name_or_end" /\ Visit("begin_object", <<>>)
    BY <1>3 DEF BeginObject
  <2>2. Visitor!BeginObject
    <3>1. state' \in BetweenStates \cap NameStates /\ "object" \in Containers
          /\ "begin_object" \in CallNames
      BY <2>1 DEF BetweenStates, NameStates, Containers, CallNames
    <3>2. Wanted = "value" /\ Visitor!Call("begin_object", Append(OpenContainers, "object"), "key")
      BY <1>1, <2>1, <3>1, Began
    <3>3. QED  BY <3>2 DEF Visitor!BeginObject
  <2>3. QED  BY <2>2 DEF Seen, Visitor!Next
<1>4. CASE ~TooDeep /\ BeginArray
  <2>1. Push("array") /\ state' = "expect_value_or_end" /\ Visit("begin_array", <<>>)
    BY <1>4 DEF BeginArray
  <2>2. Visitor!BeginArray
    <3>1. state' \in BetweenStates /\ "array" \in Containers /\ "begin_array" \in CallNames
      BY <2>1 DEF BetweenStates, ValueStates, Containers, CallNames
    <3>2. Wanted = "value" /\ Visitor!Call("begin_array", Append(OpenContainers, "array"), "value")
      BY <1>1, <2>1, <3>1, Began
    <3>3. QED  BY <3>2 DEF Visitor!BeginArray
  <2>3. QED  BY <2>2 DEF Seen, Visitor!Next
<1>5. QED  BY <1>2, <1>3, <1>4

\* The innermost container, of that kind, is closed by call c.
LEMMA Ended ==
    ASSUME IInv, IInv', ec = "none", level > 0, Len(stateStack) = Frames, NEW c \in CallNames,
           stateStack' = Popped, Visit(c, <<>>),
           ec' = "none" =>
               /\ level' = level - 1
               /\ state' = IF level - 1 = 0 THEN "accept" ELSE "expect_comma_or_end"
    PROVE  /\ OpenContainers # <<>> /\ OpenContainers[Len(OpenContainers)] = Top
           /\ Visitor!Call(c, Visitor!Outer, Visitor!AfterValue(Visitor!Outer))
<1>1. OpenContainers # <<>> /\ OpenContainers[Len(OpenContainers)] = Top
  <2>1. /\ Len(OpenContainers) = level /\ level \in Nat
        /\ \A i \in 1 .. level : OpenContainers[i] = stateStack[i + 1]
    BY OpenType
  <2>2. Top = stateStack[level + 1]
    BY DEF Top, Frames
  <2>3. QED  BY <2>1, <2>2
<1>2. ASSUME ec' = "none"
      PROVE  /\ OpenContainers' = Visitor!Outer
             /\ Wanted' = Visitor!AfterValue(Visitor!Outer)
  <2>1. OpenContainers' = Visitor!Outer
    BY <1>2, OpenShrinks DEF Visitor!Outer
  <2>2. level' \in Nat /\ state' = IF level' = 0 THEN "accept" ELSE "expect_comma_or_end"
    BY <1>2 DEF IInv, TypeOK
  <2>3. Wanted' = Visitor!AfterValue(OpenContainers)'
    BY <1>2, <2>2, WantedAfter
  <2>4. QED  BY <2>1, <2>3 DEF Visitor!AfterValue
<1>3. QED  BY <1>1, <1>2, NoArgument, CallSeen

\* Between tokens, where no comment or member name is begun.
LEMMA BetweenWanted ==
    ASSUME IInv, ec = "none", state \in BetweenStates
    PROVE  /\ Len(stateStack) = Frames /\ Base = state /\ level \in Nat
           /\ level > 0 => Top = stateStack[Frames]
           /\ Wanted = IF level > 0 /\ Top = "object" /\ state \in KeyPlaces
                       THEN "key" ELSE "value"
<1>1. StackShape /\ BaseFits /\ stateStack \in Seq(States) /\ level \in Nat
  BY Known
<1>2. state \notin CommentStates \cup {"cr", "string", "done", "accept"}
  BY DEF BetweenStates, ValueStates, NameStates, CommentStates
<1>3. Len(stateStack) = Frames /\ Base = state /\ Top = stateStack[Frames]
  BY <1>1, <1>2, OnTop
<1>4. QED  BY <1>1, <1>2, <1>3, WantedNow

LEMMA EndContainerSeen ==
    ASSUME IInv, IInv', ec = "none", state \in BetweenStates,
           NEW kind, NEW c \in CallNames, NEW mismatch \in Errors, NEW unexpected \in Errors,
           EndContainer(kind, c, mismatch, unexpected)
    PROVE  \/ Seen
           \/ /\ level > 0 /\ Top = kind
              /\ OpenContainers # <<>> /\ OpenContainers[Len(OpenContainers)] = Top
              /\ Visitor!Call(c, Visitor!Outer, Visitor!AfterValue(Visitor!Outer))
<1>1. mismatch # "none" /\ unexpected # "none"
  BY DEF Errors, Utf8Error
<1>2. Len(stateStack) = Frames /\ level \in Nat
  BY BetweenWanted
<1>3. CASE level < 1 \/ Top # kind
  <2>1. ec' # "none" /\ UNCHANGED calls
    BY <1>1, <1>3 DEF EndContainer, Abort
  <2>2. QED  BY <2>1, ErrorSeen
<1>4. CASE ~(level < 1) /\ Top = kind
  <2>1. /\ stateStack' = Popped /\ Visit(c, <<>>)
        /\ ec' = "none" => level' = level - 1 /\ ValueDone(level - 1)
    BY <1>4 DEF EndContainer
  <2>2. ec' = "none" =>
            state' = IF level - 1 = 0 THEN "accept" ELSE "expect_comma_or_end"
    BY <2>1 DEF ValueDone
  <2>3. level > 0
    BY <1>2, <1>4
  <2>4. QED  BY <1>2, <1>4, <2>1, <2>2, <2>3, Ended
<1>5. QED  BY <1>3, <1>4

LEMMA SeenEndObject == ASSUME IInv, IInv', EndObject PROVE Seen
<1>1. ec = "none" /\ state \in NameStates \cup {"expect_comma_or_end"}
  BY DEF EndObject, At
<1>2. state \in BetweenStates /\ state \in KeyPlaces
  BY <1>1 DEF BetweenStates, KeyPlaces
<1>3. CASE Abort("extra_comma") /\ UNCHANGED <<nest, calls>>
  BY <1>1, <1>3, StaysUnseen
<1>4. CASE EndContainer("object", "end_object", "expected_comma_or_rbracket", "unexpected_rbrace")
  <2>1. /\ {"expected_comma_or_rbracket", "unexpected_rbrace"} \subseteq Errors
        /\ "end_object" \in CallNames
    BY DEF Errors, CallNames
  <2>2. CASE level > 0 /\ Top = "object"
             /\ Visitor!Call("end_object", Visitor!Outer, Visitor!AfterValue(Visitor!Outer))
    <3>1. Wanted = "key"
      BY <1>1, <1>2, <2>2, BetweenWanted
    <3>2. Visitor!EndObject
      BY <2>2, <3>1 DEF Visitor!EndObject
    <3>3. QED  BY <3>2 DEF Seen, Visitor!Next
  <2>3. QED  BY <1>1, <1>2, <1>4, <2>1, <2>2, EndContainerSeen
<1>5. QED  BY <1>3, <1>4 DEF EndObject

LEMMA SeenEndArray == ASSUME IInv, IInv', EndArray PROVE Seen
<1>1. ec = "none" /\ state \in {"expect_value", "expect_value_or_end", "expect_comma_or_end"}
  BY DEF EndArray, At
<1>2. state \in BetweenStates
  BY <1>1 DEF BetweenStates, ValueStates
<1>3. CASE UNCHANGED <<nest, calls>>
  BY <1>1, <1>3, StaysUnseen
<1>4. CASE EndContainer("array", "end_array", "expected_comma_or_rbrace", "unexpected_rbracket")
  <2>1. /\ {"expected_comma_or_rbrace", "unexpected_rbracket"} \subseteq Errors
        /\ "end_array" \in CallNames
    BY DEF Errors, CallNames
  <2>2. CASE /\ level > 0 /\ Top = "array"
             /\ OpenContainers # <<>> /\ OpenContainers[Len(OpenContainers)] = Top
             /\ Visitor!Call("end_array", Visitor!Outer, Visitor!AfterValue(Visitor!Outer))
    <3>1. Wanted = "value"
      BY <1>1, <1>2, <2>2, BetweenWanted
    <3>2. Visitor!EndArray
      BY <2>2, <3>1 DEF Visitor!EndArray
    <3>3. QED  BY <3>2 DEF Seen, Visitor!Next
  <2>3. QED  BY <1>1, <1>2, <1>4, <2>1, <2>2, EndContainerSeen
<1>5. QED  BY <1>3, <1>4 DEF EndArray

\* Literal names
LEMMA WordArgument == {TrueWord, FalseWord, NullWord} \subseteq Seq(Byte)
BY DEF TrueWord, FalseWord, NullWord, Byte, LowT, LowR, LowU, LowE, LowF, LowA, LowL, LowS, LowN

LEMMA SeenBeginLiteral ==
    ASSUME IInv, IInv', NEW word \in Seq(Byte), NEW c \in Visitor!ScalarCall,
           NEW s \in LiteralStates, BeginLiteral(word, c, s)
    PROVE  Seen
<1>1. ec = "none" /\ state \in ValueStates /\ UNCHANGED <<stateStack, level>>
  BY DEF BeginLiteral, At
<1>2. CASE UNCHANGED calls /\ (ec' = "none" => state' = s)
  BY <1>1, <1>2, UnseenValue
<1>3. CASE Visit(c, word) /\ ValueDone(level)
  <2>1. Base \in ValueStates
    BY <1>1, ValueWanted
  <2>2. ec' = "none" => state' = IF level = 0 THEN "accept" ELSE "expect_comma_or_end"
    BY <1>3 DEF ValueDone
  <2>3. QED  BY <1>1, <1>3, <2>1, <2>2, ScalarSeen
<1>4. QED  BY <1>2, <1>3 DEF BeginLiteral, Abort

LEMMA SeenLiteral == ASSUME IInv, IInv', ParseTrue \/ ParseFalse \/ ParseNull PROVE Seen
<1>1. {"bool_value", "null_value"} \subseteq Visitor!ScalarCall /\ {"t", "f", "n"} \subseteq LiteralStates
  BY DEF Visitor!ScalarCall, LiteralStates
<1>2. QED  BY <1>1, WordArgument, SeenBeginLiteral DEF ParseTrue, ParseFalse, ParseNull

LEMMA SeenContinueLiteral == ASSUME IInv, IInv', ContinueLiteral PROVE Seen
<1>1. ec = "none" /\ state \in LiteralStates /\ UNCHANGED <<stateStack, level>>
  BY DEF ContinueLiteral, At
<1>2. CASE Here # LiteralStep[state][1] \/ LiteralStep[state][2] # ""
  <2>1. LiteralStep[state][2] # "" => LiteralStep[state][2] \in LiteralStates
    BY <1>1 DEF LiteralStep, LiteralStates
  <2>2. UNCHANGED calls /\ (ec' = "none" => state' \in LiteralStates)
    BY <1>2, <2>1 DEF ContinueLiteral, Abort
  <2>3. QED  BY <1>1, <2>2, UnseenValue
<1>3. CASE ~(Here # LiteralStep[state][1] \/ LiteralStep[state][2] # "")
  <2>1. /\ \/ Visit("null_value", NullWord) \/ Visit("bool_value", TrueWord)
           \/ Visit("bool_value", FalseWord)
        /\ ValueDone(level)
    BY <1>3 DEF ContinueLiteral
  <2>2. {"bool_value", "null_value"} \subseteq Visitor!ScalarCall
    BY DEF Visitor!ScalarCall
  <2>3. Base \in LiteralStates
    BY <1>1, ValueWanted
  <2>4. ec' = "none" => state' = IF level = 0 THEN "accept" ELSE "expect_comma_or_end"
    BY <2>1 DEF ValueDone
  <2>5. QED  BY <1>1, <2>1, <2>2, <2>3, <2>4, WordArgument, ScalarSeen
<1>4. QED  BY <1>2, <1>3

\* Numbers
LEMMA SeenCompleteNumber ==
    ASSUME IInv, IInv', ec = "none", state = "number", UNCHANGED <<stateStack, level>>,
           CompleteNumber
    PROVE  Seen
<1>1. StackShape /\ BaseFits /\ stateStack \in Seq(States) /\ level \in Nat
  BY Known
<1>2. ec' = "none" => state' = IF level = 0 THEN "accept" ELSE "expect_comma_or_end"
  BY <1>1, NumberDone
<1>3. NumberCall \in Visitor!ScalarCall /\ buffer \in Seq(Byte)
  BY DEF NumberCall, Visitor!ScalarCall, IInv, TypeOK
<1>4. Base = "number" /\ Visit(NumberCall, buffer)
  BY ValueWanted DEF CompleteNumber
<1>5. QED  BY <1>2, <1>3, <1>4, ScalarSeen

LEMMA SeenEndNumber == ASSUME IInv, IInv', EndNumber \/ EndOfNumber PROVE Seen
<1>1. ec = "none" /\ state = "number" /\ UNCHANGED <<stateStack, level>>
  BY DEF EndNumber, EndOfNumber, At, AtEnd, Calling
<1>2. CASE CompleteNumber
  BY <1>1, <1>2, SeenCompleteNumber
<1>3. CASE Abort("unexpected_eof") /\ UNCHANGED calls
  BY <1>1, <1>3, ErrorSeen DEF Abort
<1>4. QED  BY <1>2, <1>3 DEF EndNumber, EndOfNumber

\* Strings: a string that ends is a member name, or a value.
LEMMA KeySeen ==
    ASSUME IInv, IInv', ec = "none", state = "string", Top = "member_name", UNCHANGED level,
           Visit("key", buffer),
           ec' = "none" => stateStack' = Popped /\ state' = "expect_colon"
    PROVE  Seen
<1>1. StackShape /\ BaseFits /\ stateStack \in Seq(States) /\ state \in States /\ level \in Nat
      /\ Frames = level + 1
  BY Known DEF Frames
<1>2. Len(stateStack) = Frames + 1 /\ Base = "member_name"
  <2>1. Len(stateStack) # Frames
    <3>1. Len(stateStack) = Frames => Top \in Containers \cup {"root"}
      BY <1>1 DEF StackShape, Top
    <3>2. QED  BY <3>1 DEF Containers
  <2>2. QED  BY <1>1, <2>1 DEF StackShape
<1>3. level > 0 /\ stateStack[Frames] = "object"
  BY <1>1, <1>2 DEF BaseFits
<1>4. Wanted = "key"
  BY <1>2, <1>3, WantedNow DEF KeyPlaces
<1>5. ASSUME ec' = "none"
      PROVE  OpenContainers' = OpenContainers /\ Wanted' = "value"
  <2>1. Base' = state' /\ state' = "expect_colon"
    <3>1. state' \notin CommentStates \cup {"cr", "string"} /\ level' \in Nat
      BY <1>1, <1>5 DEF CommentStates
    <3>2. QED  BY <1>5, <3>1, OnTopAfter
  <2>2. Wanted' = "value"
    BY <1>5, <2>1 DEF Wanted, NameStates
  <2>3. Len(stateStack') >= Frames'
    BY <1>5 DEF IInv, Consistent, StackShape
  <2>4. Frames' = Frames /\ \A i \in 1 .. Frames : stateStack'[i] = stateStack[i]
    BY <1>1, <1>2, <1>5, <2>3, FramesKept
  <2>5. OpenContainers' = OpenContainers
    BY <1>1, <1>5, <2>4, OpenKept
  <2>6. QED  BY <2>2, <2>5
<1>6. "key" \in CallNames /\ buffer \in Seq(Byte)
  BY DEF CallNames, IInv, TypeOK
<1>7. Visitor!Key
  BY <1>4, <1>5, <1>6, CallSeen DEF Visitor!Key
<1>8. QED  BY <1>7 DEF Seen, Visitor!Next

LEMMA StringValueSeen ==
    ASSUME IInv, IInv', ec = "none", state = "string", Top # "member_name",
           UNCHANGED <<level, stateStack>>,
           NEW c \in {"double_value", "string_value"}, Visit(c, buffer),
           ec' = "none" => state' = IF Top = "root" THEN "accept" ELSE "expect_comma_or_end"
    PROVE  Seen
<1>1. StackShape /\ BaseFits /\ stateStack \in Seq(States) /\ level \in Nat
  BY Known
<1>2. Len(stateStack) = Frames /\ Base = "string"
  <2>1. Len(stateStack) = Frames + 1 /\ Base = "member_name" => Top = "member_name"
    BY <1>1 DEF Base, Top, Frames
  <2>2. Len(stateStack) = Frames
    BY <1>1, <2>1 DEF StackShape
  <2>3. QED  BY <1>1, <2>2 DEF Base, Frames
<1>3. Top = "root" <=> level = 0
  BY <1>1, <1>2 DEF StackShape, Top, Frames, Containers
<1>4. c \in Visitor!ScalarCall /\ buffer \in Seq(Byte)
  BY DEF Visitor!ScalarCall, IInv, TypeOK
<1>5. QED  BY <1>2, <1>3, <1>4, ScalarSeen

LEMMA SeenEndString == ASSUME IInv, IInv', EndString PROVE Seen
<1>1. ec = "none" /\ state = "string" /\ UNCHANGED level
  BY DEF EndString, InString, At
<1>2. CASE ~ValidUtf8(buffer)
  <2>1. UNCHANGED calls /\ \E stop \in Utf8Stop(buffer) : Abort(SequenceError(buffer, stop))
    BY <1>2 DEF EndString
  <2>2. ec' # "none"
    <3>1. ASSUME NEW stop \in Utf8Stop(buffer), Abort(SequenceError(buffer, stop)) PROVE ec' # "none"
      BY <3>1 DEF Abort, Utf8Stop, IllegalAt
    <3>2. QED  BY <2>1, <3>1
  <2>3. QED  BY <1>1, <2>1, <2>2, ErrorSeen
<1>3. CASE ValidUtf8(buffer) /\ Top = "member_name"
  <2>1. /\ Visit("key", buffer)
        /\ ec' = "none" => stateStack' = Popped /\ state' = "expect_colon"
    BY <1>3 DEF EndString
  <2>2. QED  BY <1>1, <1>3, <2>1, KeySeen
<1>4. CASE ValidUtf8(buffer) /\ Top # "member_name"
  <2>1. /\ Visit(IF buffer \in DoubleStrings THEN "double_value" ELSE "string_value", buffer)
        /\ UNCHANGED stateStack
        /\ ec' = "none" => state' = IF Top = "root" THEN "accept" ELSE "expect_comma_or_end"
    BY <1>4 DEF EndString
  <2>2. QED  BY <1>1, <1>4, <2>1, StringValueSeen
<1>5. QED  BY <1>2, <1>3, <1>4

\* The end of the text, and a new one.
LEMMA SeenFinish == ASSUME IInv, IInv', AcceptInLoop \/ ParseAccepted PROVE Seen
<1>1. /\ ec = "none" /\ state = "accept" /\ Finish /\ UNCHANGED <<level, stateStack>>
      /\ ec' = "none" /\ state' = "done"
  BY DEF AcceptInLoop, ParseAccepted, At, Calling, Finish
<1>2. Base = "accept" /\ Wanted = "flush" /\ level \in Nat
  <2>1. StackShape /\ BaseFits /\ stateStack \in Seq(States) /\ level \in Nat
    BY <1>1, Known
  <2>2. Base = "accept"
    BY <1>1, <2>1, OnTop DEF CommentStates
  <2>3. QED  BY <1>1, <2>1, <2>2, WantedNow
<1>3. Wanted' = "none"
  <2>1. Base' = "done"
    BY <1>1, <1>2, OnTopAfter DEF CommentStates
  <2>2. QED  BY <1>1, <2>1 DEF Wanted
<1>4. CallsMade' = Append(CallsMade, "flush")
  BY <1>1, NoArgument, CallMade DEF IInv, Finish, CallNames
<1>5. UNCHANGED OpenContainers
  BY <1>1 DEF OpenContainers
<1>6. Visitor!Flush
  BY <1>2, <1>3, <1>4, <1>5 DEF Visitor!Flush
<1>7. QED  BY <1>6 DEF Seen, Visitor!Next

\* A fresh parser, for a visitor that waits for a value.
LEMMA Fresh ==
    ASSUME state = "start", stateStack = <<"root">>, level = 0, ec = "none", calls = <<>>
    PROVE  CallsMade = <<>> /\ OpenContainers = <<>> /\ Wanted = "value"
<1>1. Base = "start"
  BY DEF Base, Frames
<1>2. QED  BY <1>1 DEF CallsMade, OpenContainers, Wanted

LEMMA FreshAfter ==
    ASSUME Reset
    PROVE  CallsMade' = <<>> /\ OpenContainers' = <<>> /\ Wanted' = "value"
<1>1. /\ state' = "start" /\ stateStack' = <<"root">> /\ level' = 0
      /\ ec' = "none" /\ calls' = <<>>
  BY DEF Reset, FreshNest
<1>2. Base' = "start"
  BY <1>1 DEF Base, Frames
<1>3. QED  BY <1>1, <1>2 DEF CallsMade, OpenContainers, Wanted

LEMMA SeenReset == ASSUME Reset PROVE Seen
<1>1. Visitor!NewText
  BY FreshAfter DEF Visitor!NewText
<1>2. QED  BY <1>1 DEF Seen, Visitor!Next

------------------------------------------------------------------------------
\* Every step, and the theorem

LEMMA IterateSeen == ASSUME IInv, IInv', Iterate PROVE Seen
BY UnseenInPlace, SeenBegin, SeenEndObject, SeenEndArray, UnseenSeparator, UnseenComment,
   SeenLiteral, SeenContinueLiteral, UnseenNumber, SeenEndNumber, UnseenString, SeenEndString,
   SeenFinish, Zenon DEF Iterate

LEMMA NextSeen == ASSUME IInv, IInv', [Next]_vars PROVE Seen
<1>1. CASE Work
  BY <1>1, IterateSeen, UnseenSpace, UnseenInPlace, UnseenControl, SeenFinish, SeenEndNumber,
     UnseenEnd, Zenon DEF Work
<1>2. CASE ParseSome \/ SkipWhitespace \/ CheckDone \/ Restart \/ UNCHANGED vars
  BY <1>2, UnseenControl
<1>3. CASE \E chunk \in Callers[caller].chunks \cup {<<>>}, last \in BOOLEAN : Update(chunk, last)
  BY <1>3, UnseenControl
<1>4. CASE Reset
  BY <1>4, SeenReset
<1>5. CASE \/ \E on \in Callers[caller].cursorModes : SetCursorMode(on)
           \/ \E lvl \in Callers[caller].markLevels : SetMarkLevel(lvl)
  BY <1>5, UnseenControl
<1>6. QED  BY <1>1, <1>2, <1>3, <1>4, <1>5, Zenon DEF Next

LEMMA InitSeen == ASSUME Init PROVE Visitor!Init
BY Fresh DEF Init, Visitor!Init

\* Whatever the bytes, the chunks, the options and the order in which callers
\* stop, restart and reset the parser, its visitor sees a run of
\* VisitorProtocol: the calls nest, keys and values take turns in an object,
\* there is one value at the top, flush follows it, and nothing a failure.
THEOREM VisitorContract == Spec => VisitorSeesProtocol
<1>1. IInv /\ [Next]_vars => IInv'
  BY NextType, NextConsistent DEF IInv
<1>2. IInv /\ IInv' /\ [Next]_vars => [Visitor!Next]_(Visitor!vars)
  BY NextSeen DEF Seen
<1>3. Init => Visitor!Init
  BY InitSeen
<1>4. QED  BY InitIInv, <1>1, <1>2, <1>3, PTL DEF Spec, VisitorSeesProtocol, Visitor!Spec

------------------------------------------------------------------------------
\* What the calls are, and how many

OpeningCalls == {"begin_object", "begin_array"}
ClosingCalls == {"end_object", "end_array"}
StringCalls == {"key", "string_value"}

\* A step that makes no call: it does not open or close a container either.
Silent == UNCHANGED calls /\ (ec' = "none" => ec = "none" /\ level' = level)

\* A step that makes a call that neither opens nor closes a container, with a
\* well-formed string if it gives one.
Plainly ==
    /\ ec = "none" /\ (ec' = "none" => level' = level)
    /\ \E c \in CallNames \ (OpeningCalls \cup ClosingCalls), arg \in Seq(Byte) :
           /\ calls' = Append(calls, <<c, arg>>)
           /\ c \in StringCalls => WellFormed(arg)

\* A step that opens a container, or closes one.
Opens ==
    /\ ec = "none" /\ ~TooDeep /\ (ec' = "none" => level' = level + 1)
    /\ \E c \in OpeningCalls : calls' = Append(calls, <<c, <<>>>>)

Closes ==
    /\ ec = "none" /\ (ec' = "none" => level' = level - 1)
    /\ \E c \in ClosingCalls : calls' = Append(calls, <<c, <<>>>>)

Starts == calls' = <<>> /\ level' = 0 /\ ec' = "none"

CallsStep == Silent \/ Plainly \/ Opens \/ Closes \/ Starts

LEMMA OpeningStep == ASSUME IInv, BeginObject \/ BeginArray PROVE Silent \/ Opens
BY DEF BeginObject, BeginArray, At, Visit, Abort, Silent, Opens, OpeningCalls

LEMMA ClosingStep == ASSUME IInv, EndObject \/ EndArray PROVE Silent \/ Closes
<1>1. ec = "none"
  BY DEF EndObject, EndArray, At
<1>2. ASSUME NEW kind, NEW c \in ClosingCalls, NEW mismatch, NEW unexpected,
             mismatch # "none", unexpected # "none",
             EndContainer(kind, c, mismatch, unexpected)
      PROVE  Silent \/ Closes
  <2>1. CASE UNCHANGED calls
    BY <1>1, <1>2, <2>1 DEF EndContainer, Abort, Visit, nest, Silent
  <2>2. CASE ~UNCHANGED calls
    <3>1. Visit(c, <<>>) /\ (ec' = "none" => level' = level - 1)
      BY <1>2, <2>2, Zenon DEF EndContainer
    <3>2. QED  BY <1>1, <1>2, <3>1 DEF Visit, Closes
  <2>3. QED  BY <2>1, <2>2
<1>3. CASE EndObject
  BY <1>1, <1>2, <1>3 DEF EndObject, ClosingCalls, Abort, nest, Silent
<1>4. CASE EndArray
  BY <1>1, <1>2, <1>4 DEF EndArray, ClosingCalls, Abort, nest, Silent
<1>5. QED  BY <1>3, <1>4

\* A scalar, or flush, with an argument of no concern.
LEMMA ScalarStep ==
    ASSUME ec = "none", UNCHANGED level,
           NEW c \in Visitor!ScalarCall \ StringCalls, NEW arg \in Seq(Byte), Visit(c, arg)
    PROVE  Plainly
BY DEF Visit, Plainly, Visitor!ScalarCall, StringCalls, OpeningCalls, ClosingCalls, CallNames

LEMMA LiteralCallStep ==
    ASSUME IInv, ParseTrue \/ ParseFalse \/ ParseNull \/ ContinueLiteral
    PROVE  Silent \/ Plainly
<1>1. ec = "none" /\ UNCHANGED level
  BY DEF ParseTrue, ParseFalse, ParseNull, BeginLiteral, ContinueLiteral, At
<1>2. CASE UNCHANGED calls
  BY <1>1, <1>2 DEF Silent
<1>3. CASE ~UNCHANGED calls
  <2>1. \E c \in {"null_value", "bool_value"}, arg \in {TrueWord, FalseWord, NullWord} : Visit(c, arg)
    BY <1>3, Zenon DEF ParseTrue, ParseFalse, ParseNull, BeginLiteral, ContinueLiteral
  <2>2. QED  BY <1>1, <2>1, WordArgument, ScalarStep DEF Visitor!ScalarCall, StringCalls
<1>4. QED  BY <1>2, <1>3

LEMMA NumberCallStep == ASSUME IInv, EndNumber \/ EndOfNumber PROVE Silent \/ Plainly
<1>1. ec = "none" /\ UNCHANGED level /\ buffer \in Seq(Byte)
  BY DEF EndNumber, EndOfNumber, At, AtEnd, Calling, IInv, TypeOK
<1>2. CASE UNCHANGED calls
  BY <1>1, <1>2 DEF Silent
<1>3. CASE ~UNCHANGED calls
  <2>1. Visit(NumberCall, buffer)
    BY <1>3, Zenon DEF EndNumber, EndOfNumber, CompleteNumber
  <2>2. NumberCall \in Visitor!ScalarCall \ StringCalls
    BY DEF NumberCall, Visitor!ScalarCall, StringCalls
  <2>3. QED  BY <1>1, <2>1, <2>2, ScalarStep
<1>4. QED  BY <1>2, <1>3

LEMMA StringCallStep == ASSUME IInv, EndString PROVE Silent \/ Plainly
<1>1. ec = "none" /\ UNCHANGED level /\ buffer \in Seq(Byte)
  BY DEF EndString, InString, At, IInv, TypeOK
<1>2. CASE UNCHANGED calls
  BY <1>1, <1>2 DEF Silent
<1>3. CASE ~UNCHANGED calls
  <2>1. ValidUtf8(buffer)
    BY <1>3, Zenon DEF EndString
  <2>2. \E c \in {"key", "string_value", "double_value"} : calls' = Append(calls, <<c, buffer>>)
    BY <1>3, Zenon DEF EndString, Visit
  <2>3. WellFormed(buffer)
    BY <1>1, <2>1, ValidatedIsWellFormed
  <2>4. {"key", "string_value", "double_value"} \subseteq CallNames \ (OpeningCalls \cup ClosingCalls)
    BY DEF CallNames, OpeningCalls, ClosingCalls
  <2>5. QED  BY <1>1, <2>2, <2>3, <2>4 DEF Plainly
<1>4. QED  BY <1>2, <1>3

LEMMA FlushStep == ASSUME IInv, AcceptInLoop \/ ParseAccepted PROVE Plainly
<1>1. ec = "none" /\ UNCHANGED level /\ calls' = Append(calls, <<"flush", <<>>>>)
  BY DEF AcceptInLoop, ParseAccepted, At, Calling, Finish
<1>2. "flush" \in CallNames \ (OpeningCalls \cup ClosingCalls) /\ "flush" \notin StringCalls
  BY DEF CallNames, OpeningCalls, ClosingCalls, StringCalls
<1>3. QED  BY <1>1, <1>2, NoArgument DEF Plainly

\* The steps of the loop that do not call the visitor.
Wordless ==
    \/ ControlCharacter \/ NextMember \/ TakeColon \/ Unexpected \/ UnexpectedAtStart
    \/ BeginComment \/ CommentKind \/ LineComment \/ BlockComment \/ BlockCommentStar
    \/ BeginNumber \/ NumberByte \/ NumberError
    \/ BeginString \/ TextByte \/ IllegalTextByte \/ BeginEscape \/ SimpleEscape
    \/ UnicodeEscape \/ SurrogateBackslash \/ SurrogateU \/ EscapeError \/ HexByte

LEMMA WordlessStep == ASSUME Wordless PROVE UNCHANGED <<calls, level>>
<1>1. CASE \/ NextMember \/ TakeColon \/ BeginComment \/ CommentKind \/ LineComment
           \/ BlockComment \/ BlockCommentStar \/ BeginNumber \/ BeginString
  BY <1>1, Zenon DEF NextMember, TakeColon, BeginComment, CommentKind, LineComment, BlockComment,
     BlockCommentStar, BeginNumber, BeginString
<1>2. CASE \/ ControlCharacter \/ Unexpected \/ UnexpectedAtStart \/ NumberByte \/ NumberError
           \/ TextByte \/ IllegalTextByte \/ BeginEscape \/ SimpleEscape \/ UnicodeEscape
           \/ SurrogateBackslash \/ SurrogateU \/ EscapeError \/ HexByte
  BY <1>2, Zenon DEF ControlCharacter, Unexpected, UnexpectedAtStart, NumberByte, NumberError,
     TextByte, IllegalTextByte, BeginEscape, SimpleEscape, UnicodeEscape, SurrogateBackslash,
     SurrogateU, EscapeError, HexByte, StringFrame, nest
<1>3. QED  BY <1>1, <1>2, Zenon DEF Wordless

LEMMA IterateCallsStep == ASSUME IInv, Iterate PROVE CallsStep
<1>1. CASE Wordless
  BY <1>1, WordlessStep, IterateBegins DEF Silent, CallsStep
<1>2. CASE ~Wordless
  BY <1>2, OpeningStep, ClosingStep, LiteralCallStep, NumberCallStep, StringCallStep, FlushStep,
     Zenon DEF Wordless, Iterate, CallsStep
<1>3. QED  BY <1>1, <1>2

LEMMA NextCallsStep == ASSUME IInv, [Next]_vars PROVE CallsStep
<1>1. CASE Iterate
  BY <1>1, IterateCallsStep
<1>2. CASE Work /\ ~Iterate
  <2>1. level' = level /\ (ec' = "none" => ec = "none")
    BY <1>2, WorkLevel
  <2>2. CASE SkipSpace \/ ResumeCr \/ CheckByte \/ Return \/ EndOfCr \/ UnexpectedEnd
    <3>1. UNCHANGED calls
      BY <2>2, Zenon DEF SkipSpace, ResumeCr, CheckByte, Return, EndOfCr, UnexpectedEnd
    <3>2. QED  BY <2>1, <3>1 DEF Silent, CallsStep
  <2>3. QED
    BY <1>2, <2>2, FlushStep, NumberCallStep, Zenon DEF Work, CallsStep
<1>3. CASE Reset
  BY <1>3 DEF Reset, FreshNest, Starts, CallsStep
<1>4. CASE \/ ParseSome \/ SkipWhitespace \/ CheckDone \/ Restart \/ UNCHANGED vars
           \/ \E chunk \in Callers[caller].chunks \cup {<<>>}, last \in BOOLEAN : Update(chunk, last)
           \/ \E on \in Callers[caller].cursorModes : SetCursorMode(on)
           \/ \E lvl \in Callers[caller].markLevels : SetMarkLevel(lvl)
  <2>1. UNCHANGED <<calls, level, ec>>
    BY <1>4 DEF ParseSome, SkipWhitespace, CheckDone, Restart, Update, SetCursorMode,
                SetMarkLevel, vars, nest
  <2>2. QED  BY <2>1 DEF Silent, CallsStep
<1>5. QED  BY <1>1, <1>2, <1>3, <1>4, Zenon DEF Next

------------------------------------------------------------------------------
\* The calls are counted.

LEMMA CountType == ASSUME TypeOK, NEW N PROVE CallCount(N) \in Nat
<1>1. DOMAIN calls = 1 .. Len(calls) /\ Len(calls) \in Nat
  BY DEF TypeOK
<1>2. IsFiniteSet(1 .. Len(calls))
  BY <1>1, FS_Interval
<1>3. IsFiniteSet({i \in DOMAIN calls : calls[i][1] \in N})
  BY <1>1, <1>2, FS_Subset
<1>4. QED  BY <1>3, FS_CardinalityType DEF CallCount

LEMMA CountAfter ==
    ASSUME TypeOK, NEW N, NEW c \in CallNames, NEW arg \in Seq(Byte),
           calls' = Append(calls, <<c, arg>>)
    PROVE  CallCount(N)' = CallCount(N) + (IF c \in N THEN 1 ELSE 0)
<1>. DEFINE n == Len(calls)
            now == {i \in 1 .. n : calls[i][1] \in N}
            then == {i \in 1 .. n + 1 : calls'[i][1] \in N}
<1>1. calls \in Seq(CallNames \X Seq(Byte)) /\ <<c, arg>> \in CallNames \X Seq(Byte) /\ n \in Nat
  BY DEF TypeOK
<1>2. /\ calls' \in Seq(CallNames \X Seq(Byte)) /\ Len(calls') = n + 1
      /\ calls'[n + 1] = <<c, arg>> /\ \A i \in 1 .. n : calls'[i] = calls[i]
  BY <1>1, Pushed
<1>3. DOMAIN calls = 1 .. n /\ DOMAIN calls' = 1 .. n + 1
  BY <1>1, <1>2
<1>. HIDE DEF n
<1>4. IsFiniteSet(now) /\ Cardinality(now) \in Nat
  <2>1. IsFiniteSet(1 .. n)
    BY <1>1, FS_Interval
  <2>2. QED  BY <2>1, FS_Subset, FS_CardinalityType
<1>5. calls'[n + 1][1] = c
  BY <1>2
<1>6. c \in N => Cardinality(then) = Cardinality(now) + 1
  <2>. SUFFICES ASSUME c \in N PROVE Cardinality(then) = Cardinality(now) + 1
    OBVIOUS
  <2>1. then = now \cup {n + 1} /\ n + 1 \notin now
    BY <1>1, <1>2, <1>5
  <2>2. QED  BY <1>4, <2>1, FS_AddElement
<1>7. c \notin N => then = now
  BY <1>1, <1>2, <1>5
<1>8. CallCount(N)' = Cardinality(then) /\ CallCount(N) = Cardinality(now)
  BY <1>3 DEF CallCount
<1>. HIDE DEF now, then
<1>9. QED  BY <1>4, <1>6, <1>7, <1>8

\* What NestingBounded rests on: until an error is reported the calls say how
\* deep the parser is.
NestingCounted ==
    /\ ec = "none" => CallCount(OpeningCalls) - CallCount(ClosingCalls) = level
    /\ "max_nesting_depth_exceeded" \notin Lenient =>
           CallCount(OpeningCalls) - CallCount(ClosingCalls) <= MaxNestingDepth

LEMMA CountedStep ==
    ASSUME IInv, IInv', DepthBounded, NestingCounted, [Next]_vars
    PROVE  NestingCounted'
<1>. DEFINE opened == CallCount(OpeningCalls)
            closed == CallCount(ClosingCalls)
<1>1. /\ opened \in Nat /\ closed \in Nat /\ level \in Nat /\ MaxNestingDepth \in Nat
      /\ level' \in Nat
  BY CountType, OptionAssumption DEF IInv, TypeOK
<1>2. CASE Silent
  <2>1. opened' = opened /\ closed' = closed
    BY <1>2 DEF Silent, CallCount
  <2>2. QED  BY <1>2, <2>1 DEF Silent, NestingCounted
<1>3. CASE Plainly
  <2>1. PICK c \in CallNames \ (OpeningCalls \cup ClosingCalls), arg \in Seq(Byte) :
            calls' = Append(calls, <<c, arg>>)
    BY <1>3 DEF Plainly
  <2>2. opened' = opened /\ closed' = closed
    BY <1>1, <2>1, CountAfter DEF IInv
  <2>3. QED  BY <1>3, <2>2 DEF Plainly, NestingCounted
<1>4. CASE Opens
  <2>1. PICK c \in OpeningCalls : calls' = Append(calls, <<c, <<>>>>)
    BY <1>4 DEF Opens
  <2>2. c \in CallNames /\ c \notin ClosingCalls /\ TypeOK
    BY DEF OpeningCalls, ClosingCalls, CallNames, IInv
  <2>3. opened' = opened + 1 /\ closed' = closed
    <3>1. \A N : CallCount(N)' = CallCount(N) + (IF c \in N THEN 1 ELSE 0)
      BY <2>1, <2>2, CountAfter, NoArgument
    <3>2. /\ opened' = opened + (IF c \in OpeningCalls THEN 1 ELSE 0)
          /\ closed' = closed + (IF c \in ClosingCalls THEN 1 ELSE 0)
      BY <3>1
    <3>. HIDE DEF opened, closed
    <3>3. QED  BY <1>1, <2>2, <3>2
  <2>. HIDE DEF opened, closed
  <2>4. opened - closed = level
    BY <1>4 DEF Opens, NestingCounted, opened, closed
  <2>5. ec' = "none" => opened' - closed' = level'
    BY <1>1, <1>4, <2>3, <2>4 DEF Opens
  <2>6. "max_nesting_depth_exceeded" \notin Lenient => opened' - closed' <= MaxNestingDepth
    BY <1>1, <1>4, <2>3, <2>4 DEF Opens, TooDeep
  <2>7. QED  BY <2>5, <2>6 DEF NestingCounted, opened, closed
<1>5. CASE Closes
  <2>1. PICK c \in ClosingCalls : calls' = Append(calls, <<c, <<>>>>)
    BY <1>5 DEF Closes
  <2>2. c \in CallNames /\ c \notin OpeningCalls /\ TypeOK
    BY DEF OpeningCalls, ClosingCalls, CallNames, IInv
  <2>3. opened' = opened /\ closed' = closed + 1
    <3>1. \A N : CallCount(N)' = CallCount(N) + (IF c \in N THEN 1 ELSE 0)
      BY <2>1, <2>2, CountAfter, NoArgument
    <3>2. /\ opened' = opened + (IF c \in OpeningCalls THEN 1 ELSE 0)
          /\ closed' = closed + (IF c \in ClosingCalls THEN 1 ELSE 0)
      BY <3>1
    <3>. HIDE DEF opened, closed
    <3>3. QED  BY <1>1, <2>2, <3>2
  <2>. HIDE DEF opened, closed
  <2>4. opened - closed = level
    BY <1>5 DEF Closes, NestingCounted, opened, closed
  <2>5. ec' = "none" => opened' - closed' = level'
    BY <1>1, <1>5, <2>3, <2>4 DEF Closes
  <2>6. "max_nesting_depth_exceeded" \notin Lenient => opened' - closed' <= MaxNestingDepth
    BY <1>1, <1>5, <2>3, <2>4 DEF Closes, DepthBounded
  <2>7. QED  BY <2>5, <2>6 DEF NestingCounted, opened, closed
<1>6. CASE Starts
  <2>1. opened' = 0 /\ closed' = 0
    BY <1>6, FS_EmptySet DEF Starts, CallCount
  <2>2. QED  BY <1>1, <1>6, <2>1 DEF Starts, NestingCounted
<1>7. CallsStep
  BY NextCallsStep
<1>8. QED  BY <1>2, <1>3, <1>4, <1>5, <1>6, <1>7 DEF CallsStep

\* The visitor never has more containers open than max_nesting_depth allows:
\* every caller, text and visitor, whichever call it fails.
THEOREM NestingHolds == Spec => []NestingBounded
<1>1. Init => NestingCounted
  <2>. SUFFICES ASSUME Init PROVE NestingCounted
    OBVIOUS
  <2>1. CallCount(OpeningCalls) = 0 /\ CallCount(ClosingCalls) = 0
    BY FS_EmptySet DEF Init, CallCount
  <2>2. QED  BY <2>1, OptionAssumption DEF Init, NestingCounted
<1>2. IInv /\ IInv' /\ DepthBounded /\ NestingCounted /\ [Next]_vars => NestingCounted'
  BY CountedStep
<1>3. IInv /\ [Next]_vars => IInv'
  BY NextType, NextConsistent DEF IInv
<1>4. NestingCounted => NestingBounded
  BY DEF NestingCounted, NestingBounded, OpeningCalls, ClosingCalls
<1>5. QED  BY InitIInv, DepthHolds, <1>1, <1>2, <1>3, <1>4, PTL DEF Spec

\* The visitor is given well-formed UTF-8 only.
THEOREM StringsHold == Spec => []StringsAreUtf8
<1>1. Init => StringsAreUtf8
  BY DEF Init, StringsAreUtf8
<1>2. ASSUME IInv, StringsAreUtf8, [Next]_vars PROVE StringsAreUtf8'
  <2>1. CASE Silent \/ Starts
    BY <1>2, <2>1 DEF Silent, Starts, StringsAreUtf8
  <2>2. CASE Plainly \/ Opens \/ Closes
    <3>1. PICK c \in CallNames, arg \in Seq(Byte) :
              /\ calls' = Append(calls, <<c, arg>>)
              /\ c \in StringCalls => WellFormed(arg)
      BY <2>2, NoArgument
      DEF Plainly, Opens, Closes, OpeningCalls, ClosingCalls, StringCalls, CallNames
    <3>2. calls \in Seq(CallNames \X Seq(Byte)) /\ <<c, arg>> \in CallNames \X Seq(Byte)
      BY <1>2 DEF IInv, TypeOK
    <3>3. /\ Len(calls') = Len(calls) + 1 /\ calls'[Len(calls) + 1] = <<c, arg>>
          /\ \A i \in 1 .. Len(calls) : calls'[i] = calls[i]
          /\ DOMAIN calls = 1 .. Len(calls) /\ DOMAIN calls' = 1 .. Len(calls')
          /\ Len(calls) \in Nat
      BY <3>1, <3>2, Pushed
    <3>4. ASSUME NEW i \in DOMAIN calls', calls'[i][1] \in StringCalls PROVE WellFormed(calls'[i][2])
      <4>1. CASE i \in 1 .. Len(calls)
        BY <1>2, <3>3, <3>4, <4>1 DEF StringsAreUtf8, StringCalls
      <4>2. CASE i = Len(calls) + 1
        <5>1. calls'[i] = <<c, arg>> /\ calls'[i][1] = c /\ calls'[i][2] = arg
          BY <3>3, <4>2
        <5>2. QED  BY <3>1, <3>4, <5>1
      <4>3. QED  BY <3>3, <4>1, <4>2
    <3>5. QED  BY <3>4 DEF StringsAreUtf8, StringCalls
  <2>3. QED  BY <1>2, <2>1, <2>2, NextCallsStep DEF CallsStep
<1>3. IInv /\ [Next]_vars => IInv'
  BY NextType, NextConsistent DEF IInv
<1>4. QED  BY InitIInv, <1>1, <1>2, <1>3, PTL DEF Spec

------------------------------------------------------------------------------
\* Line ends

LEMMA EndsFinite ==
    ASSUME NEW t, NEW n \in Nat
    PROVE  IsFiniteSet(LineEnds(t, n)) /\ Cardinality(LineEnds(t, n)) \in Nat
<1>1. IsFiniteSet(1 .. n)
  BY FS_Interval
<1>2. LineEnds(t, n) \subseteq 1 .. n
  BY DEF LineEnds
<1>3. IsFiniteSet(LineEnds(t, n))
  BY <1>1, <1>2, FS_Subset
<1>4. QED  BY <1>3, FS_CardinalityType

LEMMA EndsNone == ASSUME NEW t PROVE LineEnds(t, 0) = {}
BY DEF LineEnds

\* Texts that begin with the same bytes.
LEMMA EndsAgree ==
    ASSUME NEW t, NEW u, NEW n \in Nat, \A i \in 1 .. n : t[i] = u[i]
    PROVE  LineEnds(t, n) = LineEnds(u, n)
<1>1. ASSUME NEW i \in 1 .. n, i < n PROVE t[i + 1] = u[i + 1]
  <2>1. i + 1 \in 1 .. n
    BY <1>1
  <2>2. QED  BY <2>1
<1>2. QED  BY <1>1 DEF LineEnds

\* Bytes that are no line ends.
LEMMA EndsKept ==
    ASSUME NEW t, NEW n \in Nat, NEW m \in Nat, n <= m,
           \A i \in n + 1 .. m : t[i] \notin {CR, LF}
    PROVE  LineEnds(t, m) = LineEnds(t, n)
<1>1. ASSUME NEW i \in 1 .. m PROVE i \in LineEnds(t, m) <=> i \in LineEnds(t, n)
  <2>1. CASE i > n
    BY <2>1 DEF LineEnds
  <2>2. CASE i < n
    BY <2>2 DEF LineEnds
  <2>3. CASE i = n /\ i < m
    <3>1. n + 1 \in n + 1 .. m
      BY <2>3
    <3>2. t[i + 1] # LF
      BY <2>3, <3>1
    <3>3. QED  BY <2>3, <3>2 DEF LineEnds
  <2>4. CASE i = n /\ i = m
    BY <2>4
  <2>5. QED  BY <2>1, <2>2, <2>3, <2>4
<1>2. LineEnds(t, m) \subseteq 1 .. m /\ LineEnds(t, n) \subseteq 1 .. m
  BY DEF LineEnds
<1>3. QED  BY <1>1, <1>2

\* One more line ends with byte m: a line feed with no carriage return before
\* it, a carriage return, or the pair of them.
EndsAt(t, n, m) ==
    \/ m = n + 1 /\ t[m] = LF /\ ~(n > 0 /\ t[n] = CR)
    \/ m = n + 1 /\ t[m] = CR
    \/ m = n + 2 /\ t[n + 1] = CR /\ t[m] = LF

LEMMA EndsGrow ==
    ASSUME NEW t, NEW n \in Nat, NEW m \in Nat, EndsAt(t, n, m)
    PROVE  LineEnds(t, m) = LineEnds(t, n) \cup {m}
<1>1. n < m /\ m \in LineEnds(t, m)
  BY DEF EndsAt, LineEnds, CR, LF
<1>2. ASSUME NEW i \in 1 .. m, i # m PROVE i \in LineEnds(t, m) <=> i \in LineEnds(t, n)
  <2>1. CASE i < n
    BY <1>1, <2>1 DEF LineEnds
  <2>2. CASE i = n
    <3>1. i \in LineEnds(t, m) <=> t[i] = LF \/ (t[i] = CR /\ t[n + 1] # LF)
      BY <1>1, <2>2 DEF LineEnds
    <3>2. i \in LineEnds(t, n) <=> t[i] = LF \/ t[i] = CR
      BY <2>2 DEF LineEnds
    <3>3. t[i] = CR => t[n + 1] # LF
      BY <2>2 DEF EndsAt, CR, LF
    <3>4. QED  BY <3>1, <3>2, <3>3
  <2>3. CASE i > n
    <3>1. m = n + 2 /\ i = n + 1 /\ t[i] = CR /\ t[i + 1] = LF
      BY <1>2, <2>3 DEF EndsAt
    <3>2. i \notin LineEnds(t, m)
      BY <3>1 DEF LineEnds, CR, LF
    <3>3. i \notin LineEnds(t, n)
      BY <2>3 DEF LineEnds
    <3>4. QED  BY <3>2, <3>3
  <2>4. QED  BY <2>1, <2>2, <2>3
<1>3. LineEnds(t, m) \subseteq 1 .. m /\ LineEnds(t, n) \subseteq 1 .. n
  BY DEF LineEnds
<1>4. QED  BY <1>1, <1>2, <1>3

------------------------------------------------------------------------------
\* The lines of the first n bytes of t are counted.
LinesOf(t, n, lines, mark) ==
    /\ lines = 1 + Cardinality(LineEnds(t, n))
    /\ mark \in LineEnds(t, n) \cup {0}
    /\ \A i \in LineEnds(t, n) : i <= mark

LEMMA LinesNone == ASSUME NEW t PROVE LinesOf(t, 0, 1, 0)
BY EndsNone, FS_EmptySet DEF LinesOf

LEMMA LinesSame ==
    ASSUME NEW t, NEW u, NEW n, NEW m, NEW lines, NEW mark,
           LinesOf(t, n, lines, mark), LineEnds(u, m) = LineEnds(t, n)
    PROVE  LinesOf(u, m, lines, mark)
BY DEF LinesOf

LEMMA LinesGrow ==
    ASSUME NEW t, NEW n \in Nat, NEW m \in Nat, NEW lines, NEW mark,
           LinesOf(t, n, lines, mark), EndsAt(t, n, m)
    PROVE  LinesOf(t, m, lines + 1, m)
<1>1. LineEnds(t, m) = LineEnds(t, n) \cup {m}
  BY EndsGrow
<1>2. LineEnds(t, n) \subseteq 1 .. n /\ n < m
  BY DEF LineEnds, EndsAt
<1>3. m \notin LineEnds(t, n)
  BY <1>2
<1>4. IsFiniteSet(LineEnds(t, n)) /\ Cardinality(LineEnds(t, n)) \in Nat
  BY EndsFinite
<1>5. Cardinality(LineEnds(t, m)) = Cardinality(LineEnds(t, n)) + 1
  BY <1>1, <1>3, <1>4, FS_AddElement
<1>6. lines + 1 = 1 + Cardinality(LineEnds(t, m))
  BY <1>4, <1>5 DEF LinesOf
<1>7. \A i \in LineEnds(t, m) : i <= m
  BY <1>1, <1>2
<1>8. QED  BY <1>1, <1>6, <1>7 DEF LinesOf

------------------------------------------------------------------------------
\* The input is what is left of the text.
RestOfText ==
    /\ Len(input) <= Len(text)
    /\ \A k \in 1 .. Len(input) : input[k] = text[Taken + k]

\* A carriage return that has been taken is either waiting in state cr, or was
\* counted with the byte after it, or is the last byte of the text.
ReturnSettled ==
    /\ state = "cr" => Taken > 0 /\ text[Taken] = CR
    /\ (state # "cr" /\ Taken > 0 /\ text[Taken] = CR) =>
           IF input = <<>> THEN ended ELSE text[Taken + 1] # LF

\* State slash_star_star is reached by an asterisk, where comments are let through.
AsteriskTaken ==
    state = "slash_star_star" =>
        /\ Taken > 0 /\ text[Taken] = Asterisk
        /\ AllowComments /\ "illegal_comment" \in Lenient

\* The parser is inside a comment only where comments are let through.
CommentsPassed ==
    (state \in {"slash_star", "slash_star_star"} \/ (state = "cr" /\ Top = "slash_star")) =>
        AllowComments /\ "illegal_comment" \in Lenient

\* The inductive invariant, as long as check_done is not called.
PlaceKnown ==
    /\ position = Taken /\ LinesOf(text, Counted, line, markPosition)
    /\ ReturnSettled /\ AsteriskTaken

LInv == RestOfText /\ (ec = "none" /\ LinesVisible => PlaceKnown /\ CommentsPassed)

LEMMA Sizes ==
    ASSUME IInv, RestOfText
    PROVE  /\ text \in Seq(Byte) /\ input \in Seq(Byte)
           /\ Len(text) \in Nat /\ Len(input) \in Nat /\ Taken \in Nat
           /\ Taken + Len(input) = Len(text)
BY DEF IInv, TypeOK, RestOfText, Taken

\* The ways a step moves through the text.
\* Nothing is taken, and no carriage return begins or ends to wait.
Rests ==
    /\ UNCHANGED <<input, text, position, line, markPosition, ended>>
    /\ \/ state' = state
       \/ state # "cr" /\ state' \notin {"cr", "slash_star_star"}
       \/ state = "cr" /\ state' \notin {"cr", "slash_star_star"} /\ input = <<>> /\ ended

\* The first k bytes of the input are taken.
Drops(k) ==
    /\ k \in 1 .. Len(input) /\ UNCHANGED <<text, ended>>
    /\ input' = SubSeq(input, k + 1, Len(input)) /\ position' = position + k

\* The bytes taken are no line ends.
Passes(k) ==
    /\ Drops(k) /\ UNCHANGED <<line, markPosition>>
    /\ \A j \in 1 .. k : input[j] \notin {CR, LF}
    /\ state # "cr" /\ state' # "cr"
    /\ state' = "slash_star_star" => /\ input[k] = Asterisk
                                     /\ AllowComments /\ "illegal_comment" \in Lenient

\* A line end is taken whole.
EndsLine(k) ==
    /\ Drops(k) /\ line' = line + 1 /\ markPosition' = position'
    /\ \/ k = 1 /\ input[1] = LF
       \/ k = 1 /\ input[1] = CR /\ Len(input) > 1 /\ input[2] # LF
       \/ k = 2 /\ input[1] = CR /\ input[2] = LF
    /\ state # "cr" /\ state' \notin {"cr", "slash_star_star"}

\* A carriage return is taken that waits for the next byte.
Waits == Drops(1) /\ UNCHANGED <<line, markPosition>> /\ input[1] = CR
         /\ state # "cr" /\ state' = "cr"

\* The next byte has come.
Resumes ==
    /\ state = "cr" /\ state' \notin {"cr", "slash_star_star"} /\ input # <<>>
    /\ line' = line + 1 /\ markPosition' = position'
    /\ \/ Drops(1) /\ input[1] = LF
       \/ UNCHANGED <<input, text, position, ended>> /\ input[1] # LF

Advances ==
    \/ Rests \/ Waits \/ Resumes
    \/ \E k \in 1 .. Len(input) : Passes(k) \/ EndsLine(k)

\* No comment is entered unless comments are let through.
CommentsGoOn ==
    \/ UNCHANGED <<state, stateStack>>
    \/ state' \notin {"cr", "slash_star", "slash_star_star"}
    \/ state' # "cr" /\ AllowComments /\ "illegal_comment" \in Lenient
    \/ state' = "cr" /\ Top' = state
    \/ state = "cr" /\ state' = Top

Moves == Advances /\ CommentsGoOn

LEMMA AfterDrop ==
    ASSUME IInv, RestOfText, NEW k, Drops(k)
    PROVE  /\ RestOfText' /\ Taken' = Taken + k /\ k \in Nat /\ k > 0
           /\ \A j \in 1 .. k : text'[Taken + j] = input[j]
           /\ \A i \in 1 .. Taken : text'[i] = text[i]
           /\ input' # <<>> => text'[Taken' + 1] = input[k + 1] /\ k < Len(input)
           /\ input' = <<>> => k = Len(input)
<1>1. /\ input \in Seq(Byte) /\ Len(text) \in Nat /\ Len(input) \in Nat /\ Taken \in Nat
      /\ Taken + Len(input) = Len(text) /\ k \in 1 .. Len(input)
  BY Sizes DEF Drops
<1>2. input' = SubSeq(input, k + 1, Len(input)) /\ text' = text
  BY DEF Drops
<1>3. Len(input') = Len(input) - k /\ \A j \in 1 .. Len(input) - k : input'[j] = input[j + k]
  BY <1>1, <1>2
<1>4. Taken' = Taken + k
  <2>1. Taken' = Len(text') - Len(input') /\ Len(text') = Len(text)
    BY <1>2 DEF Taken
  <2>2. Taken = Len(text) - Len(input)
    BY DEF Taken
  <2>3. QED  BY <1>1, <1>3, <2>1, <2>2, SMT
<1>5. \A j \in 1 .. Len(input) : text[Taken + j] = input[j]
  BY DEF RestOfText
<1>6. RestOfText'
  <2>1. Len(input') <= Len(text')
    BY <1>1, <1>2, <1>3
  <2>2. ASSUME NEW j \in 1 .. Len(input') PROVE input'[j] = text'[Taken' + j]
    <3>1. j + k \in 1 .. Len(input) /\ j \in 1 .. Len(input) - k
      BY <1>1, <1>3
    <3>2. input'[j] = text[Taken + (j + k)]
      BY <1>3, <1>5, <3>1
    <3>3. Taken + (j + k) = Taken' + j
      BY <1>1, <1>4
    <3>4. QED  BY <1>2, <3>2, <3>3
  <2>3. QED  BY <2>1, <2>2 DEF RestOfText
<1>7. input' # <<>> => text'[Taken' + 1] = input[k + 1] /\ k < Len(input)
  <2>. SUFFICES ASSUME input' # <<>> PROVE text'[Taken' + 1] = input[k + 1] /\ k < Len(input)
    OBVIOUS
  <2>1. k # Len(input)
    BY <1>1, <1>2
  <2>2. k + 1 \in 1 .. Len(input)
    BY <1>1, <2>1
  <2>3. text[Taken + (k + 1)] = input[k + 1]
    BY <1>5, <2>2
  <2>4. Taken + (k + 1) = Taken' + 1
    BY <1>1, <1>4
  <2>5. QED  BY <1>1, <1>2, <2>1, <2>3, <2>4
<1>8. input' = <<>> => k = Len(input)
  BY <1>1, <1>3
<1>9. QED  BY <1>1, <1>2, <1>4, <1>5, <1>6, <1>7, <1>8

LEMMA CountedNow ==
    ASSUME IInv, RestOfText
    PROVE  /\ Counted \in Nat
           /\ state # "cr" /\ input # <<>> => Counted = Taken
           /\ Taken > 0 /\ text[Taken] # CR => Counted = Taken
           /\ state = "cr" /\ Taken > 0 /\ text[Taken] = CR => Counted = Taken - 1
<1>1. Taken \in Nat
  BY Sizes
<1>2. QED  BY <1>1 DEF Counted

\* The place is known after each kind of move.
LEMMA PassesKept ==
    ASSUME IInv, RestOfText, PlaceKnown, NEW k, Passes(k)
    PROVE  RestOfText' /\ PlaceKnown'
<1>1. /\ input # <<>> /\ Taken \in Nat /\ Drops(k) /\ k \in 1 .. Len(input) /\ state # "cr"
      /\ UNCHANGED <<line, markPosition>>
      /\ \A j \in 1 .. k : input[j] \notin {CR, LF}
  BY Sizes DEF Passes, Drops
<1>2. /\ RestOfText' /\ Taken' = Taken + k /\ k \in Nat /\ k > 0
      /\ \A j \in 1 .. k : text'[Taken + j] = input[j]
      /\ \A i \in 1 .. Taken : text'[i] = text[i]
  BY <1>1, AfterDrop
<1>3. Counted = Taken
  BY <1>1, CountedNow
<1>4. text'[Taken'] = input[k] /\ input[k] \notin {CR, LF} /\ Taken' > 0
  BY <1>1, <1>2
<1>5. Counted' = Taken'
  BY <1>4 DEF Counted
<1>6. LineEnds(text', Taken') = LineEnds(text, Taken)
  <2>1. ASSUME NEW i \in Taken + 1 .. Taken' PROVE text'[i] \notin {CR, LF}
    <3>1. i - Taken \in 1 .. k /\ Taken + (i - Taken) = i
      BY <1>1, <1>2
    <3>2. text'[Taken + (i - Taken)] = input[i - Taken]
      BY <1>2, <3>1
    <3>3. QED  BY <1>1, <3>1, <3>2
  <2>2. Taken' \in Nat /\ Taken <= Taken'
    BY <1>1, <1>2
  <2>3. LineEnds(text', Taken') = LineEnds(text', Taken)
    BY <1>1, <2>1, <2>2, EndsKept
  <2>4. LineEnds(text', Taken) = LineEnds(text, Taken)
    BY <1>1, <1>2, EndsAgree
  <2>5. QED  BY <2>3, <2>4
<1>7. LinesOf(text', Counted', line', markPosition')
  BY <1>1, <1>3, <1>5, <1>6, LinesSame DEF PlaceKnown
<1>8. position' = Taken'
  BY <1>1, <1>2 DEF PlaceKnown, Drops
<1>9. ReturnSettled' /\ AsteriskTaken'
  BY <1>4 DEF Passes, ReturnSettled, AsteriskTaken
<1>10. QED  BY <1>2, <1>7, <1>8, <1>9 DEF PlaceKnown

LEMMA EndsLineKept ==
    ASSUME IInv, RestOfText, PlaceKnown, NEW k, EndsLine(k)
    PROVE  RestOfText' /\ PlaceKnown'
<1>1. /\ input # <<>> /\ Taken \in Nat /\ Drops(k) /\ k \in 1 .. Len(input) /\ state # "cr"
      /\ state' # "cr" /\ state' # "slash_star_star"
  BY Sizes DEF EndsLine, Drops
<1>2. /\ RestOfText' /\ Taken' = Taken + k /\ k \in Nat /\ k > 0
      /\ \A j \in 1 .. k : text'[Taken + j] = input[j]
      /\ \A i \in 1 .. Taken : text'[i] = text[i]
      /\ input' # <<>> => text'[Taken' + 1] = input[k + 1] /\ k < Len(input)
      /\ input' = <<>> => k = Len(input)
  BY <1>1, AfterDrop
<1>3. Counted = Taken
  BY <1>1, CountedNow
<1>4. text'[Taken + 1] = input[1] /\ Taken' \in Nat /\ Taken' > 0
  <2>1. 1 \in 1 .. k
    BY <1>2
  <2>2. text'[Taken + 1] = input[1]
    BY <1>2, <2>1, Zenon
  <2>3. QED  BY <1>1, <1>2, <2>2
<1>5. k = 2 => text'[Taken + 2] = input[2]
  BY <1>2
<1>6. EndsAt(text', Taken, Taken')
  <2>1. CASE k = 1 /\ input[1] = LF
    <3>1. Taken > 0 => text[Taken] # CR
      <4>1. text[Taken + 1] = input[1]
        BY <1>1 DEF RestOfText
      <4>2. QED  BY <1>1, <2>1, <4>1 DEF PlaceKnown, ReturnSettled
    <3>2. Taken > 0 => text'[Taken] # CR
      BY <1>1, <1>2, <3>1
    <3>3. QED  BY <1>2, <1>4, <2>1, <3>2 DEF EndsAt
  <2>2. CASE k = 1 /\ input[1] = CR
    BY <1>2, <1>4, <2>2 DEF EndsAt
  <2>3. CASE k = 2 /\ input[1] = CR /\ input[2] = LF
    BY <1>2, <1>4, <1>5, <2>3 DEF EndsAt
  <2>4. QED  BY <2>1, <2>2, <2>3 DEF EndsLine
<1>7. Counted' = Taken' /\ ReturnSettled'
  <2>1. CASE text'[Taken'] = CR
    <3>1. k = 1 /\ input[1] = CR /\ Len(input) > 1 /\ input[2] # LF
      <4>1. k = 2 => text'[Taken'] = input[2]
        BY <1>2, <1>5
      <4>2. k = 1 => text'[Taken'] = input[1]
        BY <1>2, <1>4
      <4>3. QED  BY <2>1, <4>1, <4>2 DEF EndsLine, CR, LF
    <3>2. input' # <<>>
      BY <1>2, <3>1
    <3>3. text'[Taken' + 1] # LF
      BY <1>2, <3>1, <3>2
    <3>4. QED  BY <1>1, <3>2, <3>3 DEF Counted, ReturnSettled
  <2>2. CASE text'[Taken'] # CR
    BY <1>1, <2>2 DEF Counted, ReturnSettled
  <2>3. QED  BY <2>1, <2>2
<1>8. LinesOf(text', Taken', line + 1, Taken')
  <2>1. LineEnds(text', Taken) = LineEnds(text, Taken)
    BY <1>1, <1>2, EndsAgree
  <2>2. LinesOf(text', Taken, line, markPosition)
    BY <1>3, <2>1, LinesSame DEF PlaceKnown
  <2>3. QED  BY <1>1, <1>4, <1>6, <2>2, LinesGrow
<1>9. position' = Taken' /\ line' = line + 1 /\ markPosition' = position'
  BY <1>1, <1>2 DEF PlaceKnown, Drops, EndsLine
<1>10. QED  BY <1>1, <1>2, <1>7, <1>8, <1>9 DEF PlaceKnown, AsteriskTaken

LEMMA WaitsKept ==
    ASSUME IInv, RestOfText, PlaceKnown, Waits
    PROVE  RestOfText' /\ PlaceKnown'
<1>1. /\ input # <<>> /\ Taken \in Nat /\ Drops(1) /\ input[1] = CR /\ state # "cr"
      /\ state' = "cr" /\ UNCHANGED <<line, markPosition>>
  BY Sizes DEF Waits, Drops
<1>2. /\ RestOfText' /\ Taken' = Taken + 1
      /\ \A j \in 1 .. 1 : text'[Taken + j] = input[j]
      /\ \A i \in 1 .. Taken : text'[i] = text[i]
  BY <1>1, AfterDrop
<1>3. Counted = Taken
  BY <1>1, CountedNow
<1>4. text'[Taken'] = CR /\ Taken' > 0 /\ Taken' - 1 = Taken
  BY <1>1, <1>2
<1>5. Counted' = Taken
  BY <1>1, <1>4 DEF Counted
<1>6. LinesOf(text', Counted', line', markPosition')
  <2>1. LineEnds(text', Taken) = LineEnds(text, Taken)
    BY <1>1, <1>2, EndsAgree
  <2>2. QED  BY <1>1, <1>3, <1>5, <2>1, LinesSame DEF PlaceKnown
<1>7. position' = Taken'
  BY <1>1, <1>2 DEF PlaceKnown, Drops
<1>8. QED  BY <1>1, <1>2, <1>4, <1>6, <1>7 DEF PlaceKnown, ReturnSettled, AsteriskTaken

LEMMA ResumesKept ==
    ASSUME IInv, RestOfText, PlaceKnown, Resumes
    PROVE  RestOfText' /\ PlaceKnown'
<1>1. /\ Taken \in Nat /\ input # <<>> /\ Len(input) \in Nat /\ Len(input) > 0
      /\ state = "cr" /\ Taken > 0 /\ text[Taken] = CR
      /\ state' # "cr" /\ state' # "slash_star_star"
      /\ line' = line + 1 /\ markPosition' = position'
  BY Sizes DEF Resumes, PlaceKnown, ReturnSettled
<1>. DEFINE n == Taken - 1
<1>2. Counted = n /\ n \in Nat /\ LinesOf(text, n, line, markPosition) /\ position = Taken
  BY <1>1, CountedNow DEF PlaceKnown
<1>3. CASE Drops(1) /\ input[1] = LF
  <2>1. /\ RestOfText' /\ Taken' = Taken + 1
        /\ \A j \in 1 .. 1 : text'[Taken + j] = input[j]
        /\ \A i \in 1 .. Taken : text'[i] = text[i]
    BY <1>3, AfterDrop
  <2>2. text'[n + 1] = CR /\ text'[Taken'] = LF /\ Taken' = n + 2 /\ Taken' \in Nat
    BY <1>1, <1>3, <2>1
  <2>3. EndsAt(text', n, Taken')
    BY <2>2 DEF EndsAt
  <2>4. LineEnds(text', n) = LineEnds(text, n)
    BY <1>1, <1>2, <2>1, EndsAgree
  <2>5. LinesOf(text', n, line, markPosition)
    BY <1>2, <2>4, LinesSame
  <2>6. LinesOf(text', Taken', line + 1, Taken')
    BY <1>2, <2>2, <2>3, <2>5, LinesGrow
  <2>7. Counted' = Taken'
    BY <2>2 DEF Counted, CR, LF
  <2>8. position' = Taken'
    BY <1>2, <1>3, <2>1 DEF Drops
  <2>9. ReturnSettled' /\ AsteriskTaken'
    BY <1>1, <2>2 DEF ReturnSettled, AsteriskTaken, CR, LF
  <2>10. QED  BY <1>1, <2>1, <2>6, <2>7, <2>8, <2>9 DEF PlaceKnown
<1>4. CASE UNCHANGED <<input, text, position, ended>> /\ input[1] # LF
  <2>1. RestOfText' /\ Taken' = Taken /\ Counted' = Taken
    BY <1>1, <1>4 DEF RestOfText, Taken, Counted
  <2>2. EndsAt(text, n, Taken)
    BY <1>1 DEF EndsAt
  <2>3. LinesOf(text, Taken, line + 1, Taken)
    BY <1>1, <1>2, <2>2, LinesGrow
  <2>4. text[Taken + 1] = input[1]
    BY <1>1 DEF RestOfText
  <2>5. ReturnSettled' /\ AsteriskTaken'
    BY <1>1, <1>4, <2>1, <2>4 DEF ReturnSettled, AsteriskTaken
  <2>6. QED  BY <1>1, <1>2, <1>4, <2>1, <2>3, <2>5 DEF PlaceKnown
<1>5. QED  BY <1>3, <1>4 DEF Resumes

LEMMA RestsKept ==
    ASSUME IInv, RestOfText, PlaceKnown, Rests
    PROVE  RestOfText' /\ PlaceKnown'
<1>1. /\ UNCHANGED <<input, text, position, line, markPosition, ended>>
      /\ Taken' = Taken /\ Taken \in Nat
  BY Sizes DEF Rests, Taken
<1>2. RestOfText'
  BY <1>1 DEF RestOfText
<1>3. Counted' = Counted
  BY <1>1 DEF Rests, Counted, PlaceKnown, ReturnSettled
<1>4. ReturnSettled' /\ AsteriskTaken'
  BY <1>1 DEF Rests, ReturnSettled, AsteriskTaken, PlaceKnown
<1>5. QED  BY <1>1, <1>2, <1>3, <1>4 DEF PlaceKnown

\* What a carriage return has put off.
LEMMA UnderReturn ==
    ASSUME IInv, ec = "none", state = "cr"
    PROVE  Top \in BetweenStates \cup {"accept", "done", "slash_star"}
<1>1. CASE Len(stateStack) = Frames + 1
  BY <1>1 DEF IInv, Consistent, StackShape, Base, Top, Frames, TypeOK
<1>2. CASE Len(stateStack) = Frames + 2
  BY <1>2 DEF IInv, Consistent, StackShape, Top, Frames, TypeOK
<1>3. QED  BY <1>1, <1>2 DEF IInv, Consistent, StackShape

LEMMA MovesKept ==
    ASSUME IInv, ec = "none", RestOfText, PlaceKnown, CommentsPassed, Moves
    PROVE  RestOfText' /\ PlaceKnown' /\ CommentsPassed'
<1>1. RestOfText' /\ PlaceKnown'
  BY PassesKept, EndsLineKept, WaitsKept, ResumesKept, RestsKept DEF Moves, Advances
<1>2. CommentsPassed'
  <2>1. CASE UNCHANGED <<state, stateStack>>
    BY <2>1 DEF CommentsPassed, Top
  <2>2. CASE state = "cr" /\ state' = Top
    <3>1. state' \in BetweenStates \cup {"accept", "done", "slash_star"}
      BY <2>2, UnderReturn
    <3>2. state' \notin {"cr", "slash_star_star"}
      BY <3>1 DEF BetweenStates, ValueStates, NameStates
    <3>3. QED  BY <2>2, <3>2 DEF CommentsPassed
  <2>3. CASE state' = "cr" /\ Top' = state
    BY <2>3 DEF CommentsPassed
  <2>4. QED  BY <2>1, <2>2, <2>3 DEF Moves, CommentsGoOn, CommentsPassed
<1>3. QED  BY <1>1, <1>2

------------------------------------------------------------------------------
\* Every step is one of the moves.

LEMMA DropsOne ==
    ASSUME IInv, input # <<>>, Take, UNCHANGED <<text, ended>>
    PROVE  Drops(1) /\ 1 \in 1 .. Len(input) /\ Here = input[1]
<1>1. input \in Seq(Byte) /\ Len(input) \in Nat /\ Len(input) > 0
  BY DEF IInv, TypeOK
<1>2. Tail(input) = SubSeq(input, 2, Len(input)) /\ Head(input) = input[1]
  BY <1>1
<1>3. QED  BY <1>1, <1>2 DEF Drops, Take, Here

\* A byte is taken that is no line end.
OneByte ==
    /\ input # <<>> /\ Take /\ Here \notin {CR, LF}
    /\ UNCHANGED <<text, ended, line, markPosition>>
    /\ state # "cr" /\ state' \notin {"cr", "slash_star", "slash_star_star"}

LEMMA OneByteMoves == ASSUME IInv, OneByte PROVE Moves
<1>1. Drops(1) /\ 1 \in 1 .. Len(input) /\ Here = input[1]
  BY DropsOne DEF OneByte
<1>2. Passes(1)
  BY <1>1 DEF Passes, OneByte
<1>3. QED  BY <1>1, <1>2 DEF Moves, Advances, CommentsGoOn, OneByte

\* Where the loop is in a step: not in state cr, and at a byte of the input.
LEMMA LoopPlace ==
    ASSUME NEW S, At(S), "cr" \notin S, LoopFrame
    PROVE  /\ input # <<>> /\ ec = "none" /\ state \in S /\ state # "cr" /\ UNCHANGED <<text, ended>>
           /\ phase = "parse" /\ more /\ UNCHANGED phase
BY DEF At, LoopFrame, supply

LEMMA StateSets ==
    /\ "cr" \notin BetweenStates \cup LiteralStates \cup CommentStates
    /\ {"slash_star", "slash_star_star"} \cap (BetweenStates \cup LiteralStates) = {}
    /\ ValueStates \cup NameStates \subseteq BetweenStates
    /\ {"expect_comma_or_end", "expect_colon"} \subseteq BetweenStates
BY DEF BetweenStates, ValueStates, NameStates, LiteralStates, CommentStates

\* Bytes that are no line ends.
LEMMA PlainBytes ==
    /\ CR \in Blank /\ LF \in Blank /\ CR \notin ControlByte /\ LF \notin ControlByte
    /\ {Quote, Apostrophe, Asterisk, Comma, Minus, Slash, Colon, LBracket, RBracket, LBrace, RBrace,
        Backslash, LowU, Dot, Plus, Zero} \cap {CR, LF} = {}
    /\ (EscapeBytes \cup HexDigit \cup Digit \cup ExpMark \cup NonzeroDigit) \cap {CR, LF} = {}
BY DEF CR, LF, Blank, ControlByte, Quote, Apostrophe, Asterisk, Comma, Minus, Slash, Colon,
   LBracket, RBracket, LBrace, RBrace, Backslash, LowU, Dot, Plus, Zero, EscapeBytes, HexDigit,
   Digit, ExpMark, NonzeroDigit, LowB, LowF, LowN, LowR, LowT, LowE, BigE, HTab, Space

LEMMA PassedOver ==
    ASSUME NEW e, Skip(e), ec' = "none", e # "none"
    PROVE  Take
BY DEF Skip, Abort

LEMMA ContainerMoves ==
    ASSUME IInv, ec' = "none", BeginObject \/ EndObject \/ BeginArray \/ EndArray \/ NextMember \/ TakeColon
    PROVE  Moves
<1>1. input # <<>> /\ UNCHANGED <<text, ended>> /\ state \in BetweenStates /\ state # "cr"
  <2>1. At(BetweenStates) /\ LoopFrame
    BY DEF BeginObject, EndObject, BeginArray, EndArray, NextMember, TakeColon, At, BetweenStates,
       ValueStates
  <2>2. QED  BY <2>1, StateSets, LoopPlace
<1>2. UNCHANGED <<line, markPosition>>
  BY DEF BeginObject, EndObject, BeginArray, EndArray, NextMember, TakeColon, marks
<1>3. Here \notin {CR, LF}
  BY PlainBytes DEF BeginObject, EndObject, BeginArray, EndArray, NextMember, TakeColon
<1>4. Take
  BY PassedOver DEF BeginObject, EndObject, BeginArray, EndArray, NextMember, TakeColon
<1>5. state' \notin {"cr", "slash_star", "slash_star_star"}
  <2>1. ASSUME NEW kind, NEW c, NEW mismatch, NEW unexpected, mismatch # "none", unexpected # "none",
               EndContainer(kind, c, mismatch, unexpected)
        PROVE  state' \notin {"cr", "slash_star", "slash_star_star"}
    BY <2>1 DEF EndContainer, Abort, ValueDone
  <2>2. CASE BeginObject \/ BeginArray
    BY <2>2 DEF BeginObject, BeginArray, Abort, TooDeep
  <2>3. CASE EndObject
    BY <2>1, <2>3, <1>1 DEF EndObject, Abort
  <2>4. CASE EndArray
    BY <2>1, <2>4, <1>1, StateSets DEF EndArray, Abort, nest
  <2>5. CASE NextMember
    BY <2>5, <1>1, StateSets DEF NextMember, Containers
  <2>6. CASE TakeColon
    BY <2>6 DEF TakeColon
  <2>7. QED  BY <2>2, <2>3, <2>4, <2>5, <2>6
<1>6. QED  BY <1>1, <1>2, <1>3, <1>4, <1>5, OneByteMoves DEF OneByte

LEMMA OddByteMoves ==
    ASSUME IInv, ec' = "none", ControlCharacter \/ Unexpected \/ UnexpectedAtStart \/ NumberError \/ EscapeError
    PROVE  Moves
<1>1. input # <<>> /\ UNCHANGED <<text, ended>> /\ UNCHANGED <<line, markPosition>> /\ UNCHANGED state
  BY DEF ControlCharacter, Unexpected, UnexpectedAtStart, NumberError, EscapeError, At, InString,
     LoopFrame, StringFrame, supply, marks, nest
<1>2. CASE ControlCharacter
  <2>1. Here \notin {CR, LF} /\ state # "cr" /\ state \in BetweenStates
    BY <1>2, PlainBytes, StateSets DEF ControlCharacter, At
  <2>2. Take \/ Stay
    BY <1>2, PassedOver DEF ControlCharacter
  <2>3. CASE Take
    BY <1>1, <2>1, <2>3, OneByteMoves, StateSets DEF OneByte
  <2>4. CASE Stay
    BY <1>1, <1>2, <2>4 DEF Stay, Rests, Moves, Advances, CommentsGoOn, ControlCharacter, nest
  <2>5. QED  BY <2>2, <2>3, <2>4
<1>3. CASE Unexpected
  <2>1. state # "cr" /\ state \in BetweenStates
    BY <1>3, StateSets DEF Unexpected, At
  <2>2. Here \notin {CR, LF}
    BY <1>3, PlainBytes DEF Unexpected, Expected
  <2>3. Take
    <3>1. \E e \in Errors : Skip(e)
      BY <1>3 DEF Unexpected, Errors, At, BetweenStates, ValueStates, NameStates
    <3>2. "none" \notin Errors
      BY DEF Errors, Utf8Error
    <3>3. QED  BY <3>1, <3>2, PassedOver
  <2>4. QED  BY <1>1, <2>1, <2>2, <2>3, OneByteMoves, StateSets DEF OneByte
<1>4. CASE UnexpectedAtStart \/ NumberError \/ EscapeError
  BY <1>4 DEF UnexpectedAtStart, NumberError, EscapeError, Abort
<1>5. QED  BY <1>2, <1>3, <1>4

LEMMA LiteralBytes ==
    ASSUME NEW s \in LiteralStates
    PROVE  /\ LiteralStep[s][1] \notin {CR, LF}
           /\ LiteralStep[s][2] \notin {"cr", "slash_star", "slash_star_star"}
<1>1. LiteralStep[s][1] \in {LowA, LowE, LowL, LowR, LowS, LowU}
  BY DEF LiteralStep, LiteralStates
<1>2. {LowA, LowE, LowL, LowR, LowS, LowU} \cap {CR, LF} = {}
  BY DEF LowA, LowE, LowL, LowR, LowS, LowU, CR, LF
<1>3. LiteralStep[s][2] \in LiteralStates \cup {""}
  BY DEF LiteralStep, LiteralStates
<1>4. {"cr", "slash_star", "slash_star_star"} \cap (LiteralStates \cup {""}) = {}
  BY DEF LiteralStates
<1>5. QED  BY <1>1, <1>2, <1>3, <1>4

LEMMA LiteralMoves ==
    ASSUME IInv, ec' = "none", ParseTrue \/ ParseFalse \/ ParseNull \/ ContinueLiteral
    PROVE  Moves
<1>1. ASSUME NEW word \in {TrueWord, FalseWord, NullWord}, NEW c, NEW s,
             s \notin {"cr", "slash_star", "slash_star_star"}, BeginLiteral(word, c, s)
      PROVE  Moves
  <2>1. /\ input # <<>> /\ UNCHANGED <<text, ended, line, markPosition>> /\ state # "cr"
        /\ Here = word[1]
    BY <1>1, LoopPlace, StateSets DEF BeginLiteral, marks
  <2>2. /\ Len(word) \in 1 .. 5
        /\ \A j \in 1 .. Len(word) : word[j] \notin {CR, LF}
    BY DEF TrueWord, FalseWord, NullWord, LowA, LowE, LowF, LowL, LowN, LowR, LowS, LowT, LowU, CR, LF
  <2>3. CASE Len(input) < Len(word)
    <3>1. Take /\ state' = s
      BY <1>1, <2>3 DEF BeginLiteral
    <3>2. Here \notin {CR, LF}
      BY <2>1, <2>2
    <3>3. QED  BY <1>1, <2>1, <3>1, <3>2, OneByteMoves DEF OneByte
  <2>4. CASE ~(Len(input) < Len(word))
    <3>1. SubSeq(input, 1, Len(word)) = word
      BY <1>1, <2>4 DEF BeginLiteral, Abort
    <3>2. /\ input' = SubSeq(input, Len(word) + 1, Len(input))
          /\ position' = position + Len(word)
          /\ state' \in {"accept", "expect_comma_or_end"}
      BY <1>1, <2>4, <3>1 DEF BeginLiteral, ValueDone
    <3>3. input \in Seq(Byte) /\ Len(input) \in Nat
      BY DEF IInv, TypeOK
    <3>4. Len(word) \in 1 .. Len(input)
      <4>1. PICK n \in 1 .. 5 : n = Len(word)
        BY <2>2, Zenon
      <4>2. PICK l \in Nat : l = Len(input)
        BY <3>3, Zenon
      <4>3. ~(l < n)
        BY <2>4, <4>1, <4>2, Zenon
      <4>4. n \in 1 .. l
        BY <4>3
      <4>5. QED  BY <4>1, <4>2, <4>4, Zenon
    <3>5. \A j \in 1 .. Len(word) : input[j] = word[j]
      <4>. DEFINE n == Len(word)
      <4>1. n \in 1 .. Len(input)
        BY <3>4
      <4>. HIDE DEF n
      <4>2. \A j \in 1 .. n : SubSeq(input, 1, n)[j] = input[j]
        BY <3>3, <4>1
      <4>3. QED  BY <3>1, <4>2 DEF n
    <3>6. Passes(Len(word))
      BY <2>1, <2>2, <3>2, <3>4, <3>5 DEF Passes, Drops
    <3>7. QED  BY <3>2, <3>4, <3>6 DEF Moves, Advances, CommentsGoOn
  <2>5. QED  BY <2>3, <2>4
<1>2. CASE ParseTrue
  BY <1>1, <1>2 DEF ParseTrue
<1>3. CASE ParseFalse
  BY <1>1, <1>3 DEF ParseFalse
<1>4. CASE ParseNull
  BY <1>1, <1>4 DEF ParseNull
<1>5. CASE ContinueLiteral
  <2>1. /\ input # <<>> /\ UNCHANGED <<text, ended, line, markPosition>> /\ state # "cr"
        /\ state \in LiteralStates
    BY <1>5, LoopPlace, StateSets DEF ContinueLiteral, marks
  <2>2. Here = LiteralStep[state][1]
    BY <1>5 DEF ContinueLiteral, Abort
  <2>3. Take
    BY <1>5, <2>2 DEF ContinueLiteral, Take
  <2>4. /\ LiteralStep[state][1] \notin {CR, LF}
        /\ LiteralStep[state][2] \notin {"cr", "slash_star", "slash_star_star"}
    BY <2>1, LiteralBytes
  <2>5. state' \in {"accept", "expect_comma_or_end", LiteralStep[state][2]}
    BY <1>5, <2>2 DEF ContinueLiteral, ValueDone
  <2>6. QED  BY <2>1, <2>2, <2>3, <2>4, <2>5, OneByteMoves DEF OneByte
<1>6. QED  BY <1>2, <1>3, <1>4, <1>5

LEMMA NumberMoves ==
    ASSUME IInv, ec' = "none", BeginNumber \/ NumberByte \/ EndNumber
    PROVE  Moves
<1>1. CASE BeginNumber
  <2>1. /\ input # <<>> /\ UNCHANGED <<text, ended, line, markPosition>> /\ state # "cr"
    BY <1>1, LoopPlace, StateSets DEF BeginNumber, marks
  <2>2. Take /\ Here \notin {CR, LF} /\ state' = "number"
    BY <1>1, PlainBytes DEF BeginNumber
  <2>3. QED  BY <2>1, <2>2, OneByteMoves DEF OneByte
<1>2. CASE NumberByte
  <2>1. /\ input # <<>> /\ UNCHANGED <<text, ended, line, markPosition>> /\ state = "number"
    BY <1>2, LoopPlace DEF NumberByte, marks
  <2>2. Take /\ UNCHANGED state /\ NumberNext(numberState, Here) \in NumberStates
    BY <1>2 DEF NumberByte, nest
  <2>3. Here \notin {CR, LF}
    <3>1. numberState \in NumberStates
      BY DEF IInv, TypeOK
    <3>2. Here \in Digit \cup NonzeroDigit \cup ExpMark \cup {Zero, Dot, Plus, Minus}
      BY <2>2, <3>1, Zenon DEF NumberNext, NumberStates
    <3>3. QED  BY <3>2, PlainBytes
  <2>4. QED  BY <2>1, <2>2, <2>3, OneByteMoves DEF OneByte
<1>3. CASE EndNumber
  <2>1. /\ UNCHANGED <<input, position, text, ended, line, markPosition>> /\ state = "number"
    BY <1>3, LoopPlace DEF EndNumber, Stay, marks
  <2>2. state' \in {"number", "expect_comma_or_end", "accept"}
    BY <1>3, <2>1 DEF EndNumber, CompleteNumber
  <2>3. QED  BY <2>1, <2>2 DEF Rests, Moves, Advances, CommentsGoOn
<1>4. QED  BY <1>1, <1>2, <1>3

LEMMA StringMoves ==
    ASSUME IInv, ec' = "none", LinesVisible,
           \/ BeginString \/ TextByte \/ IllegalTextByte \/ BeginEscape \/ SimpleEscape
           \/ UnicodeEscape \/ SurrogateBackslash \/ SurrogateU \/ HexByte \/ EndString
    PROVE  Moves
<1>1. input # <<>> /\ UNCHANGED <<text, ended, line, markPosition>> /\ state # "cr"
  <2>1. CASE BeginString
    BY <2>1, LoopPlace, StateSets DEF BeginString, marks
  <2>2. CASE EndString
    BY <2>2, LoopPlace DEF EndString, InString, marks
  <2>3. CASE \/ TextByte \/ IllegalTextByte \/ BeginEscape \/ SimpleEscape
             \/ UnicodeEscape \/ SurrogateBackslash \/ SurrogateU \/ HexByte
    <3>1. At({"string"}) /\ StringFrame
      BY <2>3 DEF TextByte, IllegalTextByte, BeginEscape, SimpleEscape, UnicodeEscape,
         SurrogateBackslash, SurrogateU, HexByte, InString
    <3>2. QED  BY <3>1, LoopPlace DEF StringFrame, marks
  <2>4. QED  BY <2>1, <2>2, <2>3
<1>2. Take
  <2>1. CASE BeginString \/ TextByte \/ BeginEscape \/ SimpleEscape \/ UnicodeEscape
             \/ SurrogateBackslash \/ SurrogateU
    BY <2>1 DEF BeginString, TextByte, BeginEscape, SimpleEscape, UnicodeEscape,
       SurrogateBackslash, SurrogateU, Label
  <2>2. CASE IllegalTextByte
    BY <2>2 DEF IllegalTextByte, Abort, Take
  <2>3. CASE HexByte
    BY <2>3 DEF HexByte, Abort, Label
  <2>4. CASE EndString
    <3>1. ValidUtf8(buffer)
      <4>1. ASSUME NEW stop \in Utf8Stop(buffer), Abort(SequenceError(buffer, stop)) PROVE FALSE
        BY <4>1 DEF Abort, Utf8Stop, IllegalAt
      <4>2. QED  BY <2>4, <4>1 DEF EndString
    <3>2. QED  BY <2>4, <3>1 DEF EndString, Take
  <2>5. QED  BY <2>1, <2>2, <2>3, <2>4
<1>3. Here \notin {CR, LF}
  <2>1. CASE BeginString \/ TextByte \/ BeginEscape \/ SimpleEscape \/ UnicodeEscape
             \/ SurrogateBackslash \/ SurrogateU \/ EndString
    BY <2>1, PlainBytes DEF BeginString, TextByte, BeginEscape, SimpleEscape, UnicodeEscape,
       SurrogateBackslash, SurrogateU, EndString
  <2>2. CASE IllegalTextByte
    BY <2>2, PlainBytes DEF IllegalTextByte, Abort, LinesVisible
  <2>3. CASE HexByte
    BY <2>3, PlainBytes DEF HexByte, Abort, LinesVisible
  <2>4. QED  BY <2>1, <2>2, <2>3
<1>4. state' \notin {"cr", "slash_star", "slash_star_star"}
  <2>1. CASE BeginString
    BY <2>1 DEF BeginString
  <2>2. CASE EndString
    BY <2>2 DEF EndString, InString, At, Abort
  <2>3. CASE \/ TextByte \/ IllegalTextByte \/ BeginEscape \/ SimpleEscape
             \/ UnicodeEscape \/ SurrogateBackslash \/ SurrogateU \/ HexByte
    <3>1. At({"string"}) /\ StringFrame
      BY <2>3 DEF TextByte, IllegalTextByte, BeginEscape, SimpleEscape, UnicodeEscape,
         SurrogateBackslash, SurrogateU, HexByte, InString
    <3>2. QED  BY <3>1 DEF StringFrame, At, nest
  <2>4. QED  BY <2>1, <2>2, <2>3
<1>5. QED  BY <1>1, <1>2, <1>3, <1>4, OneByteMoves DEF OneByte
LEMMA UnderComment ==
    ASSUME IInv, ec = "none", state \in CommentStates
    PROVE  Top \in BetweenStates
<1>1. StackShape /\ level \in Nat
  BY DEF IInv, Consistent, TypeOK
<1>2. Len(stateStack) = Frames + 1 /\ Base \in BetweenStates
  BY <1>1, Zenon DEF StackShape
<1>3. Len(stateStack) > Frames
  <2>1. Frames \in Nat
    BY <1>1 DEF Frames
  <2>2. ASSUME NEW n \in Nat PROVE n + 1 > n
    OBVIOUS
  <2>3. QED  BY <1>2, <2>1, <2>2, Zenon
<1>4. Base = stateStack[Frames + 1]
  BY <1>3, Zenon DEF Base
<1>5. Top = stateStack[Frames + 1]
  BY <1>2, Zenon DEF Top
<1>6. QED  BY <1>2, <1>4, <1>5, Zenon

\* The byte after an asterisk that comments have let through is no line end.
LEMMA BehindAsterisk ==
    ASSUME IInv, RestOfText, PlaceKnown, LinesVisible, state = "slash_star_star", input # <<>>
    PROVE  Here \notin {CR, LF}
<1>1. /\ Taken \in Nat /\ Taken > 0 /\ text[Taken] = Asterisk
      /\ AllowComments /\ "illegal_comment" \in Lenient
      /\ Len(input) \in Nat /\ Len(input) > 0 /\ Taken + Len(input) = Len(text)
      /\ Here = input[1]
  BY Sizes DEF PlaceKnown, AsteriskTaken, Here
<1>2. Taken \in 1 .. Len(text) - 1
  BY <1>1
<1>3. text[Taken + 1] = Here
  BY <1>1 DEF RestOfText
<1>4. QED  BY <1>1, <1>2, <1>3 DEF LinesVisible

LEMMA CommentMoves ==
    ASSUME IInv, ec' = "none", RestOfText, PlaceKnown, CommentsPassed, LinesVisible,
           BeginComment \/ CommentKind \/ LineComment \/ BlockComment \/ BlockCommentStar
    PROVE  Moves
<1>1. /\ input # <<>> /\ UNCHANGED <<text, ended>> /\ ec = "none" /\ state # "cr"
      /\ state \in BetweenStates \cup CommentStates
  BY LoopPlace, StateSets DEF BeginComment, CommentKind, LineComment, BlockComment,
     BlockCommentStar, CommentStates
<1>2. \A s \in BetweenStates : s \notin {"cr", "slash_star", "slash_star_star"}
  BY StateSets
<1>3. CASE BeginComment
  <2>1. Take /\ state' = "slash" /\ Here \notin {CR, LF} /\ UNCHANGED <<line, markPosition>>
    BY <1>3, PlainBytes DEF BeginComment, marks
  <2>2. QED  BY <1>1, <2>1, OneByteMoves DEF OneByte
<1>4. CASE CommentKind
  <2>1. UNCHANGED <<line, markPosition, stateStack>> /\ state = "slash"
    BY <1>4 DEF CommentKind, marks, At
  <2>2. Here \in {Asterisk, Slash} /\ AllowComments /\ Skip("illegal_comment")
    BY <1>4 DEF CommentKind, LinesVisible, Skip, Abort
  <2>3. "illegal_comment" \in Lenient /\ Take
    BY <2>2 DEF Skip, Abort
  <2>4. state' \in {"slash_star", "slash_slash"}
    BY <1>4, <2>2, <2>3 DEF CommentKind
  <2>5. Here \notin {CR, LF}
    BY <2>2, PlainBytes
  <2>6. Drops(1) /\ 1 \in 1 .. Len(input) /\ Here = input[1]
    BY <1>1, <2>3, DropsOne
  <2>7. Passes(1)
    BY <1>1, <2>1, <2>4, <2>5, <2>6 DEF Passes
  <2>8. CommentsGoOn
    BY <2>2, <2>3, <2>4 DEF CommentsGoOn
  <2>9. QED  BY <2>6, <2>7, <2>8 DEF Moves, Advances
<1>5. CASE LineComment
  <2>1. UNCHANGED <<line, markPosition>> /\ state = "slash_slash"
    BY <1>5 DEF LineComment, marks, At
  <2>2. CASE Here \in {CR, LF}
    <3>1. Stay /\ state' = Top
      BY <1>5, <2>2 DEF LineComment
    <3>2. state' \notin {"cr", "slash_star", "slash_star_star"}
      BY <1>1, <1>2, <2>1, <3>1, UnderComment DEF CommentStates
    <3>3. QED  BY <1>1, <2>1, <3>1, <3>2 DEF Stay, Rests, Moves, Advances, CommentsGoOn
  <2>3. CASE Here \notin {CR, LF}
    <3>1. Take /\ state' = state
      BY <1>5, <2>3 DEF LineComment
    <3>2. QED  BY <1>1, <2>1, <2>3, <3>1, OneByteMoves DEF OneByte
  <2>4. QED  BY <2>2, <2>3
<1>6. CASE BlockComment
  <2>1. state = "slash_star" /\ AllowComments /\ "illegal_comment" \in Lenient
    BY <1>6 DEF BlockComment, At, CommentsPassed
  <2>2. Drops(1) /\ 1 \in 1 .. Len(input) /\ Here = input[1]
    BY <1>1, <1>6, DropsOne DEF BlockComment
  <2>3. CASE Here = CR
    <3>1. /\ state' = "cr" /\ stateStack' = Append(stateStack, state)
          /\ UNCHANGED <<line, markPosition>>
      <4>1. Here = CR /\ Here # LF
        BY <2>3 DEF CR, LF
      <4>2. stateStack' = Append(stateStack, state) /\ line' = line /\ markPosition' = markPosition
        BY <1>6, <4>1, Zenon DEF BlockComment
      <4>3. state' = "cr"
        BY <1>6, <4>1 DEF BlockComment, CR, Asterisk
      <4>4. QED  BY <4>2, <4>3
    <3>2. Top' = state
      BY <3>1 DEF Top, IInv, TypeOK
    <3>3. QED  BY <1>1, <2>2, <2>3, <3>1, <3>2 DEF Waits, Moves, Advances, CommentsGoOn
  <2>4. CASE Here = LF
    <3>1. state' = state /\ line' = line + 1 /\ markPosition' = position'
      BY <1>6, <2>4 DEF BlockComment, CR, LF, Asterisk
    <3>2. QED  BY <2>1, <2>2, <2>4, <3>1 DEF EndsLine, Moves, Advances, CommentsGoOn
  <2>5. CASE Here \notin {CR, LF}
    <3>1. UNCHANGED <<line, markPosition>> /\ state' \in {"slash_star", "slash_star_star"}
      BY <1>6, <2>1, <2>5 DEF BlockComment
    <3>2. state' = "slash_star_star" => Here = Asterisk
      BY <1>6, <2>1, <2>5 DEF BlockComment
    <3>3. Passes(1)
      BY <1>1, <2>1, <2>2, <2>5, <3>1, <3>2 DEF Passes
    <3>4. QED  BY <2>1, <2>2, <3>1, <3>3 DEF Moves, Advances, CommentsGoOn
  <2>6. QED  BY <2>3, <2>4, <2>5
<1>7. CASE BlockCommentStar
  <2>1. /\ state = "slash_star_star" /\ AllowComments /\ "illegal_comment" \in Lenient
        /\ UNCHANGED <<line, markPosition>>
    BY <1>7 DEF BlockCommentStar, At, CommentsPassed, marks
  <2>2. Drops(1) /\ 1 \in 1 .. Len(input) /\ Here = input[1]
    BY <1>1, <1>7, DropsOne DEF BlockCommentStar
  <2>3. Here \notin {CR, LF}
    BY <1>1, <2>1, BehindAsterisk
  <2>4. state' \in BetweenStates \cup {"slash_star"}
    BY <1>1, <1>7, <2>1, UnderComment DEF BlockCommentStar, CommentStates
  <2>5. state' # "cr" /\ state' # "slash_star_star"
    BY <1>2, <2>4
  <2>6. Passes(1)
    BY <1>1, <2>1, <2>2, <2>3, <2>5 DEF Passes
  <2>7. QED  BY <2>1, <2>2, <2>5, <2>6 DEF Moves, Advances, CommentsGoOn
<1>8. QED  BY <1>3, <1>4, <1>5, <1>6, <1>7

LEMMA SkipSpaceMoves ==
    ASSUME IInv, ec' = "none", SkipSpace
    PROVE  Moves
<1>1. /\ input # <<>> /\ UNCHANGED <<text, ended>> /\ state # "cr"
      /\ state \notin {"slash_star", "slash_star_star"}
  <2>1. CASE At(BetweenStates)
    BY <2>1, StateSets DEF SkipSpace, At, LoopFrame, supply
  <2>2. CASE phase = "skip" /\ input # <<>> /\ state # "cr"
    <3>1. state \in {"start", "accept", "done"}
      BY <2>2 DEF IInv, Consistent, RunsFit, BetweenTexts
    <3>2. QED  BY <2>2, <3>1 DEF SkipSpace, LoopFrame, supply
  <2>3. QED  BY <2>1, <2>2 DEF SkipSpace
<1>2. input \in Seq(Byte) /\ Len(input) \in Nat /\ Len(input) > 0 /\ Here = input[1]
  BY <1>1 DEF IInv, TypeOK, Here
<1>3. CASE Here \notin {CR, LF}
  <2>1. Take /\ UNCHANGED <<line, markPosition, state>>
    BY <1>3 DEF SkipSpace, nest
  <2>2. QED  BY <1>1, <1>3, <2>1, OneByteMoves DEF OneByte
<1>4. CASE Here = LF
  <2>1. Take /\ UNCHANGED <<state, stateStack>> /\ line' = line + 1 /\ markPosition' = position'
    BY <1>4 DEF SkipSpace, nest, CR, LF
  <2>2. Drops(1) /\ 1 \in 1 .. Len(input)
    BY <1>1, <2>1, DropsOne
  <2>3. QED  BY <1>1, <1>2, <1>4, <2>1, <2>2 DEF EndsLine, Moves, Advances, CommentsGoOn
<1>5. CASE Here = CR /\ Len(input) = 1
  <2>1. Take /\ Push(state) /\ state' = "cr" /\ UNCHANGED <<line, markPosition>>
    BY <1>5 DEF SkipSpace, marks
  <2>2. Drops(1)
    BY <1>1, <2>1, DropsOne
  <2>3. Top' = state
    BY <2>1 DEF Push, Top, IInv, TypeOK
  <2>4. QED  BY <1>1, <1>2, <1>5, <2>1, <2>2, <2>3 DEF Waits, Moves, Advances, CommentsGoOn
<1>6. CASE Here = CR /\ Len(input) # 1
  <2>. DEFINE n == LineEndLength(input[2])
  <2>1. /\ input' = SubSeq(input, n + 1, Len(input)) /\ position' = position + n
        /\ line' = line + 1 /\ markPosition' = position' /\ UNCHANGED <<state, stateStack>>
    BY <1>6 DEF SkipSpace, nest
  <2>2. (n = 2 /\ input[2] = LF) \/ (n = 1 /\ input[2] # LF)
    BY DEF LineEndLength
  <2>. HIDE DEF n
  <2>3. n \in 1 .. Len(input) /\ Len(input) > 1
    <3>1. Len(input) > 1
      <4>1. \A m \in Nat : m > 0 /\ m # 1 => m > 1
        OBVIOUS
      <4>2. QED  BY <1>2, <1>6, <4>1
    <3>2. QED  BY <1>2, <2>2, <3>1
  <2>4. Drops(n)
    BY <1>1, <2>1, <2>3 DEF Drops
  <2>5. EndsLine(n)
    BY <1>1, <1>2, <1>6, <2>1, <2>2, <2>3, <2>4 DEF EndsLine
  <2>6. QED  BY <2>1, <2>3, <2>5 DEF Moves, Advances, CommentsGoOn
<1>7. QED  BY <1>3, <1>4, <1>5, <1>6

LEMMA ResumeCrMoves ==
    ASSUME IInv, ec' = "none", ResumeCr
    PROVE  Moves
<1>1. /\ input # <<>> /\ UNCHANGED <<text, ended>> /\ state = "cr" /\ ec = "none"
      /\ line' = line + 1 /\ markPosition' = position' /\ state' = Top
  BY DEF ResumeCr, At, LoopFrame, supply, IInv, Consistent
<1>2. state' \notin {"cr", "slash_star_star"}
  BY <1>1, UnderReturn DEF BetweenStates, ValueStates, NameStates
<1>3. \/ Drops(1) /\ input[1] = LF
      \/ UNCHANGED <<input, text, position, ended>> /\ input[1] # LF
  <2>1. CASE Here = LF
    BY <1>1, <2>1, DropsOne DEF ResumeCr
  <2>2. CASE Here # LF
    BY <1>1, <2>2 DEF ResumeCr, Stay, Here
  <2>3. QED  BY <2>1, <2>2
<1>4. QED  BY <1>1, <1>2, <1>3 DEF Resumes, Moves, Advances, CommentsGoOn

\* Steps that only change what goes on.
LEMMA QuietMoves ==
    ASSUME IInv, ec' = "none",
           \/ AcceptInLoop \/ Return \/ ParseAccepted \/ EndOfNumber \/ EndOfCr \/ UnexpectedEnd
           \/ ParseSome \/ SkipWhitespace \/ CheckDone \/ Restart
           \/ (\E on : SetCursorMode(on)) \/ (\E lvl : SetMarkLevel(lvl))
           \/ UNCHANGED vars
    PROVE  Moves
<1>1. CASE \/ Return \/ ParseSome \/ SkipWhitespace \/ CheckDone \/ Restart
           \/ (\E on : SetCursorMode(on)) \/ (\E lvl : SetMarkLevel(lvl)) \/ UNCHANGED vars
  <2>1. UNCHANGED <<input, text, position, line, markPosition, ended, state, stateStack>>
    BY <1>1 DEF Return, ParseSome, SkipWhitespace, CheckDone, Restart, SetCursorMode, SetMarkLevel,
       vars, nest, marks, supply
  <2>2. QED  BY <2>1 DEF Rests, Moves, Advances, CommentsGoOn
<1>2. CASE AcceptInLoop \/ ParseAccepted
  <2>1. UNCHANGED <<input, text, position, line, markPosition, ended>>
    BY <1>2 DEF AcceptInLoop, ParseAccepted, Stay, marks, supply, LoopFrame
  <2>2. state = "accept" /\ state' = "done"
    BY <1>2 DEF AcceptInLoop, ParseAccepted, Finish, At
  <2>3. QED  BY <2>1, <2>2 DEF Rests, Moves, Advances, CommentsGoOn
<1>3. CASE EndOfNumber
  <2>1. UNCHANGED <<input, text, position, line, markPosition, ended, stateStack>> /\ state = "number"
    BY <1>3 DEF EndOfNumber, AtEnd, marks, supply
  <2>2. state' \in {"number", "accept", "expect_comma_or_end"}
    BY <1>3, <2>1 DEF EndOfNumber, CompleteNumber, Abort
  <2>3. QED  BY <2>1, <2>2 DEF Rests, Moves, Advances, CommentsGoOn
<1>4. CASE EndOfCr
  <2>1. /\ UNCHANGED <<input, text, position, line, markPosition, ended>>
        /\ state = "cr" /\ input = <<>> /\ ended /\ ec = "none" /\ state' = Top
    BY <1>4 DEF EndOfCr, AtEnd, Calling, marks, supply
  <2>2. state' \notin {"cr", "slash_star_star"}
    BY <2>1, UnderReturn DEF BetweenStates, ValueStates, NameStates
  <2>3. QED  BY <2>1, <2>2 DEF Rests, Moves, Advances, CommentsGoOn
<1>5. CASE UnexpectedEnd
  BY <1>5 DEF UnexpectedEnd, Abort
<1>6. QED  BY <1>1, <1>2, <1>3, <1>4, <1>5
\* An error is final for the text.
LEMMA ErrorStays ==
    ASSUME IInv, ec' = "none",
           \/ Work \/ ParseSome \/ SkipWhitespace \/ CheckDone \/ Restart
           \/ (\E on : SetCursorMode(on)) \/ (\E lvl : SetMarkLevel(lvl)) \/ UNCHANGED vars
    PROVE  ec = "none"
<1>1. CASE Iterate
  BY <1>1, Zenon DEF Iterate, ControlCharacter, BeginObject, EndObject, BeginArray, EndArray,
     NextMember, TakeColon, Unexpected, UnexpectedAtStart, BeginComment, CommentKind, LineComment,
     BlockComment, BlockCommentStar, ParseTrue, ParseFalse, ParseNull, BeginLiteral,
     ContinueLiteral, BeginNumber, NumberByte, NumberError, EndNumber, BeginString, TextByte,
     IllegalTextByte, BeginEscape, SimpleEscape, UnicodeEscape, SurrogateBackslash, SurrogateU,
     EscapeError, HexByte, EndString, AcceptInLoop, At, InString
<1>2. CASE SkipSpace \/ ResumeCr \/ CheckByte \/ Return
  BY <1>2 DEF SkipSpace, ResumeCr, CheckByte, Return, At, IInv, Consistent
<1>3. CASE \/ ParseAccepted \/ EndOfNumber \/ EndOfCr \/ UnexpectedEnd
           \/ ParseSome \/ SkipWhitespace \/ CheckDone \/ Restart
           \/ (\E on : SetCursorMode(on)) \/ (\E lvl : SetMarkLevel(lvl)) \/ UNCHANGED vars
  BY <1>3 DEF ParseAccepted, EndOfNumber, EndOfCr, UnexpectedEnd, AtEnd, Calling, ParseSome,
     SkipWhitespace, CheckDone, Restart, SetCursorMode, SetMarkLevel, vars
<1>4. QED  BY <1>1, <1>2, <1>3 DEF Work

LEMMA IterateMoves ==
    ASSUME IInv, ec' = "none", RestOfText, PlaceKnown, CommentsPassed, LinesVisible, Iterate
    PROVE  Moves
BY ContainerMoves, OddByteMoves, CommentMoves, LiteralMoves, NumberMoves, StringMoves, QuietMoves
   DEF Iterate

------------------------------------------------------------------------------
\* The input remains what is left of the text, even after an error.

\* Bytes are only taken from the front.
Shrinks ==
    /\ text' = text
    /\ \/ input' = input
       \/ input # <<>> /\ input' = Tail(input)
       \/ \E k \in 1 .. Len(input) : input' = SubSeq(input, k + 1, Len(input))

LEMMA ShrinksRest == ASSUME IInv, RestOfText, Shrinks PROVE RestOfText'
<1>1. CASE input' = input
  BY <1>1 DEF Shrinks, RestOfText, Taken
<1>2. ASSUME NEW k \in 1 .. Len(input), input' = SubSeq(input, k + 1, Len(input))
      PROVE  RestOfText'
  <2>1. /\ input \in Seq(Byte) /\ Len(text) \in Nat /\ Len(input) \in Nat /\ Taken \in Nat
        /\ Taken + Len(input) = Len(text) /\ k \in Nat /\ k <= Len(input)
    BY Sizes, <1>2
  <2>2. Len(input') = Len(input) - k /\ \A j \in 1 .. Len(input) - k : input'[j] = input[j + k]
    BY <1>2, <2>1
  <2>3. Taken' = Taken + k
    <3>1. Taken' = Len(text) - (Len(input) - k)
      BY <2>2 DEF Taken, Shrinks
    <3>2. QED  BY <2>1, <3>1
  <2>4. ASSUME NEW j \in 1 .. Len(input') PROVE input'[j] = text'[Taken' + j]
    <3>1. j + k \in 1 .. Len(input) /\ j \in 1 .. Len(input) - k /\ Taken + (j + k) = Taken' + j
      BY <2>1, <2>2, <2>3
    <3>2. input'[j] = text[Taken + (j + k)]
      BY <2>2, <3>1 DEF RestOfText
    <3>3. QED  BY <3>1, <3>2 DEF Shrinks
  <2>5. Len(input') <= Len(text')
    BY <2>1, <2>2 DEF Shrinks
  <2>6. QED  BY <2>4, <2>5 DEF RestOfText
<1>3. CASE input # <<>> /\ input' = Tail(input)
  <2>1. input' = SubSeq(input, 1 + 1, Len(input)) /\ 1 \in 1 .. Len(input)
    BY <1>3 DEF IInv, TypeOK
  <2>2. QED  BY <1>2, <2>1
<1>4. QED  BY <1>1, <1>2, <1>3 DEF Shrinks

LEMMA IterateShrinks == ASSUME IInv, Iterate PROVE Shrinks
<1>1. text' = text /\ input # <<>>
  BY Zenon DEF Iterate, ControlCharacter, BeginObject, EndObject, BeginArray, EndArray, NextMember,
     TakeColon, Unexpected, UnexpectedAtStart, BeginComment, CommentKind, LineComment, BlockComment,
     BlockCommentStar, ParseTrue, ParseFalse, ParseNull, BeginLiteral, ContinueLiteral, BeginNumber,
     NumberByte, NumberError, EndNumber, BeginString, TextByte, IllegalTextByte, BeginEscape,
     SimpleEscape, UnicodeEscape, SurrogateBackslash, SurrogateU, EscapeError, HexByte, EndString,
     AcceptInLoop, At, InString, LoopFrame, StringFrame, supply
<1>2. ASSUME NEW word \in {TrueWord, FalseWord, NullWord}, NEW c, NEW s, BeginLiteral(word, c, s)
      PROVE  Shrinks
  <2>1. CASE Len(input) < Len(word) \/ SubSeq(input, 1, Len(word)) # word
    BY <1>1, <1>2, <2>1 DEF BeginLiteral, Take, Stay, Shrinks
  <2>2. CASE ~(Len(input) < Len(word) \/ SubSeq(input, 1, Len(word)) # word)
    <3>1. input' = SubSeq(input, Len(word) + 1, Len(input))
      BY <1>2, <2>2 DEF BeginLiteral
    <3>2. Len(word) \in 1 .. 5
      BY DEF TrueWord, FalseWord, NullWord
    <3>3. Len(input) \in Nat
      BY DEF IInv, TypeOK
    <3>4. Len(word) \in 1 .. Len(input)
      <4>1. PICK n \in 1 .. 5 : n = Len(word)
        BY <3>2, Zenon
      <4>2. PICK l \in Nat : l = Len(input)
        BY <3>3, Zenon
      <4>3. ~(l < n)
        BY <2>2, <4>1, <4>2, Zenon
      <4>4. n \in 1 .. l
        BY <4>3
      <4>5. QED  BY <4>1, <4>2, <4>4, Zenon
    <3>5. QED  BY <1>1, <3>1, <3>4 DEF Shrinks
  <2>3. QED  BY <2>1, <2>2
<1>3. CASE ParseTrue \/ ParseFalse \/ ParseNull
  BY <1>2, <1>3 DEF ParseTrue, ParseFalse, ParseNull
<1>4. CASE ~(ParseTrue \/ ParseFalse \/ ParseNull)
  <2>1. input' = input \/ input' = Tail(input)
    BY <1>4, Zenon DEF Iterate, ControlCharacter, BeginObject, EndObject, BeginArray, EndArray,
       NextMember, TakeColon, Unexpected, UnexpectedAtStart, BeginComment, CommentKind, LineComment,
       BlockComment, BlockCommentStar, ContinueLiteral, BeginNumber, NumberByte, NumberError,
       EndNumber, BeginString, TextByte, IllegalTextByte, BeginEscape, SimpleEscape, UnicodeEscape,
       SurrogateBackslash, SurrogateU, EscapeError, HexByte, EndString, AcceptInLoop, Take, Stay,
       Skip, Label
  <2>2. QED  BY <1>1, <2>1 DEF Shrinks
<1>5. QED  BY <1>3, <1>4

LEMMA SkipSpaceShrinks == ASSUME IInv, SkipSpace PROVE Shrinks
<1>1. text' = text /\ input # <<>> /\ Len(input) \in Nat /\ Len(input) > 0
  BY DEF SkipSpace, At, LoopFrame, supply, IInv, TypeOK
<1>2. CASE Here # CR \/ Len(input) = 1
  BY <1>1, <1>2 DEF SkipSpace, Take, Shrinks
<1>3. CASE ~(Here # CR \/ Len(input) = 1)
  <2>. DEFINE n == LineEndLength(input[2])
  <2>1. input' = SubSeq(input, n + 1, Len(input))
    BY <1>3 DEF SkipSpace
  <2>2. n \in {1, 2}
    BY DEF LineEndLength
  <2>. HIDE DEF n
  <2>3. \A m \in Nat : m > 0 /\ m # 1 => 1 \in 1 .. m /\ 2 \in 1 .. m
    OBVIOUS
  <2>4. n \in 1 .. Len(input)
    BY <1>1, <1>3, <2>2, <2>3
  <2>5. QED  BY <1>1, <2>1, <2>4 DEF Shrinks
<1>4. QED  BY <1>2, <1>3

LEMMA WorkShrinks ==
    ASSUME IInv,
           \/ Work \/ ParseSome \/ SkipWhitespace \/ CheckDone \/ Restart
           \/ (\E on : SetCursorMode(on)) \/ (\E lvl : SetMarkLevel(lvl)) \/ UNCHANGED vars
    PROVE  Shrinks
<1>1. CASE ResumeCr \/ CheckByte
  BY <1>1 DEF ResumeCr, CheckByte, At, Take, Stay, LoopFrame, supply, Shrinks
<1>2. CASE \/ Return \/ ParseAccepted \/ EndOfNumber \/ EndOfCr \/ UnexpectedEnd
           \/ ParseSome \/ SkipWhitespace \/ CheckDone \/ Restart
           \/ (\E on : SetCursorMode(on)) \/ (\E lvl : SetMarkLevel(lvl)) \/ UNCHANGED vars
  BY <1>2, Zenon DEF Return, ParseAccepted, EndOfNumber, EndOfCr, UnexpectedEnd, AtEnd, ParseSome,
     SkipWhitespace, CheckDone, Restart, SetCursorMode, SetMarkLevel, vars, supply, Shrinks
<1>3. QED  BY <1>1, <1>2, IterateShrinks, SkipSpaceShrinks DEF Work

LEMMA ChunkType ==
    ASSUME IInv, NEW chunk \in Callers[caller].chunks \cup {<<>>}
    PROVE  chunk \in Seq(Byte)
<1>1. CASE chunk = <<>>
  BY <1>1, NoArgument
<1>2. CASE chunk \in Callers[caller].chunks
  <2>1. Callers[caller].chunks \subseteq Seq(Byte) \ {<<>>}
    BY CallerAssumption DEF IInv, TypeOK
  <2>2. QED  BY <1>2, <2>1
<1>3. QED  BY <1>1, <1>2

LEMMA Supplied ==
    ASSUME IInv, RestOfText, NEW chunk \in Callers[caller].chunks \cup {<<>>}, NEW last,
           Update(chunk, last)
    PROVE  /\ RestOfText' /\ Taken' = Taken /\ Taken = Len(text) /\ Len(text') >= Len(text)
           /\ \A i \in 1 .. Len(text) : text'[i] = text[i]
<1>1. /\ chunk \in Seq(Byte) /\ text \in Seq(Byte) /\ input = <<>> /\ input' = chunk
      /\ text' = text \o chunk
  BY ChunkType DEF Update, IInv, TypeOK
<1>2. /\ Len(text') = Len(text) + Len(chunk) /\ Len(text) \in Nat /\ Len(chunk) \in Nat
      /\ \A i \in 1 .. Len(text) : text'[i] = text[i]
      /\ \A k \in 1 .. Len(chunk) : text'[Len(text) + k] = chunk[k]
  BY <1>1
<1>3. Taken = Len(text)
  BY <1>1, <1>2 DEF Taken
<1>4. Taken' = Len(text)
  <2>1. Taken' = Len(text') - Len(chunk)
    BY <1>1 DEF Taken
  <2>2. QED  BY <1>2, <2>1
<1>5. RestOfText'
  BY <1>1, <1>2, <1>4 DEF RestOfText
<1>6. QED  BY <1>2, <1>3, <1>4, <1>5

LEMMA UpdateKept ==
    ASSUME IInv, RestOfText, PlaceKnown, CommentsPassed,
           NEW chunk \in Callers[caller].chunks \cup {<<>>}, NEW last, Update(chunk, last)
    PROVE  PlaceKnown' /\ CommentsPassed'
<1>1. /\ UNCHANGED <<state, stateStack, position, line, markPosition>> /\ input = <<>> /\ ~ended
  BY DEF Update, nest, marks
<1>2. /\ Taken' = Taken /\ Taken \in Nat /\ Taken = Len(text)
      /\ \A i \in 1 .. Taken : text'[i] = text[i]
  BY Supplied, Sizes
<1>3. Taken > 0 => text'[Taken] = text[Taken]
  BY <1>2
<1>4. state # "cr" /\ Taken > 0 => text[Taken] # CR
  BY <1>1 DEF PlaceKnown, ReturnSettled
<1>5. state = "cr" => Taken > 0 /\ text[Taken] = CR
  BY DEF PlaceKnown, ReturnSettled
<1>6. Counted' = Counted /\ Counted \in Nat /\ Counted <= Taken
  <2>1. CASE state = "cr"
    BY <1>1, <1>2, <1>3, <1>5, <2>1 DEF Counted
  <2>2. CASE state # "cr"
    BY <1>1, <1>2, <1>3, <1>4, <2>2 DEF Counted
  <2>3. QED  BY <2>1, <2>2
<1>7. LineEnds(text', Counted') = LineEnds(text, Counted)
  <2>1. \A i \in 1 .. Counted : text'[i] = text[i]
    BY <1>2, <1>6
  <2>2. LineEnds(text', Counted) = LineEnds(text, Counted)
    BY <1>6, <2>1, EndsAgree
  <2>3. QED  BY <1>6, <2>2
<1>8. LinesOf(text', Counted', line', markPosition')
  BY <1>1, <1>7, LinesSame DEF PlaceKnown
<1>9. ReturnSettled' /\ AsteriskTaken'
  BY <1>1, <1>2, <1>3, <1>4, <1>5 DEF ReturnSettled, AsteriskTaken, PlaceKnown
<1>10. QED  BY <1>1, <1>2, <1>8, <1>9 DEF PlaceKnown, CommentsPassed, Top

LEMMA UpdateVisible ==
    ASSUME IInv, RestOfText, LinesVisible',
           NEW chunk \in Callers[caller].chunks \cup {<<>>}, NEW last, Update(chunk, last)
    PROVE  LinesVisible
<1>1. Len(text) \in Nat /\ Len(text') \in Nat
  BY Sizes, ChunkType DEF Update, IInv, TypeOK
<1>2. Len(text') >= Len(text) /\ \A i \in 1 .. Len(text) : text'[i] = text[i]
  BY Supplied
<1>3. ASSUME NEW i \in 1 .. Len(text) - 1
      PROVE  /\ i \in 1 .. Len(text') - 1 /\ i + 1 \in 1 .. Len(text)
             /\ text'[i] = text[i] /\ text'[i + 1] = text[i + 1]
  <2>1. i \in 1 .. Len(text) /\ i + 1 \in 1 .. Len(text) /\ i \in 1 .. Len(text') - 1
    BY <1>1, <1>2
  <2>2. QED  BY <1>2, <2>1
<1>4. QED  BY <1>3 DEF LinesVisible

LEMMA ResetKept == ASSUME IInv, Reset PROVE RestOfText' /\ PlaceKnown' /\ CommentsPassed'
<1>1. /\ input' = input /\ text' = input /\ state' = "start" /\ line' = 1 /\ position' = 0
      /\ markPosition' = 0 /\ input \in Seq(Byte)
  BY DEF Reset, FreshNest, IInv, TypeOK
<1>2. Taken' = 0
  BY <1>1 DEF Taken
<1>3. RestOfText'
  BY <1>1, <1>2 DEF RestOfText
<1>4. Counted' = 0
  BY <1>2 DEF Counted
<1>5. LinesOf(text', 0, 1, 0)
  BY LinesNone
<1>6. QED  BY <1>1, <1>2, <1>3, <1>4, <1>5 DEF PlaceKnown, CommentsPassed, ReturnSettled, AsteriskTaken

------------------------------------------------------------------------------
\* The invariant

LEMMA LInvInit == Init => LInv
<1>. SUFFICES ASSUME Init PROVE LInv
  OBVIOUS
<1>1. input = <<>> /\ text = <<>> /\ state = "start" /\ line = 1 /\ position = 0 /\ markPosition = 0
  BY DEF Init
<1>2. Taken = 0
  BY <1>1 DEF Taken
<1>3. RestOfText
  BY <1>1 DEF RestOfText
<1>4. Counted = 0
  BY <1>2 DEF Counted
<1>5. PlaceKnown
  BY <1>1, <1>2, <1>4, LinesNone DEF PlaceKnown, ReturnSettled, AsteriskTaken
<1>6. QED  BY <1>1, <1>3, <1>5 DEF LInv, CommentsPassed

LEMMA LInvNext == ASSUME IInv, LInv, [Next]_vars, phase # "check" PROVE LInv'
<1>. DEFINE Others == \/ Work \/ ParseSome \/ SkipWhitespace \/ CheckDone \/ Restart
                      \/ (\E on : SetCursorMode(on)) \/ (\E lvl : SetMarkLevel(lvl))
                      \/ UNCHANGED vars
<1>1. CASE Others
  <2>1. RestOfText' /\ text' = text
    BY <1>1, WorkShrinks, ShrinksRest DEF LInv, Shrinks
  <2>2. ASSUME ec' = "none", LinesVisible' PROVE PlaceKnown' /\ CommentsPassed'
    <3>1. LinesVisible
      BY <2>1, <2>2 DEF LinesVisible
    <3>2. ec = "none"
      BY <1>1, <2>2, ErrorStays
    <3>3. PlaceKnown /\ CommentsPassed /\ RestOfText
      BY <3>1, <3>2 DEF LInv
    <3>4. Moves
      BY <1>1, <2>2, <3>1, <3>3, IterateMoves, SkipSpaceMoves, ResumeCrMoves, QuietMoves
         DEF Work, CheckByte
    <3>5. QED  BY <3>2, <3>3, <3>4, MovesKept
  <2>3. QED  BY <2>1, <2>2 DEF LInv
<1>2. ASSUME NEW chunk \in Callers[caller].chunks \cup {<<>>}, NEW last \in BOOLEAN,
             Update(chunk, last)
      PROVE  LInv'
  <2>1. RestOfText' /\ ec' = ec
    BY <1>2, Supplied DEF LInv, Update
  <2>2. QED  BY <1>2, <2>1, UpdateVisible, UpdateKept DEF LInv
<1>3. CASE Reset
  BY <1>3, ResetKept DEF LInv
<1>4. QED
  BY <1>1, <1>2, <1>3 DEF Next

LEMMA PlaceTold == LInv => LineAndColumn
BY DEF LInv, PlaceKnown, LinesOf, LineAndColumn

\* The lines and columns that the parser reports with an error are right, for
\* every text, every way to cut it into chunks, every use of the interface and
\* all options, as long as check_done, which does not count, is not called.
THEOREM LinesHold == Spec /\ [](phase # "check") => []LineAndColumn
<1>1. IInv /\ LInv /\ [Next]_vars /\ phase # "check" => LInv'
  BY LInvNext
<1>2. IInv /\ [Next]_vars => IInv'
  BY NextType, NextConsistent DEF IInv
<1>3. QED  BY InitIInv, LInvInit, PlaceTold, <1>1, <1>2, PTL DEF Spec

\* A program that only pushes text never calls check_done: its lines and
\* columns are right.
THEOREM LinesHoldPushing == PushSpec => []LineAndColumn
<1>. DEFINE Unchecked == phase # "check"
<1>1. Init => Unchecked
  BY DEF Init
<1>2. ASSUME Unchecked, [PushNext]_vars PROVE Unchecked'
  <2>1. CASE Iterate
    BY <1>2, <2>1, Zenon DEF Iterate, ControlCharacter, BeginObject, EndObject, BeginArray, EndArray,
       NextMember, TakeColon, Unexpected, UnexpectedAtStart, BeginComment, CommentKind, LineComment,
       BlockComment, BlockCommentStar, ParseTrue, ParseFalse, ParseNull, BeginLiteral,
       ContinueLiteral, BeginNumber, NumberByte, NumberError, EndNumber, BeginString, TextByte,
       IllegalTextByte, BeginEscape, SimpleEscape, UnicodeEscape, SurrogateBackslash, SurrogateU,
       EscapeError, HexByte, EndString, AcceptInLoop, StringFrame, LoopFrame
  <2>2. CASE \/ SkipSpace \/ ResumeCr \/ CheckByte \/ Return \/ ParseAccepted \/ EndOfNumber
             \/ EndOfCr \/ UnexpectedEnd \/ ParseSome \/ SkipWhitespace \/ UNCHANGED vars
    BY <1>2, <2>2 DEF SkipSpace, ResumeCr, CheckByte, Return, ParseAccepted, EndOfNumber, EndOfCr,
       UnexpectedEnd, AtEnd, ParseSome, SkipWhitespace, LoopFrame, vars
  <2>3. ASSUME NEW chunk, NEW last, Update(chunk, last) PROVE phase' # "check"
    BY <1>2, <2>3 DEF Update
  <2>4. QED  BY <1>2, <2>1, <2>2, <2>3 DEF PushNext, Work
<1>3. [PushNext]_vars => [Next]_vars
  BY DEF PushNext, Next
<1>4. Spec /\ []Unchecked => []LineAndColumn
  BY LinesHold
<1>. HIDE DEF Unchecked
<1>5. QED  BY <1>1, <1>2, <1>3, <1>4, PTL DEF PushSpec, Spec

------------------------------------------------------------------------------
\* The reader, for every source, chunk size, option and handler: it is one of the callers
\* that JsonParser allows, so that what is proved of the parser holds in the reader; it
\* calls the parser at the right time; and it does not lose an error of its source.

\* The reader does not use the parser as a cursor does, and its chunks have a size.
Settings == chunkSize \in Nat /\ cursorMode = FALSE /\ markLevel = 0

\* A member function of the parser runs only where the reader has called it.
PhaseFits ==
    /\ phase = "parse" => pc = "parse"
    /\ phase = "skip" => pc = "trimming"
    /\ phase = "check" => pc = "rest"

\* While a text is being read, the parser stops only at its end or at an error.
Going == (more /\ ~done) \/ (~more /\ done)

LoopFits ==
    /\ pc \in {"loop", "call"} => ec = "none"
    /\ pc \in {"loop", "call", "parse"} /\ ec = "none" => Going
    /\ pc = "call" => more /\ (input # <<>> \/ ended)

\* When a text has been read without error, the parser is between texts.
RestFits ==
    /\ pc \in {"trim", "trimming", "trimmed", "check"} => ec = "none" /\ BetweenTexts
    /\ pc = "idle" /\ result = "none" => ec = "none" /\ BetweenTexts
    /\ pc = "rest" => BetweenTexts

\* read() looks at what follows the text before it can meet the end of the
\* source: so check_done either meets an error at once or asks the source for
\* nothing.
Settled == ended \/ (input # <<>> /\ Here \notin Blank)

SourceFits ==
    /\ pc = "trimming" /\ phase = "idle" /\ input # <<>> => Here \notin Blank
    /\ op = "read" /\ "extra_character" \notin Lenient =>
           /\ pc = "check" => Settled
           /\ pc = "rest" => ~bad /\ (ec # "none" \/ Settled)
           /\ pc = "idle" /\ bad => result # "none"

\* The inductive invariant.
RInv == Settings /\ PhaseFits /\ LoopFits /\ RestFits /\ SourceFits

------------------------------------------------------------------------------
\* The reader is a caller of the parser.

LEMMA FetchIsUpdate ==
    ASSUME chunkSize \in Nat, TypeOK, Fetch
    PROVE  Next
<1>1. ASSUME NEW chunk \in Callers[caller].chunks \cup {<<>>},
             Update(chunk, Len(chunk) < chunkSize)
      PROVE  Next
  <2>1. (Len(chunk) < chunkSize) \in BOOLEAN
    <3>1. Callers[caller].chunks \subseteq Seq(Byte) \ {<<>>}
      BY CallerAssumption DEF TypeOK
    <3>2. chunk \in Seq(Byte)
      BY <3>1, NoArgument
    <3>3. QED  BY <3>2
  <2>2. QED  BY <1>1, <2>1, Zenon DEF Next
<1>2. CASE Update(<<>>, TRUE)
  BY <1>2 DEF Next
<1>3. QED  BY <1>1, <1>2 DEF Fetch

LEMMA StepIsCall == ASSUME chunkSize \in Nat, TypeOK, [ReaderNext]_allVars PROVE [Next]_vars
<1>1. CASE \E f : ReadNext(f)
  BY <1>1 DEF ReadNext, Next
<1>2. CASE LoopFetch \/ CheckFetch
  BY <1>2, FetchIsUpdate, Zenon DEF LoopFetch, CheckFetch
<1>3. CASE Trimmed
  BY <1>3, FetchIsUpdate, Zenon DEF Trimmed, vars
<1>4. CASE LoopParse
  BY <1>4, Zenon DEF LoopParse, Next, Work
<1>5. CASE Trim \/ CheckRest
  BY <1>5, Zenon DEF Trim, CheckRest, Next
<1>6. CASE ParserStep
  BY <1>6, Zenon DEF ParserStep, Next, Work
<1>7. CASE LoopTest \/ LoopStopped \/ TrimAgain \/ CheckSource \/ CheckEnd \/ CallCheckDone
  BY <1>7, Zenon DEF LoopTest, LoopStopped, TrimAgain, CheckSource, CheckEnd, CallCheckDone
<1>8. CASE UNCHANGED allVars
  BY <1>8 DEF allVars
<1>9. QED
  BY <1>1, <1>2, <1>3, <1>4, <1>5, <1>6, <1>7, <1>8, Zenon
  DEF ReaderNext, ReaderStep, ReadOnce, ReadMany

\* The chunk size stays what it is.
LEMMA SizeKept == [ReaderNext]_allVars => UNCHANGED chunkSize
BY Zenon DEF ReaderNext, ReaderStep, ReadOnce, ReadMany, ReadNext, LoopFetch, LoopParse, LoopTest,
   LoopStopped, Trim, Trimmed, TrimAgain, CheckSource, CheckFetch, CheckRest, CheckEnd, ParserStep,
   CallCheckDone, allVars, readerVars

LEMMA SizeAtFirst == ASSUME ReaderInit PROVE chunkSize \in Nat
<1>1. caller \in DOMAIN Callers /\ chunkSize \in ChunkSizes[caller]
  BY DEF ReaderInit, Init
<1>2. QED  BY <1>1, SourceAssumption

\* The reader is one of the callers that Spec allows: whatever holds of the
\* parser under every caller holds in the reader.
THEOREM ReaderIsACaller == ReaderSpec => Spec
<1>. DEFINE Sized == chunkSize \in Nat
<1>1. ReaderInit => Init /\ Sized
  BY SizeAtFirst DEF ReaderInit
<1>2. Sized /\ [ReaderNext]_allVars => Sized'
  BY SizeKept
<1>3. Sized /\ IInv /\ [ReaderNext]_allVars => [Next]_vars
  BY StepIsCall DEF IInv
<1>4. IInv /\ [Next]_vars => IInv'
  BY NextType, NextConsistent DEF IInv
<1>. HIDE DEF Sized
<1>5. QED  BY InitIInv, <1>1, <1>2, <1>3, <1>4, PTL DEF ReaderSpec, Spec
------------------------------------------------------------------------------
\* The parser at work: it stops only when the text is done, or at an error.

LEMMA ProceedGoes ==
    ASSUME Proceed, ~cursorMode, more, done' = FALSE, more' \in BOOLEAN
    PROVE  more' /\ ~done'
BY Zenon DEF Proceed

LEMMA EndContainerGoes ==
    ASSUME level \in Nat, ~cursorMode, markLevel = 0, more, more' \in BOOLEAN, NEW kind, NEW c,
           NEW mismatch, NEW unexpected, mismatch # "none", unexpected # "none",
           EndContainer(kind, c, mismatch, unexpected)
    PROVE  ec' = "none" => more'
<1>1. CASE level < 1
  BY <1>1 DEF EndContainer, Abort
<1>2. CASE level >= 1
  BY <1>2 DEF EndContainer, Abort
<1>3. QED  BY <1>1, <1>2

LEMMA SkipGoes ==
    ASSUME NEW e, e # "none", Skip(e), ec' = "none"
    PROVE  more' = more
BY DEF Skip, Abort

\* An illegal sequence has an error of its own.
LEMMA ErrorIsSet == ASSUME NEW s \in Seq(Byte), NEW i \in Utf8Stop(s) PROVE SequenceError(s, i) # "none"
BY DEF Utf8Stop, IllegalAt

\* Every step of the loop in parse_some_.
LEMMA IterateGoes ==
    ASSUME IInv, Iterate, ~cursorMode, markLevel = 0, ec' = "none"
    PROVE  Going'
<1>1. /\ level \in Nat /\ more \in BOOLEAN /\ done \in BOOLEAN
      /\ more' \in BOOLEAN /\ done' \in BOOLEAN
  <2>1. TypeOK'
    BY IterateType
  <2>2. QED  BY <2>1 DEF IInv, TypeOK
<1>2. ec = "none" /\ more /\ phase = "parse"
  BY Zenon DEF Iterate, ControlCharacter, BeginObject, EndObject, BeginArray, EndArray, NextMember,
   TakeColon, Unexpected, UnexpectedAtStart, BeginComment, CommentKind, LineComment, BlockComment,
   BlockCommentStar, ParseTrue, ParseFalse, ParseNull, BeginLiteral, ContinueLiteral, BeginNumber,
   NumberByte, NumberError, EndNumber, BeginString, TextByte, IllegalTextByte, BeginEscape,
   SimpleEscape, UnicodeEscape, SurrogateBackslash, SurrogateU, EscapeError, HexByte, EndString,
   AcceptInLoop, InString, At
<1>3. ~done
  BY <1>2, Iterates
<1>4. CASE AcceptInLoop
  BY <1>4 DEF AcceptInLoop, Finish, Going
<1>5. CASE EndObject \/ EndArray
  <2>1. done' = done
    BY <1>5 DEF EndObject, EndArray
  <2>2. more'
    BY <1>1, <1>2, <1>5, EndContainerGoes, Zenon DEF EndObject, EndArray, Abort
  <2>3. QED  BY <1>3, <2>1, <2>2 DEF Going
<1>6. CASE \/ BeginObject \/ BeginArray \/ EndNumber \/ EndString
           \/ ParseTrue \/ ParseFalse \/ ParseNull \/ ContinueLiteral
  <2>1. CASE BeginObject
    BY <1>1, <1>2, <1>3, <2>1 DEF BeginObject, Abort, Going
  <2>2. CASE BeginArray
    BY <1>1, <1>2, <1>3, <2>2 DEF BeginArray, Abort, Proceed, Going
  <2>3. CASE EndNumber
    BY <1>1, <1>2, <1>3, <2>3 DEF EndNumber, CompleteNumber, Proceed, Going
  <2>4. CASE EndString
    <3>1. buffer \in Seq(Byte) /\ done' = done
      BY <2>4 DEF IInv, TypeOK, EndString
    <3>2. ValidUtf8(buffer)
      BY <2>4, <3>1, ErrorIsSet DEF EndString, Abort
    <3>3. more' = ~cursorMode
      BY <2>4, <3>2 DEF EndString, Proceed
    <3>4. QED  BY <1>1, <1>3, <3>1, <3>3 DEF Going
  <2>5. CASE ParseTrue \/ ParseFalse \/ ParseNull
    BY <1>1, <1>2, <1>3, <2>5 DEF ParseTrue, ParseFalse, ParseNull, BeginLiteral, Abort, Proceed, Going
  <2>6. CASE ContinueLiteral
    BY <1>1, <1>2, <1>3, <2>6 DEF ContinueLiteral, Abort, Proceed, Going
  <2>7. QED  BY <1>6, <2>1, <2>2, <2>3, <2>4, <2>5, <2>6
<1>7. CASE \/ ControlCharacter \/ NextMember \/ TakeColon \/ Unexpected \/ UnexpectedAtStart
           \/ BeginComment \/ CommentKind \/ LineComment \/ BlockComment \/ BlockCommentStar
           \/ BeginNumber \/ NumberByte \/ NumberError \/ BeginString \/ TextByte \/ IllegalTextByte
           \/ BeginEscape \/ SimpleEscape \/ UnicodeEscape \/ SurrogateBackslash \/ SurrogateU
           \/ EscapeError \/ HexByte
  <2>1. done' = done
    BY <1>7, Zenon DEF ControlCharacter, NextMember, TakeColon, Unexpected, UnexpectedAtStart,
       BeginComment, CommentKind, LineComment, BlockComment, BlockCommentStar, BeginNumber,
       NumberByte, NumberError, BeginString, TextByte, IllegalTextByte, BeginEscape, SimpleEscape,
       UnicodeEscape, SurrogateBackslash, SurrogateU, EscapeError, HexByte, StringFrame
  <2>2. more' = more
    <3>1. CASE ControlCharacter \/ NextMember \/ CommentKind
      BY <1>7, <3>1, SkipGoes DEF ControlCharacter, NextMember, CommentKind
    <3>2. CASE Unexpected
      <4>1. \E e \in Errors : Skip(e)
        BY <3>2 DEF Unexpected, Errors, At, BetweenStates, ValueStates, NameStates
      <4>2. "none" \notin Errors
        BY DEF Errors, Utf8Error
      <4>3. QED  BY <4>1, <4>2, SkipGoes
    <3>3. CASE UnexpectedAtStart \/ NumberError \/ EscapeError
      BY <3>3 DEF UnexpectedAtStart, NumberError, EscapeError, Abort
    <3>4. CASE IllegalTextByte \/ HexByte
      BY <3>4 DEF IllegalTextByte, HexByte, Abort, Label
    <3>5. CASE \/ TakeColon \/ BeginComment \/ LineComment \/ BlockComment \/ BlockCommentStar
               \/ BeginNumber \/ NumberByte \/ BeginString \/ TextByte \/ BeginEscape
               \/ SimpleEscape \/ UnicodeEscape \/ SurrogateBackslash \/ SurrogateU
      BY <3>5, Zenon DEF TakeColon, BeginComment, LineComment, BlockComment, BlockCommentStar,
         BeginNumber, NumberByte, BeginString, TextByte, BeginEscape, SimpleEscape, UnicodeEscape,
         SurrogateBackslash, SurrogateU, Label
    <3>6. QED  BY <1>7, <3>1, <3>2, <3>3, <3>4, <3>5
  <2>3. QED  BY <1>2, <1>3, <2>1, <2>2 DEF Going
<1>8. QED  BY <1>4, <1>5, <1>6, <1>7, Zenon DEF Iterate

\* The calls of parse_some that do not enter the loop.
LEMMA CallGoes ==
    ASSUME IInv, ParseAccepted \/ EndOfNumber \/ EndOfCr \/ UnexpectedEnd, Going, ~cursorMode,
           ec' = "none"
    PROVE  Going'
<1>1. /\ more \in BOOLEAN /\ done \in BOOLEAN
  BY DEF IInv, TypeOK
<1>2. CASE ParseAccepted
  BY <1>2 DEF ParseAccepted, Finish, Going
<1>3. CASE EndOfNumber
  BY <1>1, <1>3 DEF EndOfNumber, AtEnd, CompleteNumber, Proceed, Abort, Going
<1>4. CASE EndOfCr \/ UnexpectedEnd
  BY <1>4 DEF EndOfCr, UnexpectedEnd, AtEnd, Abort, Going
<1>5. QED  BY <1>2, <1>3, <1>4

\* The parser is between texts as long as the state and the stack are the same.
LEMMA BetweenKept == ASSUME BetweenTexts, UNCHANGED <<state, stateStack>> PROVE BetweenTexts'
BY DEF BetweenTexts, Top

\* Once flush has been called the parser is between texts.
LEMMA DoneIsBetween == ASSUME IInv, ec = "none", done PROVE BetweenTexts
<1>1. /\ StackShape /\ BaseFits /\ Base = "done"
      /\ stateStack \in Seq(States) /\ level \in Nat /\ state \in States
  BY BeforeStep DEF BaseFits
<1>2. state \notin CommentStates \cup {"string"}
  BY <1>1 DEF StackShape, BetweenStates, ValueStates, NameStates, Base, Frames
<1>3. CASE state = "cr"
  <2>1. Len(stateStack) = Frames + 1
    BY <1>1, <1>3 DEF StackShape, BetweenStates, ValueStates, NameStates
  <2>2. Top = "done"
    BY <1>1, <2>1 DEF Base, Top, Frames
  <2>3. QED  BY <1>3, <2>2 DEF BetweenTexts
<1>4. CASE state # "cr"
  BY <1>1, <1>2, <1>4, OnTop DEF BetweenTexts
<1>5. QED  BY <1>3, <1>4

\* skip_whitespace puts nothing off but a carriage return.
LEMMA SkipIsBetween == ASSUME IInv, BetweenTexts, ec = "none", SkipSpace \/ ResumeCr, phase = "skip" PROVE BetweenTexts'
<1>1. stateStack \in Seq(States) /\ state \in States
  BY DEF IInv, TypeOK
<1>2. CASE ResumeCr
  <2>1. state = "cr" /\ state' = Top
    BY <1>2 DEF ResumeCr, At
  <2>2. QED  BY <2>1 DEF BetweenTexts
<1>3. CASE SkipSpace
  <2>1. state # "cr"
    BY <1>3 DEF SkipSpace, At
  <2>2. UNCHANGED <<state, stateStack>> \/ (Push(state) /\ state' = "cr")
    BY <1>3, Zenon DEF SkipSpace, nest
  <2>3. CASE Push(state) /\ state' = "cr"
    <3>1. Top' = state
      BY <1>1, <2>3, Pushed DEF Push, Top
    <3>2. QED  BY <2>1, <2>3, <3>1 DEF BetweenTexts
  <2>4. QED  BY <2>2, <2>3, BetweenKept
<1>4. QED  BY <1>2, <1>3

------------------------------------------------------------------------------
\* One lemma per action of the reader: it preserves the invariant.

\* Between the calls of the parser's member functions none of them runs.
LEMMA NothingRuns == ASSUME IInv, RInv, pc \notin {"parse", "trimming", "rest"} PROVE phase = "idle"
BY DEF IInv, TypeOK, RInv, PhaseFits

\* What every step of the loop in parse_some_ relies on and leaves alone.
LEMMA IterateFrame ==
    ASSUME Iterate
    PROVE  LoopFrame /\ phase = "parse" /\ ec = "none" /\ more /\ input # <<>>
BY Zenon DEF Iterate, ControlCharacter, BeginObject, EndObject, BeginArray, EndArray, NextMember,
   TakeColon, Unexpected, UnexpectedAtStart, BeginComment, CommentKind, LineComment, BlockComment,
   BlockCommentStar, ParseTrue, ParseFalse, ParseNull, BeginLiteral, ContinueLiteral, BeginNumber,
   NumberByte, NumberError, EndNumber, BeginString, TextByte, IllegalTextByte, BeginEscape,
   SimpleEscape, UnicodeEscape, SurrogateBackslash, SurrogateU, EscapeError, HexByte, EndString,
   AcceptInLoop, InString, StringFrame, At

LEMMA ReadNextFits ==
    ASSUME IInv, RInv, NEW f, ReadNext(f), f = "read" => op = "none"
    PROVE  RInv'
<1>1. phase = "idle" /\ phase' = "idle"
  BY NothingRuns DEF ReadNext, vars, Reset
<1>2. Settings' /\ PhaseFits'
  BY <1>1 DEF RInv, Settings, PhaseFits, ReadNext, vars, modes, Reset
<1>3. LoopFits'
  BY DEF ReadNext, Finished, LoopFits, Going, Reset
<1>4. RestFits'
  BY DEF ReadNext, Finished, RestFits
<1>5. SourceFits'
  BY DEF ReadNext, Finished, SourceFits
<1>6. QED  BY <1>2, <1>3, <1>4, <1>5 DEF RInv

LEMMA LoopFetchFits == ASSUME IInv, RInv, LoopFetch PROVE RInv'
<1>1. pc = "loop" /\ pc' = "call" /\ phase = "idle" /\ phase' = "idle"
  BY DEF LoopFetch, Fetch, Update
<1>2. UNCHANGED <<more, done, ec, chunkSize, modes>> /\ (input' # <<>> \/ ended')
  BY DEF LoopFetch, Fetch, Update
<1>3. Settings' /\ PhaseFits'
  BY <1>1, <1>2 DEF RInv, Settings, PhaseFits, modes
<1>4. LoopFits'
  BY <1>1, <1>2 DEF LoopFetch, RInv, LoopFits, Going
<1>5. RestFits' /\ SourceFits'
  BY <1>1 DEF RestFits, SourceFits
<1>6. QED  BY <1>3, <1>4, <1>5 DEF RInv

LEMMA LoopParseFits == ASSUME IInv, RInv, LoopParse PROVE RInv'
<1>1. /\ pc \in {"loop", "call"} /\ pc' = "parse" /\ ec = "none" /\ UNCHANGED chunkSize
      /\ ParseSome \/ ParseAccepted \/ EndOfNumber \/ EndOfCr \/ UnexpectedEnd
  BY DEF LoopParse, RInv, LoopFits
<1>2. phase' \in {"idle", "parse"} /\ UNCHANGED modes
  BY <1>1 DEF ParseSome, ParseAccepted, EndOfNumber, EndOfCr, UnexpectedEnd, AtEnd, Calling
<1>3. Settings' /\ PhaseFits'
  BY <1>1, <1>2 DEF RInv, Settings, PhaseFits, modes
<1>4. Going /\ ~cursorMode
  BY <1>1 DEF RInv, LoopFits, Settings
<1>5. ec' = "none" => Going'
  BY <1>1, <1>4, CallGoes DEF ParseSome, Going
<1>6. LoopFits'
  BY <1>1, <1>5 DEF LoopFits
<1>7. RestFits' /\ SourceFits'
  BY <1>1 DEF RestFits, SourceFits
<1>8. QED  BY <1>3, <1>6, <1>7 DEF RInv

LEMMA LoopTestFits == ASSUME IInv, RInv, LoopTest PROVE RInv'
<1>1. pc = "parse" /\ phase = "idle" /\ UNCHANGED vars /\ UNCHANGED <<op, chunkSize, bad>>
  BY DEF LoopTest
<1>2. Settings' /\ PhaseFits'
  BY <1>1 DEF RInv, Settings, PhaseFits, vars, modes
<1>3. CASE pc' = "idle"
  <2>1. result' # "none"
    BY <1>3, Zenon DEF LoopTest, Finished
  <2>2. QED  BY <1>2, <1>3, <2>1 DEF RInv, LoopFits, RestFits, SourceFits
<1>4. CASE pc' = "trim"
  <2>1. ec = "none" /\ state = "start"
    BY <1>4 DEF LoopTest, Finished
  <2>2. BetweenTexts'
    BY <1>1, <2>1 DEF vars, nest, BetweenTexts
  <2>3. QED  BY <1>1, <1>2, <1>4, <2>1, <2>2 DEF RInv, LoopFits, RestFits, SourceFits, vars
<1>5. CASE pc' = "loop"
  <2>1. ec = "none"
    BY <1>5 DEF LoopTest, Finished
  <2>2. QED  BY <1>1, <1>2, <1>5, <2>1 DEF RInv, LoopFits, RestFits, SourceFits, Going, vars
<1>6. QED  BY <1>3, <1>4, <1>5 DEF LoopTest, Finished

LEMMA LoopStoppedFits == ASSUME IInv, RInv, LoopStopped PROVE RInv'
<1>1. /\ pc = "loop" /\ phase = "idle" /\ ~more /\ pc' = "trim"
      /\ UNCHANGED vars /\ UNCHANGED <<op, chunkSize, bad>>
  BY DEF LoopStopped
<1>2. Settings' /\ PhaseFits'
  BY <1>1 DEF RInv, Settings, PhaseFits, vars, modes
<1>3. ec = "none" /\ done
  BY <1>1 DEF RInv, LoopFits, Going
<1>4. BetweenTexts'
  BY <1>1, <1>3, DoneIsBetween, BetweenKept DEF vars, nest
<1>5. QED  BY <1>1, <1>2, <1>3, <1>4 DEF RInv, LoopFits, RestFits, SourceFits, vars

LEMMA TrimFits == ASSUME IInv, RInv, Trim PROVE RInv'
<1>1. /\ pc = "trim" /\ pc' = "trimming" /\ phase' = "skip"
      /\ UNCHANGED <<nest, ec, modes, op, chunkSize, bad>>
  BY DEF Trim, SkipWhitespace
<1>2. ec = "none" /\ BetweenTexts
  BY <1>1 DEF RInv, RestFits
<1>3. Settings' /\ PhaseFits'
  BY <1>1 DEF RInv, Settings, PhaseFits, modes
<1>4. RestFits'
  BY <1>1, <1>2, BetweenKept DEF RestFits, nest
<1>5. LoopFits' /\ SourceFits'
  BY <1>1 DEF LoopFits, SourceFits
<1>6. QED  BY <1>3, <1>4, <1>5 DEF RInv

LEMMA TrimmedFits == ASSUME IInv, RInv, Trimmed PROVE RInv'
<1>1. /\ pc = "trimming" /\ phase = "idle" /\ phase' = "idle"
      /\ UNCHANGED <<nest, ec, modes, op, result, chunkSize>>
  BY DEF Trimmed, vars, Fetch, Update
<1>2. ec = "none" /\ BetweenTexts /\ BetweenTexts'
  BY <1>1, BetweenKept DEF RInv, RestFits, nest
<1>3. Settings' /\ PhaseFits'
  BY <1>1 DEF RInv, Settings, PhaseFits, modes
<1>4. pc' \in {"check", "idle", "trimmed"}
  BY DEF Trimmed
<1>5. LoopFits' /\ RestFits'
  BY <1>1, <1>2, <1>4 DEF LoopFits, RestFits
<1>6. SourceFits'
  <2>1. CASE ended \/ input # <<>>
    <3>1. UNCHANGED vars /\ UNCHANGED bad /\ (op = "read" => pc' = "check")
      BY <2>1 DEF Trimmed
    <3>2. Settled
      BY <1>1, <2>1 DEF RInv, SourceFits, Settled
    <3>3. Settled'
      BY <3>1, <3>2 DEF Settled, vars, supply, Here
    <3>4. QED  BY <1>1, <1>4, <3>1, <3>3 DEF SourceFits
  <2>2. CASE ~(ended \/ input # <<>>)
    BY <2>2 DEF Trimmed, SourceFits
  <2>3. QED  BY <2>1, <2>2
<1>7. QED  BY <1>3, <1>5, <1>6 DEF RInv

LEMMA TrimAgainFits == ASSUME IInv, RInv, TrimAgain PROVE RInv'
<1>1. /\ pc = "trimmed" /\ phase = "idle" /\ pc' \in {"trim", "check", "idle"}
      /\ UNCHANGED vars /\ UNCHANGED <<op, result, chunkSize, bad>>
  BY NothingRuns DEF TrimAgain
<1>2. ec = "none" /\ BetweenTexts /\ BetweenTexts'
  BY <1>1, BetweenKept DEF RInv, RestFits, vars, nest
<1>3. Settings' /\ PhaseFits'
  BY <1>1 DEF RInv, Settings, PhaseFits, vars, modes
<1>4. LoopFits' /\ RestFits'
  BY <1>1, <1>2 DEF LoopFits, RestFits, vars
<1>5. SourceFits'
  BY <1>1 DEF TrimAgain, SourceFits, Settled, vars, supply
<1>6. QED  BY <1>3, <1>4, <1>5 DEF RInv

LEMMA CallCheckDoneFits == ASSUME IInv, RInv, CallCheckDone PROVE RInv'
<1>1. /\ pc = "idle" /\ phase = "idle" /\ pc' = "check" /\ op' = "check_done" /\ result = "none"
      /\ UNCHANGED vars /\ UNCHANGED <<result, chunkSize, bad>>
  BY NothingRuns DEF CallCheckDone
<1>2. ec = "none" /\ BetweenTexts /\ BetweenTexts'
  BY <1>1, BetweenKept DEF RInv, RestFits, vars, nest
<1>3. QED
  BY <1>1, <1>2 DEF RInv, Settings, PhaseFits, LoopFits, RestFits, SourceFits, vars, modes

LEMMA CheckSourceFits == ASSUME IInv, RInv, CheckSource PROVE RInv'
<1>1. /\ pc = "check" /\ phase = "idle" /\ pc' \in {"rest", "idle"}
      /\ UNCHANGED vars /\ UNCHANGED <<op, chunkSize, bad>>
      /\ pc' = "idle" => result' # "none"
      /\ pc' = "rest" => ~bad
  BY NothingRuns DEF CheckSource, Finished
<1>2. BetweenTexts'
  BY <1>1, BetweenKept DEF RInv, RestFits, vars, nest
<1>3. Settings' /\ PhaseFits'
  BY <1>1 DEF RInv, Settings, PhaseFits, vars, modes
<1>4. LoopFits' /\ RestFits'
  BY <1>1, <1>2 DEF LoopFits, RestFits
<1>5. SourceFits'
  <2>1. Settled => Settled'
    BY <1>1 DEF Settled, vars, supply, Here
  <2>2. QED  BY <1>1, <2>1 DEF RInv, SourceFits
<1>6. QED  BY <1>3, <1>4, <1>5 DEF RInv

LEMMA CheckFetchFits == ASSUME IInv, RInv, CheckFetch PROVE RInv'
<1>1. /\ pc = "rest" /\ pc' = "rest" /\ phase = "idle" /\ phase' = "idle"
      /\ UNCHANGED <<nest, ec, modes, op, result, chunkSize>>
      /\ ec = "none" /\ ~Settled
  BY DEF CheckFetch, Fetch, Update, Settled
<1>2. BetweenTexts'
  BY <1>1, BetweenKept DEF RInv, RestFits, nest
<1>3. Settings' /\ PhaseFits' /\ LoopFits' /\ RestFits'
  BY <1>1, <1>2 DEF RInv, Settings, PhaseFits, LoopFits, RestFits, modes
<1>4. SourceFits'
  BY <1>1 DEF RInv, SourceFits
<1>5. QED  BY <1>3, <1>4 DEF RInv

LEMMA CheckRestFits == ASSUME IInv, RInv, CheckRest PROVE RInv'
<1>1. /\ pc = "rest" /\ pc' = "rest" /\ phase' = "check" /\ ec = "none"
      /\ UNCHANGED <<input, nest, ec, modes, supply, op, result, chunkSize, bad>>
  BY DEF CheckRest, CheckDone, readerVars
<1>2. BetweenTexts'
  BY <1>1, BetweenKept DEF RInv, RestFits, nest
<1>3. Settings' /\ PhaseFits' /\ LoopFits' /\ RestFits'
  BY <1>1, <1>2 DEF RInv, Settings, PhaseFits, LoopFits, RestFits, modes
<1>4. Settled => Settled'
  BY <1>1 DEF Settled, supply, Here
<1>5. SourceFits'
  BY <1>1, <1>4 DEF RInv, SourceFits
<1>6. QED  BY <1>3, <1>5 DEF RInv

LEMMA CheckEndFits == ASSUME IInv, RInv, CheckEnd PROVE RInv'
<1>1. /\ pc = "rest" /\ pc' = "idle" /\ phase = "idle" /\ result' = ec
      /\ ec # "none" \/ (input = <<>> /\ ended)
      /\ UNCHANGED vars /\ UNCHANGED <<op, chunkSize, bad>>
  BY DEF CheckEnd, Finished
<1>2. BetweenTexts'
  BY <1>1, BetweenKept DEF RInv, RestFits, vars, nest
<1>3. Settings' /\ PhaseFits' /\ LoopFits' /\ RestFits'
  BY <1>1, <1>2 DEF RInv, Settings, PhaseFits, LoopFits, RestFits, vars, modes
<1>4. SourceFits'
  BY <1>1 DEF RInv, SourceFits
<1>5. QED  BY <1>3, <1>4 DEF RInv

LEMMA ParserStepFits == ASSUME IInv, RInv, ParserStep PROVE RInv'
<1>1. /\ UNCHANGED readerVars
      /\ phase # "idle"
      /\ Iterate \/ SkipSpace \/ ResumeCr \/ CheckByte \/ Return
  BY DEF ParserStep
<1>2. CASE phase = "parse"
  <2>1. pc = "parse" /\ pc' = "parse" /\ UNCHANGED <<modes, chunkSize>> /\ phase' \in {"idle", "parse"}
    BY <1>1, <1>2, IterateFrame
    DEF RInv, PhaseFits, readerVars, SkipSpace, ResumeCr, CheckByte, Return, LoopFrame
  <2>2. ec' = "none" => Going'
    <3>1. CASE Iterate
      BY <3>1, IterateGoes DEF RInv, Settings
    <3>2. CASE ~Iterate
      BY <1>1, <1>2, <2>1, <3>2 DEF RInv, LoopFits, Going, SkipSpace, ResumeCr, CheckByte, Return
    <3>3. QED  BY <3>1, <3>2
  <2>3. QED
    BY <2>1, <2>2 DEF RInv, Settings, PhaseFits, LoopFits, RestFits, SourceFits, modes
<1>3. CASE phase = "skip"
  <2>1. /\ pc = "trimming" /\ pc' = "trimming"
        /\ SkipSpace \/ ResumeCr \/ Return
        /\ UNCHANGED <<op, modes, chunkSize, bad, ec>> /\ phase' \in {"idle", "skip"}
        /\ Return \/ phase' = "skip"
    BY <1>1, <1>3, IterateFrame
    DEF RInv, PhaseFits, readerVars, SkipSpace, ResumeCr, CheckByte, Return, LoopFrame
  <2>2. ec = "none" /\ BetweenTexts
    BY <2>1 DEF RInv, RestFits
  <2>3. BetweenTexts'
    <3>1. CASE Return
      BY <2>2, <3>1, BetweenKept DEF Return, nest
    <3>2. CASE SkipSpace \/ ResumeCr
      BY <1>3, <2>2, <3>2, SkipIsBetween
    <3>3. QED  BY <2>1, <3>1, <3>2
  <2>4. SourceFits'
    <3>1. CASE Return
      BY <1>3, <2>1, <3>1 DEF Return, SourceFits, Here
    <3>2. CASE phase' = "skip"
      BY <2>1, <3>2 DEF SourceFits
    <3>3. QED  BY <2>1, <3>1, <3>2
  <2>5. QED
    BY <2>1, <2>2, <2>3, <2>4 DEF RInv, Settings, PhaseFits, LoopFits, RestFits, modes
<1>4. CASE phase = "check"
  <2>1. /\ pc = "rest" /\ pc' = "rest"
        /\ CheckByte \/ Return
        /\ UNCHANGED <<op, modes, chunkSize, bad, nest, supply>> /\ phase' \in {"idle", "check"}
    BY <1>1, <1>4, IterateFrame
    DEF RInv, PhaseFits, readerVars, SkipSpace, ResumeCr, CheckByte, Return, At
  <2>2. BetweenTexts'
    BY <2>1, BetweenKept DEF RInv, RestFits, nest
  <2>3. Settings' /\ PhaseFits' /\ LoopFits' /\ RestFits'
    BY <2>1, <2>2 DEF RInv, Settings, PhaseFits, LoopFits, RestFits, modes
  <2>4. SourceFits'
    <3>1. CASE Return
      BY <2>1, <3>1 DEF Return, RInv, SourceFits, Settled, Here, supply
    <3>2. CASE CheckByte
      BY <2>1, <3>2 DEF CheckByte, Abort, RInv, SourceFits, Settled, supply
    <3>3. QED  BY <2>1, <3>1, <3>2
  <2>5. QED  BY <2>3, <2>4 DEF RInv
<1>5. phase \in {"idle", "parse", "skip", "check"}
  BY DEF IInv, TypeOK
<1>6. QED  BY <1>1, <1>2, <1>3, <1>4, <1>5

------------------------------------------------------------------------------
LEMMA ReaderNextFits == ASSUME IInv, RInv, [ReaderNext]_allVars PROVE RInv'
<1>1. CASE ReadOnce \/ ReadMany
  BY <1>1, ReadNextFits DEF ReadOnce, ReadMany
<1>2. CASE UNCHANGED allVars
  BY <1>2, BetweenKept
  DEF allVars, vars, readerVars, nest, modes, supply, RInv, Settings, PhaseFits, LoopFits, RestFits,
      SourceFits, Settled, Going, Here, BetweenTexts, Top
<1>3. QED
  BY <1>1, <1>2, LoopFetchFits, LoopParseFits, LoopTestFits, LoopStoppedFits, TrimFits, TrimmedFits,
     TrimAgainFits, CallCheckDoneFits, CheckSourceFits, CheckFetchFits, CheckRestFits, CheckEndFits,
     ParserStepFits, Zenon
  DEF ReaderNext, ReaderStep

LEMMA ReaderInitFits == ReaderInit => RInv
BY SizeAtFirst DEF ReaderInit, Init, RInv, Settings, PhaseFits, LoopFits, RestFits, SourceFits, BetweenTexts

LEMMA ReaderKeepsFitting == ReaderSpec => []RInv
<1>1. IInv /\ RInv /\ [ReaderNext]_allVars => RInv'
  BY ReaderNextFits
<1>2. Spec => []IInv
  BY TypesHold, ConsistencyHolds, PTL DEF IInv
<1>3. QED  BY ReaderIsACaller, ReaderInitFits, <1>1, <1>2, PTL DEF ReaderSpec

\* The reader calls the member functions of the parser at the right time only.
THEOREM CallsHoldTurn == ReaderSpec => []CallsInTurn
<1>1. IInv /\ RInv => CallsInTurn
  BY NothingRuns DEF RInv, LoopFits, RestFits, Going, CallsInTurn, Calling
<1>2. Spec => []IInv
  BY TypesHold, ConsistencyHolds, PTL DEF IInv
<1>3. QED  BY ReaderIsACaller, ReaderKeepsFitting, <1>1, <1>2, PTL

\* An error of the stream during read() is reported by it.
THEOREM SourceErrorsHold == ReaderSpec => []SourceErrorReported
<1>1. RInv => SourceErrorReported
  BY DEF RInv, SourceFits, SourceErrorReported
<1>2. QED  BY ReaderKeepsFitting, <1>1, PTL

\* What the parser promises under any caller it promises under the reader: it
\* is consistent, no assertion fails, the nesting is bounded and the strings
\* are UTF-8.
THEOREM ContractHoldsReading ==
    ReaderSpec => [](TypeOK /\ Consistent /\ NoAssertionFails /\ NestingBounded /\ StringsAreUtf8)
BY ReaderIsACaller, TypesHold, ConsistencyHolds, AssertionsHold, NestingHolds, StringsHold, PTL
==============================================================================
