----------------------- MODULE JmespathCompilerProofs -----------------------
(***************************************************************************)
(* Proofs about JmespathCompiler: for every text, the left parentheses     *)
(* that wait on the operator stack are as many as the brackets, arguments  *)
(* and bindings the machine is in, and every closing token finds its       *)
(* opening one.                                                            *)
(***************************************************************************)
EXTENDS JmespathCompiler, FiniteSetTheorems, SequenceTheorems, TLAPS

CompileNext == (\E piece : TypePiece(piece)) \/ EndText \/ Step
CompileSpec == CompileInit /\ [][CompileNext]_compileVars

------------------------------------------------------------------------------
\* Induction over the natural numbers, for sets of them.

LEMMA Least ==
    ASSUME NEW T, T \subseteq Nat, T # {}
    PROVE  \E x \in T : \A y \in T : x <= y
<1>. DEFINE Initial == {0 .. n : n \in T}
<1>1. IsWellFoundedOn(StrictSubsetOrdering(Nat), FiniteSubsetsOf(Nat))
  BY FS_StrictSubsetOrderingWellFounded
<1>2. ASSUME NEW n \in T PROVE 0 .. n \in FiniteSubsetsOf(Nat)
  <2>1. IsFiniteSet(0 .. n)
    BY FS_Interval
  <2>2. 0 .. n \in SUBSET Nat
    BY SMT
  <2>3. QED  BY <2>1, <2>2, Zenon DEF FiniteSubsetsOf
<1>3. Initial \subseteq FiniteSubsetsOf(Nat) /\ Initial # {}
  BY <1>2
<1>4. PICK X \in Initial : \A Y \in Initial : ~(<<Y, X>> \in StrictSubsetOrdering(Nat))
  BY <1>1, <1>3, WFMin
<1>5. PICK x \in T : X = 0 .. x
  OBVIOUS
<1>6. ASSUME NEW y \in T, ~(x <= y) PROVE FALSE
  <2>1. 0 .. y \subseteq 0 .. x /\ x \in 0 .. x /\ ~(x \in 0 .. y) /\ 0 .. x \in SUBSET Nat
    BY <1>6
  <2>2. <<0 .. y, 0 .. x>> \in StrictSubsetOrdering(Nat)
    BY <2>1, SMT DEF StrictSubsetOrdering
  <2>3. QED  BY <1>4, <1>5, <2>2
<1>7. QED  BY <1>6

LEMMA Induct ==
    ASSUME NEW S, 0 \in S, \A n \in Nat : n \in S => n + 1 \in S
    PROVE  Nat \subseteq S
<1>. SUFFICES ASSUME ~(Nat \subseteq S) PROVE FALSE
  OBVIOUS
<1>. DEFINE T == {n \in Nat : n \notin S}
<1>1. PICK x \in T : \A y \in T : x <= y
  BY Least
<1>2. x # 0 /\ x \in Nat
  BY <1>1
<1>3. x - 1 \in Nat /\ x - 1 \notin T
  BY <1>1, <1>2
<1>4. x - 1 + 1 \in S
  BY <1>3
<1>5. QED  BY <1>1, <1>2, <1>4

LEMMA Greatest ==
    ASSUME NEW n \in Nat, NEW T, T \subseteq 1 .. n, T # {}
    PROVE  Max(T) \in T /\ \A y \in T : y <= Max(T)
<1>. DEFINE D == {n - y : y \in T}
<1>1. D \subseteq Nat /\ D # {}
  <2>1. \A y \in T : n - y \in Nat
    OBVIOUS
  <2>2. QED  BY <2>1
<1>2. PICK d \in D : \A e \in D : d <= e
  BY <1>1, Least
<1>3. PICK x \in T : d = n - x
  OBVIOUS
<1>4. \A y \in T : n - y \in D
  OBVIOUS
<1>5. \A y \in T : x >= y
  <2>. HIDE DEF D
  <2>1. TAKE y \in T
  <2>2. n - x <= n - y /\ x \in Int /\ y \in Int
    BY <1>2, <1>3, <1>4
  <2>3. QED  BY <2>2
<1>6. Max(T) \in T /\ \A y \in T : Max(T) >= y
  BY <1>5 DEF Max
<1>7. QED  BY <1>6

------------------------------------------------------------------------------
\* Sequences of tokens, which are of no set.

IsSequence(s) == \E S : s \in Seq(S)

LEMMA SeqFacts ==
    ASSUME NEW s, IsSequence(s)
    PROVE  Len(s) \in Nat /\ DOMAIN s = 1 .. Len(s) /\ (Len(s) = 0 <=> s = <<>>)
<1>1. PICK S : s \in Seq(S)
  BY DEF IsSequence
<1>2. QED  BY <1>1

LEMMA SeqAppend ==
    ASSUME NEW s, IsSequence(s), NEW x
    PROVE  /\ IsSequence(Append(s, x)) /\ Len(Append(s, x)) = Len(s) + 1
           /\ \A i \in 1 .. Len(s) : Append(s, x)[i] = s[i]
           /\ Append(s, x)[Len(s) + 1] = x
<1>1. PICK S : s \in Seq(S)
  BY DEF IsSequence
<1>. DEFINE T == S \cup {x}
<1>2. s \in Seq(T) /\ x \in T
  BY <1>1
<1>. HIDE DEF T
<1>3. Append(s, x) \in Seq(T)
  BY <1>2
<1>4. QED  BY <1>2, <1>3 DEF IsSequence

LEMMA SeqAhead ==
    ASSUME NEW s, IsSequence(s), NEW k \in 0 .. Len(s)
    PROVE  /\ IsSequence(Ahead(s, k)) /\ Len(Ahead(s, k)) = k
           /\ \A i \in 1 .. k : Ahead(s, k)[i] = s[i]
<1>1. PICK S : s \in Seq(S)
  BY DEF IsSequence
<1>2. SubSeq(s, 1, k) \in Seq(S) /\ Len(SubSeq(s, 1, k)) = k /\ \A i \in 1 .. k : SubSeq(s, 1, k)[i] = s[i]
  BY <1>1
<1>3. QED  BY <1>2 DEF IsSequence, Ahead

LEMMA SeqFront ==
    ASSUME NEW s, IsSequence(s), Len(s) > 0
    PROVE  /\ IsSequence(Front(s)) /\ Len(Front(s)) = Len(s) - 1
           /\ \A i \in 1 .. Len(s) - 1 : Front(s)[i] = s[i]
           /\ Last(s) = s[Len(s)]
<1>1. Len(s) - 1 \in 0 .. Len(s)
  BY SeqFacts
<1>2. Front(s) = Ahead(s, Len(s) - 1)
  BY DEF Front, Ahead
<1>3. QED  BY <1>1, <1>2, SeqAhead DEF Last

LEMMA EmptyIsSequence == IsSequence(<<>>) /\ Len(<<>>) = 0
<1>1. <<>> \in Seq({})
  OBVIOUS
<1>2. QED  BY <1>1 DEF IsSequence

------------------------------------------------------------------------------
\* The tokens that open something, and those that stay where they are.

Openers == {"begin_filter", "begin_multi_select_list", "begin_multi_select_hash", "begin_expression_type",
            "function", "variable"}
Keeps(out, after, n) ==
    \A i \in 1 .. Len(out) : i <= n /\ out[i][1] \in Openers => i \in 1 .. Len(after) /\ after[i][1] = out[i][1]

LEMMA LastOfKindIs ==
    ASSUME NEW out, IsSequence(out), NEW kind
    PROVE  LET k == LastOfKind(out, kind) IN
           /\ k \in 0 .. Len(out) /\ (k # 0 => out[k][1] = kind)
           /\ \A i \in 1 .. Len(out) : out[i][1] = kind => i <= k
<1>. DEFINE I == {i \in 1 .. Len(out) : out[i][1] = kind}
<1>1. LastOfKind(out, kind) = IF I # {} THEN Max(I) ELSE 0
  BY DEF LastOfKind, SelectLastInSeq
<1>2. Len(out) \in Nat
  BY SeqFacts
<1>3. CASE I = {}
  BY <1>1, <1>2, <1>3
<1>4. CASE I # {}
  <2>1. I \subseteq 1 .. Len(out)
    OBVIOUS
  <2>2. Max(I) \in I /\ \A y \in I : y <= Max(I)
    <3>. HIDE DEF I
    <3>1. QED  BY <1>2, <1>4, <2>1, Greatest
  <2>3. QED  BY <1>1, <1>2, <1>4, <2>2
<1>5. QED  BY <1>3, <1>4

LEMMA BeforeOperandIs ==
    ASSUME NEW out, IsSequence(out), NEW level \in 0 .. 9, NEW equal \in BOOLEAN
    PROVE  LET k == BeforeOperand(out, level, equal) IN
           /\ k \in 0 .. Len(out)
           /\ \A i \in 1 .. Len(out) : out[i][1] \in Openers => i <= k
<1>. DEFINE Stays(t) == ~(IsOperator(t) \/ level > Level(t) \/ (level = Level(t) /\ equal))
            I == {i \in 1 .. Len(out) : Stays(out[i])}
<1>1. BeforeOperand(out, level, equal) = IF I # {} THEN Max(I) ELSE 0
  BY DEF BeforeOperand, SelectLastInSeq
<1>2. Len(out) \in Nat
  BY SeqFacts
<1>3. ASSUME NEW i \in 1 .. Len(out), out[i][1] \in Openers PROVE i \in I
  <2>1. Level(out[i]) = 15 /\ ~IsOperator(out[i])
    BY <1>3 DEF Openers, Level, Barriers, IsOperator
  <2>2. QED  BY <2>1
<1>4. CASE I = {}
  <2>1. BeforeOperand(out, level, equal) = 0
    BY <1>1, <1>4, Zenon
  <2>. HIDE DEF I
  <2>2. QED  BY <1>2, <1>3, <1>4, <2>1
<1>5. CASE I # {}
  <2>1. I \subseteq 1 .. Len(out)
    OBVIOUS
  <2>2. Max(I) \in I /\ \A y \in I : y <= Max(I)
    <3>. HIDE DEF I
    <3>1. QED  BY <1>2, <1>5, <2>1, Greatest
  <2>3. BeforeOperand(out, level, equal) = Max(I)
    BY <1>1, <1>5, Zenon
  <2>. HIDE DEF I
  <2>4. Max(I) \in 0 .. Len(out)
    <3>1. Max(I) \in 1 .. Len(out)
      BY <2>1, <2>2, Zenon
    <3>2. QED  BY <1>2, <3>1
  <2>5. \A i \in 1 .. Len(out) : out[i][1] \in Openers => i <= Max(I)
    BY <1>3, <2>2
  <2>6. QED  BY <2>3, <2>4, <2>5, Zenon
<1>6. QED  BY <1>4, <1>5

LEMMA KeepsAll ==
    ASSUME NEW a, NEW b, NEW c, IsSequence(a), IsSequence(b), Keeps(a, b, Len(a)), Keeps(b, c, Len(b))
    PROVE  Keeps(a, c, Len(a))
<1>1. SUFFICES ASSUME NEW i \in 1 .. Len(a), i <= Len(a), a[i][1] \in Openers
               PROVE  i \in 1 .. Len(c) /\ c[i][1] = a[i][1]
  BY Zenon DEF Keeps
<1>2. i \in 1 .. Len(b) /\ b[i][1] = a[i][1]
  BY <1>1, Zenon DEF Keeps
<1>3. i <= Len(b)
  BY <1>2, SeqFacts
<1>4. QED  BY <1>1, <1>2, <1>3, Zenon DEF Keeps

LEMMA KeepsAhead ==
    ASSUME NEW out, IsSequence(out), NEW k \in 0 .. Len(out), NEW n \in Int, n <= k, NEW x
    PROVE  Keeps(out, Ahead(out, k), n) /\ Keeps(out, Append(Ahead(out, k), x), n)
<1>1. SUFFICES ASSUME NEW i \in 1 .. Len(out), i <= n
               PROVE  /\ i \in 1 .. Len(Ahead(out, k)) /\ Ahead(out, k)[i] = out[i]
                      /\ i \in 1 .. Len(Append(Ahead(out, k), x)) /\ Append(Ahead(out, k), x)[i] = out[i]
  BY Zenon DEF Keeps
<1>2. Len(out) \in Nat /\ IsSequence(Ahead(out, k)) /\ Len(Ahead(out, k)) = k
  BY SeqFacts, SeqAhead
<1>3. i \in 1 .. k
  BY <1>1, <1>2
<1>4. Ahead(out, k)[i] = out[i]
  BY <1>3, SeqAhead
<1>5. Len(Append(Ahead(out, k), x)) = k + 1 /\ Append(Ahead(out, k), x)[i] = Ahead(out, k)[i]
  BY <1>2, <1>3, SeqAppend
<1>6. QED  BY <1>2, <1>3, <1>4, <1>5

LEMMA KeepsAppend ==
    ASSUME NEW out, IsSequence(out), NEW x
    PROVE  Keeps(out, Append(out, x), Len(out)) /\ Keeps(out, out, Len(out))
<1>1. \A i \in 1 .. Len(out) : Append(out, x)[i] = out[i] /\ i \in 1 .. Len(Append(out, x))
  BY SeqFacts, SeqAppend
<1>2. QED  BY <1>1, Zenon DEF Keeps

\* The tokens after the last one that stays make room for one.
LEMMA KeepsBarriers ==
    ASSUME NEW out, IsSequence(out), NEW k \in 0 .. Len(out), NEW x,
           \A i \in 1 .. Len(out) : out[i][1] \in Openers => i <= k
    PROVE  /\ Keeps(out, Ahead(out, k), Len(out))
           /\ Keeps(out, Append(Ahead(out, k), x), Len(out))
<1>1. Keeps(out, Ahead(out, k), k) /\ Keeps(out, Append(Ahead(out, k), x), k)
  BY KeepsAhead
<1>2. QED  BY <1>1, Zenon DEF Keeps

------------------------------------------------------------------------------
\* The output and the operators of push_token.

OnlyOperators(ops) == IsSequence(ops) /\ \A i \in 1 .. Len(ops) : ops[i][1] \in {"operation", "lparen"}
IsStack(s) ==
    /\ s = [out |-> s.out, ops |-> s.ops, ec |-> s.ec]
    /\ IsSequence(s.out) /\ OnlyOperators(s.ops)
Parens(ops) == {i \in 1 .. Len(ops) : ops[i][1] = "lparen"}

\* Operators have got their operands.
Loosened(s, u) ==
    /\ IsStack(u) /\ Keeps(s.out, u.out, Len(s.out))
    /\ Parens(u.ops) = Parens(s.ops)
    /\ u.ec \in {s.ec, "assertion"}

LEMMA StackWith ==
    ASSUME NEW s, IsStack(s), NEW out, NEW ops, NEW ec
    PROVE  /\ [s EXCEPT !.out = out] = [out |-> out, ops |-> s.ops, ec |-> s.ec]
           /\ [s EXCEPT !.ops = ops] = [out |-> s.out, ops |-> ops, ec |-> s.ec]
           /\ [s EXCEPT !.ec = ec] = [out |-> s.out, ops |-> s.ops, ec |-> ec]
<1>1. s = [out |-> s.out, ops |-> s.ops, ec |-> s.ec]
  BY DEF IsStack
<1>2. PICK a, b, c : a = s.out /\ b = s.ops /\ c = s.ec
  OBVIOUS
<1>3. s = [out |-> a, ops |-> b, ec |-> c]
  BY <1>1, <1>2, Zenon
<1>4. [s EXCEPT !.out = out] = [out |-> out, ops |-> b, ec |-> c]
  BY <1>3
<1>5. [s EXCEPT !.ops = ops] = [out |-> a, ops |-> ops, ec |-> c]
  BY <1>3
<1>6. [s EXCEPT !.ec = ec] = [out |-> a, ops |-> b, ec |-> ec]
  BY <1>3
<1>7. QED  BY <1>2, <1>4, <1>5, <1>6, Zenon

\* A stack with another output, other operators or another error.
LEMMA StackOf ==
    ASSUME NEW out, IsSequence(out), NEW ops, OnlyOperators(ops), NEW ec
    PROVE  IsStack([out |-> out, ops |-> ops, ec |-> ec])
BY DEF IsStack

LEMMA FailedIsStack ==
    ASSUME NEW s, IsStack(s), NEW ec
    PROVE  IsStack(Failed(s, ec)) /\ Failed(s, ec).out = s.out /\ Failed(s, ec).ops = s.ops /\ Failed(s, ec).ec = ec
<1>1. Failed(s, ec) = [out |-> s.out, ops |-> s.ops, ec |-> ec]
  BY StackWith, Zenon DEF Failed
<1>2. IsStack([out |-> s.out, ops |-> s.ops, ec |-> ec])
  BY StackOf DEF IsStack
<1>3. QED  BY <1>1, <1>2

LEMMA OutIsStack ==
    ASSUME NEW s, IsStack(s), NEW t
    PROVE  /\ IsStack(Out(s, t)) /\ Out(s, t).out = Append(s.out, t)
           /\ Out(s, t).ops = s.ops /\ Out(s, t).ec = s.ec
<1>1. Out(s, t) = [out |-> Append(s.out, t), ops |-> s.ops, ec |-> s.ec]
  BY StackWith, Zenon DEF Out
<1>2. IsSequence(Append(s.out, t))
  BY SeqAppend DEF IsStack
<1>3. IsStack([out |-> Append(s.out, t), ops |-> s.ops, ec |-> s.ec])
  BY <1>2, StackOf DEF IsStack
<1>4. QED  BY <1>1, <1>3

LEMMA NewStack ==
    ASSUME NEW out, IsSequence(out), NEW ops, OnlyOperators(ops)
    PROVE  /\ IsStack(OnStack(out, ops)) /\ OnStack(out, ops).out = out
           /\ OnStack(out, ops).ops = ops /\ OnStack(out, ops).ec = Nothing
<1>1. IsStack([out |-> out, ops |-> ops, ec |-> Nothing])
  BY StackOf
<1>2. QED  BY <1>1 DEF OnStack

LEMMA LevelOfOperator ==
    ASSUME NEW op, op[1] = "operation"
    PROVE  Level(op) \in 0 .. 9 /\ IsRightAssociative(op) \in BOOLEAN
<1>1. ExpressionLevel(op[2]) \in {1, 3, 5, 6, 8, 9}
  BY DEF ExpressionLevel
<1>2. Level(op) = ExpressionLevel(op[2])
  <2>1. /\ op[1] \in {"expression", "operation"} /\ ~(op[1] \in Barriers)
        /\ ~(op[1] = "pipe")
    BY DEF Barriers
  <2>2. QED  BY <2>1 DEF Level
<1>3. QED  BY <1>1, <1>2 DEF IsRightAssociative, RightAssociative

\* The operators without the last one, and with another one.
LEMMA ParensOfFront ==
    ASSUME NEW s, IsStack(s), s.ops # <<>>
    PROVE  /\ OnlyOperators(Front(s.ops))
           /\ Len(s.ops) \in Nat /\ Len(s.ops) > 0 /\ Len(Front(s.ops)) = Len(s.ops) - 1
           /\ Last(s.ops)[1] \in {"operation", "lparen"}
           /\ Parens(Front(s.ops)) = Parens(s.ops) \ {Len(s.ops)}
           /\ Last(s.ops)[1] = "lparen" <=> Len(s.ops) \in Parens(s.ops)
<1>1. IsSequence(s.ops) /\ \A i \in 1 .. Len(s.ops) : s.ops[i][1] \in {"operation", "lparen"}
  BY DEF IsStack, OnlyOperators
<1>2. Len(s.ops) \in Nat /\ Len(s.ops) > 0
  BY <1>1, SeqFacts
<1>3. /\ IsSequence(Front(s.ops)) /\ Len(Front(s.ops)) = Len(s.ops) - 1
      /\ Last(s.ops) = s.ops[Len(s.ops)]
  BY <1>1, <1>2, SeqFront
<1>4. \A i \in 1 .. Len(s.ops) - 1 : Front(s.ops)[i] = s.ops[i]
  BY <1>1, <1>2, SeqFront
<1>5. OnlyOperators(Front(s.ops))
  BY <1>1, <1>2, <1>3, <1>4 DEF OnlyOperators
<1>6. Last(s.ops)[1] \in {"operation", "lparen"}
  BY <1>1, <1>2, <1>3
<1>7. Parens(Front(s.ops)) = Parens(s.ops) \ {Len(s.ops)}
  BY <1>2, <1>3, <1>4 DEF Parens
<1>8. Last(s.ops)[1] = "lparen" <=> Len(s.ops) \in Parens(s.ops)
  BY <1>2, <1>3 DEF Parens
<1>9. QED  BY <1>2, <1>3, <1>5, <1>6, <1>7, <1>8, Zenon

LEMMA ParensWith ==
    ASSUME NEW s, IsStack(s), NEW op, op[1] \in {"operation", "lparen"}
    PROVE  /\ OnlyOperators(Append(s.ops, op)) /\ Len(s.ops) \in Nat
           /\ op[1] = "lparen" => Parens(Append(s.ops, op)) = Parens(s.ops) \cup {Len(s.ops) + 1}
           /\ op[1] = "operation" => Parens(Append(s.ops, op)) = Parens(s.ops)
<1>1. IsSequence(s.ops) /\ \A i \in 1 .. Len(s.ops) : s.ops[i][1] \in {"operation", "lparen"}
  BY DEF IsStack, OnlyOperators
<1>2. Len(s.ops) \in Nat
  BY <1>1, SeqFacts
<1>3. /\ IsSequence(Append(s.ops, op)) /\ Len(Append(s.ops, op)) = Len(s.ops) + 1
      /\ Append(s.ops, op)[Len(s.ops) + 1] = op
      /\ \A i \in 1 .. Len(s.ops) : Append(s.ops, op)[i] = s.ops[i]
  BY <1>1, SeqAppend
<1>4. OnlyOperators(Append(s.ops, op))
  BY <1>1, <1>2, <1>3 DEF OnlyOperators
<1>5. ASSUME op[1] = "lparen" PROVE Parens(Append(s.ops, op)) = Parens(s.ops) \cup {Len(s.ops) + 1}
  BY <1>2, <1>3, <1>5 DEF Parens
<1>6. ASSUME op[1] = "operation" PROVE Parens(Append(s.ops, op)) = Parens(s.ops)
  BY <1>2, <1>3, <1>6 DEF Parens
<1>7. QED  BY <1>2, <1>3, <1>4, <1>5, <1>6, Zenon

\* The last operator that waits gets its operand.
LEMMA UnwoundLoosens ==
    ASSUME NEW s, IsStack(s), s.ec = Nothing, s.ops # <<>>, IsOperator(Last(s.ops))
    PROVE  /\ Loosened(s, Unwound(s))
           /\ Unwound(s).ec = Nothing => Len(Unwound(s).ops) = Len(s.ops) - 1
<1>. DEFINE op == Last(s.ops)
            k == BeforeOperand(s.out, Level(op), IsRightAssociative(op))
            x == WithOperand(op, Behind(s.out, k))
            out == Append(Ahead(s.out, k), x)
<1>1. op[1] = "operation"
  BY DEF IsOperator
<1>2. IsSequence(s.out)
  BY DEF IsStack
<1>3. k \in 0 .. Len(s.out) /\ \A i \in 1 .. Len(s.out) : s.out[i][1] \in Openers => i <= k
  <2>1. Level(op) \in 0 .. 9 /\ IsRightAssociative(op) \in BOOLEAN
    BY <1>1, LevelOfOperator
  <2>. HIDE DEF op
  <2>2. QED  BY <1>2, <2>1, BeforeOperandIs
<1>4. Unwound(s) = IF k = Len(s.out) THEN Failed(s, "assertion") ELSE OnStack(out, Front(s.ops))
  BY DEF Unwound, UnwoundOperator, RightOperand
<1>. HIDE DEF k, x
<1>5. CASE k = Len(s.out)
  <2>1. Unwound(s) = Failed(s, "assertion")
    BY <1>4, <1>5, Zenon
  <2>2. /\ IsStack(Unwound(s)) /\ Unwound(s).out = s.out /\ Unwound(s).ops = s.ops /\ Unwound(s).ec = "assertion"
    BY <2>1, FailedIsStack
  <2>3. Keeps(s.out, s.out, Len(s.out))
    BY <1>2, KeepsAppend
  <2>4. QED  BY <2>2, <2>3 DEF Loosened, Nothing
<1>6. CASE k # Len(s.out)
  <2>1. Unwound(s) = OnStack(out, Front(s.ops))
    BY <1>4, <1>6, Zenon
  <2>2. IsSequence(out)
    BY <1>2, <1>3, SeqAhead, SeqAppend
  <2>3. Keeps(s.out, out, Len(s.out))
    BY <1>2, <1>3, KeepsBarriers
  <2>4. OnlyOperators(Front(s.ops)) /\ Len(Front(s.ops)) = Len(s.ops) - 1
    BY ParensOfFront, Zenon
  <2>5. Parens(Front(s.ops)) = Parens(s.ops)
    <3>1. Len(s.ops) \notin Parens(s.ops)
      BY <1>1, ParensOfFront
    <3>2. Parens(Front(s.ops)) = Parens(s.ops) \ {Len(s.ops)}
      BY ParensOfFront, Zenon
    <3>3. QED  BY <3>1, <3>2
  <2>. HIDE DEF out, op
  <2>6. /\ IsStack(Unwound(s)) /\ Unwound(s).out = out /\ Unwound(s).ops = Front(s.ops) /\ Unwound(s).ec = Nothing
    BY <2>1, <2>2, <2>4, NewStack
  <2>7. QED  BY <2>3, <2>4, <2>5, <2>6 DEF Loosened
<1>7. QED  BY <1>5, <1>6

------------------------------------------------------------------------------
\* The rounds of the operators that get their operands, one after the other.

LEMMA RoundsTo ==
    ASSUME NEW s, IsStack(s), NEW level, NEW equal
    PROVE  \E f : /\ f = [i \in 0 .. Len(s.ops) |-> IF i = 0 THEN s ELSE UnwoundOnce(f[i - 1], level, equal)]
                  /\ UnwoundTo(s, level, equal) = f[Len(s.ops)]
<1>. DEFINE Rec(n, f) == f = [i \in 0 .. n |-> IF i = 0 THEN s ELSE UnwoundOnce(f[i - 1], level, equal)]
            S == {n \in Nat : \E f : Rec(n, f)}
<1>1. 0 \in S
  <2>. DEFINE f == [i \in 0 .. 0 |-> s]
  <2>1. Rec(0, f)  OBVIOUS
  <2>2. QED  BY <2>1
<1>2. ASSUME NEW n \in Nat, n \in S PROVE n + 1 \in S
  <2>1. PICK f : Rec(n, f)
    BY <1>2
  <2>. DEFINE g == [i \in 0 .. n + 1 |-> IF i = n + 1 THEN UnwoundOnce(f[n], level, equal) ELSE f[i]]
  <2>2. \A i \in 0 .. n : g[i] = f[i]  OBVIOUS
  <2>3. \A i \in 0 .. n : f[i] = IF i = 0 THEN s ELSE UnwoundOnce(f[i - 1], level, equal)
    BY <2>1
  <2>4. ASSUME NEW i \in 0 .. n + 1
        PROVE  g[i] = IF i = 0 THEN s ELSE UnwoundOnce(g[i - 1], level, equal)
    <3>1. CASE i = n + 1
      BY <3>1, <2>2
    <3>2. CASE i # n + 1
      <4>1. i \in 0 .. n /\ (i # 0 => i - 1 \in 0 .. n)
        BY <3>2
      <4>2. QED  BY <4>1, <2>2, <2>3
    <3>3. QED  BY <3>1, <3>2
  <2>5. Rec(n + 1, g)
    BY <2>4
  <2>. HIDE DEF Rec, g
  <2>6. \E h : Rec(n + 1, h)
    BY <2>5
  <2>7. QED  BY <2>6
<1>3. Len(s.ops) \in S
  <2>. HIDE DEF S
  <2>1. Nat \subseteq S
    BY <1>1, <1>2, Induct
  <2>2. Len(s.ops) \in Nat
    BY SeqFacts DEF IsStack, OnlyOperators
  <2>3. QED  BY <2>1, <2>2
<1>4. PICK f : Rec(Len(s.ops), f)
  BY <1>3
<1>5. UnwoundTo(s, level, equal) = (CHOOSE f_1 : Rec(Len(s.ops), f_1))[Len(s.ops)]
  BY Zenon DEF UnwoundTo
<1>. HIDE DEF Rec
<1>6. Rec(Len(s.ops), CHOOSE f_1 : Rec(Len(s.ops), f_1))
  BY <1>4
<1>7. PICK r : Rec(Len(s.ops), r) /\ UnwoundTo(s, level, equal) = r[Len(s.ops)]
  BY <1>5, <1>6, Zenon
<1>8. QED  BY <1>7 DEF Rec

LEMMA LoosenedItself ==
    ASSUME NEW s, IsStack(s)
    PROVE  Loosened(s, s)
BY KeepsAppend DEF Loosened, IsStack

LEMMA LoosenedThen ==
    ASSUME NEW s, NEW u, NEW v, IsStack(s), s.ec = Nothing, Loosened(s, u), Loosened(u, v)
    PROVE  Loosened(s, v)
<1>1. IsSequence(s.out) /\ IsSequence(u.out)
  BY DEF Loosened, IsStack
<1>2. Keeps(s.out, v.out, Len(s.out))
  BY <1>1, KeepsAll DEF Loosened
<1>3. QED  BY <1>2 DEF Loosened

LEMMA UnwoundOnceLoosens ==
    ASSUME NEW s, IsStack(s), NEW level, NEW equal
    PROVE  LET u == UnwoundOnce(s, level, equal) IN
           /\ Loosened(s, u)
           /\ \/ u = s /\ (s.ec = Nothing /\ s.ops # <<>> => ~BindsBefore(Last(s.ops), level, equal))
              \/ u.ec # Nothing
              \/ Len(u.ops) = Len(s.ops) - 1
<1>1. CASE s.ec = Nothing /\ s.ops # <<>> /\ BindsBefore(Last(s.ops), level, equal)
  <2>1. IsOperator(Last(s.ops))
    BY <1>1 DEF BindsBefore
  <2>2. Loosened(s, Unwound(s)) /\ (Unwound(s).ec = Nothing => Len(Unwound(s).ops) = Len(s.ops) - 1)
    BY <1>1, <2>1, UnwoundLoosens
  <2>3. UnwoundOnce(s, level, equal) = Unwound(s)
    BY <1>1, Zenon DEF UnwoundOnce
  <2>4. QED  BY <2>2, <2>3, Zenon
<1>2. CASE ~(s.ec = Nothing /\ s.ops # <<>> /\ BindsBefore(Last(s.ops), level, equal))
  <2>1. UnwoundOnce(s, level, equal) = s
    BY <1>2, Zenon DEF UnwoundOnce
  <2>2. QED  BY <1>2, <2>1, LoosenedItself, Zenon
<1>3. QED  BY <1>1, <1>2

\* No operator on top binds before the level any more.
LEMMA UnwoundToLoosens ==
    ASSUME NEW s, IsStack(s), s.ec = Nothing, NEW level, NEW equal
    PROVE  LET u == UnwoundTo(s, level, equal) IN
           /\ Loosened(s, u)
           /\ u.ec = Nothing /\ u.ops # <<>> => ~BindsBefore(Last(u.ops), level, equal)
<1>. DEFINE Done(u) == u.ec = Nothing /\ u.ops # <<>> => ~BindsBefore(Last(u.ops), level, equal)
<1>1. PICK f : /\ f = [i \in 0 .. Len(s.ops) |-> IF i = 0 THEN s ELSE UnwoundOnce(f[i - 1], level, equal)]
               /\ UnwoundTo(s, level, equal) = f[Len(s.ops)]
  BY RoundsTo
<1>2. Len(s.ops) \in Nat
  BY SeqFacts DEF IsStack, OnlyOperators
<1>. DEFINE S == {n \in Nat : n <= Len(s.ops) =>
                     Loosened(s, f[n]) /\ (Done(f[n]) \/ Len(f[n].ops) = Len(s.ops) - n)}
<1>3. 0 \in S
  <2>1. f[0] = s
    BY <1>1, <1>2
  <2>2. QED  BY <1>2, <2>1, LoosenedItself
<1>4. ASSUME NEW n \in Nat, n \in S PROVE n + 1 \in S
  <2>1. SUFFICES ASSUME n + 1 <= Len(s.ops)
                 PROVE  Loosened(s, f[n + 1]) /\ (Done(f[n + 1]) \/ Len(f[n + 1].ops) = Len(s.ops) - (n + 1))
    OBVIOUS
  <2>2. f[n + 1] = UnwoundOnce(f[n], level, equal)
    BY <1>1, <1>2, <2>1
  <2>3. n <= Len(s.ops)
    BY <1>2, <2>1
  <2>4. Loosened(s, f[n]) /\ (Done(f[n]) \/ Len(f[n].ops) = Len(s.ops) - n)
    BY <1>4, <2>3
  <2>5. IsStack(f[n])
    BY <2>4 DEF Loosened
  <2>6. /\ Loosened(f[n], f[n + 1])
        /\ \/ f[n + 1] = f[n] /\ Done(f[n])
           \/ f[n + 1].ec # Nothing
           \/ Len(f[n + 1].ops) = Len(f[n].ops) - 1
    BY <2>2, <2>5, UnwoundOnceLoosens
  <2>7. Loosened(s, f[n + 1])
    BY <2>4, <2>6, LoosenedThen
  <2>8. CASE Done(f[n])
    <3>1. UnwoundOnce(f[n], level, equal) = f[n]
      BY <2>8, Zenon DEF UnwoundOnce
    <3>2. QED  BY <2>2, <2>7, <2>8, <3>1, Zenon
  <2>9. CASE ~Done(f[n])
    <3>1. Len(f[n].ops) = Len(s.ops) - n
      BY <2>4, <2>9, Zenon
    <3>2. Len(f[n].ops) - 1 = Len(s.ops) - (n + 1)
      BY <1>2, <3>1
    <3>3. QED  BY <2>6, <2>7, <2>9, <3>2, Zenon
  <2>10. QED  BY <2>8, <2>9
<1>5. Len(s.ops) \in S
  <2>. HIDE DEF S
  <2>1. Nat \subseteq S
    BY <1>3, <1>4, Induct
  <2>2. QED  BY <1>2, <2>1
<1>. DEFINE u == f[Len(s.ops)]
<1>6. Loosened(s, u) /\ (Done(u) \/ Len(u.ops) = 0)
  BY <1>2, <1>5
<1>7. Len(u.ops) = 0 => u.ops = <<>>
  BY <1>6, SeqFacts DEF Loosened, IsStack, OnlyOperators
<1>. HIDE DEF u
<1>8. Loosened(s, u) /\ Done(u)
  BY <1>6, <1>7
<1>9. UnwoundTo(s, level, equal) = u
  BY <1>1 DEF u
<1>10. QED  BY <1>8, <1>9

LEMMA RoundsOfAll ==
    ASSUME NEW s, IsStack(s)
    PROVE  \E f : /\ f = [i \in 0 .. Len(s.ops) |-> IF i = 0 THEN s ELSE Drained(f[i - 1])]
                  /\ UnwoundAll(s) = f[Len(s.ops)]
<1>. DEFINE Rec(n, f) == f = [i \in 0 .. n |-> IF i = 0 THEN s ELSE Drained(f[i - 1])]
            S == {n \in Nat : \E f : Rec(n, f)}
<1>1. 0 \in S
  <2>. DEFINE f == [i \in 0 .. 0 |-> s]
  <2>1. Rec(0, f)  OBVIOUS
  <2>2. QED  BY <2>1
<1>2. ASSUME NEW n \in Nat, n \in S PROVE n + 1 \in S
  <2>1. PICK f : Rec(n, f)
    BY <1>2
  <2>. DEFINE g == [i \in 0 .. n + 1 |-> IF i = n + 1 THEN Drained(f[n]) ELSE f[i]]
  <2>2. \A i \in 0 .. n : g[i] = f[i]  OBVIOUS
  <2>3. \A i \in 0 .. n : f[i] = IF i = 0 THEN s ELSE Drained(f[i - 1])
    BY <2>1
  <2>4. ASSUME NEW i \in 0 .. n + 1 PROVE g[i] = IF i = 0 THEN s ELSE Drained(g[i - 1])
    <3>1. CASE i = n + 1
      BY <3>1, <2>2
    <3>2. CASE i # n + 1
      <4>1. i \in 0 .. n /\ (i # 0 => i - 1 \in 0 .. n)
        BY <3>2
      <4>2. QED  BY <4>1, <2>2, <2>3
    <3>3. QED  BY <3>1, <3>2
  <2>5. Rec(n + 1, g)
    BY <2>4
  <2>. HIDE DEF Rec, g
  <2>6. \E h : Rec(n + 1, h)
    BY <2>5
  <2>7. QED  BY <2>6
<1>3. Len(s.ops) \in S
  <2>. HIDE DEF S
  <2>1. Nat \subseteq S
    BY <1>1, <1>2, Induct
  <2>2. Len(s.ops) \in Nat
    BY SeqFacts DEF IsStack, OnlyOperators
  <2>3. QED  BY <2>1, <2>2
<1>4. PICK f : Rec(Len(s.ops), f)
  BY <1>3
<1>5. UnwoundAll(s) = (CHOOSE f_1 : Rec(Len(s.ops), f_1))[Len(s.ops)]
  BY Zenon DEF UnwoundAll
<1>. HIDE DEF Rec
<1>6. Rec(Len(s.ops), CHOOSE f_1 : Rec(Len(s.ops), f_1))
  BY <1>4
<1>7. PICK r : Rec(Len(s.ops), r) /\ UnwoundAll(s) = r[Len(s.ops)]
  BY <1>5, <1>6, Zenon
<1>8. QED  BY <1>7 DEF Rec

\* One operator or left parenthesis less.
LEMMA DrainedIsStack ==
    ASSUME NEW u, IsStack(u), u.ec \in {Nothing, "assertion"}, u.ec = Nothing => u.ops # <<>>
    PROVE  LET v == Drained(u) IN
           /\ IsStack(v) /\ v.ec \in {Nothing, "assertion"}
           /\ v.ec = Nothing => u.ec = Nothing /\ Len(v.ops) = Len(u.ops) - 1
<1>1. CASE u.ec # Nothing
  <2>1. Drained(u) = u
    BY <1>1 DEF Drained
  <2>2. QED  BY <1>1, <2>1
<1>2. CASE u.ec = Nothing /\ IsOperator(Last(u.ops))
  <2>1. Drained(u) = Unwound(u)
    BY <1>2 DEF Drained
  <2>2. Loosened(u, Unwound(u)) /\ (Unwound(u).ec = Nothing => Len(Unwound(u).ops) = Len(u.ops) - 1)
    BY <1>2, UnwoundLoosens
  <2>3. IsStack(Unwound(u)) /\ Unwound(u).ec \in {Nothing, "assertion"}
    BY <1>2, <2>2 DEF Loosened
  <2>4. QED  BY <1>2, <2>1, <2>2, <2>3
<1>3. CASE u.ec = Nothing /\ ~IsOperator(Last(u.ops))
  <2>. DEFINE w == Out(u, Last(u.ops))
  <2>1. Drained(u) = [w EXCEPT !.ops = Front(u.ops)]
    BY <1>3 DEF Drained
  <2>2. IsStack(w) /\ w.ec = Nothing
    BY <1>3, OutIsStack
  <2>3. OnlyOperators(Front(u.ops)) /\ Len(Front(u.ops)) = Len(u.ops) - 1
    BY <1>3, ParensOfFront
  <2>. HIDE DEF w
  <2>4. Drained(u) = [out |-> w.out, ops |-> Front(u.ops), ec |-> w.ec]
    BY <2>1, <2>2, StackWith
  <2>5. IsStack([out |-> w.out, ops |-> Front(u.ops), ec |-> w.ec])
    BY <2>2, <2>3, StackOf DEF IsStack
  <2>6. QED  BY <1>3, <2>2, <2>3, <2>4, <2>5
<1>4. QED  BY <1>1, <1>2, <1>3

LEMMA UnwoundAllFails ==
    ASSUME NEW s, IsStack(s), s.ec = Nothing
    PROVE  IsStack(UnwoundAll(s)) /\ UnwoundAll(s).ec \in {Nothing, "assertion"}
<1>1. PICK f : /\ f = [i \in 0 .. Len(s.ops) |-> IF i = 0 THEN s ELSE Drained(f[i - 1])]
               /\ UnwoundAll(s) = f[Len(s.ops)]
  BY RoundsOfAll
<1>2. Len(s.ops) \in Nat
  BY SeqFacts DEF IsStack, OnlyOperators
<1>. DEFINE Fits(u, n) == /\ IsStack(u) /\ u.ec \in {Nothing, "assertion"}
                          /\ u.ec = Nothing => Len(u.ops) = Len(s.ops) - n
            S == {n \in Nat : n <= Len(s.ops) => Fits(f[n], n)}
<1>3. 0 \in S
  <2>1. f[0] = s
    BY <1>1, <1>2
  <2>2. QED  BY <1>2, <2>1
<1>4. ASSUME NEW n \in Nat, n \in S PROVE n + 1 \in S
  <2>1. SUFFICES ASSUME n + 1 <= Len(s.ops) PROVE Fits(f[n + 1], n + 1)
    OBVIOUS
  <2>2. f[n + 1] = Drained(f[n])
    BY <1>1, <1>2, <2>1
  <2>3. n <= Len(s.ops)
    BY <1>2, <2>1
  <2>4. Fits(f[n], n)
    BY <1>4, <2>3
  <2>5. ASSUME f[n].ec = Nothing PROVE f[n].ops # <<>>
    <3>1. Len(f[n].ops) = Len(s.ops) - n
      BY <2>4, <2>5
    <3>2. Len(f[n].ops) # 0
      BY <1>2, <2>1, <3>1
    <3>3. QED  BY <2>4, <3>2, EmptyIsSequence
  <2>6. /\ IsStack(f[n + 1]) /\ f[n + 1].ec \in {Nothing, "assertion"}
        /\ f[n + 1].ec = Nothing => f[n].ec = Nothing /\ Len(f[n + 1].ops) = Len(f[n].ops) - 1
    BY <2>2, <2>4, <2>5, DrainedIsStack
  <2>7. ASSUME f[n + 1].ec = Nothing PROVE Len(f[n + 1].ops) = Len(s.ops) - (n + 1)
    <3>1. Len(f[n + 1].ops) = Len(f[n].ops) - 1 /\ Len(f[n].ops) = Len(s.ops) - n
      BY <2>4, <2>6, <2>7
    <3>2. QED  BY <1>2, <3>1
  <2>8. QED  BY <2>6, <2>7
<1>5. Len(s.ops) \in S
  <2>. HIDE DEF S
  <2>1. Nat \subseteq S
    BY <1>3, <1>4, Induct
  <2>2. QED  BY <1>2, <2>1
<1>6. Fits(f[Len(s.ops)], Len(s.ops))
  BY <1>2, <1>5
<1>7. QED  BY <1>1, <1>6

\* An operator gets its left operand.
LEMMA WithOperatorLoosens ==
    ASSUME NEW s, IsStack(s), s.ec = Nothing, NEW op, op[1] = "operation"
    PROVE  Loosened(s, WithOperator(s, op))
<1>. DEFINE u == UnwoundTo(s, Level(op), ~IsRightAssociative(op))
            k == BeforeOperand(u.out, Level(op), ~IsRightAssociative(op))
            x == WithOperand(op, Behind(u.out, k))
<1>1. Loosened(s, u)
  BY UnwoundToLoosens
<1>2. IsStack(u) /\ IsSequence(u.out)
  BY <1>1 DEF Loosened, IsStack
<1>3. WithOperator(s, op) = IF u.ec # Nothing THEN u
                            ELSE IF k = Len(u.out) THEN [u EXCEPT !.ops = Append(u.ops, op)]
                            ELSE OnStack(Ahead(u.out, k), Append(u.ops, x))
  BY DEF WithOperator, LeftOperand
<1>4. k \in 0 .. Len(u.out) /\ \A i \in 1 .. Len(u.out) : u.out[i][1] \in Openers => i <= k
  <2>1. Level(op) \in 0 .. 9 /\ (~IsRightAssociative(op)) \in BOOLEAN
    BY LevelOfOperator
  <2>. HIDE DEF u
  <2>2. QED  BY <1>2, <2>1, BeforeOperandIs
<1>5. x[1] = "operation"
  BY DEF WithOperand
<1>. HIDE DEF u, k, x
<1>6. CASE u.ec # Nothing
  BY <1>1, <1>3, <1>6
<1>7. CASE u.ec = Nothing /\ k = Len(u.out)
  <2>1. WithOperator(s, op) = [u EXCEPT !.ops = Append(u.ops, op)]
    BY <1>3, <1>7, Zenon
  <2>2. WithOperator(s, op) = [out |-> u.out, ops |-> Append(u.ops, op), ec |-> u.ec]
    BY <1>2, <2>1, StackWith
  <2>3. OnlyOperators(Append(u.ops, op)) /\ Parens(Append(u.ops, op)) = Parens(u.ops)
    <3>1. op[1] \in {"operation", "lparen"}
      OBVIOUS
    <3>2. QED  BY <1>2, <3>1, ParensWith
  <2>4. IsStack([out |-> u.out, ops |-> Append(u.ops, op), ec |-> u.ec])
    BY <1>2, <2>3, StackOf
  <2>5. QED  BY <1>1, <2>2, <2>3, <2>4 DEF Loosened
<1>8. CASE u.ec = Nothing /\ k # Len(u.out)
  <2>1. WithOperator(s, op) = OnStack(Ahead(u.out, k), Append(u.ops, x))
    BY <1>3, <1>8, Zenon
  <2>2. OnlyOperators(Append(u.ops, x)) /\ Parens(Append(u.ops, x)) = Parens(u.ops)
    <3>1. x[1] \in {"operation", "lparen"}
      BY <1>5
    <3>2. QED  BY <1>2, <1>5, <3>1, ParensWith
  <2>3. IsSequence(Ahead(u.out, k)) /\ Keeps(u.out, Ahead(u.out, k), Len(u.out))
    BY <1>2, <1>4, SeqAhead, KeepsBarriers
  <2>4. PICK out, ops : out = Ahead(u.out, k) /\ ops = Append(u.ops, x)
    OBVIOUS
  <2>5. IsSequence(out) /\ Keeps(u.out, out, Len(u.out)) /\ OnlyOperators(ops) /\ Parens(ops) = Parens(u.ops)
    BY <2>2, <2>3, <2>4, Zenon
  <2>6. WithOperator(s, op) = OnStack(out, ops)
    BY <2>1, <2>4, Zenon
  <2>7. /\ IsStack(WithOperator(s, op)) /\ WithOperator(s, op).out = out
        /\ WithOperator(s, op).ops = ops /\ WithOperator(s, op).ec = Nothing
    BY <2>5, <2>6, NewStack
  <2>8. Loosened(u, WithOperator(s, op))
    BY <1>2, <1>8, <2>5, <2>7 DEF Loosened
  <2>9. QED  BY <1>1, <2>8, LoosenedThen
<1>9. QED  BY <1>6, <1>7, <1>8

\* An expression is placed, and any token that opens nothing is put on the output.
LEMMA OutLoosens ==
    ASSUME NEW s, IsStack(s), NEW t
    PROVE  Loosened(s, Out(s, t)) /\ Out(s, t).ec = s.ec
<1>1. /\ IsStack(Out(s, t)) /\ Out(s, t).out = Append(s.out, t)
      /\ Out(s, t).ops = s.ops /\ Out(s, t).ec = s.ec
  BY OutIsStack
<1>2. Keeps(s.out, Append(s.out, t), Len(s.out))
  BY KeepsAppend DEF IsStack
<1>3. QED  BY <1>1, <1>2 DEF Loosened

LEMMA LastReplaced ==
    ASSUME NEW s, IsStack(s), s.out # <<>>, ~(Last(s.out)[1] \in Openers), NEW x
    PROVE  LET u == [s EXCEPT !.out = Append(Front(s.out), x)] IN Loosened(s, u) /\ u.ec = s.ec
<1>1. IsSequence(s.out) /\ OnlyOperators(s.ops)
  BY DEF IsStack
<1>2. Len(s.out) \in Nat /\ Len(s.out) > 0
  BY <1>1, SeqFacts
<1>3. Len(s.out) - 1 \in 0 .. Len(s.out) /\ Front(s.out) = Ahead(s.out, Len(s.out) - 1)
  BY <1>2 DEF Front, Ahead
<1>4. \A i \in 1 .. Len(s.out) : s.out[i][1] \in Openers => i <= Len(s.out) - 1
  BY <1>2 DEF Last
<1>5. PICK out : out = Append(Front(s.out), x)
  OBVIOUS
<1>6. IsSequence(Front(s.out))
  BY <1>1, <1>2, SeqFront
<1>7. IsSequence(out)
  BY <1>5, <1>6, SeqAppend
<1>8. Keeps(s.out, out, Len(s.out))
  BY <1>1, <1>3, <1>4, <1>5, KeepsBarriers
<1>9. [s EXCEPT !.out = out] = [out |-> out, ops |-> s.ops, ec |-> s.ec]
  BY StackWith
<1>10. IsStack([out |-> out, ops |-> s.ops, ec |-> s.ec])
  BY <1>1, <1>7, StackOf
<1>11. Loosened(s, [out |-> out, ops |-> s.ops, ec |-> s.ec])
  BY <1>8, <1>10 DEF Loosened
<1>12. QED  BY <1>5, <1>9, <1>11

LEMMA PlacedLoosens ==
    ASSUME NEW s, IsStack(s), NEW e, NEW level, NEW right
    PROVE  Loosened(s, Placed(s, e, level, right)) /\ Placed(s, e, level, right).ec = s.ec
<1>. DEFINE last == Last(s.out)
            x == <<"expression", Added(last[2], e)>>
            goes == s.out # <<>> /\ IsProjection(last) /\ Takes(last[2], level, right)
<1>1. Placed(s, e, level, right) =
        IF goes THEN [s EXCEPT !.out = Append(Front(s.out), x)] ELSE Out(s, <<"expression", e>>)
  BY DEF Placed
<1>2. CASE goes
  <2>1. ~(last[1] \in Openers)
    BY <1>2 DEF IsProjection, Openers
  <2>2. Placed(s, e, level, right) = [s EXCEPT !.out = Append(Front(s.out), x)]
    BY <1>1, <1>2, Zenon
  <2>. HIDE DEF x
  <2>3. QED  BY <1>2, <2>1, <2>2, LastReplaced
<1>3. CASE ~goes
  <2>1. Placed(s, e, level, right) = Out(s, <<"expression", e>>)
    BY <1>1, <1>3, Zenon
  <2>2. QED  BY <2>1, OutLoosens
<1>4. QED  BY <1>2, <1>3

\* A left parenthesis is taken from the operators, with those above it.
ParenTaken(s, u) ==
    /\ IsStack(u) /\ Keeps(s.out, u.out, Len(s.out))
    /\ u.ec \in {Nothing, "assertion"}
    /\ u.ec = Nothing => \E n \in Parens(s.ops) : Parens(u.ops) = Parens(s.ops) \ {n}

LEMMA UnwoundToParenTakes ==
    ASSUME NEW s, IsStack(s), s.ec = Nothing, Parens(s.ops) # {}
    PROVE  ParenTaken(s, UnwoundToParen(s))
<1>. DEFINE u == UnwoundTo(s, 15, FALSE)
            t == [u EXCEPT !.ops = Front(u.ops)]
            piped == u.out # <<>> /\ IsProjection(Last(u.out))
<1>1. /\ Loosened(s, u)
      /\ u.ec = Nothing /\ u.ops # <<>> => ~BindsBefore(Last(u.ops), 15, FALSE)
  BY UnwoundToLoosens
<1>2. UnwoundToParen(s) = CASE u.ec # Nothing -> u
                            [] u.ec = Nothing /\ u.ops = <<>> -> Failed(u, "unbalanced_parentheses")
                            [] OTHER -> IF piped THEN Out(t, Plain("pipe")) ELSE t
  BY DEF UnwoundToParen
<1>. HIDE DEF u
<1>3. CASE u.ec # Nothing
  <2>1. UnwoundToParen(s) = u
    BY <1>2, <1>3
  <2>2. QED  BY <1>1, <1>3, <2>1 DEF Loosened, ParenTaken
<1>4. CASE u.ec = Nothing
  <2>1. u.ops # <<>>
    <3>1. Parens(<<>>) = {}
      BY EmptyIsSequence DEF Parens
    <3>2. QED  BY <1>1, <3>1 DEF Loosened
  <2>2. IsStack(u)
    BY <1>1 DEF Loosened
  <2>3. /\ OnlyOperators(Front(u.ops)) /\ Last(u.ops)[1] \in {"operation", "lparen"}
        /\ Parens(Front(u.ops)) = Parens(u.ops) \ {Len(u.ops)}
    BY <2>1, <2>2, ParensOfFront, Zenon
  <2>4. Last(u.ops)[1] = "lparen"
    <3>1. ASSUME Last(u.ops)[1] = "operation" PROVE FALSE
      <4>1. Level(Last(u.ops)) \in 0 .. 9
        BY <3>1, LevelOfOperator
      <4>2. BindsBefore(Last(u.ops), 15, FALSE)
        BY <3>1, <4>1 DEF BindsBefore, IsOperator
      <4>3. QED  BY <1>1, <1>4, <2>1, <4>2
    <3>2. QED  BY <2>3, <3>1
  <2>5. Len(u.ops) \in Parens(u.ops)
    BY <2>1, <2>2, <2>4, ParensOfFront, Zenon
  <2>6. t = [out |-> u.out, ops |-> Front(u.ops), ec |-> u.ec]
    BY <2>2, StackWith
  <2>7. IsStack([out |-> u.out, ops |-> Front(u.ops), ec |-> u.ec])
    BY <2>2, <2>3, StackOf DEF IsStack
  <2>8. IsStack(t) /\ t.out = u.out /\ t.ops = Front(u.ops) /\ t.ec = Nothing
    BY <1>4, <2>6, <2>7
  <2>. HIDE DEF t
  <2>9. /\ Loosened(t, UnwoundToParen(s)) /\ UnwoundToParen(s).ec = Nothing
    <3>1. UnwoundToParen(s) = IF piped THEN Out(t, Plain("pipe")) ELSE t
      BY <1>2, <1>4, <2>1
    <3>2. CASE piped
      BY <2>8, <3>1, <3>2, OutLoosens
    <3>3. CASE ~piped
      BY <2>8, <3>1, <3>3, LoosenedItself
    <3>4. QED  BY <3>2, <3>3
  <2>10. Keeps(s.out, UnwoundToParen(s).out, Len(s.out))
    <3>1. Keeps(s.out, u.out, Len(s.out)) /\ Keeps(u.out, UnwoundToParen(s).out, Len(u.out))
      BY <1>1, <2>8, <2>9 DEF Loosened
    <3>2. QED  BY <2>2, <3>1, KeepsAll DEF IsStack
  <2>11. Parens(UnwoundToParen(s).ops) = Parens(s.ops) \ {Len(u.ops)}
    BY <1>1, <2>3, <2>8, <2>9 DEF Loosened
  <2>12. Len(u.ops) \in Parens(s.ops)
    BY <1>1, <2>5 DEF Loosened
  <2>13. QED  BY <2>9, <2>10, <2>11, <2>12 DEF ParenTaken, Loosened
<1>5. QED  BY <1>3, <1>4

------------------------------------------------------------------------------
\* The states that wait for a closing token, the opening tokens they find, and what is
\* the same after every step.

OpeningStates == {"filter", "multi_select_list", "multi_select_hash", "expect_rbrace", "expression_type",
                  "function_expression", "expect_in_or_comma"}
OpeningToken(state) ==
    CASE state = "filter" -> "begin_filter" [] state = "multi_select_list" -> "begin_multi_select_list"
      [] state \in {"multi_select_hash", "expect_rbrace"} -> "begin_multi_select_hash"
      [] state = "expression_type" -> "begin_expression_type" [] state = "function_expression" -> "function"
      [] state = "expect_in_or_comma" -> "variable" [] OTHER -> Nothing

\* The opening tokens are on the output in the order of the states.
Places(f, out, st) ==
    /\ \A i \in 1 .. Len(st) : st[i] \in OpeningStates =>
            f[i] \in 1 .. Len(out) /\ out[f[i]][1] = OpeningToken(st[i])
    /\ \A i, j \in 1 .. Len(st) : i < j /\ st[i] \in OpeningStates /\ st[j] \in OpeningStates => f[i] < f[j]
Found(out, st) == \E f : Places(f, out, st)

LevelsOf(st) == {i \in 1 .. Len(st) : st[i] \in LevelStates}
Balanced(s, st) ==
    /\ IsStack(s) /\ s.ec = Nothing /\ IsSequence(st) /\ Found(s.out, st)
    /\ Cardinality(Parens(s.ops)) = Cardinality(LevelsOf(st))

LEMMA OpeningTokenOpens ==
    ASSUME NEW state \in OpeningStates
    PROVE  OpeningToken(state) \in Openers
BY DEF OpeningStates, OpeningToken, Openers

LEMMA OpeningStatesLevel == OpeningStates \subseteq LevelStates
BY DEF OpeningStates, LevelStates

LEMMA FoundKeeps ==
    ASSUME NEW out, IsSequence(out), NEW after, NEW st, Found(out, st), Keeps(out, after, Len(out))
    PROVE  Found(after, st)
<1>1. PICK f : Places(f, out, st)
  BY DEF Found
<1>2. ASSUME NEW i \in 1 .. Len(st), st[i] \in OpeningStates
      PROVE  f[i] \in 1 .. Len(after) /\ after[f[i]][1] = OpeningToken(st[i])
  <2>1. f[i] \in 1 .. Len(out) /\ out[f[i]][1] = OpeningToken(st[i])
    BY <1>1, <1>2, Zenon DEF Places
  <2>2. f[i] <= Len(out)
    BY <2>1, SeqFacts
  <2>3. out[f[i]][1] \in Openers
    BY <1>2, <2>1, OpeningTokenOpens, Zenon
  <2>4. f[i] \in 1 .. Len(after) /\ after[f[i]][1] = out[f[i]][1]
    BY <2>1, <2>2, <2>3, Zenon DEF Keeps
  <2>5. QED  BY <2>1, <2>4, Zenon
<1>3. Places(f, after, st)
  BY <1>1, <1>2, Zenon DEF Places
<1>4. QED  BY <1>3 DEF Found

LEMMA FoundDrop ==
    ASSUME NEW out, NEW st, IsSequence(st), NEW state, Found(out, Append(st, state))
    PROVE  Found(out, st)
<1>1. PICK f : Places(f, out, Append(st, state))
  BY DEF Found
<1>2. \A i \in 1 .. Len(st) : i \in 1 .. Len(Append(st, state)) /\ Append(st, state)[i] = st[i]
  BY SeqFacts, SeqAppend
<1>3. Places(f, out, st)
  BY <1>1, <1>2, Zenon DEF Places
<1>4. QED  BY <1>3 DEF Found

LEMMA FoundPlain ==
    ASSUME NEW out, NEW st, IsSequence(st), NEW state, state \notin OpeningStates, Found(out, st)
    PROVE  Found(out, Append(st, state))
<1>1. PICK f : Places(f, out, st)
  BY DEF Found
<1>2. \A i \in 1 .. Len(Append(st, state)) : Append(st, state)[i] \in OpeningStates =>
        i \in 1 .. Len(st) /\ Append(st, state)[i] = st[i]
  BY SeqFacts, SeqAppend
<1>3. Places(f, out, Append(st, state))
  BY <1>1, <1>2, Zenon DEF Places
<1>4. QED  BY <1>3 DEF Found

\* An opening token comes with its state.
LEMMA FoundOpen ==
    ASSUME NEW out, IsSequence(out), NEW st, IsSequence(st), NEW state \in OpeningStates,
           NEW t, t[1] = OpeningToken(state), Found(out, st)
    PROVE  Found(Append(out, t), Append(st, state))
<1>1. PICK f : Places(f, out, st)
  BY DEF Found
<1>. DEFINE n == Len(st) + 1
            g == [i \in 1 .. n |-> IF i = n THEN Len(out) + 1 ELSE f[i]]
            all == Append(st, state)
            after == Append(out, t)
<1>2. /\ Len(st) \in Nat /\ Len(out) \in Nat /\ Len(all) = n /\ all[n] = state
      /\ Len(after) = Len(out) + 1 /\ after[Len(out) + 1] = t
  BY SeqFacts, SeqAppend
<1>3. \A i \in 1 .. Len(st) : all[i] = st[i] /\ g[i] = f[i]
  BY <1>2, SeqAppend
<1>4. \A k \in 1 .. Len(out) : after[k] = out[k] /\ k \in 1 .. Len(after) /\ k < Len(out) + 1
  BY <1>2, SeqAppend
<1>5. g[n] = Len(out) + 1
  BY <1>2
<1>. HIDE DEF g, all, after
<1>6. ASSUME NEW i \in 1 .. Len(all), all[i] \in OpeningStates
      PROVE  g[i] \in 1 .. Len(after) /\ after[g[i]][1] = OpeningToken(all[i])
  <2>1. CASE i = n
    <3>1. Len(out) + 1 \in 1 .. Len(after)
      BY <1>2
    <3>2. QED  BY <1>2, <1>5, <2>1, <3>1, Zenon
  <2>2. CASE i # n
    <3>1. i \in 1 .. Len(st)
      BY <1>2, <2>2
    <3>2. f[i] \in 1 .. Len(out) /\ out[f[i]][1] = OpeningToken(st[i])
      BY <1>1, <1>3, <1>6, <3>1, Zenon DEF Places
    <3>3. QED  BY <1>3, <1>4, <3>1, <3>2, Zenon
  <2>3. QED  BY <2>1, <2>2
<1>7. ASSUME NEW i \in 1 .. Len(all), NEW j \in 1 .. Len(all), i < j, all[i] \in OpeningStates,
             all[j] \in OpeningStates
      PROVE  g[i] < g[j]
  <2>1. i \in 1 .. Len(st)
    BY <1>2, <1>7
  <2>2. f[i] \in 1 .. Len(out)
    BY <1>1, <1>3, <1>7, <2>1, Zenon DEF Places
  <2>3. CASE j = n
    <3>1. f[i] < Len(out) + 1
      BY <1>4, <2>2
    <3>2. QED  BY <1>3, <1>5, <2>1, <2>3, <3>1, Zenon
  <2>4. CASE j # n
    <3>1. j \in 1 .. Len(st)
      BY <1>2, <2>4
    <3>2. f[i] < f[j]
      BY <1>1, <1>3, <1>7, <2>1, <3>1, Zenon DEF Places
    <3>3. QED  BY <1>3, <2>1, <3>1, <3>2, Zenon
  <2>5. QED  BY <2>3, <2>4
<1>8. Places(g, after, all)
  BY <1>6, <1>7, Zenon DEF Places
<1>9. QED  BY <1>8 DEF Found, after, all

\* The state gives way to one that waits for the same.
LEMMA FoundSwap ==
    ASSUME NEW out, NEW st, IsSequence(st), NEW old, NEW new, Found(out, Append(st, old)),
           new \in OpeningStates => old \in OpeningStates /\ OpeningToken(new) = OpeningToken(old)
    PROVE  Found(out, Append(st, new))
<1>1. PICK f : Places(f, out, Append(st, old))
  BY DEF Found
<1>2. /\ Len(st) \in Nat /\ Len(Append(st, new)) = Len(st) + 1 /\ Len(Append(st, old)) = Len(st) + 1
      /\ Append(st, new)[Len(st) + 1] = new /\ Append(st, old)[Len(st) + 1] = old
      /\ \A i \in 1 .. Len(st) : Append(st, new)[i] = st[i] /\ Append(st, old)[i] = st[i]
  BY SeqFacts, SeqAppend
<1>3. ASSUME NEW i \in 1 .. Len(Append(st, new)), Append(st, new)[i] \in OpeningStates
      PROVE  /\ i \in 1 .. Len(Append(st, old)) /\ Append(st, old)[i] \in OpeningStates
             /\ OpeningToken(Append(st, new)[i]) = OpeningToken(Append(st, old)[i])
  <2>1. CASE i = Len(st) + 1
    <3>1. Len(st) + 1 \in 1 .. Len(Append(st, old))
      BY <1>2
    <3>2. QED  BY <1>2, <1>3, <2>1, <3>1, Zenon
  <2>2. CASE i # Len(st) + 1
    <3>1. i \in 1 .. Len(st) /\ i \in 1 .. Len(Append(st, old))
      BY <1>2, <2>2
    <3>2. QED  BY <1>2, <1>3, <3>1, Zenon
  <2>3. QED  BY <2>1, <2>2
<1>4. Places(f, out, Append(st, new))
  BY <1>1, <1>3, Zenon DEF Places
<1>5. QED  BY <1>4 DEF Found

\* What is in front of the last token of the kind keeps the other ones.
LEMMA FoundBelow ==
    ASSUME NEW out, IsSequence(out), NEW st, IsSequence(st), NEW state \in OpeningStates,
           Found(out, Append(st, state))
    PROVE  LET k == LastOfKind(out, OpeningToken(state)) IN
           /\ k \in 1 .. Len(out)
           /\ \A after : Keeps(out, after, k - 1) => Found(after, st)
<1>1. PICK f : Places(f, out, Append(st, state))
  BY DEF Found
<1>2. PICK k : k = LastOfKind(out, OpeningToken(state))
  OBVIOUS
<1>3. /\ Len(st) \in Nat /\ Len(Append(st, state)) = Len(st) + 1 /\ Append(st, state)[Len(st) + 1] = state
      /\ \A i \in 1 .. Len(st) : Append(st, state)[i] = st[i]
  BY SeqFacts, SeqAppend
<1>4. PICK m : m = f[Len(st) + 1]
  OBVIOUS
<1>5. m \in 1 .. Len(out) /\ out[m][1] = OpeningToken(state)
  <2>1. Len(st) + 1 \in 1 .. Len(Append(st, state))
    BY <1>3
  <2>2. QED  BY <1>1, <1>3, <1>4, <2>1, Zenon DEF Places
<1>6. Len(out) \in Nat /\ k \in 0 .. Len(out) /\ m <= k
  <2>1. Len(out) \in Nat
    BY SeqFacts
  <2>2. k \in 0 .. Len(out) /\ \A i \in 1 .. Len(out) : out[i][1] = OpeningToken(state) => i <= k
    BY <1>2, LastOfKindIs
  <2>3. QED  BY <1>5, <2>1, <2>2
<1>7. k \in 1 .. Len(out)
  BY <1>5, <1>6
<1>8. ASSUME NEW after, Keeps(out, after, k - 1) PROVE Found(after, st)
  <2>1. ASSUME NEW i \in 1 .. Len(st), st[i] \in OpeningStates
        PROVE  f[i] \in 1 .. Len(after) /\ after[f[i]][1] = OpeningToken(st[i])
    <3>1. i \in 1 .. Len(Append(st, state)) /\ Len(st) + 1 \in 1 .. Len(Append(st, state)) /\ i < Len(st) + 1
      BY <1>3
    <3>2. f[i] \in 1 .. Len(out) /\ out[f[i]][1] = OpeningToken(st[i]) /\ f[i] < m
      BY <1>1, <1>3, <1>4, <2>1, <3>1, Zenon DEF Places
    <3>3. f[i] <= k - 1
      BY <1>5, <1>6, <3>2
    <3>4. out[f[i]][1] \in Openers
      BY <2>1, <3>2, OpeningTokenOpens, Zenon
    <3>5. f[i] \in 1 .. Len(after) /\ after[f[i]][1] = out[f[i]][1]
      BY <1>8, <3>2, <3>3, <3>4, Zenon DEF Keeps
    <3>6. QED  BY <3>2, <3>5, Zenon
  <2>2. \A i \in 1 .. Len(st) : i \in 1 .. Len(Append(st, state))
    BY <1>3
  <2>3. Places(f, after, st)
    BY <1>1, <1>3, <2>1, <2>2, Zenon DEF Places
  <2>4. QED  BY <2>3 DEF Found
<1>9. QED  BY <1>2, <1>7, <1>8, Zenon

------------------------------------------------------------------------------
\* Left parentheses and states come and go together.

LEMMA LevelsWith ==
    ASSUME NEW st, IsSequence(st), NEW state
    PROVE  /\ IsFiniteSet(LevelsOf(st)) /\ Len(st) + 1 \notin LevelsOf(st)
           /\ state \in LevelStates => LevelsOf(Append(st, state)) = LevelsOf(st) \cup {Len(st) + 1}
           /\ state \notin LevelStates => LevelsOf(Append(st, state)) = LevelsOf(st)
<1>1. /\ Len(st) \in Nat /\ Len(Append(st, state)) = Len(st) + 1 /\ Append(st, state)[Len(st) + 1] = state
      /\ \A i \in 1 .. Len(st) : Append(st, state)[i] = st[i]
  BY SeqFacts, SeqAppend
<1>2. IsFiniteSet(LevelsOf(st))
  <2>1. IsFiniteSet(1 .. Len(st)) /\ LevelsOf(st) \subseteq 1 .. Len(st)
    BY <1>1, FS_Interval DEF LevelsOf
  <2>2. QED  BY <2>1, FS_Subset
<1>3. Len(st) + 1 \notin LevelsOf(st)
  BY <1>1 DEF LevelsOf
<1>4. ASSUME state \in LevelStates PROVE LevelsOf(Append(st, state)) = LevelsOf(st) \cup {Len(st) + 1}
  BY <1>1, <1>4 DEF LevelsOf
<1>5. ASSUME state \notin LevelStates PROVE LevelsOf(Append(st, state)) = LevelsOf(st)
  BY <1>1, <1>5 DEF LevelsOf
<1>6. QED  BY <1>2, <1>3, <1>4, <1>5, Zenon

LEMMA ParensFinite ==
    ASSUME NEW s, IsStack(s)
    PROVE  IsFiniteSet(Parens(s.ops)) /\ Len(s.ops) + 1 \notin Parens(s.ops)
<1>1. Len(s.ops) \in Nat
  BY SeqFacts DEF IsStack, OnlyOperators
<1>2. IsFiniteSet(1 .. Len(s.ops)) /\ Parens(s.ops) \subseteq 1 .. Len(s.ops)
  BY <1>1, FS_Interval DEF Parens
<1>3. IsFiniteSet(Parens(s.ops))
  BY <1>2, FS_Subset
<1>4. QED  BY <1>1, <1>3 DEF Parens

LEMMA BalancedWithout ==
    ASSUME NEW s, NEW st, IsSequence(st), NEW state, state \notin LevelStates, Balanced(s, Append(st, state))
    PROVE  Balanced(s, st)
<1>1. LevelsOf(Append(st, state)) = LevelsOf(st)
  BY LevelsWith
<1>2. Found(s.out, st)
  BY FoundDrop DEF Balanced
<1>3. QED  BY <1>1, <1>2 DEF Balanced

LEMMA BalancedWith ==
    ASSUME NEW s, NEW st, NEW state, state \notin LevelStates, Balanced(s, st)
    PROVE  Balanced(s, Append(st, state))
<1>1. IsSequence(st) /\ Found(s.out, st) /\ state \notin OpeningStates
  BY OpeningStatesLevel DEF Balanced
<1>2. LevelsOf(Append(st, state)) = LevelsOf(st) /\ IsSequence(Append(st, state))
  BY <1>1, LevelsWith, SeqAppend
<1>3. Found(s.out, Append(st, state))
  BY <1>1, FoundPlain
<1>4. QED  BY <1>2, <1>3 DEF Balanced

LEMMA BalancedLoosened ==
    ASSUME NEW s, NEW st, NEW u, Balanced(s, st), Loosened(s, u), u.ec = Nothing
    PROVE  Balanced(u, st)
<1>1. IsSequence(s.out) /\ Found(s.out, st) /\ Keeps(s.out, u.out, Len(s.out))
  BY DEF Balanced, Loosened, IsStack
<1>2. Found(u.out, st)
  BY <1>1, FoundKeeps
<1>3. QED  BY <1>2 DEF Balanced, Loosened

LEMMA BalancedSwap ==
    ASSUME NEW s, NEW st, IsSequence(st), NEW old \in LevelStates, NEW new \in LevelStates,
           Balanced(s, Append(st, old)),
           new \in OpeningStates => old \in OpeningStates /\ OpeningToken(new) = OpeningToken(old)
    PROVE  Balanced(s, Append(st, new))
<1>1. LevelsOf(Append(st, new)) = LevelsOf(st) \cup {Len(st) + 1} /\ IsSequence(Append(st, new))
  BY LevelsWith, SeqAppend
<1>2. LevelsOf(Append(st, old)) = LevelsOf(st) \cup {Len(st) + 1}
  BY LevelsWith
<1>3. Found(s.out, Append(st, new))
  BY FoundSwap DEF Balanced
<1>4. QED  BY <1>1, <1>2, <1>3 DEF Balanced

\* A left parenthesis more, for a state more.
LEMMA BalancedLevel ==
    ASSUME NEW s, NEW st, IsStack(s), IsSequence(st), s.ec = Nothing,
           Cardinality(Parens(s.ops)) = Cardinality(LevelsOf(st)),
           NEW state \in LevelStates, NEW out, IsSequence(out), Found(out, Append(st, state)),
           NEW t, t[1] = "lparen"
    PROVE  Balanced([out |-> out, ops |-> Append(s.ops, t), ec |-> s.ec], Append(st, state))
<1>. DEFINE u == [out |-> out, ops |-> Append(s.ops, t), ec |-> s.ec]
<1>1. OnlyOperators(Append(s.ops, t)) /\ Parens(Append(s.ops, t)) = Parens(s.ops) \cup {Len(s.ops) + 1}
  <2>1. t[1] \in {"operation", "lparen"}
    OBVIOUS
  <2>2. QED  BY <2>1, ParensWith, SMTT(30)
<1>2. IsFiniteSet(Parens(s.ops)) /\ Len(s.ops) + 1 \notin Parens(s.ops)
  BY ParensFinite
<1>3. Cardinality(Parens(Append(s.ops, t))) = Cardinality(Parens(s.ops)) + 1
  BY <1>1, <1>2, FS_AddElement
<1>4. LevelsOf(Append(st, state)) = LevelsOf(st) \cup {Len(st) + 1} /\ IsSequence(Append(st, state))
  BY LevelsWith, SeqAppend
<1>5. IsFiniteSet(LevelsOf(st)) /\ Len(st) + 1 \notin LevelsOf(st)
  BY LevelsWith
<1>6. Cardinality(LevelsOf(Append(st, state))) = Cardinality(LevelsOf(st)) + 1
  BY <1>4, <1>5, FS_AddElement
<1>7. IsStack(u)
  BY <1>1, StackOf
<1>8. u.out = out /\ u.ops = Append(s.ops, t) /\ u.ec = s.ec
  OBVIOUS
<1>. HIDE DEF u
<1>9. QED  BY <1>3, <1>4, <1>6, <1>7, <1>8 DEF Balanced, u

LEMMA BalancedParen ==
    ASSUME NEW s, NEW st, Balanced(s, st), NEW state \in LevelStates, state \notin OpeningStates,
           NEW t, t[1] = "lparen"
    PROVE  Balanced([s EXCEPT !.ops = Append(s.ops, t)], Append(st, state))
<1>1. [s EXCEPT !.ops = Append(s.ops, t)] = [out |-> s.out, ops |-> Append(s.ops, t), ec |-> s.ec]
  BY StackWith DEF Balanced
<1>2. Found(s.out, Append(st, state)) /\ IsSequence(s.out)
  BY FoundPlain DEF Balanced, IsStack
<1>3. Balanced([out |-> s.out, ops |-> Append(s.ops, t), ec |-> s.ec], Append(st, state))
  BY <1>2, BalancedLevel DEF Balanced
<1>4. QED  BY <1>1, <1>3

LEMMA OpeningIs ==
    ASSUME NEW s, IsStack(s), NEW t
    PROVE  Opening(s, t) = [out |-> Append(s.out, t), ops |-> Append(s.ops, Plain("lparen")), ec |-> s.ec]
<1>1. IsStack(Out(s, t)) /\ Out(s, t).out = Append(s.out, t) /\ Out(s, t).ec = s.ec
  BY OutIsStack
<1>2. Opening(s, t) = [Out(s, t) EXCEPT !.ops = Append(s.ops, Plain("lparen"))]
  BY DEF Opening
<1>3. QED  BY <1>1, <1>2, StackWith

LEMMA BalancedOpening ==
    ASSUME NEW s, NEW st, Balanced(s, st), NEW state \in OpeningStates, NEW t, t[1] = OpeningToken(state)
    PROVE  Balanced(Opening(s, t), Append(st, state))
<1>1. Opening(s, t) = [out |-> Append(s.out, t), ops |-> Append(s.ops, Plain("lparen")), ec |-> s.ec]
  BY OpeningIs DEF Balanced
<1>2. IsSequence(s.out) /\ IsSequence(st) /\ state \in LevelStates
  BY OpeningStatesLevel DEF Balanced, IsStack
<1>3. Found(Append(s.out, t), Append(st, state)) /\ IsSequence(Append(s.out, t))
  BY <1>2, FoundOpen, SeqAppend DEF Balanced
<1>4. PICK paren : paren = Plain("lparen")
  OBVIOUS
<1>5. paren[1] = "lparen"
  BY <1>4 DEF Plain
<1>6. PICK out : out = Append(s.out, t)
  OBVIOUS
<1>7. Balanced([out |-> out, ops |-> Append(s.ops, paren), ec |-> s.ec], Append(st, state))
  <2>1. IsSequence(out) /\ Found(out, Append(st, state))
    BY <1>3, <1>6, Zenon
  <2>2. IsStack(s) /\ s.ec = Nothing /\ Cardinality(Parens(s.ops)) = Cardinality(LevelsOf(st))
    BY DEF Balanced
  <2>3. QED  BY <1>2, <1>5, <2>1, <2>2, BalancedLevel
<1>8. QED  BY <1>1, <1>4, <1>6, <1>7

\* A left parenthesis less, while the state is still there.
Closing(s, st, state) ==
    /\ IsStack(s) /\ s.ec = Nothing /\ IsSequence(st) /\ Found(s.out, Append(st, state))
    /\ Cardinality(Parens(s.ops)) = Cardinality(LevelsOf(st))

LEMMA BalancedToParen ==
    ASSUME NEW s, NEW st, IsSequence(st), NEW state \in LevelStates, Balanced(s, Append(st, state))
    PROVE  /\ UnwoundToParen(s).ec \in {Nothing, "assertion"}
           /\ UnwoundToParen(s).ec = Nothing => Closing(UnwoundToParen(s), st, state)
<1>1. IsStack(s) /\ s.ec = Nothing /\ IsSequence(s.out) /\ Found(s.out, Append(st, state))
  BY DEF Balanced, IsStack
<1>2. LevelsOf(Append(st, state)) = LevelsOf(st) \cup {Len(st) + 1}
  BY LevelsWith
<1>3. IsFiniteSet(LevelsOf(st)) /\ Len(st) + 1 \notin LevelsOf(st)
  BY LevelsWith
<1>4. /\ Cardinality(LevelsOf(Append(st, state))) = Cardinality(LevelsOf(st)) + 1
      /\ Cardinality(LevelsOf(st)) \in Nat
  BY <1>2, <1>3, FS_AddElement, FS_CardinalityType
<1>5. Cardinality(Parens(s.ops)) = Cardinality(LevelsOf(st)) + 1
  BY <1>4 DEF Balanced
<1>6. IsFiniteSet(Parens(s.ops))
  BY <1>1, ParensFinite
<1>7. Parens(s.ops) # {}
  <2>1. Cardinality(Parens(s.ops)) # 0
    BY <1>4, <1>5
  <2>2. QED  BY <1>6, <2>1, FS_EmptySet, Zenon
<1>8. ParenTaken(s, UnwoundToParen(s))
  BY <1>1, <1>7, UnwoundToParenTakes
<1>9. PICK u : u = UnwoundToParen(s)
  OBVIOUS
<1>10. ASSUME u.ec = Nothing PROVE Closing(u, st, state)
  <2>1. PICK n \in Parens(s.ops) : Parens(u.ops) = Parens(s.ops) \ {n}
    BY <1>8, <1>9, <1>10 DEF ParenTaken
  <2>2. Cardinality(Parens(u.ops)) = Cardinality(Parens(s.ops)) - 1
    BY <1>6, <2>1, FS_RemoveElement
  <2>3. Cardinality(Parens(u.ops)) = Cardinality(LevelsOf(st))
    BY <1>4, <1>5, <2>2
  <2>4. Found(u.out, Append(st, state))
    BY <1>1, <1>8, <1>9, FoundKeeps DEF ParenTaken
  <2>5. QED  BY <1>8, <1>9, <1>10, <2>3, <2>4 DEF Closing, ParenTaken
<1>11. QED  BY <1>8, <1>9, <1>10 DEF ParenTaken

------------------------------------------------------------------------------
\* What push_token does with a token that ends something.

Unfound == {"unbalanced_parentheses", "unbalanced_braces"}
Follows(s, st) == s.ec \notin Unfound /\ (s.ec = Nothing => Balanced(s, st))

LEMMA FollowsFrom ==
    ASSUME NEW s, NEW st, Balanced(s, st), NEW u, Loosened(s, u)
    PROVE  Follows(u, st)
<1>1. u.ec \in {Nothing, "assertion"}
  BY DEF Loosened, Balanced
<1>2. u.ec \notin Unfound
  BY <1>1 DEF Unfound, Nothing
<1>3. QED  BY <1>2, BalancedLoosened DEF Follows

LEMMA FollowsFailed ==
    ASSUME NEW s, IsStack(s), NEW st, NEW error, error \notin Unfound, error # Nothing
    PROVE  Follows(Failed(s, error), st)
<1>1. Failed(s, error).ec = error
  BY FailedIsStack
<1>2. QED  BY <1>1 DEF Follows

\* The output up to the opening token that is closed, with it or without it.
LEMMA Shortened ==
    ASSUME NEW s, NEW st, NEW state \in OpeningStates, Closing(s, st, state), NEW k, NEW n,
           k = LastOfKind(s.out, OpeningToken(state)), n \in {k - 1, k}
    PROVE  Balanced([s EXCEPT !.out = Ahead(s.out, n)], st)
<1>1. IsStack(s) /\ s.ec = Nothing /\ IsSequence(s.out) /\ IsSequence(st) /\ OnlyOperators(s.ops)
  BY DEF Closing, IsStack
<1>2. k \in 1 .. Len(s.out) /\ \A after : Keeps(s.out, after, k - 1) => Found(after, st)
  BY <1>1, FoundBelow DEF Closing
<1>3. Len(s.out) \in Nat
  BY <1>1, SeqFacts
<1>4. n \in 0 .. Len(s.out) /\ k - 1 <= n /\ k - 1 \in Int
  BY <1>2, <1>3
<1>5. PICK out : out = Ahead(s.out, n)
  OBVIOUS
<1>6. IsSequence(out) /\ Keeps(s.out, out, k - 1)
  BY <1>1, <1>4, <1>5, SeqAhead, KeepsAhead
<1>7. Found(out, st)
  BY <1>2, <1>6
<1>8. [s EXCEPT !.out = out] = [out |-> out, ops |-> s.ops, ec |-> s.ec]
  BY <1>1, StackWith
<1>9. PICK w : w = [out |-> out, ops |-> s.ops, ec |-> s.ec]
  OBVIOUS
<1>10. IsStack(w)
  BY <1>1, <1>6, <1>9, StackOf
<1>11. w.out = out /\ w.ops = s.ops /\ w.ec = s.ec
  BY <1>9
<1>12. Balanced(w, st)
  BY <1>1, <1>7, <1>10, <1>11 DEF Balanced, Closing
<1>13. QED  BY <1>5, <1>8, <1>9, <1>12

LEMMA ClosingPlain ==
    ASSUME NEW s, NEW st, NEW state, Closing(s, st, state)
    PROVE  Balanced(s, st)
<1>1. Found(s.out, st)
  BY FoundDrop DEF Closing
<1>2. QED  BY <1>1 DEF Balanced, Closing

LEMMA ClosedFollows ==
    ASSUME NEW s, NEW st, NEW state \in OpeningStates, Closing(s, st, state)
    PROVE  Follows(Closed(s, OpeningToken(state), LastOfKind(s.out, OpeningToken(state))), st)
<1>1. PICK opening : opening = OpeningToken(state)
  OBVIOUS
<1>2. PICK k : k = LastOfKind(s.out, opening)
  OBVIOUS
<1>3. IsStack(s) /\ IsSequence(s.out) /\ IsSequence(st)
  BY DEF Closing, IsStack
<1>4. k \in 1 .. Len(s.out)
  BY <1>1, <1>2, <1>3, FoundBelow DEF Closing
<1>5. k # 0
  BY <1>4
<1>6. CASE k = Len(s.out) \/ (opening = "begin_multi_select_hash" /\ s.out[k + 1][1] # "key")
  <2>1. Closed(s, opening, k) = Failed(s, "undefined")
    BY <1>5, <1>6 DEF Closed
  <2>2. "undefined" \notin Unfound /\ "undefined" # Nothing
    BY DEF Unfound, Nothing
  <2>3. Follows(Failed(s, "undefined"), st)
    BY <1>3, <2>2, FollowsFailed
  <2>4. QED  BY <1>1, <1>2, <2>1, <2>3
<1>7. CASE ~(k = Len(s.out) \/ (opening = "begin_multi_select_hash" /\ s.out[k + 1][1] # "key"))
  <2>1. PICK w : w = [s EXCEPT !.out = Ahead(s.out, k - 1)]
    OBVIOUS
  <2>2. PICK e : e = Made(opening, Behind(s.out, k))
    OBVIOUS
  <2>3. Closed(s, opening, k) = Placed([s EXCEPT !.out = Ahead(s.out, k - 1)], Made(opening, Behind(s.out, k)), 0, FALSE)
    BY <1>5, <1>7 DEF Closed
  <2>4. Closed(s, opening, k) = Placed(w, e, 0, FALSE)
    BY <2>1, <2>2, <2>3, Zenon
  <2>5. Balanced(w, st)
    BY <1>1, <1>2, <2>1, Shortened
  <2>6. Loosened(w, Placed(w, e, 0, FALSE))
    BY <2>5, PlacedLoosens DEF Balanced
  <2>7. QED  BY <1>1, <1>2, <2>4, <2>5, <2>6, FollowsFrom
<1>8. QED  BY <1>6, <1>7

LEMMA EndOfExpressionTypeFollows ==
    ASSUME NEW s, NEW st, Closing(s, st, "expression_type")
    PROVE  Follows(EndOfExpressionType(s, LastOfKind(s.out, "begin_expression_type")), st)
<1>1. PICK k : k = LastOfKind(s.out, "begin_expression_type")
  OBVIOUS
<1>2. PICK w : w = [s EXCEPT !.out = Ahead(s.out, k)]
  OBVIOUS
<1>3. PICK t : t = <<"expression", Function(Rooted(Behind(s.out, k)))>>
  OBVIOUS
<1>4. EndOfExpressionType(s, k) = Out(w, t)
  BY <1>2, <1>3, Zenon DEF EndOfExpressionType
<1>5. "expression_type" \in OpeningStates /\ OpeningToken("expression_type") = "begin_expression_type"
  BY DEF OpeningStates, OpeningToken
<1>6. Balanced(w, st)
  BY <1>1, <1>2, <1>5, Shortened
<1>7. Loosened(w, Out(w, t))
  BY <1>6, OutLoosens DEF Balanced
<1>8. QED  BY <1>1, <1>4, <1>6, <1>7, FollowsFrom

LEMMA VariableExpressionFollows ==
    ASSUME NEW s, NEW st, Closing(s, st, "expect_in_or_comma")
    PROVE  Follows(VariableExpression(s, LastOfKind(s.out, "variable")), st)
<1>1. PICK k : k = LastOfKind(s.out, "variable")
  OBVIOUS
<1>2. PICK w : w = [s EXCEPT !.out = Ahead(s.out, k - 1)]
  OBVIOUS
<1>3. PICK t : t = Expression("variable", <<s.out[k][2], Rooted(Behind(s.out, k))>>)
  OBVIOUS
<1>4. VariableExpression(s, k) = Out(w, t)
  BY <1>2, <1>3, Zenon DEF VariableExpression
<1>5. "expect_in_or_comma" \in OpeningStates /\ OpeningToken("expect_in_or_comma") = "variable"
  BY DEF OpeningStates, OpeningToken
<1>6. Balanced(w, st)
  BY <1>1, <1>2, <1>5, Shortened
<1>7. Loosened(w, Out(w, t))
  BY <1>6, OutLoosens DEF Balanced
<1>8. QED  BY <1>1, <1>4, <1>6, <1>7, FollowsFrom

LEMMA EndOfFunctionFollows ==
    ASSUME NEW s, NEW st, Closing(s, st, "function_expression"), NEW arity
    PROVE  Follows(EndOfFunction(s, LastOfKind(s.out, "function"), arity), st)
<1>1. PICK k : k = LastOfKind(s.out, "function")
  OBVIOUS
<1>2. PICK w : w = [s EXCEPT !.out = Ahead(s.out, k - 1)]
  OBVIOUS
<1>3. PICK parts : parts = PartsOf(Behind(s.out, k), "argument")
  OBVIOUS
<1>4. IsStack(s) /\ IsSequence(s.out) /\ IsSequence(st)
  BY DEF Closing, IsStack
<1>5. "function_expression" \in OpeningStates /\ OpeningToken("function_expression") = "function"
  BY DEF OpeningStates, OpeningToken
<1>6. k # 0
  <2>1. k \in 1 .. Len(s.out)
    BY <1>1, <1>4, <1>5, FoundBelow DEF Closing
  <2>2. QED  BY <2>1
<1>7. Balanced(w, st)
  BY <1>1, <1>2, <1>5, Shortened
<1>8. EndOfFunction(s, k, arity) = FunctionOf(s, k, parts, arity)
  BY <1>3, <1>6, Zenon DEF EndOfFunction
<1>. DEFINE wrong == arity[s.out[k][2]] \notin {-1, Len(parts) - 1}
            t == <<"expression", Function(Append(parts[1], s.out[k]))>>
            e == Function(Append(Arguments(parts), s.out[k]))
<1>9. FunctionOf(s, k, parts, arity) =
        CASE wrong -> Failed(s, "invalid_arity")
          [] arity[s.out[k][2]] \in {-1, Len(parts) - 1} /\ Len(parts) = 1 -> Out(w, t)
          [] OTHER -> Placed(w, e, 0, FALSE)
  BY <1>2, Zenon DEF FunctionOf
<1>. HIDE DEF t, e
<1>10. \/ FunctionOf(s, k, parts, arity) = Failed(s, "invalid_arity")
       \/ FunctionOf(s, k, parts, arity) = Out(w, t)
       \/ FunctionOf(s, k, parts, arity) = Placed(w, e, 0, FALSE)
  BY <1>9
<1>11. Follows(Failed(s, "invalid_arity"), st)
  <2>1. "invalid_arity" \notin Unfound /\ "invalid_arity" # Nothing
    BY DEF Unfound, Nothing
  <2>2. QED  BY <1>4, <2>1, FollowsFailed
<1>12. Follows(Out(w, t), st)
  BY <1>7, OutLoosens, FollowsFrom DEF Balanced
<1>13. Follows(Placed(w, e, 0, FALSE), st)
  <2>1. Loosened(w, Placed(w, e, 0, FALSE))
    BY <1>7, PlacedLoosens DEF Balanced
  <2>2. QED  BY <1>7, <2>1, FollowsFrom
<1>14. QED  BY <1>1, <1>8, <1>10, <1>11, <1>12, <1>13, Zenon

------------------------------------------------------------------------------
\* push_token, for each kind of token.

LEMMA PushedEnding ==
    ASSUME NEW s, NEW t, t[1] \in Ending, NEW arity
    PROVE  Pushed(s, t, arity) =
             Ended(UnwoundToParen(s), t, LastOfKind(UnwoundToParen(s).out, OpeningOf(t[1])), arity)
<1>1. Pushed(s, t, arity) = AfterEnding(UnwoundToParen(s), t, arity)
  <2>1. /\ t[1] # "literal" /\ t[1] # "expression" /\ t[1] # "end_of_expression" /\ t[1] # "operation"
        /\ t[1] # "lparen"
        /\ t[1] \notin {"begin_filter", "begin_multi_select_list", "begin_multi_select_hash",
                        "begin_expression_type", "function", "variable"}
    BY DEF Ending
  <2>2. QED  BY <2>1 DEF Pushed
<1>2. QED  BY <1>1 DEF AfterEnding

ClosingToken(state) ==
    CASE state = "filter" -> "end_filter" [] state = "multi_select_list" -> "end_multi_select_list"
      [] state = "expect_rbrace" -> "end_multi_select_hash" [] state = "expression_type" -> "end_expression_type"
      [] state = "expect_in_or_comma" -> "variable_expression" [] state = "function_expression" -> "end_function"
      [] state = "expect_rparen" -> "rparen" [] state = "argument" -> "argument"
ClosableStates == {"filter", "multi_select_list", "expect_rbrace", "expression_type", "expect_in_or_comma",
                   "function_expression", "expect_rparen", "argument"}

LEMMA EndedFollows ==
    ASSUME NEW u, NEW st, NEW state \in ClosableStates, Closing(u, st, state), NEW t, t[1] = ClosingToken(state),
           NEW arity
    PROVE  Follows(Ended(u, t, LastOfKind(u.out, OpeningOf(t[1])), arity), st)
<1>. DEFINE k == LastOfKind(u.out, OpeningOf(t[1]))
            v == Ended(u, t, k, arity)
<1>1. u.ec = Nothing /\ IsStack(u)
  BY DEF Closing
<1>2. CASE state \in {"filter", "multi_select_list", "expect_rbrace"}
  <2>1. /\ t[1] \in {"end_filter", "end_multi_select_list", "end_multi_select_hash"}
        /\ OpeningOf(t[1]) = OpeningToken(state) /\ state \in OpeningStates
    <3>1. CASE state = "filter"
      BY <3>1 DEF ClosingToken, OpeningOf, OpeningToken, OpeningStates
    <3>2. CASE state = "multi_select_list"
      BY <3>2 DEF ClosingToken, OpeningOf, OpeningToken, OpeningStates
    <3>3. CASE state = "expect_rbrace"
      BY <3>3 DEF ClosingToken, OpeningOf, OpeningToken, OpeningStates
    <3>4. QED  BY <1>2, <3>1, <3>2, <3>3
  <2>. HIDE DEF k
  <2>2. v = Closed(u, OpeningOf(t[1]), k)
    BY <1>1, <2>1 DEF Ended
  <2>3. QED  BY <2>1, <2>2, ClosedFollows DEF k
<1>3. CASE state = "expression_type"
  <2>1. t[1] = "end_expression_type" /\ OpeningOf(t[1]) = "begin_expression_type"
    BY <1>3 DEF ClosingToken, OpeningOf
  <2>. HIDE DEF k
  <2>2. v = EndOfExpressionType(u, k)
    BY <1>1, <2>1 DEF Ended
  <2>3. QED  BY <1>3, <2>1, <2>2, EndOfExpressionTypeFollows DEF k
<1>4. CASE state = "expect_in_or_comma"
  <2>1. t[1] = "variable_expression" /\ OpeningOf(t[1]) = "variable"
    BY <1>4 DEF ClosingToken, OpeningOf
  <2>. HIDE DEF k
  <2>2. v = VariableExpression(u, k)
    BY <1>1, <2>1 DEF Ended
  <2>3. QED  BY <1>4, <2>1, <2>2, VariableExpressionFollows DEF k
<1>5. CASE state = "function_expression"
  <2>1. t[1] = "end_function" /\ OpeningOf(t[1]) = "function"
    BY <1>5 DEF ClosingToken, OpeningOf
  <2>. HIDE DEF k
  <2>2. v = EndOfFunction(u, k, arity)
    BY <1>1, <2>1 DEF Ended
  <2>3. QED  BY <1>5, <2>1, <2>2, EndOfFunctionFollows DEF k
<1>6. CASE state = "expect_rparen"
  <2>1. t[1] = "rparen"
    BY <1>6 DEF ClosingToken
  <2>. HIDE DEF k
  <2>2. v = u
    BY <1>1, <2>1 DEF Ended
  <2>3. Balanced(u, st) /\ Loosened(u, u)
    BY <1>1, ClosingPlain, LoosenedItself
  <2>4. QED  BY <2>2, <2>3, FollowsFrom DEF k
<1>7. CASE state = "argument"
  <2>1. t[1] = "argument"
    BY <1>7 DEF ClosingToken
  <2>. HIDE DEF k
  <2>2. v = Out(u, t)
    BY <1>1, <2>1 DEF Ended
  <2>3. Balanced(u, st) /\ Loosened(u, Out(u, t))
    BY <1>1, ClosingPlain, OutLoosens
  <2>4. QED  BY <2>2, <2>3, FollowsFrom DEF k
<1>8. QED  BY <1>2, <1>3, <1>4, <1>5, <1>6, <1>7 DEF ClosableStates

LEMMA FollowsAssertion ==
    ASSUME NEW s, NEW st, s.ec = "assertion"
    PROVE  Follows(s, st)
BY DEF Follows, Unfound, Nothing

LEMMA PushedCloses ==
    ASSUME NEW s, NEW st, IsSequence(st), NEW state \in ClosableStates, Balanced(s, Append(st, state)),
           NEW t, t[1] = ClosingToken(state), NEW arity
    PROVE  Follows(Pushed(s, t, arity), st)
<1>1. t[1] \in Ending /\ state \in LevelStates
  BY DEF ClosableStates, ClosingToken, Ending, LevelStates
<1>2. PICK u : u = UnwoundToParen(s)
  OBVIOUS
<1>3. u.ec \in {Nothing, "assertion"} /\ (u.ec = Nothing => Closing(u, st, state))
  BY <1>1, <1>2, BalancedToParen
<1>4. Pushed(s, t, arity) = Ended(u, t, LastOfKind(u.out, OpeningOf(t[1])), arity)
  BY <1>1, <1>2, PushedEnding
<1>5. CASE u.ec = Nothing
  BY <1>3, <1>4, <1>5, EndedFollows
<1>6. CASE u.ec # Nothing
  <2>1. Pushed(s, t, arity) = u
    BY <1>4, <1>6 DEF Ended
  <2>2. u.ec = "assertion"
    BY <1>3, <1>6
  <2>3. QED  BY <2>1, <2>2, FollowsAssertion
<1>7. QED  BY <1>5, <1>6

LEMMA PushedSeparates ==
    ASSUME NEW s, NEW st, IsSequence(st), NEW state \in {"multi_select_list", "expect_rbrace"},
           Balanced(s, Append(st, state)), NEW t, t[1] = "separator", NEW arity
    PROVE  Follows(Pushed(s, t, arity), Append(st, state))
<1>1. t[1] \in Ending /\ state \in LevelStates
  BY DEF Ending, LevelStates
<1>2. PICK u : u = UnwoundToParen(s)
  OBVIOUS
<1>3. u.ec \in {Nothing, "assertion"} /\ (u.ec = Nothing => Closing(u, st, state))
  BY <1>1, <1>2, BalancedToParen
<1>4. Pushed(s, t, arity) = Ended(u, t, LastOfKind(u.out, OpeningOf(t[1])), arity)
  BY <1>1, <1>2, PushedEnding
<1>5. CASE u.ec = Nothing
  <2>1. Pushed(s, t, arity) = Opening(u, t)
    BY <1>4, <1>5 DEF Ended
  <2>2. /\ IsStack(u) /\ IsSequence(u.out) /\ Found(u.out, Append(st, state))
        /\ Cardinality(Parens(u.ops)) = Cardinality(LevelsOf(st))
    BY <1>3, <1>5 DEF Closing, IsStack
  <2>3. PICK out : out = Append(u.out, t)
    OBVIOUS
  <2>4. IsSequence(out) /\ Keeps(u.out, out, Len(u.out))
    BY <2>2, <2>3, SeqAppend, KeepsAppend
  <2>5. Found(out, Append(st, state))
    BY <2>2, <2>4, FoundKeeps
  <2>6. PICK paren : paren = Plain("lparen") /\ paren[1] = "lparen"
    <3>1. Plain("lparen")[1] = "lparen"
      BY DEF Plain
    <3>2. QED  BY <3>1, Zenon
  <2>7. Balanced([out |-> out, ops |-> Append(u.ops, paren), ec |-> u.ec], Append(st, state))
    BY <1>1, <1>5, <2>2, <2>4, <2>5, <2>6, BalancedLevel
  <2>8. Opening(u, t) = [out |-> out, ops |-> Append(u.ops, paren), ec |-> u.ec]
    BY <2>2, <2>3, <2>6, OpeningIs
  <2>9. Balanced(Pushed(s, t, arity), Append(st, state))
    BY <2>1, <2>7, <2>8
  <2>10. QED  BY <2>9 DEF Follows, Balanced, Unfound, Nothing
<1>6. CASE u.ec # Nothing
  <2>1. Pushed(s, t, arity) = u
    BY <1>4, <1>6 DEF Ended
  <2>2. u.ec = "assertion"
    BY <1>3, <1>6
  <2>3. QED  BY <2>1, <2>2, FollowsAssertion
<1>7. QED  BY <1>5, <1>6

PlainTokens == {"variable_binding", "literal", "key", "expression", "operation", "pipe"}

LEMMA PushedPlain ==
    ASSUME NEW s, NEW st, Balanced(s, st), NEW t, t[1] \in PlainTokens, NEW arity
    PROVE  Follows(Pushed(s, t, arity), st) /\ (t[1] = "expression" => Pushed(s, t, arity).ec = Nothing)
<1>1. IsStack(s) /\ s.ec = Nothing
  BY DEF Balanced
<1>2. CASE t[1] = "operation"
  <2>1. Pushed(s, t, arity) = WithOperator(s, t)
    BY <1>2 DEF Pushed, Ending
  <2>2. QED  BY <1>1, <1>2, <2>1, WithOperatorLoosens, FollowsFrom
<1>3. CASE t[1] = "expression"
  <2>1. PICK e, level, right : Pushed(s, t, arity) = Placed(s, e, level, right)
    BY <1>3 DEF Pushed, Ending
  <2>2. Loosened(s, Placed(s, e, level, right)) /\ Placed(s, e, level, right).ec = Nothing
    BY <1>1, PlacedLoosens
  <2>3. QED  BY <2>1, <2>2, FollowsFrom
<1>4. CASE t[1] = "literal"
  <2>1. Pushed(s, t, arity) = IF s.out # <<>> /\ Last(s.out)[1] = "current_node"
                              THEN [s EXCEPT !.out = Append(Front(s.out), t)] ELSE Out(s, t)
    BY <1>4 DEF Pushed, Ending
  <2>2. CASE s.out # <<>> /\ Last(s.out)[1] = "current_node"
    <3>1. ~(Last(s.out)[1] \in Openers)
      BY <2>2 DEF Openers
    <3>2. Pushed(s, t, arity) = [s EXCEPT !.out = Append(Front(s.out), t)]
      BY <2>1, <2>2, Zenon
    <3>3. Loosened(s, Pushed(s, t, arity))
      <4>1. PICK u : u = [s EXCEPT !.out = Append(Front(s.out), t)]
        OBVIOUS
      <4>2. Loosened(s, [s EXCEPT !.out = Append(Front(s.out), t)])
        BY <1>1, <2>2, <3>1, LastReplaced
      <4>3. QED  BY <3>2, <4>2, Zenon
    <3>4. QED  BY <1>4, <3>3, FollowsFrom
  <2>3. CASE ~(s.out # <<>> /\ Last(s.out)[1] = "current_node")
    <3>1. Pushed(s, t, arity) = Out(s, t)
      BY <2>1, <2>3, Zenon
    <3>2. QED  BY <1>1, <1>4, <3>1, OutLoosens, FollowsFrom
  <2>4. QED  BY <2>2, <2>3
<1>5. CASE t[1] \in {"variable_binding", "key", "pipe"}
  <2>1. Pushed(s, t, arity) = Out(s, t)
    BY <1>5 DEF Pushed, Ending
  <2>2. QED  BY <1>1, <1>5, <2>1, OutLoosens, FollowsFrom
<1>6. QED  BY <1>2, <1>3, <1>4, <1>5 DEF PlainTokens

LEMMA FollowsBalanced ==
    ASSUME NEW s, NEW st, Balanced(s, st)
    PROVE  Follows(s, st)
BY DEF Follows, Balanced, Unfound, Nothing

LEMMA PushedOpens ==
    ASSUME NEW s, NEW st, Balanced(s, st), NEW state \in OpeningStates, NEW t, t[1] = OpeningToken(state), NEW arity
    PROVE  Follows(Pushed(s, t, arity), Append(st, state)) /\ Pushed(s, t, arity).ec = Nothing
<1>1. t[1] \in {"begin_filter", "begin_multi_select_list", "begin_multi_select_hash", "begin_expression_type",
                "function", "variable"}
  BY OpeningTokenOpens DEF Openers
<1>2. Pushed(s, t, arity) = Opening(s, t)
  BY <1>1 DEF Pushed, Ending
<1>3. Balanced(Opening(s, t), Append(st, state))
  BY BalancedOpening
<1>4. QED  BY <1>2, <1>3, FollowsBalanced DEF Balanced

LEMMA PushedParen ==
    ASSUME NEW s, NEW st, Balanced(s, st), NEW state \in LevelStates, state \notin OpeningStates,
           NEW t, t[1] = "lparen", NEW arity
    PROVE  Follows(Pushed(s, t, arity), Append(st, state))
<1>1. Pushed(s, t, arity) = [s EXCEPT !.ops = Append(s.ops, t)]
  BY DEF Pushed, Ending
<1>2. Balanced([s EXCEPT !.ops = Append(s.ops, t)], Append(st, state))
  BY BalancedParen
<1>3. QED  BY <1>1, <1>2, FollowsBalanced

LEMMA PushedEnd ==
    ASSUME NEW s, IsStack(s), s.ec = Nothing, NEW t, t[1] = "end_of_expression", NEW arity
    PROVE  IsStack(Pushed(s, t, arity)) /\ Pushed(s, t, arity).ec \in {Nothing, "assertion"}
<1>1. Pushed(s, t, arity) = UnwoundAll(s)
  BY DEF Pushed, Ending
<1>2. QED  BY <1>1, UnwoundAllFails

------------------------------------------------------------------------------
\* One token is pushed, or two.

LEMMA OnePushed ==
    ASSUME NEW d, NEW t
    PROVE  PushedAll(d, <<t>>) = PushedNext(d, t)
<1>1. /\ DOMAIN <<t>> = {1} /\ SUBSET {1} = {{}, {1}} /\ {1} \ {1} = {} /\ {1} # {}
      /\ <<t>>[1] = t
  OBVIOUS
<1>2. Max({1}) = 1
  BY DEF Max
<1>. DEFINE Iter(f) == f = [s \in SUBSET {1} |-> IF s = {} THEN d ELSE PushedNext(f[s \ {Max(s)}], <<t>>[Max(s)])]
<1>3. FoldLeft(PushedNext, d, <<t>>) = (CHOOSE f : Iter(f))[{1}]
  BY <1>1, Zenon DEF FoldLeft, MapThenFoldSet
<1>4. \E f : Iter(f)
  <2>. DEFINE g == [s \in SUBSET {1} |-> IF s = {} THEN d ELSE PushedNext(d, t)]
  <2>1. g = [s \in SUBSET {1} |-> IF s = {} THEN d ELSE PushedNext(g[s \ {Max(s)}], <<t>>[Max(s)])]
    BY <1>1, <1>2
  <2>2. QED  BY <2>1
<1>5. PICK f : Iter(f) /\ (CHOOSE h : Iter(h)) = f
  BY <1>4
<1>6. f[{}] = d
  BY <1>1, <1>5
<1>7. f[{1}] = IF {1} = {} THEN d ELSE PushedNext(f[{1} \ {Max({1})}], <<t>>[Max({1})])
  <2>1. {1} \in SUBSET {1}
    OBVIOUS
  <2>2. QED  BY <1>5, <2>1, Zenon
<1>8. f[{1}] = PushedNext(d, t)
  BY <1>1, <1>2, <1>6, <1>7
<1>9. FoldLeft(PushedNext, d, <<t>>) = PushedNext(d, t)
  BY <1>3, <1>5, <1>8
<1>10. QED  BY <1>9, Zenon DEF PushedAll

LEMMA TwoPushed ==
    ASSUME NEW d, NEW t, NEW u
    PROVE  PushedAll(d, <<t, u>>) = PushedNext(PushedNext(d, t), u)
<1>. DEFINE D == {1, 2}
<1>1. /\ DOMAIN <<t, u>> = D /\ <<t, u>>[1] = t /\ <<t, u>>[2] = u
  OBVIOUS
<1>2. D \ {2} = {1} /\ {1} \ {1} = {} /\ {2} \ {2} = {}
  OBVIOUS
<1>3. {1} # {} /\ {2} # {} /\ D # {} /\ {1} # {2} /\ {1} # D /\ {2} # D
  <2>1. 1 \in D /\ 2 \in D /\ 1 \in {1} /\ 2 \in {2} /\ 1 \notin {2} /\ 2 \notin {1}
    OBVIOUS
  <2>2. QED  BY <2>1
<1>4. {} \in SUBSET D /\ {1} \in SUBSET D /\ {2} \in SUBSET D /\ D \in SUBSET D
  OBVIOUS
<1>5. ASSUME NEW s \in SUBSET D PROVE s = {} \/ s = {1} \/ s = {2} \/ s = D
  <2>1. \A e \in s : e = 1 \/ e = 2
    OBVIOUS
  <2>2. CASE 1 \in s /\ 2 \in s
    BY <2>1, <2>2
  <2>3. CASE 1 \in s /\ 2 \notin s
    <3>1. s = {1}
      BY <2>1, <2>3
    <3>2. QED  BY <3>1
  <2>4. CASE 1 \notin s /\ 2 \in s
    <3>1. s = {2}
      BY <2>1, <2>4
    <3>2. QED  BY <3>1
  <2>5. CASE 1 \notin s /\ 2 \notin s
    <3>1. s = {}
      BY <2>1, <2>5
    <3>2. QED  BY <3>1
  <2>6. QED  BY <2>2, <2>3, <2>4, <2>5
<1>6. Max({1}) = 1 /\ Max({2}) = 2
  BY DEF Max
<1>7. Max(D) = 2
  BY DEF Max
<1>8. PICK q : q = <<t, u>> /\ q[1] = t /\ q[2] = u
  BY <1>1
<1>. DEFINE Iter(f) == f = [s \in SUBSET D |-> IF s = {} THEN d ELSE PushedNext(f[s \ {Max(s)}], q[Max(s)])]
<1>. HIDE DEF D
<1>9. FoldLeft(PushedNext, d, q) = (CHOOSE f : Iter(f))[D]
  <2>1. DOMAIN q = D
    BY <1>1, <1>8
  <2>2. QED  BY <2>1, Zenon DEF FoldLeft, MapThenFoldSet
<1>10. \E f : Iter(f)
  <2>. DEFINE g == [s \in SUBSET D |-> IF s = {} THEN d ELSE IF s = {1} THEN PushedNext(d, t)
                                       ELSE IF s = {2} THEN PushedNext(d, u) ELSE PushedNext(PushedNext(d, t), u)]
              h(s) == IF s = {} THEN d ELSE PushedNext(g[s \ {Max(s)}], q[Max(s)])
  <2>1. g[{}] = d /\ g[{1}] = PushedNext(d, t) /\ g[{2}] = PushedNext(d, u)
    BY <1>3, <1>4
  <2>2. g[D] = PushedNext(PushedNext(d, t), u)
    BY <1>3, <1>4
  <2>. HIDE DEF g
  <2>3. h({}) = d
    OBVIOUS
  <2>4. h({1}) = PushedNext(d, t)
    <3>1. h({1}) = PushedNext(g[{1} \ {Max({1})}], q[Max({1})])
      BY <1>3
    <3>2. h({1}) = PushedNext(g[{}], q[1])
      BY <1>2, <1>6, <3>1, Zenon
    <3>3. QED  BY <1>8, <2>1, <3>2, Zenon
  <2>5. h({2}) = PushedNext(d, u)
    <3>1. h({2}) = PushedNext(g[{2} \ {Max({2})}], q[Max({2})])
      BY <1>3
    <3>2. h({2}) = PushedNext(g[{}], q[2])
      BY <1>2, <1>6, <3>1, Zenon
    <3>3. QED  BY <1>8, <2>1, <3>2, Zenon
  <2>6. h(D) = PushedNext(PushedNext(d, t), u)
    <3>1. h(D) = PushedNext(g[D \ {Max(D)}], q[Max(D)])
      BY <1>3
    <3>2. h(D) = PushedNext(g[{1}], q[2])
      BY <1>2, <1>7, <3>1, Zenon
    <3>3. QED  BY <1>8, <2>1, <3>2, Zenon
  <2>7. ASSUME NEW s \in SUBSET D PROVE g[s] = h(s)
    <3>. HIDE DEF h
    <3>1. g[{}] = h({}) /\ g[{1}] = h({1}) /\ g[{2}] = h({2}) /\ g[D] = h(D)
      BY <2>1, <2>2, <2>3, <2>4, <2>5, <2>6, Zenon
    <3>2. s = {} \/ s = {1} \/ s = {2} \/ s = D
      BY <1>5
    <3>3. QED  BY <3>1, <3>2, Zenon
  <2>8. g = [s \in SUBSET D |-> h(s)]
    <3>1. g = [s \in SUBSET D |-> g[s]]
      BY DEF g
    <3>. HIDE DEF h
    <3>2. QED  BY <2>7, <3>1
  <2>9. Iter(g)
    BY <2>8
  <2>10. QED  BY <2>9
<1>11. PICK f : Iter(f) /\ (CHOOSE h : Iter(h)) = f
  BY <1>10
<1>12. \A s \in SUBSET D : f[s] = IF s = {} THEN d ELSE PushedNext(f[s \ {Max(s)}], q[Max(s)])
  BY <1>11
<1>13. f[{}] = d
  BY <1>4, <1>12
<1>14. f[{1}] = PushedNext(f[{1} \ {Max({1})}], q[Max({1})])
  BY <1>3, <1>4, <1>12, Zenon
<1>15. f[{1}] = PushedNext(d, t)
  BY <1>2, <1>6, <1>8, <1>13, <1>14, Zenon
<1>16. f[D] = PushedNext(f[D \ {Max(D)}], q[Max(D)])
  BY <1>3, <1>4, <1>12, Zenon
<1>17. f[D] = PushedNext(PushedNext(d, t), u)
  BY <1>2, <1>7, <1>8, <1>15, <1>16, Zenon
<1>18. FoldLeft(PushedNext, d, q) = PushedNext(PushedNext(d, t), u)
  BY <1>9, <1>11, <1>17
<1>19. QED  BY <1>8, <1>18, Zenon DEF PushedAll

LEMMA Pushes ==
    ASSUME tokens.ec = Nothing, NEW t, NEW u
    PROVE  /\ AfterPushes(<<t>>) = Pushed(tokens, t, Arities)
           /\ Pushed(tokens, t, Arities).ec = Nothing =>
                AfterPushes(<<t, u>>) = Pushed(Pushed(tokens, t, Arities), u, Arities)
<1>1. PushedNext(tokens, t) = Pushed(tokens, t, Arities)
  BY DEF PushedNext
<1>2. AfterPushes(<<t>>) = Pushed(tokens, t, Arities)
  BY <1>1, OnePushed DEF AfterPushes
<1>3. ASSUME Pushed(tokens, t, Arities).ec = Nothing
      PROVE  AfterPushes(<<t, u>>) = Pushed(Pushed(tokens, t, Arities), u, Arities)
  <2>1. PushedAll(tokens, <<t, u>>) = PushedNext(PushedNext(tokens, t), u)
    BY TwoPushed
  <2>2. AfterPushes(<<t, u>>) = PushedNext(Pushed(tokens, t, Arities), u)
    BY <1>1, <2>1, Zenon DEF AfterPushes
  <2>3. QED  BY <1>3, <2>2 DEF PushedNext
<1>4. QED  BY <1>2, <1>3

------------------------------------------------------------------------------
\* The invariant: while the text is read, the states and the tokens are balanced, and a
\* closing token has always found its opening one.

CInv == tokens.ec \notin Unfound /\ (~compiled => Balanced(tokens, states))

\* States that are put on top of the stack and open no level.
IsPlain(top) == IsSequence(top) /\ \A i \in 1 .. Len(top) : top[i] \notin LevelStates

LEMMA PlainTops ==
    ASSUME NEW a, NEW b, NEW c, a \notin LevelStates, b \notin LevelStates, c \notin LevelStates
    PROVE  IsPlain(<<>>) /\ IsPlain(<<a>>) /\ IsPlain(<<a, b>>) /\ IsPlain(<<a, b, c>>)
<1>. DEFINE S == {a, b, c}
<1>1. <<>> \in Seq(S) /\ <<a>> \in Seq(S) /\ <<a, b>> \in Seq(S) /\ <<a, b, c>> \in Seq(S)
  OBVIOUS
<1>2. IsSequence(<<>>) /\ IsSequence(<<a>>) /\ IsSequence(<<a, b>>) /\ IsSequence(<<a, b, c>>)
  BY <1>1 DEF IsSequence
<1>3. Len(<<>>) = 0 /\ Len(<<a>>) = 1 /\ Len(<<a, b>>) = 2 /\ Len(<<a, b, c>>) = 3
  OBVIOUS
<1>4. \A i \in 1 .. 1 : <<a>>[i] \notin LevelStates
  OBVIOUS
<1>5. \A i \in 1 .. 2 : <<a, b>>[i] \notin LevelStates
  OBVIOUS
<1>6. \A i \in 1 .. 3 : <<a, b, c>>[i] \notin LevelStates
  OBVIOUS
<1>7. QED  BY <1>2, <1>3, <1>4, <1>5, <1>6 DEF IsPlain

LEMMA PlainOne ==
    ASSUME NEW a, a \notin LevelStates
    PROVE  IsPlain(<<a>>) /\ IsPlain(<<>>)
BY PlainTops

LEMMA PlainTwo ==
    ASSUME NEW a, NEW b, a \notin LevelStates, b \notin LevelStates
    PROVE  IsPlain(<<a, b>>)
BY PlainTops

LEMMA PlainThree ==
    ASSUME NEW a, NEW b, NEW c, a \notin LevelStates, b \notin LevelStates, c \notin LevelStates
    PROVE  IsPlain(<<a, b, c>>)
BY PlainTops

LEMMA PlainNone == IsPlain(<<>>) /\ IsPlain(Both)
<1>1. "lhs_expression" \notin LevelStates /\ "rhs_expression" \notin LevelStates
  BY DEF LevelStates
<1>2. QED  BY <1>1, PlainOne, PlainTwo DEF Both

LEMMA SeqConcat ==
    ASSUME NEW s, IsSequence(s), NEW t, IsSequence(t)
    PROVE  /\ IsSequence(s \o t) /\ Len(s \o t) = Len(s) + Len(t)
           /\ \A i \in 1 .. Len(s) : (s \o t)[i] = s[i]
           /\ \A i \in 1 .. Len(t) : (s \o t)[Len(s) + i] = t[i]
<1>1. PICK S : s \in Seq(S)
  BY DEF IsSequence
<1>2. PICK T : t \in Seq(T)
  BY DEF IsSequence
<1>. DEFINE U == S \cup T
<1>3. s \in Seq(U) /\ t \in Seq(U)
  BY <1>1, <1>2
<1>. HIDE DEF U
<1>4. s \o t \in Seq(U) /\ Len(s \o t) = Len(s) + Len(t)
  BY <1>3
<1>5. \A i \in 1 .. Len(s) : (s \o t)[i] = s[i]
  BY <1>3
<1>6. \A i \in 1 .. Len(t) : (s \o t)[Len(s) + i] = t[i]
  BY <1>3
<1>7. QED  BY <1>4, <1>5, <1>6 DEF IsSequence

LEMMA SequencesEqual ==
    ASSUME NEW s, NEW t, IsSequence(s), IsSequence(t), Len(s) = Len(t), \A i \in 1 .. Len(s) : s[i] = t[i]
    PROVE  s = t
<1>1. PICK S : s \in Seq(S)
  BY DEF IsSequence
<1>2. PICK T : t \in Seq(T)
  BY DEF IsSequence
<1>. DEFINE U == S \cup T
<1>3. s \in Seq(U) /\ t \in Seq(U)
  BY <1>1, <1>2
<1>. HIDE DEF U
<1>4. QED  BY <1>3, SeqEqual

\* The states below the top, and above it.
LEMMA Stacked ==
    ASSUME NEW s, IsSequence(s), NEW a, NEW top, IsSequence(top)
    PROVE  /\ s \o <<a>> = Append(s, a)
           /\ s \o (<<a>> \o top) = Append(s, a) \o top
<1>1. IsSequence(<<a>>) /\ Len(<<a>>) = 1 /\ <<a>>[1] = a
  <2>1. <<a>> \in Seq({a})
    OBVIOUS
  <2>2. QED  BY <2>1 DEF IsSequence
<1>2. Len(s) \in Nat /\ Len(top) \in Nat
  BY SeqFacts
<1>3. IsSequence(s \o <<a>>) /\ Len(s \o <<a>>) = Len(s) + 1
  BY <1>1, SeqConcat
<1>4. \A i \in 1 .. Len(s) : (s \o <<a>>)[i] = s[i]
  BY <1>1, SeqConcat
<1>5. (s \o <<a>>)[Len(s) + 1] = a
  BY <1>1, SeqConcat
<1>6. /\ IsSequence(Append(s, a)) /\ Len(Append(s, a)) = Len(s) + 1
      /\ \A i \in 1 .. Len(s) : Append(s, a)[i] = s[i]
      /\ Append(s, a)[Len(s) + 1] = a
  BY SeqAppend
<1>7. s \o <<a>> = Append(s, a)
  <2>1. \A i \in 1 .. Len(s) + 1 : (s \o <<a>>)[i] = Append(s, a)[i]
    BY <1>2, <1>4, <1>5, <1>6
  <2>2. QED  BY <1>3, <1>6, <2>1, SequencesEqual
<1>8. s \o (<<a>> \o top) = (s \o <<a>>) \o top
  <2>1. PICK S : s \in Seq(S)
    BY DEF IsSequence
  <2>2. PICK T : top \in Seq(T)
    BY DEF IsSequence
  <2>. DEFINE U == S \cup T \cup {a}
  <2>3. s \in Seq(U) /\ top \in Seq(U) /\ <<a>> \in Seq(U)
    BY <2>1, <2>2
  <2>. HIDE DEF U
  <2>4. QED  BY <2>3, ConcatAssociative
<1>9. QED  BY <1>7, <1>8

LEMMA StackedTwo ==
    ASSUME NEW s, IsSequence(s), NEW a, NEW b
    PROVE  s \o <<a, b>> = Append(Append(s, a), b)
<1>1. PICK q : q = <<a, b>>
  OBVIOUS
<1>2. IsSequence(q) /\ Len(q) = 2 /\ q[1] = a /\ q[2] = b
  <2>1. <<a, b>> \in Seq({a, b})
    OBVIOUS
  <2>2. IsSequence(q)
    BY <1>1, <2>1 DEF IsSequence
  <2>3. QED  BY <1>1, <2>2
<1>3. PICK all : all = s \o q
  OBVIOUS
<1>4. Len(s) \in Nat /\ IsSequence(all) /\ Len(all) = Len(s) + 2
  <2>1. IsSequence(all) /\ Len(all) = Len(s) + Len(q)
    <3>1. IsSequence(s) /\ IsSequence(q)
      BY <1>2
    <3>2. QED  BY <1>3, <3>1, SeqConcat
  <2>2. QED  BY <1>2, <2>1, SeqFacts
<1>5. \A i \in 1 .. Len(s) : all[i] = s[i]
  BY <1>2, <1>3, SeqConcat
<1>6. ASSUME NEW i \in 1 .. Len(q) PROVE all[Len(s) + i] = q[i]
  <2>1. IsSequence(s) /\ IsSequence(q)
    BY <1>2
  <2>2. PICK k : k = Len(s) + i
    OBVIOUS
  <2>3. all[k] = q[i]
    BY <1>3, <2>1, <2>2, SeqConcat
  <2>4. QED  BY <2>2, <2>3
<1>7. 1 \in 1 .. Len(q) /\ 2 \in 1 .. Len(q)
  BY <1>2
<1>8. all[Len(s) + 1] = a /\ all[Len(s) + 2] = b
  BY <1>2, <1>6, <1>7
<1>9. PICK one : one = Append(s, a)
  OBVIOUS
<1>10. IsSequence(one) /\ Len(one) = Len(s) + 1 /\ one[Len(s) + 1] = a /\ \A i \in 1 .. Len(s) : one[i] = s[i]
  BY <1>9, SeqAppend
<1>11. PICK two : two = Append(one, b)
  OBVIOUS
<1>12. /\ IsSequence(two) /\ Len(two) = Len(one) + 1 /\ two[Len(one) + 1] = b
       /\ \A i \in 1 .. Len(one) : two[i] = one[i]
  BY <1>10, <1>11, SeqAppend
<1>13. ASSUME NEW i \in 1 .. Len(all) PROVE all[i] = two[i]
  <2>1. CASE i = Len(s) + 2
    BY <1>4, <1>8, <1>10, <1>12, <2>1
  <2>2. CASE i = Len(s) + 1
    BY <1>4, <1>8, <1>10, <1>12, <2>2
  <2>3. CASE i \in 1 .. Len(s)
    BY <1>4, <1>5, <1>10, <1>12, <2>3
  <2>4. QED  BY <1>4, <2>1, <2>2, <2>3
<1>14. Len(all) = Len(two)
  BY <1>4, <1>10, <1>12
<1>15. all = two
  BY <1>4, <1>12, <1>13, <1>14, SequencesEqual
<1>16. QED  BY <1>1, <1>3, <1>9, <1>11, <1>15, Zenon

LEMMA StackedBoth ==
    ASSUME NEW s, IsSequence(s), NEW a, NEW b, NEW top, IsSequence(top)
    PROVE  s \o (<<a, b>> \o top) = Append(Append(s, a), b) \o top
<1>1. PICK S : s \in Seq(S)
  BY DEF IsSequence
<1>2. PICK T : top \in Seq(T)
  BY DEF IsSequence
<1>. DEFINE U == S \cup T \cup {a, b}
<1>3. s \in Seq(U) /\ top \in Seq(U) /\ <<a, b>> \in Seq(U)
  BY <1>1, <1>2
<1>. HIDE DEF U
<1>4. s \o (<<a, b>> \o top) = (s \o <<a, b>>) \o top
  BY <1>3, ConcatAssociative
<1>5. s \o <<a, b>> = Append(Append(s, a), b)
  BY StackedTwo
<1>6. QED  BY <1>4, <1>5, Zenon

LEMMA TopOf ==
    ASSUME NEW s, IsSequence(s), s # <<>>
    PROVE  IsSequence(Front(s)) /\ s = Append(Front(s), Last(s))
<1>1. Len(s) \in Nat /\ Len(s) > 0
  BY SeqFacts
<1>2. /\ IsSequence(Front(s)) /\ Len(Front(s)) = Len(s) - 1 /\ Last(s) = s[Len(s)]
      /\ \A i \in 1 .. Len(s) - 1 : Front(s)[i] = s[i]
  BY <1>1, SeqFront
<1>3. PICK a : a = Last(s)
  OBVIOUS
<1>4. IsSequence(Append(Front(s), a)) /\ Len(Append(Front(s), a)) = Len(Front(s)) + 1
  BY <1>2, SeqAppend
<1>5. \A i \in 1 .. Len(Front(s)) : Append(Front(s), a)[i] = Front(s)[i]
  BY <1>2, SeqAppend
<1>6. Append(Front(s), a)[Len(Front(s)) + 1] = a
  BY <1>2, SeqAppend
<1>7. \A i \in 1 .. Len(s) : s[i] = Append(Front(s), a)[i]
  BY <1>1, <1>2, <1>3, <1>5, <1>6
<1>8. Len(s) = Len(Append(Front(s), a))
  BY <1>1, <1>2, <1>4
<1>9. PICK q : q = Append(Front(s), a)
  OBVIOUS
<1>10. s = q
  BY <1>4, <1>7, <1>8, <1>9, SequencesEqual
<1>11. QED  BY <1>2, <1>3, <1>9, <1>10

\* Plain states change nothing.
LEMMA PlainOnTop ==
    ASSUME NEW s, NEW st, Balanced(s, st), NEW top, IsPlain(top)
    PROVE  Balanced(s, st \o top)
<1>1. IsSequence(st) /\ IsSequence(top)
  BY DEF Balanced, IsPlain
<1>2. Len(st) \in Nat /\ Len(top) \in Nat
  BY <1>1, SeqFacts
<1>3. PICK all : all = st \o top
  OBVIOUS
<1>4. IsSequence(all) /\ Len(all) = Len(st) + Len(top)
  BY <1>1, <1>3, SeqConcat
<1>5. \A i \in 1 .. Len(st) : all[i] = st[i]
  BY <1>1, <1>3, SeqConcat
<1>6. ASSUME NEW i \in 1 .. Len(all), all[i] \in LevelStates PROVE i \in 1 .. Len(st)
  <2>1. SUFFICES ASSUME i \notin 1 .. Len(st) PROVE FALSE
    OBVIOUS
  <2>2. PICK j \in 1 .. Len(top) : i = Len(st) + j
    <3>1. i - Len(st) \in 1 .. Len(top) /\ i = Len(st) + (i - Len(st))
      BY <1>2, <1>4, <2>1
    <3>2. QED  BY <3>1
  <2>3. all[i] = top[j]
    BY <1>1, <1>3, <2>2, SeqConcat
  <2>4. QED  BY <1>6, <2>3 DEF IsPlain
<1>7. \A i \in 1 .. Len(st) : i \in 1 .. Len(all)
  BY <1>2, <1>4
<1>8. LevelsOf(all) = LevelsOf(st)
  BY <1>5, <1>6, <1>7 DEF LevelsOf
<1>9. PICK f : Places(f, s.out, st)
  BY DEF Balanced, Found
<1>10. \A i \in 1 .. Len(all) : all[i] \in OpeningStates => i \in 1 .. Len(st) /\ all[i] = st[i]
  BY <1>5, <1>6, OpeningStatesLevel
<1>11. Places(f, s.out, all)
  BY <1>9, <1>10, Zenon DEF Places
<1>12. Found(s.out, all)
  BY <1>11 DEF Found
<1>13. QED  BY <1>3, <1>4, <1>8, <1>12 DEF Balanced

LEMMA PlainFollows ==
    ASSUME NEW s, NEW st, Follows(s, st), NEW top, IsPlain(top)
    PROVE  Follows(s, st \o top)
BY PlainOnTop DEF Follows

------------------------------------------------------------------------------
\* The kinds of steps from a state that opens no level.

Moves(top) == Becoming(top) /\ tokens' = tokens /\ compiled' = compiled
Emits(top, t) == Becoming(top) /\ tokens' = AfterPushes(<<t>>) /\ compiled' = (tokens'.ec # Nothing)

Tame ==
    \/ \E top : IsPlain(top) /\ Moves(top)
    \/ \E top, t : IsPlain(top) /\ t[1] \in PlainTokens /\ Emits(top, t)
    \/ \E top, t : \E state \in OpeningStates :
            IsPlain(top) /\ t[1] = OpeningToken(state) /\ Emits(<<state>> \o top, t)
    \/ \E top, t : \E state \in LevelStates \ OpeningStates :
            IsPlain(top) /\ t[1] = "lparen" /\ Emits(<<state>> \o top, t)
    \/ \E error : error \notin Unfound /\ error # Nothing /\ Fail(error)

LEMMA AtTop ==
    ASSUME NEW state, At(state), CInv
    PROVE  /\ ~compiled /\ tokens.ec = Nothing /\ IsStack(tokens)
           /\ IsSequence(Front(states)) /\ Balanced(tokens, Append(Front(states), state))
<1>1. ~compiled /\ states # <<>> /\ Last(states) = state
  BY DEF At
<1>2. Balanced(tokens, states)
  BY <1>1 DEF CInv
<1>3. tokens.ec = Nothing /\ IsStack(tokens) /\ IsSequence(states)
  BY <1>2 DEF Balanced
<1>4. IsSequence(Front(states)) /\ states = Append(Front(states), state)
  BY <1>1, <1>3, TopOf
<1>5. QED  BY <1>1, <1>2, <1>3, <1>4

LEMMA MovesTo ==
    ASSUME NEW top, Moves(top), ~compiled, Balanced(tokens, Front(states) \o top)
    PROVE  CInv'
<1>1. states' = Front(states) \o top /\ tokens' = tokens /\ compiled' = compiled
  BY DEF Moves, Becoming
<1>2. Balanced(tokens', states')
  BY <1>1
<1>3. tokens'.ec \notin Unfound
  BY <1>2, FollowsBalanced DEF Follows
<1>4. QED  BY <1>2, <1>3 DEF CInv

LEMMA EmitsTo ==
    ASSUME NEW top, NEW t, Emits(top, t), tokens.ec = Nothing,
           Follows(Pushed(tokens, t, Arities), Front(states) \o top)
    PROVE  CInv'
<1>1. tokens' = Pushed(tokens, t, Arities)
  BY Pushes DEF Emits
<1>2. states' = Front(states) \o top /\ compiled' = (tokens'.ec # Nothing)
  BY DEF Emits, Becoming
<1>3. Follows(tokens', states')
  BY <1>1, <1>2
<1>4. QED  BY <1>2, <1>3 DEF CInv, Follows

LEMMA FailsTo ==
    ASSUME IsStack(tokens), NEW error, error \notin Unfound, Fail(error)
    PROVE  CInv'
<1>1. tokens' = Failed(tokens, error) /\ compiled' = TRUE
  BY DEF Fail
<1>2. tokens'.ec = error
  BY <1>1, FailedIsStack
<1>3. QED  BY <1>1, <1>2 DEF CInv

LEMMA TameHolds ==
    ASSUME CInv, NEW state, At(state), state \notin LevelStates, Tame
    PROVE  CInv'
<1>1. /\ ~compiled /\ tokens.ec = Nothing /\ IsStack(tokens)
      /\ IsSequence(Front(states)) /\ Balanced(tokens, Append(Front(states), state))
  BY AtTop
<1>2. Balanced(tokens, Front(states))
  BY <1>1, BalancedWithout
<1>3. ASSUME NEW top, IsPlain(top), Moves(top) PROVE CInv'
  <2>1. Balanced(tokens, Front(states) \o top)
    BY <1>2, <1>3, PlainOnTop
  <2>2. QED  BY <1>1, <1>3, <2>1, MovesTo
<1>4. ASSUME NEW top, NEW t, IsPlain(top), t[1] \in PlainTokens, Emits(top, t) PROVE CInv'
  <2>1. Follows(Pushed(tokens, t, Arities), Front(states))
    BY <1>2, <1>4, PushedPlain
  <2>2. Follows(Pushed(tokens, t, Arities), Front(states) \o top)
    BY <1>4, <2>1, PlainFollows
  <2>3. QED  BY <1>1, <1>4, <2>2, EmitsTo
<1>5. ASSUME NEW top, NEW t, NEW q \in OpeningStates, IsPlain(top), t[1] = OpeningToken(q),
             Emits(<<q>> \o top, t)
      PROVE  CInv'
  <2>1. Follows(Pushed(tokens, t, Arities), Append(Front(states), q))
    BY <1>2, <1>5, PushedOpens
  <2>2. Follows(Pushed(tokens, t, Arities), Append(Front(states), q) \o top)
    BY <1>5, <2>1, PlainFollows
  <2>3. Append(Front(states), q) \o top = Front(states) \o (<<q>> \o top)
    BY <1>1, <1>5, Stacked DEF IsPlain
  <2>4. Follows(Pushed(tokens, t, Arities), Front(states) \o (<<q>> \o top))
    BY <2>2, <2>3
  <2>5. QED  BY <1>1, <1>5, <2>4, EmitsTo
<1>6. ASSUME NEW error, error \notin Unfound, error # Nothing, Fail(error) PROVE CInv'
  BY <1>1, <1>6, FailsTo
<1>7. ASSUME NEW top, NEW t, NEW q \in LevelStates \ OpeningStates, IsPlain(top), t[1] = "lparen",
             Emits(<<q>> \o top, t)
      PROVE  CInv'
  <2>1. Follows(Pushed(tokens, t, Arities), Append(Front(states), q))
    BY <1>2, <1>7, PushedParen
  <2>2. Follows(Pushed(tokens, t, Arities), Append(Front(states), q) \o top)
    BY <1>7, <2>1, PlainFollows
  <2>3. Append(Front(states), q) \o top = Front(states) \o (<<q>> \o top)
    BY <1>1, <1>7, Stacked DEF IsPlain
  <2>4. Follows(Pushed(tokens, t, Arities), Front(states) \o (<<q>> \o top))
    BY <2>2, <2>3
  <2>5. QED  BY <1>1, <1>7, <2>4, EmitsTo
<1>8. QED  BY <1>3, <1>4, <1>5, <1>6, <1>7, Zenon DEF Tame

\* A state that waits for a closing token, and gets it.
LEMMA ClosesTo ==
    ASSUME CInv, NEW state \in ClosableStates, At(state), NEW top, IsPlain(top), NEW t, t[1] = ClosingToken(state),
           Emits(top, t)
    PROVE  CInv'
<1>1. /\ tokens.ec = Nothing
      /\ IsSequence(Front(states)) /\ Balanced(tokens, Append(Front(states), state))
  BY AtTop
<1>2. Follows(Pushed(tokens, t, Arities), Front(states))
  BY <1>1, PushedCloses
<1>3. Follows(Pushed(tokens, t, Arities), Front(states) \o top)
  BY <1>2, PlainFollows
<1>4. QED  BY <1>1, <1>3, EmitsTo

------------------------------------------------------------------------------
\* The steps of the actions are of these kinds.

LEMMA GoMoves ==
    ASSUME NEW n, NEW top, NEW name, Go(n, top) \/ Buffering(n, top, name)
    PROVE  Moves(top)
BY DEF Go, Buffering, Moves

LEMMA EmitEmits ==
    ASSUME NEW n, NEW top, NEW t, Emit(n, top, <<t>>) \/ EmitNamed(n, top, <<t>>)
    PROVE  Emits(top, t)
BY DEF Emit, EmitNamed, Emits

LEMMA TameGo ==
    ASSUME NEW n, NEW top, Go(n, top), IsPlain(top)
    PROVE  Tame
BY GoMoves DEF Tame

LEMMA TameBuffering ==
    ASSUME NEW n, NEW top, NEW name, Buffering(n, top, name), IsPlain(top)
    PROVE  Tame
BY GoMoves DEF Tame

LEMMA TameEmit ==
    ASSUME NEW n, NEW top, NEW t, Emit(n, top, <<t>>) \/ EmitNamed(n, top, <<t>>), IsPlain(top),
           t[1] \in PlainTokens
    PROVE  Tame
BY EmitEmits DEF Tame

LEMMA TameOpen ==
    ASSUME NEW n, NEW top, NEW t, NEW state \in OpeningStates, IsPlain(top), t[1] = OpeningToken(state),
           Emit(n, <<state>> \o top, <<t>>) \/ EmitNamed(n, <<state>> \o top, <<t>>)
    PROVE  Tame
BY EmitEmits DEF Tame

LEMMA TameFail ==
    ASSUME NEW error, error \notin Unfound, error # Nothing, Fail(error)
    PROVE  Tame
BY DEF Tame

LEMMA TameOpenOnly ==
    ASSUME NEW n, NEW t, NEW state \in OpeningStates, t[1] = OpeningToken(state), Emit(n, <<state>>, <<t>>)
    PROVE  Tame
<1>1. <<state>> \o <<>> = <<state>>
  OBVIOUS
<1>2. Emits(<<state>> \o <<>>, t)
  BY <1>1, EmitEmits
<1>3. QED  BY <1>2, PlainNone DEF Tame

LEMMA TameParen ==
    ASSUME NEW n, NEW top, NEW t, NEW state \in LevelStates \ OpeningStates, IsPlain(top), t[1] = "lparen",
           Emit(n, <<state>> \o top, <<t>>)
    PROVE  Tame
BY EmitEmits DEF Tame

ErrorsOfSteps ==
    {"undefined", "syntax_error", "invalid_literal", "expected_identifier", "expected_index_expression",
     "unexpected_end_of_input", "expected_multi_select_list", "expected_rbracket", "expected_key",
     "expected_and", "expected_colon", "step_cannot_be_zero", "for_ever", "expected_rparen",
     "expected_rbrace", "expected_comparator", "unknown_function"}
LEMMA Errors == \A error \in ErrorsOfSteps : error \notin Unfound /\ error # Nothing
BY DEF ErrorsOfSteps, Unfound, Nothing

LEMMA StartStateTame ==
    ASSUME StartState
    PROVE  Tame
<1>1. Go(0, Both)
  BY DEF StartState
<1>2. ASSUME Go(0, Both) PROVE Tame
  BY <1>2, PlainNone, TameGo
<1>3. QED  BY <1>1, <1>2

LEMMA RhsExpressionTame ==
    ASSUME RhsExpression
    PROVE  Tame
<1>1. \/ Go(1, <<"rhs_expression", "sub_expression">>)
      \/ Go(1, <<"rhs_expression", "lhs_expression", "expect_pipe_or_or">>)
      \/ Go(1, <<"rhs_expression", "lhs_expression", "expect_and">>)
      \/ Go(0, <<"rhs_expression", "lhs_expression", "comparator_expression">>)
      \/ Go(1, <<"rhs_expression", "lhs_expression", "cmp_ne">>)
      \/ Go(1, <<"rhs_expression", "bracket_specifier">>)
      \/ Go(0, <<>>)
      \/ Fail("undefined")
      \/ Fail("syntax_error")
  BY DEF RhsExpression
<1>2. ASSUME Go(1, <<"rhs_expression", "sub_expression">>) PROVE Tame
  BY <1>2, PlainTwo, TameGo DEF LevelStates
<1>3. ASSUME Go(1, <<"rhs_expression", "lhs_expression", "expect_pipe_or_or">>) PROVE Tame
  BY <1>3, PlainThree, TameGo DEF LevelStates
<1>4. ASSUME Go(1, <<"rhs_expression", "lhs_expression", "expect_and">>) PROVE Tame
  BY <1>4, PlainThree, TameGo DEF LevelStates
<1>5. ASSUME Go(0, <<"rhs_expression", "lhs_expression", "comparator_expression">>) PROVE Tame
  BY <1>5, PlainThree, TameGo DEF LevelStates
<1>6. ASSUME Go(1, <<"rhs_expression", "lhs_expression", "cmp_ne">>) PROVE Tame
  BY <1>6, PlainThree, TameGo DEF LevelStates
<1>7. ASSUME Go(1, <<"rhs_expression", "bracket_specifier">>) PROVE Tame
  BY <1>7, PlainTwo, TameGo DEF LevelStates
<1>8. ASSUME Go(0, <<>>) PROVE Tame
  BY <1>8, PlainNone, TameGo
<1>9. ASSUME Fail("undefined") PROVE Tame
  BY <1>9, Errors, TameFail DEF ErrorsOfSteps
<1>10. ASSUME Fail("syntax_error") PROVE Tame
  BY <1>10, Errors, TameFail DEF ErrorsOfSteps
<1>11. QED  BY <1>1, <1>2, <1>3, <1>4, <1>5, <1>6, <1>7, <1>8, <1>9, <1>10

LEMMA ComparatorExpressionTame ==
    ASSUME ComparatorExpression
    PROVE  Tame
<1>1. \/ Go(1, <<"cmp_lt_or_lte">>)
      \/ Go(1, <<"cmp_gt_or_gte">>)
      \/ Go(1, <<"cmp_eq">>)
  BY DEF ComparatorExpression
<1>2. ASSUME Go(1, <<"cmp_lt_or_lte">>) PROVE Tame
  BY <1>2, PlainOne, TameGo DEF LevelStates
<1>3. ASSUME Go(1, <<"cmp_gt_or_gte">>) PROVE Tame
  BY <1>3, PlainOne, TameGo DEF LevelStates
<1>4. ASSUME Go(1, <<"cmp_eq">>) PROVE Tame
  BY <1>4, PlainOne, TameGo DEF LevelStates
<1>5. QED  BY <1>1, <1>2, <1>3, <1>4

LEMMA SubstituteVariableTame ==
    ASSUME SubstituteVariable
    PROVE  Tame
<1>1. EmitNamed(0, <<>>, <<<<"variable_binding", buffer[1]>>>>)
  BY DEF SubstituteVariable
<1>2. ASSUME EmitNamed(0, <<>>, <<<<"variable_binding", buffer[1]>>>>) PROVE Tame
  <2>1. <<"variable_binding", buffer[1]>>[1] \in PlainTokens
    BY DEF PlainTokens
  <2>2. QED  BY <1>2, <2>1, PlainNone, TameEmit
<1>3. QED  BY <1>1, <1>2

LEMMA LhsExpressionTame ==
    ASSUME LhsExpression
    PROVE  Tame
<1>1. \/ Buffering(1, <<"val_expr">>, <<Content>>)
      \/ EmitNamed(1, <<>>, <<<<"literal", <<"string", Content>>>>>>)
      \/ EmitNamed(1, <<>>, <<<<"literal", Content>>>>)
      \/ Fail("invalid_literal")
      \/ Emit(1, <<"multi_select_hash">>, <<Plain("begin_multi_select_hash")>>)
      \/ Emit(1, <<>>, <<Expression("object_projection", Nothing)>>)
      \/ Emit(1, <<"expect_rparen">> \o Both, <<Plain("lparen")>>)
      \/ Emit(1, <<"lhs_expression">>, <<<<"operation", <<"not", Nothing, <<>>>>>>>>)
      \/ Emit(1, <<>>, <<Expression("current_node", Nothing)>>)
      \/ Go(1, <<"bracket_specifier_or_multi_select_list">>)
      \/ Buffering(1, <<"substitute_variable">>, <<Content>>)
      \/ Buffering(1, <<"identifier_or_function_expr">>, <<Content>>)
      \/ Fail("expected_identifier")
  BY DEF LhsExpression
<1>2. ASSUME Buffering(1, <<"val_expr">>, <<Content>>) PROVE Tame
  BY <1>2, PlainOne, TameBuffering DEF LevelStates
<1>3. ASSUME EmitNamed(1, <<>>, <<<<"literal", <<"string", Content>>>>>>) PROVE Tame
  <2>1. <<"literal", <<"string", Content>>>>[1] \in PlainTokens
    BY DEF PlainTokens
  <2>2. QED  BY <1>3, <2>1, PlainNone, TameEmit
<1>4. ASSUME EmitNamed(1, <<>>, <<<<"literal", Content>>>>) PROVE Tame
  <2>1. <<"literal", Content>>[1] \in PlainTokens
    BY DEF PlainTokens
  <2>2. QED  BY <1>4, <2>1, PlainNone, TameEmit
<1>5. ASSUME Fail("invalid_literal") PROVE Tame
  BY <1>5, Errors, TameFail DEF ErrorsOfSteps
<1>6. ASSUME Emit(1, <<"multi_select_hash">>, <<Plain("begin_multi_select_hash")>>) PROVE Tame
  <2>1. "multi_select_hash" \in OpeningStates /\ Plain("begin_multi_select_hash")[1] = OpeningToken("multi_select_hash")
    BY DEF OpeningStates, OpeningToken, Plain
  <2>2. QED  BY <1>6, <2>1, PlainNone, TameOpenOnly
<1>7. ASSUME Emit(1, <<>>, <<Expression("object_projection", Nothing)>>) PROVE Tame
  <2>1. Expression("object_projection", Nothing)[1] \in PlainTokens
    BY DEF PlainTokens, Expression
  <2>2. QED  BY <1>7, <2>1, PlainNone, TameEmit
<1>8. ASSUME Emit(1, <<"expect_rparen">> \o Both, <<Plain("lparen")>>) PROVE Tame
  <2>1. "expect_rparen" \in LevelStates \ OpeningStates /\ Plain("lparen")[1] = "lparen"
    BY DEF LevelStates, OpeningStates, Plain
  <2>2. QED  BY <1>8, <2>1, PlainNone, TameParen
<1>9. ASSUME Emit(1, <<"lhs_expression">>, <<<<"operation", <<"not", Nothing, <<>>>>>>>>) PROVE Tame
  <2>1. <<"operation", <<"not", Nothing, <<>>>>>>[1] \in PlainTokens
    BY DEF PlainTokens
  <2>2. QED  BY <1>9, <2>1, PlainOne, TameEmit DEF LevelStates
<1>10. ASSUME Emit(1, <<>>, <<Expression("current_node", Nothing)>>) PROVE Tame
  <2>1. Expression("current_node", Nothing)[1] \in PlainTokens
    BY DEF PlainTokens, Expression
  <2>2. QED  BY <1>10, <2>1, PlainNone, TameEmit
<1>11. ASSUME Go(1, <<"bracket_specifier_or_multi_select_list">>) PROVE Tame
  BY <1>11, PlainOne, TameGo DEF LevelStates
<1>12. ASSUME Buffering(1, <<"substitute_variable">>, <<Content>>) PROVE Tame
  BY <1>12, PlainOne, TameBuffering DEF LevelStates
<1>13. ASSUME Buffering(1, <<"identifier_or_function_expr">>, <<Content>>) PROVE Tame
  BY <1>13, PlainOne, TameBuffering DEF LevelStates
<1>14. ASSUME Fail("expected_identifier") PROVE Tame
  BY <1>14, Errors, TameFail DEF ErrorsOfSteps
<1>15. QED  BY <1>1, <1>2, <1>3, <1>4, <1>5, <1>6, <1>7, <1>8, <1>9, <1>10, <1>11, <1>12, <1>13, <1>14

LEMMA SubExpressionTame ==
    ASSUME SubExpression
    PROVE  Tame
<1>1. \/ Buffering(1, <<"val_expr">>, <<Content>>)
      \/ Emit(1, <<"multi_select_hash">>, <<Plain("begin_multi_select_hash")>>)
      \/ Emit(1, <<>>, <<Expression("object_projection", Nothing)>>)
      \/ Go(1, <<"expect_multi_select_list">>)
      \/ Buffering(1, <<"identifier_or_function_expr">>, <<Content>>)
      \/ Fail("expected_identifier")
  BY DEF SubExpression
<1>2. ASSUME Buffering(1, <<"val_expr">>, <<Content>>) PROVE Tame
  BY <1>2, PlainOne, TameBuffering DEF LevelStates
<1>3. ASSUME Emit(1, <<"multi_select_hash">>, <<Plain("begin_multi_select_hash")>>) PROVE Tame
  <2>1. "multi_select_hash" \in OpeningStates /\ Plain("begin_multi_select_hash")[1] = OpeningToken("multi_select_hash")
    BY DEF OpeningStates, OpeningToken, Plain
  <2>2. QED  BY <1>3, <2>1, PlainNone, TameOpenOnly
<1>4. ASSUME Emit(1, <<>>, <<Expression("object_projection", Nothing)>>) PROVE Tame
  <2>1. Expression("object_projection", Nothing)[1] \in PlainTokens
    BY DEF PlainTokens, Expression
  <2>2. QED  BY <1>4, <2>1, PlainNone, TameEmit
<1>5. ASSUME Go(1, <<"expect_multi_select_list">>) PROVE Tame
  BY <1>5, PlainOne, TameGo DEF LevelStates
<1>6. ASSUME Buffering(1, <<"identifier_or_function_expr">>, <<Content>>) PROVE Tame
  BY <1>6, PlainOne, TameBuffering DEF LevelStates
<1>7. ASSUME Fail("expected_identifier") PROVE Tame
  BY <1>7, Errors, TameFail DEF ErrorsOfSteps
<1>8. QED  BY <1>1, <1>2, <1>3, <1>4, <1>5, <1>6, <1>7

LEMMA KeyExprTame ==
    ASSUME KeyExpr
    PROVE  Tame
<1>1. EmitNamed(0, <<>>, <<<<"key", buffer[1]>>>>)
  BY DEF KeyExpr
<1>2. ASSUME EmitNamed(0, <<>>, <<<<"key", buffer[1]>>>>) PROVE Tame
  <2>1. <<"key", buffer[1]>>[1] \in PlainTokens
    BY DEF PlainTokens
  <2>2. QED  BY <1>2, <2>1, PlainNone, TameEmit
<1>3. QED  BY <1>1, <1>2

LEMMA ValExprTame ==
    ASSUME ValExpr
    PROVE  Tame
<1>1. EmitNamed(0, <<>>, <<Expression("identifier", buffer[1])>>)
  BY DEF ValExpr
<1>2. ASSUME EmitNamed(0, <<>>, <<Expression("identifier", buffer[1])>>) PROVE Tame
  <2>1. Expression("identifier", buffer[1])[1] \in PlainTokens
    BY DEF PlainTokens, Expression
  <2>2. QED  BY <1>2, <2>1, PlainNone, TameEmit
<1>3. QED  BY <1>1, <1>2

LEMMA ExpectAssignTame ==
    ASSUME ExpectAssign
    PROVE  Tame
<1>1. \/ EmitNamed(1, <<"expect_in_or_comma">> \o Both, <<<<"variable", buffer[1]>>>>)
      \/ Fail("syntax_error")
  BY DEF ExpectAssign
<1>2. ASSUME EmitNamed(1, <<"expect_in_or_comma">> \o Both, <<<<"variable", buffer[1]>>>>) PROVE Tame
  <2>1. "expect_in_or_comma" \in OpeningStates /\ <<"variable", buffer[1]>>[1] = OpeningToken("expect_in_or_comma")
    BY DEF OpeningStates, OpeningToken
  <2>2. QED  BY <1>2, <2>1, PlainNone, TameOpen
<1>3. ASSUME Fail("syntax_error") PROVE Tame
  BY <1>3, Errors, TameFail DEF ErrorsOfSteps
<1>4. QED  BY <1>1, <1>2, <1>3

LEMMA VariableBindingTame ==
    ASSUME VariableBinding
    PROVE  Tame
<1>1. \/ Buffering(1, <<"expect_assign">>, <<Content>>)
      \/ Fail("syntax_error")
  BY DEF VariableBinding
<1>2. ASSUME Buffering(1, <<"expect_assign">>, <<Content>>) PROVE Tame
  BY <1>2, PlainOne, TameBuffering DEF LevelStates
<1>3. ASSUME Fail("syntax_error") PROVE Tame
  BY <1>3, Errors, TameFail DEF ErrorsOfSteps
<1>4. QED  BY <1>1, <1>2, <1>3

LEMMA NumberTame ==
    ASSUME Number
    PROVE  Tame
<1>1. \/ Buffering(1, <<>>, <<Content>>)
      \/ Go(0, <<>>)
  BY DEF Number
<1>2. ASSUME Buffering(1, <<>>, <<Content>>) PROVE Tame
  BY <1>2, PlainNone, TameBuffering
<1>3. ASSUME Go(0, <<>>) PROVE Tame
  BY <1>3, PlainNone, TameGo
<1>4. QED  BY <1>1, <1>2, <1>3

LEMMA BracketSpecifierTame ==
    ASSUME BracketSpecifier
    PROVE  Tame
<1>1. \/ Emit(1, <<"expect_rbracket">>, <<Expression("list_projection", Nothing)>>)
      \/ Emit(1, <<>>, <<Expression("flatten", Nothing)>>)
      \/ Emit(1, <<"filter">> \o Both, <<Plain("begin_filter")>>)
      \/ Go(1, <<"rhs_slice_expression_stop", "number">>)
      \/ Go(0, <<"index_or_slice_expression", "number">>)
      \/ Fail("expected_index_expression")
  BY DEF BracketSpecifier
<1>2. ASSUME Emit(1, <<"expect_rbracket">>, <<Expression("list_projection", Nothing)>>) PROVE Tame
  <2>1. Expression("list_projection", Nothing)[1] \in PlainTokens
    BY DEF PlainTokens, Expression
  <2>2. QED  BY <1>2, <2>1, PlainOne, TameEmit DEF LevelStates
<1>3. ASSUME Emit(1, <<>>, <<Expression("flatten", Nothing)>>) PROVE Tame
  <2>1. Expression("flatten", Nothing)[1] \in PlainTokens
    BY DEF PlainTokens, Expression
  <2>2. QED  BY <1>3, <2>1, PlainNone, TameEmit
<1>4. ASSUME Emit(1, <<"filter">> \o Both, <<Plain("begin_filter")>>) PROVE Tame
  <2>1. "filter" \in OpeningStates /\ Plain("begin_filter")[1] = OpeningToken("filter")
    BY DEF OpeningStates, OpeningToken, Plain
  <2>2. QED  BY <1>4, <2>1, PlainNone, TameOpen
<1>5. ASSUME Go(1, <<"rhs_slice_expression_stop", "number">>) PROVE Tame
  BY <1>5, PlainTwo, TameGo DEF LevelStates
<1>6. ASSUME Go(0, <<"index_or_slice_expression", "number">>) PROVE Tame
  BY <1>6, PlainTwo, TameGo DEF LevelStates
<1>7. ASSUME Fail("expected_index_expression") PROVE Tame
  BY <1>7, Errors, TameFail DEF ErrorsOfSteps
<1>8. QED  BY <1>1, <1>2, <1>3, <1>4, <1>5, <1>6, <1>7

LEMMA BracketSpecifierOrMultiSelectListTame ==
    ASSUME BracketSpecifierOrMultiSelectList
    PROVE  Tame
<1>1. \/ Fail("unexpected_end_of_input")
      \/ Go(0, <<"bracket_specifier">>)
      \/ Emit(0, <<"multi_select_list">> \o Both, <<Plain("begin_multi_select_list")>>)
  BY DEF BracketSpecifierOrMultiSelectList
<1>2. ASSUME Fail("unexpected_end_of_input") PROVE Tame
  BY <1>2, Errors, TameFail DEF ErrorsOfSteps
<1>3. ASSUME Go(0, <<"bracket_specifier">>) PROVE Tame
  BY <1>3, PlainOne, TameGo DEF LevelStates
<1>4. ASSUME Emit(0, <<"multi_select_list">> \o Both, <<Plain("begin_multi_select_list")>>) PROVE Tame
  <2>1. "multi_select_list" \in OpeningStates /\ Plain("begin_multi_select_list")[1] = OpeningToken("multi_select_list")
    BY DEF OpeningStates, OpeningToken, Plain
  <2>2. QED  BY <1>4, <2>1, PlainNone, TameOpen
<1>5. QED  BY <1>1, <1>2, <1>3, <1>4

LEMMA ExpectMultiSelectListTame ==
    ASSUME ExpectMultiSelectList
    PROVE  Tame
<1>1. \/ Fail("expected_multi_select_list")
      \/ Emit(1, <<"expect_rbracket">>, <<Expression("list_projection", Nothing)>>)
      \/ Emit(0, <<"multi_select_list">> \o Both, <<Plain("begin_multi_select_list")>>)
  BY DEF ExpectMultiSelectList
<1>2. ASSUME Fail("expected_multi_select_list") PROVE Tame
  BY <1>2, Errors, TameFail DEF ErrorsOfSteps
<1>3. ASSUME Emit(1, <<"expect_rbracket">>, <<Expression("list_projection", Nothing)>>) PROVE Tame
  <2>1. Expression("list_projection", Nothing)[1] \in PlainTokens
    BY DEF PlainTokens, Expression
  <2>2. QED  BY <1>3, <2>1, PlainOne, TameEmit DEF LevelStates
<1>4. ASSUME Emit(0, <<"multi_select_list">> \o Both, <<Plain("begin_multi_select_list")>>) PROVE Tame
  <2>1. "multi_select_list" \in OpeningStates /\ Plain("begin_multi_select_list")[1] = OpeningToken("multi_select_list")
    BY DEF OpeningStates, OpeningToken, Plain
  <2>2. QED  BY <1>4, <2>1, PlainNone, TameOpen
<1>5. QED  BY <1>1, <1>2, <1>3, <1>4

LEMMA ExpectRbracketTame ==
    ASSUME ExpectRbracket
    PROVE  Tame
<1>1. \/ Go(1, <<>>)
      \/ Fail("expected_rbracket")
  BY DEF ExpectRbracket
<1>2. ASSUME Go(1, <<>>) PROVE Tame
  BY <1>2, PlainNone, TameGo
<1>3. ASSUME Fail("expected_rbracket") PROVE Tame
  BY <1>3, Errors, TameFail DEF ErrorsOfSteps
<1>4. QED  BY <1>1, <1>2, <1>3

LEMMA KeyValExprTame ==
    ASSUME KeyValExpr
    PROVE  Tame
<1>1. \/ Buffering(1, <<"expect_colon", "key_expr">>, <<Content>>)
      \/ EmitNamed(1, <<"expect_colon">>, <<<<"literal", <<"string", Content>>>>>>)
      \/ Fail("expected_key")
  BY DEF KeyValExpr
<1>2. ASSUME Buffering(1, <<"expect_colon", "key_expr">>, <<Content>>) PROVE Tame
  BY <1>2, PlainTwo, TameBuffering DEF LevelStates
<1>3. ASSUME EmitNamed(1, <<"expect_colon">>, <<<<"literal", <<"string", Content>>>>>>) PROVE Tame
  <2>1. <<"literal", <<"string", Content>>>>[1] \in PlainTokens
    BY DEF PlainTokens
  <2>2. QED  BY <1>3, <2>1, PlainOne, TameEmit DEF LevelStates
<1>4. ASSUME Fail("expected_key") PROVE Tame
  BY <1>4, Errors, TameFail DEF ErrorsOfSteps
<1>5. QED  BY <1>1, <1>2, <1>3, <1>4

LEMMA ExpectPipeOrOrTame ==
    ASSUME ExpectPipeOrOr
    PROVE  Tame
<1>1. \/ Emit(1, <<>>, <<<<"operation", <<"or", Nothing, <<>>>>>>>>)
      \/ Emit(0, <<>>, <<Plain("pipe")>>)
  BY DEF ExpectPipeOrOr
<1>2. ASSUME Emit(1, <<>>, <<<<"operation", <<"or", Nothing, <<>>>>>>>>) PROVE Tame
  <2>1. <<"operation", <<"or", Nothing, <<>>>>>>[1] \in PlainTokens
    BY DEF PlainTokens
  <2>2. QED  BY <1>2, <2>1, PlainNone, TameEmit
<1>3. ASSUME Emit(0, <<>>, <<Plain("pipe")>>) PROVE Tame
  <2>1. Plain("pipe")[1] \in PlainTokens
    BY DEF PlainTokens, Plain
  <2>2. QED  BY <1>3, <2>1, PlainNone, TameEmit
<1>4. QED  BY <1>1, <1>2, <1>3

LEMMA ExpectAndTame ==
    ASSUME ExpectAnd
    PROVE  Tame
<1>1. \/ Emit(1, <<>>, <<<<"operation", <<"and", Nothing, <<>>>>>>>>)
      \/ Fail("expected_and")
  BY DEF ExpectAnd
<1>2. ASSUME Emit(1, <<>>, <<<<"operation", <<"and", Nothing, <<>>>>>>>>) PROVE Tame
  <2>1. <<"operation", <<"and", Nothing, <<>>>>>>[1] \in PlainTokens
    BY DEF PlainTokens
  <2>2. QED  BY <1>2, <2>1, PlainNone, TameEmit
<1>3. ASSUME Fail("expected_and") PROVE Tame
  BY <1>3, Errors, TameFail DEF ErrorsOfSteps
<1>4. QED  BY <1>1, <1>2, <1>3

LEMMA ExpectColonTame ==
    ASSUME ExpectColon
    PROVE  Tame
<1>1. \/ Go(1, Both)
      \/ Fail("expected_colon")
  BY DEF ExpectColon
<1>2. ASSUME Go(1, Both) PROVE Tame
  BY <1>2, PlainNone, TameGo
<1>3. ASSUME Fail("expected_colon") PROVE Tame
  BY <1>3, Errors, TameFail DEF ErrorsOfSteps
<1>4. QED  BY <1>1, <1>2, <1>3

LEMMA CompareTame ==
    ASSUME NEW state, NEW single, NEW double, Compare(state, single, double)
    PROVE  Tame
<1>. DEFINE both == <<"operation", <<double, Nothing, <<>>>>>>
            one == <<"operation", <<single, Nothing, <<>>>>>>
<1>1. \/ Emit(1, <<>>, <<both>>)
      \/ Fail("expected_comparator")
      \/ Emit(0, <<>>, <<one>>)
  BY DEF Compare
<1>2. both[1] \in PlainTokens /\ one[1] \in PlainTokens
  BY DEF PlainTokens
<1>. HIDE DEF both, one
<1>3. ASSUME Emit(1, <<>>, <<both>>) PROVE Tame
  BY <1>2, <1>3, PlainNone, TameEmit
<1>4. ASSUME Emit(0, <<>>, <<one>>) PROVE Tame
  BY <1>2, <1>4, PlainNone, TameEmit
<1>5. ASSUME Fail("expected_comparator") PROVE Tame
  BY <1>5, Errors, TameFail DEF ErrorsOfSteps
<1>6. QED  BY <1>1, <1>3, <1>4, <1>5

LEMMA CompareHolds ==
    ASSUME CInv, CmpLtOrLte \/ CmpGtOrGte \/ CmpEq \/ CmpNe
    PROVE  CInv'
<1>1. ASSUME NEW state, NEW single, NEW double, state \notin LevelStates, Compare(state, single, double)
      PROVE  CInv'
  <2>1. At(state)
    BY <1>1 DEF Compare
  <2>2. QED  BY <1>1, <2>1, CompareTame, TameHolds
<1>2. /\ "cmp_lt_or_lte" \notin LevelStates /\ "cmp_gt_or_gte" \notin LevelStates
      /\ "cmp_eq" \notin LevelStates /\ "cmp_ne" \notin LevelStates
  BY DEF LevelStates
<1>3. QED  BY <1>1, <1>2, Zenon DEF CmpLtOrLte, CmpGtOrGte, CmpEq, CmpNe

\* A slice is one expression, which never fails.
LEMMA EmitSliceHolds ==
    ASSUME CInv, NEW state, At(state), state \notin LevelStates, NEW s, EmitSlice(s)
    PROVE  CInv'
<1>. DEFINE t == Expression("slice", s)
<1>1. /\ ~compiled /\ tokens.ec = Nothing
      /\ IsSequence(Front(states)) /\ Balanced(tokens, Append(Front(states), state))
  BY AtTop
<1>2. Balanced(tokens, Front(states))
  BY <1>1, BalancedWithout
<1>3. t[1] = "expression" /\ t[1] \in PlainTokens
  BY DEF Expression, PlainTokens
<1>4. tokens' = AfterPushes(<<t>>) /\ Becoming(<<>>) /\ compiled' = compiled
  BY DEF EmitSlice
<1>. HIDE DEF t
<1>5. Follows(Pushed(tokens, t, Arities), Front(states)) /\ Pushed(tokens, t, Arities).ec = Nothing
  BY <1>2, <1>3, PushedPlain
<1>6. tokens' = Pushed(tokens, t, Arities)
  BY <1>1, <1>4, Pushes
<1>7. Balanced(tokens', Front(states) \o <<>>)
  <2>1. Balanced(Pushed(tokens, t, Arities), Front(states))
    BY <1>5 DEF Follows
  <2>2. QED  BY <1>6, <2>1, PlainNone, PlainOnTop
<1>8. Balanced(tokens', states')
  BY <1>4, <1>7 DEF Becoming
<1>9. QED  BY <1>8, FollowsBalanced DEF CInv, Follows

LEMMA SliceHolds ==
    ASSUME CInv, IndexOrSliceExpression \/ RhsSliceExpressionStop \/ RhsSliceExpressionStep
    PROVE  CInv'
<1>1. ASSUME NEW state, At(state), state \notin LevelStates, Fail("expected_rbracket") PROVE CInv'
  BY <1>1, Errors, TameFail, TameHolds DEF ErrorsOfSteps
<1>2. ASSUME NEW state, At(state), state \notin LevelStates, NEW top, IsPlain(top), Becoming(top),
             UNCHANGED <<tokens, compiled>>
      PROVE  CInv'
  <2>1. Moves(top)
    BY <1>2 DEF Moves
  <2>2. QED  BY <1>2, <2>1, TameHolds DEF Tame
<1>3. CASE IndexOrSliceExpression
  <2>1. At("index_or_slice_expression") /\ "index_or_slice_expression" \notin LevelStates
    BY <1>3 DEF IndexOrSliceExpression, LevelStates
  <2>2. \/ EmitNamed(1, <<>>, <<Expression("index", buffer[1])>>)
        \/ Becoming(<<"rhs_slice_expression_stop", "number">>) /\ UNCHANGED <<tokens, compiled>>
        \/ Fail("expected_rbracket")
    BY <1>3 DEF IndexOrSliceExpression
  <2>3. ASSUME EmitNamed(1, <<>>, <<Expression("index", buffer[1])>>) PROVE CInv'
    <3>1. Expression("index", buffer[1])[1] \in PlainTokens
      BY DEF Expression, PlainTokens
    <3>2. Tame
      BY <2>3, <3>1, PlainNone, TameEmit
    <3>3. QED  BY <2>1, <3>2, TameHolds
  <2>4. ASSUME Becoming(<<"rhs_slice_expression_stop", "number">>), UNCHANGED <<tokens, compiled>> PROVE CInv'
    <3>1. IsPlain(<<"rhs_slice_expression_stop", "number">>)
      BY PlainTwo DEF LevelStates
    <3>2. QED  BY <1>2, <2>1, <2>4, <3>1, Zenon
  <2>5. QED  BY <1>1, <2>1, <2>2, <2>3, <2>4
<1>4. CASE RhsSliceExpressionStop
  <2>1. At("rhs_slice_expression_stop") /\ "rhs_slice_expression_stop" \notin LevelStates
    BY <1>4 DEF RhsSliceExpressionStop, LevelStates
  <2>2. \/ \E s : EmitSlice(s)
        \/ Becoming(<<"rhs_slice_expression_step", "number">>) /\ UNCHANGED <<tokens, compiled>>
        \/ Fail("expected_rbracket")
    BY <1>4 DEF RhsSliceExpressionStop
  <2>3. ASSUME Becoming(<<"rhs_slice_expression_step", "number">>), UNCHANGED <<tokens, compiled>> PROVE CInv'
    <3>1. IsPlain(<<"rhs_slice_expression_step", "number">>)
      BY PlainTwo DEF LevelStates
    <3>2. QED  BY <1>2, <2>1, <2>3, <3>1, Zenon
  <2>4. QED  BY <1>1, <2>1, <2>2, <2>3, EmitSliceHolds
<1>5. CASE RhsSliceExpressionStep
  <2>1. At("rhs_slice_expression_step") /\ "rhs_slice_expression_step" \notin LevelStates
    BY <1>5 DEF RhsSliceExpressionStep, LevelStates
  <2>2. \/ Fail("step_cannot_be_zero")
        \/ \E s : EmitSlice(s)
        \/ Fail("expected_rbracket")
    BY <1>5 DEF RhsSliceExpressionStep
  <2>3. ASSUME Fail("step_cannot_be_zero") PROVE CInv'
    <3>1. Tame
      BY <2>3, Errors, TameFail DEF ErrorsOfSteps
    <3>2. QED  BY <2>1, <3>1, TameHolds
  <2>4. QED  BY <1>1, <2>1, <2>2, <2>3, EmitSliceHolds
<1>6. QED  BY <1>3, <1>4, <1>5

------------------------------------------------------------------------------
\* A function: the left parenthesis of its first argument comes with it.

LEMMA IdentifierOrFunctionExprHolds ==
    ASSUME CInv, IdentifierOrFunctionExpr
    PROVE  CInv'
<1>1. At("identifier_or_function_expr") /\ "identifier_or_function_expr" \notin LevelStates
  BY DEF IdentifierOrFunctionExpr, LevelStates
<1>2. PICK t, paren : t = <<"function", buffer[1]>> /\ paren = Plain("lparen")
  OBVIOUS
<1>3. \/ Fail("unknown_function") \/ Fail("syntax_error")
      \/ EmitNamed(1, <<"function_expression">>, <<t>>)
      \/ EmitNamed(1, <<"function_expression", "expression_or_expression_type">>, <<t, paren>>)
      \/ Buffering(0, <<"lhs_expression", "variable_binding">>, <<>>)
      \/ EmitNamed(0, <<>>, <<Expression("identifier", buffer[1])>>)
  BY <1>2, Zenon DEF IdentifierOrFunctionExpr
<1>4. ASSUME Fail("unknown_function") \/ Fail("syntax_error") PROVE Tame
  BY <1>4, Errors, TameFail DEF ErrorsOfSteps
<1>5. ASSUME Buffering(0, <<"lhs_expression", "variable_binding">>, <<>>) PROVE Tame
  BY <1>5, PlainTwo, TameBuffering DEF LevelStates
<1>6. ASSUME EmitNamed(0, <<>>, <<Expression("identifier", buffer[1])>>) PROVE Tame
  <2>1. Expression("identifier", buffer[1])[1] \in PlainTokens
    BY DEF Expression, PlainTokens
  <2>2. QED  BY <1>6, <2>1, PlainNone, TameEmit
<1>7. "function_expression" \in OpeningStates /\ t[1] = OpeningToken("function_expression")
  BY <1>2 DEF OpeningStates, OpeningToken
<1>8. /\ tokens.ec = Nothing
      /\ IsSequence(Front(states)) /\ Balanced(tokens, Append(Front(states), "identifier_or_function_expr"))
  BY <1>1, AtTop
<1>9. Balanced(tokens, Front(states))
  BY <1>1, <1>8, BalancedWithout
<1>10. PICK u : u = Pushed(tokens, t, Arities)
  OBVIOUS
<1>11. Follows(u, Append(Front(states), "function_expression")) /\ u.ec = Nothing
  BY <1>7, <1>9, <1>10, PushedOpens
<1>12. ASSUME EmitNamed(1, <<"function_expression">>, <<t>>) PROVE CInv'
  <2>1. Emits(<<"function_expression">>, t)
    BY <1>12, EmitEmits
  <2>2. Front(states) \o <<"function_expression">> = Append(Front(states), "function_expression")
    BY <1>8, Stacked
  <2>3. QED  BY <1>8, <1>10, <1>11, <2>1, <2>2, EmitsTo
<1>13. ASSUME EmitNamed(1, <<"function_expression", "expression_or_expression_type">>, <<t, paren>>) PROVE CInv'
  <2>1. tokens' = Pushed(u, paren, Arities)
    <3>1. tokens' = AfterPushes(<<t, paren>>)
      BY <1>13 DEF EmitNamed
    <3>2. QED  BY <1>8, <1>10, <1>11, <3>1, Pushes
  <2>2. Balanced(u, Append(Front(states), "function_expression"))
    BY <1>11 DEF Follows
  <2>3. /\ "expression_or_expression_type" \in LevelStates /\ "expression_or_expression_type" \notin OpeningStates
        /\ paren[1] = "lparen"
    BY <1>2 DEF LevelStates, OpeningStates, Plain
  <2>4. Follows(tokens', Append(Append(Front(states), "function_expression"), "expression_or_expression_type"))
    BY <2>1, <2>2, <2>3, PushedParen
  <2>5. Front(states) \o <<"function_expression", "expression_or_expression_type">> =
          Append(Append(Front(states), "function_expression"), "expression_or_expression_type")
    BY <1>8, StackedTwo
  <2>6. states' = Front(states) \o <<"function_expression", "expression_or_expression_type">>
    BY <1>13 DEF EmitNamed, Becoming
  <2>7. compiled' = (tokens'.ec # Nothing)
    BY <1>13 DEF EmitNamed
  <2>8. Follows(tokens', states')
    BY <2>4, <2>5, <2>6
  <2>9. QED  BY <2>7, <2>8 DEF CInv, Follows
<1>14. ASSUME Tame PROVE CInv'
  BY <1>1, <1>14, TameHolds
<1>15. QED  BY <1>3, <1>4, <1>5, <1>6, <1>12, <1>13, <1>14, Zenon

\* An argument: it waits for its end, and an expression type in it for its own.
LEMMA ExpressionOrExpressionTypeHolds ==
    ASSUME CInv, ExpressionOrExpressionType
    PROVE  CInv'
<1>1. At("expression_or_expression_type")
  BY DEF ExpressionOrExpressionType
<1>2. /\ ~compiled /\ tokens.ec = Nothing /\ IsSequence(Front(states))
      /\ Balanced(tokens, Append(Front(states), "expression_or_expression_type"))
  BY <1>1, AtTop
<1>3. /\ "expression_or_expression_type" \in LevelStates /\ "argument" \in LevelStates
      /\ "argument" \notin OpeningStates
  BY DEF LevelStates, OpeningStates
<1>4. Balanced(tokens, Append(Front(states), "argument"))
  BY <1>2, <1>3, BalancedSwap
<1>5. IsSequence(Both) /\ IsPlain(Both)
  BY PlainNone DEF IsPlain
<1>6. PICK t : t = Plain("begin_expression_type")
  OBVIOUS
<1>7. \/ Emit(1, <<"argument", "expression_type">> \o Both, <<t>>)
      \/ Go(0, <<"argument">> \o Both)
  BY <1>6, Zenon DEF ExpressionOrExpressionType
<1>8. ASSUME Go(0, <<"argument">> \o Both) PROVE CInv'
  <2>1. Moves(<<"argument">> \o Both)
    BY <1>8, GoMoves
  <2>2. Balanced(tokens, Append(Front(states), "argument") \o Both)
    BY <1>4, <1>5, PlainOnTop
  <2>3. Append(Front(states), "argument") \o Both = Front(states) \o (<<"argument">> \o Both)
    BY <1>2, <1>5, Stacked
  <2>4. Balanced(tokens, Front(states) \o (<<"argument">> \o Both))
    BY <2>2, <2>3
  <2>5. QED  BY <1>2, <2>1, <2>4, MovesTo
<1>9. ASSUME Emit(1, <<"argument", "expression_type">> \o Both, <<t>>) PROVE CInv'
  <2>1. PICK st : st = Append(Append(Front(states), "argument"), "expression_type")
    OBVIOUS
  <2>2. "expression_type" \in OpeningStates /\ t[1] = OpeningToken("expression_type")
    BY <1>6 DEF OpeningStates, OpeningToken, Plain
  <2>3. Follows(Pushed(tokens, t, Arities), st)
    BY <1>4, <2>1, <2>2, PushedOpens
  <2>4. Follows(Pushed(tokens, t, Arities), st \o Both)
    BY <1>5, <2>3, PlainFollows
  <2>5. st \o Both = Front(states) \o (<<"argument", "expression_type">> \o Both)
    BY <1>2, <1>5, <2>1, StackedBoth
  <2>6. Follows(Pushed(tokens, t, Arities), Front(states) \o (<<"argument", "expression_type">> \o Both))
    BY <2>4, <2>5
  <2>7. Emits(<<"argument", "expression_type">> \o Both, t)
    BY <1>9, EmitEmits
  <2>8. QED  BY <1>2, <2>6, <2>7, EmitsTo
<1>10. QED  BY <1>7, <1>8, <1>9

\* The closing tokens.
LEMMA FailsAt ==
    ASSUME CInv, NEW state, At(state), NEW error \in ErrorsOfSteps, Fail(error)
    PROVE  CInv'
<1>1. IsStack(tokens)
  BY AtTop
<1>2. error \notin Unfound
  BY Errors
<1>3. QED  BY <1>1, <1>2, FailsTo

LEMMA ExpectInOrCommaHolds ==
    ASSUME CInv, ExpectInOrComma
    PROVE  CInv'
<1>1. At("expect_in_or_comma") /\ "expect_in_or_comma" \in ClosableStates
  BY DEF ExpectInOrComma, ClosableStates
<1>2. PICK t : t = Plain("variable_expression")
  OBVIOUS
<1>3. t[1] = ClosingToken("expect_in_or_comma")
  BY <1>2 DEF Plain, ClosingToken
<1>4. \/ Emit(1, <<"variable_binding">>, <<t>>)
      \/ Emit(1, <<>>, <<t>>)
      \/ Fail("syntax_error")
  BY <1>2, Zenon DEF ExpectInOrComma
<1>5. IsPlain(<<"variable_binding">>) /\ IsPlain(<<>>)
  BY PlainOne DEF LevelStates
<1>6. ASSUME NEW top, IsPlain(top), Emit(1, top, <<t>>) PROVE CInv'
  BY <1>1, <1>3, <1>6, EmitEmits, ClosesTo
<1>7. ASSUME Fail("syntax_error") PROVE CInv'
  BY <1>1, <1>7, FailsAt DEF ErrorsOfSteps
<1>8. QED  BY <1>4, <1>5, <1>6, <1>7, Zenon

LEMMA CloserHolds ==
    ASSUME CInv, Argument \/ ExpressionType \/ Filter \/ ExpectRparen
    PROVE  CInv'
<1>1. ASSUME NEW state \in ClosableStates, At(state), NEW t, t[1] = ClosingToken(state), NEW n, Emit(n, <<>>, <<t>>)
      PROVE  CInv'
  BY <1>1, PlainNone, EmitEmits, ClosesTo
<1>2. CASE Argument
  <2>1. At("argument") /\ Emit(0, <<>>, <<Plain("argument")>>)
    BY <1>2 DEF Argument
  <2>2. "argument" \in ClosableStates /\ Plain("argument")[1] = ClosingToken("argument")
    BY DEF ClosableStates, ClosingToken, Plain
  <2>3. QED  BY <1>1, <2>1, <2>2, Zenon
<1>3. CASE ExpressionType
  <2>1. At("expression_type") /\ Emit(0, <<>>, <<Plain("end_expression_type")>>)
    BY <1>3 DEF ExpressionType
  <2>2. "expression_type" \in ClosableStates /\ Plain("end_expression_type")[1] = ClosingToken("expression_type")
    BY DEF ClosableStates, ClosingToken, Plain
  <2>3. QED  BY <1>1, <2>1, <2>2, Zenon
<1>4. CASE Filter
  <2>1. At("filter") /\ (Emit(1, <<>>, <<Plain("end_filter")>>) \/ Fail("expected_rbracket"))
    BY <1>4 DEF Filter
  <2>2. "filter" \in ClosableStates /\ Plain("end_filter")[1] = ClosingToken("filter")
    BY DEF ClosableStates, ClosingToken, Plain
  <2>3. ASSUME Fail("expected_rbracket") PROVE CInv'
    BY <2>1, <2>3, FailsAt DEF ErrorsOfSteps
  <2>4. QED  BY <1>1, <2>1, <2>2, <2>3, Zenon
<1>5. CASE ExpectRparen
  <2>1. At("expect_rparen") /\ (Emit(1, <<>>, <<Plain("rparen")>>) \/ Fail("expected_rparen"))
    BY <1>5 DEF ExpectRparen
  <2>2. "expect_rparen" \in ClosableStates /\ Plain("rparen")[1] = ClosingToken("expect_rparen")
    BY DEF ClosableStates, ClosingToken, Plain
  <2>3. ASSUME Fail("expected_rparen") PROVE CInv'
    BY <2>1, <2>3, FailsAt DEF ErrorsOfSteps
  <2>4. QED  BY <1>1, <2>1, <2>2, <2>3, Zenon
<1>6. QED  BY <1>2, <1>3, <1>4, <1>5

\* The states that stay while there is another part.
LEMMA FunctionExpressionHolds ==
    ASSUME CInv, FunctionExpression
    PROVE  CInv'
<1>1. At("function_expression")
  BY DEF FunctionExpression
<1>2. PICK t, paren : t = Plain("end_function") /\ paren = Plain("lparen")
  OBVIOUS
<1>3. \/ Emit(1, <<"function_expression", "expression_or_expression_type">>, <<paren>>)
      \/ Emit(1, <<>>, <<t>>)
      \/ Fail("for_ever")
  BY <1>2, Zenon DEF FunctionExpression
<1>4. /\ tokens.ec = Nothing /\ IsSequence(Front(states))
      /\ Balanced(tokens, Append(Front(states), "function_expression"))
  BY <1>1, AtTop
<1>5. ASSUME Emit(1, <<"function_expression", "expression_or_expression_type">>, <<paren>>) PROVE CInv'
  <2>1. /\ "expression_or_expression_type" \in LevelStates /\ "expression_or_expression_type" \notin OpeningStates
        /\ paren[1] = "lparen"
    BY <1>2 DEF LevelStates, OpeningStates, Plain
  <2>2. Follows(Pushed(tokens, paren, Arities),
                Append(Append(Front(states), "function_expression"), "expression_or_expression_type"))
    BY <1>4, <2>1, PushedParen
  <2>3. Front(states) \o <<"function_expression", "expression_or_expression_type">> =
          Append(Append(Front(states), "function_expression"), "expression_or_expression_type")
    BY <1>4, StackedTwo
  <2>4. Emits(<<"function_expression", "expression_or_expression_type">>, paren)
    BY <1>5, EmitEmits
  <2>5. QED  BY <1>4, <2>2, <2>3, <2>4, EmitsTo
<1>6. ASSUME Emit(1, <<>>, <<t>>) PROVE CInv'
  <2>1. "function_expression" \in ClosableStates /\ t[1] = ClosingToken("function_expression")
    BY <1>2 DEF ClosableStates, ClosingToken, Plain
  <2>2. QED  BY <1>1, <1>6, <2>1, PlainNone, EmitEmits, ClosesTo
<1>7. ASSUME Fail("for_ever") PROVE CInv'
  BY <1>1, <1>7, FailsAt DEF ErrorsOfSteps
<1>8. QED  BY <1>3, <1>5, <1>6, <1>7

LEMMA MultiSelectHashStartHolds ==
    ASSUME CInv, MultiSelectHashStart
    PROVE  CInv'
<1>1. At("multi_select_hash")
  BY DEF MultiSelectHashStart
<1>2. /\ ~compiled /\ IsSequence(Front(states))
      /\ Balanced(tokens, Append(Front(states), "multi_select_hash"))
  BY <1>1, AtTop
<1>3. Fail("for_ever") \/ Go(0, <<"expect_rbrace", "key_val_expr">>)
  BY DEF MultiSelectHashStart
<1>4. ASSUME Go(0, <<"expect_rbrace", "key_val_expr">>) PROVE CInv'
  <2>1. /\ "multi_select_hash" \in LevelStates /\ "expect_rbrace" \in LevelStates
        /\ "multi_select_hash" \in OpeningStates
        /\ OpeningToken("expect_rbrace") = OpeningToken("multi_select_hash")
    BY DEF LevelStates, OpeningStates, OpeningToken
  <2>2. Balanced(tokens, Append(Front(states), "expect_rbrace"))
    BY <1>2, <2>1, BalancedSwap
  <2>3. "key_val_expr" \notin LevelStates
    BY DEF LevelStates
  <2>4. Balanced(tokens, Append(Append(Front(states), "expect_rbrace"), "key_val_expr"))
    BY <2>2, <2>3, BalancedWith
  <2>5. Front(states) \o <<"expect_rbrace", "key_val_expr">> =
          Append(Append(Front(states), "expect_rbrace"), "key_val_expr")
    BY <1>2, StackedTwo
  <2>6. Moves(<<"expect_rbrace", "key_val_expr">>)
    BY <1>4, GoMoves
  <2>7. QED  BY <1>2, <2>4, <2>5, <2>6, MovesTo
<1>5. ASSUME Fail("for_ever") PROVE CInv'
  BY <1>1, <1>5, FailsAt DEF ErrorsOfSteps
<1>6. QED  BY <1>3, <1>4, <1>5

LEMMA MultiSelectListStateHolds ==
    ASSUME CInv, MultiSelectListState
    PROVE  CInv'
<1>1. At("multi_select_list")
  BY DEF MultiSelectListState
<1>2. PICK t, u : t = Plain("end_multi_select_list") /\ u = Plain("separator")
  OBVIOUS
<1>3. \/ Emit(1, <<"multi_select_list">> \o Both, <<u>>)
      \/ Emit(1, <<>>, <<t>>)
      \/ Fail("expected_rbracket")
  BY <1>2, Zenon DEF MultiSelectListState
<1>4. /\ tokens.ec = Nothing /\ IsSequence(Front(states))
      /\ Balanced(tokens, Append(Front(states), "multi_select_list"))
  BY <1>1, AtTop
<1>5. ASSUME Emit(1, <<"multi_select_list">> \o Both, <<u>>) PROVE CInv'
  <2>1. u[1] = "separator"
    BY <1>2 DEF Plain
  <2>2. Follows(Pushed(tokens, u, Arities), Append(Front(states), "multi_select_list"))
    BY <1>4, <2>1, PushedSeparates
  <2>3. Follows(Pushed(tokens, u, Arities), Append(Front(states), "multi_select_list") \o Both)
    BY <2>2, PlainNone, PlainFollows
  <2>4. Append(Front(states), "multi_select_list") \o Both = Front(states) \o (<<"multi_select_list">> \o Both)
    BY <1>4, PlainNone, Stacked DEF IsPlain
  <2>5. Emits(<<"multi_select_list">> \o Both, u)
    BY <1>5, EmitEmits
  <2>6. QED  BY <1>4, <2>3, <2>4, <2>5, EmitsTo
<1>6. ASSUME Emit(1, <<>>, <<t>>) PROVE CInv'
  <2>1. "multi_select_list" \in ClosableStates /\ t[1] = ClosingToken("multi_select_list")
    BY <1>2 DEF ClosableStates, ClosingToken, Plain
  <2>2. QED  BY <1>1, <1>6, <2>1, PlainNone, EmitEmits, ClosesTo
<1>7. ASSUME Fail("expected_rbracket") PROVE CInv'
  BY <1>1, <1>7, FailsAt DEF ErrorsOfSteps
<1>8. QED  BY <1>3, <1>5, <1>6, <1>7

LEMMA ExpectRbraceHolds ==
    ASSUME CInv, ExpectRbrace
    PROVE  CInv'
<1>1. At("expect_rbrace")
  BY DEF ExpectRbrace
<1>2. PICK t, u : t = Plain("end_multi_select_hash") /\ u = Plain("separator")
  OBVIOUS
<1>3. \/ Emit(1, <<"expect_rbrace", "key_val_expr">>, <<u>>)
      \/ Emit(1, <<>>, <<t>>)
      \/ Fail("expected_rbrace")
  BY <1>2, Zenon DEF ExpectRbrace
<1>4. /\ tokens.ec = Nothing /\ IsSequence(Front(states))
      /\ Balanced(tokens, Append(Front(states), "expect_rbrace"))
  BY <1>1, AtTop
<1>5. ASSUME Emit(1, <<"expect_rbrace", "key_val_expr">>, <<u>>) PROVE CInv'
  <2>1. u[1] = "separator"
    BY <1>2 DEF Plain
  <2>2. Follows(Pushed(tokens, u, Arities), Append(Front(states), "expect_rbrace"))
    BY <1>4, <2>1, PushedSeparates
  <2>3. IsPlain(<<"key_val_expr">>) /\ IsSequence(Append(Front(states), "expect_rbrace"))
    BY <1>4, PlainOne, SeqAppend DEF LevelStates
  <2>4. Follows(Pushed(tokens, u, Arities), Append(Front(states), "expect_rbrace") \o <<"key_val_expr">>)
    BY <2>2, <2>3, PlainFollows
  <2>5. Append(Front(states), "expect_rbrace") \o <<"key_val_expr">> =
          Append(Append(Front(states), "expect_rbrace"), "key_val_expr")
    BY <2>3, EmptyIsSequence, Stacked
  <2>6. Front(states) \o <<"expect_rbrace", "key_val_expr">> =
          Append(Append(Front(states), "expect_rbrace"), "key_val_expr")
    BY <1>4, StackedTwo
  <2>7. Emits(<<"expect_rbrace", "key_val_expr">>, u)
    BY <1>5, EmitEmits
  <2>8. QED  BY <1>4, <2>4, <2>5, <2>6, <2>7, EmitsTo
<1>6. ASSUME Emit(1, <<>>, <<t>>) PROVE CInv'
  <2>1. "expect_rbrace" \in ClosableStates /\ t[1] = ClosingToken("expect_rbrace")
    BY <1>2 DEF ClosableStates, ClosingToken, Plain
  <2>2. QED  BY <1>1, <1>6, <2>1, PlainNone, EmitEmits, ClosesTo
<1>7. ASSUME Fail("expected_rbrace") PROVE CInv'
  BY <1>1, <1>7, FailsAt DEF ErrorsOfSteps
<1>8. QED  BY <1>3, <1>5, <1>6, <1>7

\* The other states: the step is of one of the kinds above, or closes something.
LEMMA PlainStatesHold ==
    ASSUME CInv,
           \/ StartState \/ RhsExpression \/ ComparatorExpression \/ SubstituteVariable \/ LhsExpression
           \/ SubExpression \/ KeyExpr \/ ValExpr \/ ExpectAssign \/ VariableBinding
    PROVE  CInv'
<1>1. /\ "start" \notin LevelStates /\ "rhs_expression" \notin LevelStates
      /\ "comparator_expression" \notin LevelStates /\ "substitute_variable" \notin LevelStates
      /\ "lhs_expression" \notin LevelStates /\ "sub_expression" \notin LevelStates
      /\ "key_expr" \notin LevelStates /\ "val_expr" \notin LevelStates
      /\ "expect_assign" \notin LevelStates /\ "variable_binding" \notin LevelStates
  BY DEF LevelStates
<1>2. CASE StartState
  BY <1>1, <1>2, StartStateTame, TameHolds DEF StartState
<1>3. CASE RhsExpression
  BY <1>1, <1>3, RhsExpressionTame, TameHolds DEF RhsExpression
<1>4. CASE ComparatorExpression
  BY <1>1, <1>4, ComparatorExpressionTame, TameHolds DEF ComparatorExpression
<1>5. CASE SubstituteVariable
  BY <1>1, <1>5, SubstituteVariableTame, TameHolds DEF SubstituteVariable
<1>6. CASE LhsExpression
  BY <1>1, <1>6, LhsExpressionTame, TameHolds DEF LhsExpression
<1>7. CASE SubExpression
  BY <1>1, <1>7, SubExpressionTame, TameHolds DEF SubExpression
<1>8. CASE KeyExpr
  BY <1>1, <1>8, KeyExprTame, TameHolds DEF KeyExpr
<1>9. CASE ValExpr
  BY <1>1, <1>9, ValExprTame, TameHolds DEF ValExpr
<1>10. CASE ExpectAssign
  BY <1>1, <1>10, ExpectAssignTame, TameHolds DEF ExpectAssign
<1>11. CASE VariableBinding
  BY <1>1, <1>11, VariableBindingTame, TameHolds DEF VariableBinding
<1>12. QED  BY <1>2, <1>3, <1>4, <1>5, <1>6, <1>7, <1>8, <1>9, <1>10, <1>11

LEMMA BracketStatesHold ==
    ASSUME CInv,
           \/ Number \/ BracketSpecifier \/ BracketSpecifierOrMultiSelectList \/ ExpectMultiSelectList
           \/ ExpectRbracket \/ KeyValExpr \/ ExpectPipeOrOr \/ ExpectAnd \/ ExpectColon
    PROVE  CInv'
<1>1. /\ "number" \notin LevelStates /\ "bracket_specifier" \notin LevelStates
      /\ "bracket_specifier_or_multi_select_list" \notin LevelStates
      /\ "expect_multi_select_list" \notin LevelStates /\ "expect_rbracket" \notin LevelStates
      /\ "key_val_expr" \notin LevelStates /\ "expect_pipe_or_or" \notin LevelStates
      /\ "expect_and" \notin LevelStates /\ "expect_colon" \notin LevelStates
  BY DEF LevelStates
<1>2. CASE Number
  BY <1>1, <1>2, NumberTame, TameHolds DEF Number
<1>3. CASE BracketSpecifier
  BY <1>1, <1>3, BracketSpecifierTame, TameHolds DEF BracketSpecifier
<1>4. CASE BracketSpecifierOrMultiSelectList
  BY <1>1, <1>4, BracketSpecifierOrMultiSelectListTame, TameHolds DEF BracketSpecifierOrMultiSelectList
<1>5. CASE ExpectMultiSelectList
  BY <1>1, <1>5, ExpectMultiSelectListTame, TameHolds DEF ExpectMultiSelectList
<1>6. CASE ExpectRbracket
  BY <1>1, <1>6, ExpectRbracketTame, TameHolds DEF ExpectRbracket
<1>7. CASE KeyValExpr
  BY <1>1, <1>7, KeyValExprTame, TameHolds DEF KeyValExpr
<1>8. CASE ExpectPipeOrOr
  BY <1>1, <1>8, ExpectPipeOrOrTame, TameHolds DEF ExpectPipeOrOr
<1>9. CASE ExpectAnd
  BY <1>1, <1>9, ExpectAndTame, TameHolds DEF ExpectAnd
<1>10. CASE ExpectColon
  BY <1>1, <1>10, ExpectColonTame, TameHolds DEF ExpectColon
<1>11. QED  BY <1>2, <1>3, <1>4, <1>5, <1>6, <1>7, <1>8, <1>9, <1>10

\* The end of the text: the states no longer matter.
LEMMA FinishedTokens ==
    ASSUME Balanced(tokens, states), NEW state
    PROVE  /\ AfterPushes(Append(Completion(state), Plain("end_of_expression"))).ec \notin Unfound
           /\ AfterPushes(Append(Completion(state), Plain("end_of_expression"))).ec = Nothing =>
                IsStack(AfterPushes(Append(Completion(state), Plain("end_of_expression"))))
<1>1. PICK t : t = Plain("end_of_expression")
  OBVIOUS
<1>2. t[1] = "end_of_expression" /\ IsStack(tokens) /\ tokens.ec = Nothing
  BY <1>1 DEF Plain, Balanced
<1>3. ASSUME NEW s, IsStack(s), s.ec = Nothing
      PROVE  Pushed(s, t, Arities).ec \notin Unfound /\ IsStack(Pushed(s, t, Arities))
  <2>1. IsStack(Pushed(s, t, Arities)) /\ Pushed(s, t, Arities).ec \in {Nothing, "assertion"}
    BY <1>2, <1>3, PushedEnd
  <2>2. QED  BY <2>1 DEF Nothing, Unfound
<1>4. ASSUME NEW c, c[1] \in PlainTokens
      PROVE  /\ AfterPushes(<<c, t>>).ec \notin Unfound
             /\ AfterPushes(<<c, t>>).ec = Nothing => IsStack(AfterPushes(<<c, t>>))
  <2>1. PICK u : u = Pushed(tokens, c, Arities)
    OBVIOUS
  <2>2. Follows(u, states)
    BY <1>4, <2>1, PushedPlain
  <2>3. AfterPushes(<<c, t>>) = PushedNext(PushedNext(tokens, c), t)
    BY TwoPushed DEF AfterPushes
  <2>4. PushedNext(tokens, c) = u
    BY <1>2, <2>1 DEF PushedNext
  <2>5. AfterPushes(<<c, t>>) = PushedNext(u, t)
    BY <2>3, <2>4
  <2>6. CASE u.ec = Nothing
    <3>1. AfterPushes(<<c, t>>) = Pushed(u, t, Arities) /\ IsStack(u)
      BY <2>2, <2>5, <2>6 DEF PushedNext, Follows, Balanced
    <3>2. QED  BY <1>3, <2>6, <3>1
  <2>7. CASE u.ec # Nothing
    <3>1. AfterPushes(<<c, t>>) = u
      BY <2>5, <2>7 DEF PushedNext
    <3>2. QED  BY <2>2, <2>7, <3>1 DEF Follows
  <2>8. QED  BY <2>6, <2>7
<1>5. ASSUME NEW c, c[1] \in PlainTokens, Completion(state) = <<c>>
      PROVE  Append(Completion(state), t) = <<c, t>>
  <2>1. <<c>> \in Seq({c, t}) /\ <<c, t>> \in Seq({c, t}) /\ <<c, t>>[1] = c /\ <<c, t>>[2] = t
    OBVIOUS
  <2>2. IsSequence(<<c>>) /\ IsSequence(<<c, t>>)
    BY <2>1 DEF IsSequence
  <2>3. Len(<<c>>) = 1 /\ Len(<<c, t>>) = 2 /\ <<c>>[1] = c
    OBVIOUS
  <2>4. IsSequence(Append(<<c>>, t)) /\ Len(Append(<<c>>, t)) = 2
    BY <2>2, <2>3, SeqAppend
  <2>5. Append(<<c>>, t)[1] = c
    BY <2>2, <2>3, SeqAppend
  <2>6. Append(<<c>>, t)[2] = t
    BY <2>2, <2>3, SeqAppend
  <2>7. \A i \in 1 .. 2 : Append(<<c>>, t)[i] = <<c, t>>[i]
    BY <2>1, <2>5, <2>6
  <2>8. Append(<<c>>, t) = <<c, t>>
    BY <2>2, <2>3, <2>4, <2>7, SequencesEqual
  <2>9. QED  BY <1>5, <2>8
<1>6. CASE Completion(state) = <<>>
  <2>1. Append(Completion(state), t) = <<t>>
    BY <1>6
  <2>2. AfterPushes(<<t>>) = Pushed(tokens, t, Arities)
    BY <1>2, Pushes
  <2>3. QED  BY <1>1, <1>2, <1>3, <2>1, <2>2
<1>7. CASE Completion(state) # <<>>
  <2>1. PICK name, binding : name = Expression("identifier", buffer[1]) /\ binding = <<"variable_binding", buffer[1]>>
    OBVIOUS
  <2>2. name[1] \in PlainTokens /\ binding[1] \in PlainTokens
    BY <2>1 DEF Expression, PlainTokens
  <2>3. Completion(state) = <<name>> \/ Completion(state) = <<binding>>
    BY <1>7, <2>1 DEF Completion
  <2>4. PICK c : Completion(state) = <<c>> /\ c[1] \in PlainTokens
    BY <2>2, <2>3
  <2>5. QED  BY <1>1, <1>4, <1>5, <2>4
<1>8. QED  BY <1>6, <1>7

LEMMA FinishHolds ==
    ASSUME CInv, Finish
    PROVE  CInv'
<1>1. Balanced(tokens, states) /\ compiled' = TRUE
  BY DEF Finish, CInv
<1>2. IsStack(tokens)
  BY <1>1 DEF Balanced
<1>3. PICK s : s = AfterPushes(Append(Completion(states[Len(states)]), Plain("end_of_expression")))
  OBVIOUS
<1>4. s.ec \notin Unfound /\ (s.ec = Nothing => IsStack(s))
  BY <1>1, <1>3, FinishedTokens
<1>5. \/ tokens' = Failed(tokens, "syntax_error")
      \/ s.ec = Nothing /\ tokens' = [s EXCEPT !.out = Rooted(s.out)]
      \/ tokens' = s
  BY <1>3, Zenon DEF Finish
<1>6. CASE tokens' = Failed(tokens, "syntax_error")
  BY <1>1, <1>2, <1>6, FailedIsStack, Errors DEF CInv, ErrorsOfSteps
<1>7. CASE s.ec = Nothing /\ tokens' = [s EXCEPT !.out = Rooted(s.out)]
  <2>1. tokens' = [out |-> Rooted(s.out), ops |-> s.ops, ec |-> s.ec]
    BY <1>4, <1>7, StackWith
  <2>2. tokens'.ec \notin Unfound
    BY <1>4, <2>1
  <2>3. QED  BY <1>1, <2>2 DEF CInv
<1>8. CASE tokens' = s
  BY <1>1, <1>4, <1>8 DEF CInv
<1>9. QED  BY <1>5, <1>6, <1>7, <1>8

------------------------------------------------------------------------------
\* Every step keeps the invariant.

LEMMA CompileStarts == CompileInit => CInv
<1>. SUFFICES ASSUME CompileInit PROVE CInv
  OBVIOUS
<1>1. states = <<"start">> /\ tokens = OnStack(<<>>, <<>>)
  BY DEF CompileInit
<1>2. OnlyOperators(<<>>) /\ Parens(<<>>) = {}
  BY EmptyIsSequence DEF OnlyOperators, Parens
<1>3. IsStack(tokens) /\ tokens.out = <<>> /\ tokens.ops = <<>> /\ tokens.ec = Nothing
  BY <1>1, <1>2, EmptyIsSequence, NewStack
<1>4. "start" \notin LevelStates /\ "start" \notin OpeningStates
  BY DEF LevelStates, OpeningStates
<1>5. /\ IsSequence(states) /\ \A i \in 1 .. Len(states) : states[i] = "start"
  <2>1. <<"start">> \in Seq({"start"}) /\ \A i \in 1 .. Len(<<"start">>) : <<"start">>[i] = "start"
    OBVIOUS
  <2>2. QED  BY <1>1, <2>1 DEF IsSequence
<1>6. Found(tokens.out, states)
  <2>1. \A i \in 1 .. Len(states) : states[i] \notin OpeningStates
    BY <1>4, <1>5
  <2>2. Places(0, tokens.out, states)
    BY <2>1, Zenon DEF Places
  <2>3. QED  BY <2>2 DEF Found
<1>7. LevelsOf(states) = {}
  BY <1>4, <1>5 DEF LevelsOf
<1>8. Balanced(tokens, states)
  BY <1>2, <1>3, <1>5, <1>6, <1>7, Zenon DEF Balanced
<1>9. QED  BY <1>8, FollowsBalanced DEF CInv, Follows

LEMMA StepHolds ==
    ASSUME CInv, Step
    PROVE  CInv'
<1>1. CASE \/ StartState \/ RhsExpression \/ ComparatorExpression \/ SubstituteVariable \/ LhsExpression
           \/ SubExpression \/ KeyExpr \/ ValExpr \/ ExpectAssign \/ VariableBinding
  BY <1>1, PlainStatesHold
<1>2. CASE \/ Number \/ BracketSpecifier \/ BracketSpecifierOrMultiSelectList \/ ExpectMultiSelectList
           \/ ExpectRbracket \/ KeyValExpr \/ ExpectPipeOrOr \/ ExpectAnd \/ ExpectColon
  BY <1>2, BracketStatesHold
<1>3. CASE IndexOrSliceExpression \/ RhsSliceExpressionStop \/ RhsSliceExpressionStep
  BY <1>3, SliceHolds
<1>4. CASE CmpLtOrLte \/ CmpGtOrGte \/ CmpEq \/ CmpNe
  BY <1>4, CompareHolds
<1>5. CASE ExpressionOrExpressionType
  BY <1>5, ExpressionOrExpressionTypeHolds
<1>6. CASE ExpectInOrComma
  BY <1>6, ExpectInOrCommaHolds
<1>7. CASE IdentifierOrFunctionExpr
  BY <1>7, IdentifierOrFunctionExprHolds
<1>8. CASE FunctionExpression
  BY <1>8, FunctionExpressionHolds
<1>9. CASE MultiSelectHashStart
  BY <1>9, MultiSelectHashStartHolds
<1>10. CASE MultiSelectListState
  BY <1>10, MultiSelectListStateHolds
<1>11. CASE ExpectRbrace
  BY <1>11, ExpectRbraceHolds
<1>12. CASE Argument \/ ExpressionType \/ ExpectRparen \/ Filter
  BY <1>12, CloserHolds
<1>13. CASE Finish
  BY <1>13, FinishHolds
<1>14. QED
  BY <1>1, <1>2, <1>3, <1>4, <1>5, <1>6, <1>7, <1>8, <1>9, <1>10, <1>11, <1>12, <1>13, Zenon DEF Step

LEMMA CompileKeeps == CInv /\ [CompileNext]_compileVars => CInv'
<1>. SUFFICES ASSUME CInv, [CompileNext]_compileVars PROVE CInv'
  OBVIOUS
<1>1. ASSUME UNCHANGED <<tokens, states, compiled>> PROVE CInv'
  BY <1>1 DEF CInv
<1>2. CASE (\E piece : TypePiece(piece)) \/ EndText
  <2>1. UNCHANGED <<tokens, states, compiled>>
    BY <1>2 DEF TypePiece, EndText
  <2>2. QED  BY <1>1, <2>1
<1>3. CASE UNCHANGED compileVars
  BY <1>1, <1>3 DEF compileVars
<1>4. CASE Step
  BY <1>4, StepHolds
<1>5. QED  BY <1>2, <1>3, <1>4 DEF CompileNext

LEMMA CompileInvariant == CompileSpec => []CInv
BY CompileStarts, CompileKeeps, PTL DEF CompileSpec

\* While a text of any length is compiled, the operators that wait are kept apart by as
\* many left parentheses as the machine is in brackets, arguments and bindings
\* (push_token, compile).
THEOREM LevelsHold == CompileSpec => []LevelsMatch
<1>1. CInv => LevelsMatch
  <2>. SUFFICES ASSUME CInv, ~compiled
                PROVE  Cardinality({i \in DOMAIN tokens.ops : tokens.ops[i][1] = "lparen"})
                       = Cardinality({i \in DOMAIN states : states[i] \in LevelStates})
    BY DEF LevelsMatch
  <2>1. Balanced(tokens, states)
    BY DEF CInv
  <2>2. /\ IsSequence(states) /\ IsSequence(tokens.ops)
        /\ Cardinality(Parens(tokens.ops)) = Cardinality(LevelsOf(states))
    BY <2>1 DEF Balanced, IsStack, OnlyOperators
  <2>3. DOMAIN states = 1 .. Len(states) /\ DOMAIN tokens.ops = 1 .. Len(tokens.ops)
    BY <2>2, SeqFacts
  <2>4. QED  BY <2>2, <2>3 DEF Parens, LevelsOf
<1>2. QED  BY <1>1, CompileInvariant, PTL

\* For a text of any length, a closing token never misses the opening token of its kind
\* on the output, nor the left parenthesis that came with it: unbalanced_parentheses and
\* unbalanced_braces of push_token are never reported.
THEOREM OpeningsHold == CompileSpec => []OpeningsFound
<1>1. CInv => OpeningsFound
  BY DEF CInv, OpeningsFound, Unfound
<1>2. QED  BY <1>1, CompileInvariant, PTL
==============================================================================
