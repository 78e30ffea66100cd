-------------------------- MODULE Conversions_proofs --------------------------
(***************************************************************************)
(* The conversions for every input of any length: what the folds of the    *)
(* model compute is proved by an induction over the sequence, with a set   *)
(* of numbers for the predicate and a function for the folded operator.    *)
(***************************************************************************)
EXTENDS Conversions, SequenceTheorems, FiniteSetTheorems, WellFoundedInduction, TLAPS

-----------------------------------------------------------------------------
(* Numbers.                                                                *)

LEMMA LeastNumber ==
  ASSUME NEW T, T \subseteq Nat, T # {}
  PROVE  \E n \in T : \A m \in T : n <= m
<1>1. IsWellFoundedOn(OpToRel(<, Nat), Nat)
  BY NatLessThanWellFounded
<1>2. PICK n \in T : \A m \in T : ~ (<<m, n>> \in OpToRel(<, Nat))
  BY <1>1, WFMin
<1>3. \A m \in T : ~ (m < n)
  BY <1>2, Zenon DEF OpToRel
<1>4. \A m \in T : n <= m
  BY <1>3
<1> QED
  BY <1>4

LEMMA SetInduction ==
  ASSUME NEW T, 0 \in T, \A n \in Nat : n \in T => n + 1 \in T
  PROVE  Nat \subseteq T
<1> SUFFICES ASSUME Nat \ T # {}
             PROVE  FALSE
  OBVIOUS
<1>1. PICK n \in Nat \ T : \A m \in Nat \ T : n <= m
  <2>1. Nat \ T \subseteq Nat
    OBVIOUS
  <2> QED
    BY <2>1, LeastNumber
<1>2. n # 0 /\ n - 1 \in Nat /\ n - 1 \in T
  BY <1>1
<1> QED
  BY <1>1, <1>2

LEMMA GreatestNumber ==
  ASSUME NEW n \in Nat, NEW t \in SUBSET (1..n), t # {}
  PROVE  Max(t) \in t /\ \A y \in t : Max(t) >= y
<1> DEFINE T == {k \in Nat : \E x \in t : x = n - k}
<1>1. T \subseteq Nat /\ T # {}
  <2>1. PICK x \in t : TRUE
    OBVIOUS
  <2>2. n - x \in Nat /\ x = n - (n - x)
    BY <2>1
  <2> QED
    BY <2>2
<1>2. PICK k \in T : \A m \in T : k <= m
  <2> HIDE DEF T
  <2> QED
    BY <1>1, LeastNumber
<1>3. n - k \in t /\ \A y \in t : n - k >= y
  <2>1. \A y \in t : n - y \in T
    OBVIOUS
  <2> QED
    BY <1>2, <2>1
<1> QED
  BY <1>3 DEF Max

LEMMA UptoFacts ==
  ASSUME NEW k \in Nat
  PROVE  /\ 1..(k + 1) # {} /\ Max(1..(k + 1)) = k + 1 /\ (1..(k + 1)) \ {k + 1} = 1..k
         /\ 1..0 = {}
<1>1. Max(1..(k + 1)) \in 1..(k + 1) /\ \A y \in 1..(k + 1) : Max(1..(k + 1)) >= y
  <2>1. k + 1 \in Nat /\ 1..(k + 1) # {} /\ 1..(k + 1) \in SUBSET (1..(k + 1))
    OBVIOUS
  <2> QED
    BY <2>1, GreatestNumber
<1> DEFINE m == Max(1..(k + 1))
<1> HIDE DEF m
<1>2. m \in 1..(k + 1) /\ \A y \in 1..(k + 1) : m >= y
  BY <1>1 DEF m
<1>3. m = k + 1
  BY <1>2
<1> QED
  BY <1>3 DEF m

-----------------------------------------------------------------------------
(* Folds.                                                                  *)

\* What FoldLeft computes: the result for each set of positions.
Iteration(I, f, b, s) ==
  I = [t \in SUBSET (DOMAIN s) |->
         IF t = {} THEN b ELSE f[<<I[t \ {Max(t)}], s[Max(t)]>>]]

LEMMA IterationExists ==
  ASSUME NEW f, NEW b, NEW C, NEW s \in Seq(C)
  PROVE  \E I : Iteration(I, f, b, s)
<1>1. PICK n \in Nat : n = Len(s) /\ DOMAIN s = 1..n
  BY LenProperties
<1> DEFINE Val(I, t) == IF t = {} THEN b ELSE f[<<I[t \ {Max(t)}], s[Max(t)]>>]
           Upto(I, k) == \A t \in SUBSET (1..n) : t \subseteq 1..k => I[t] = Val(I, t)
           T == {k \in Nat : \E I : Upto(I, k)}
<1>2. 0 \in T
  <2> DEFINE I == [t \in SUBSET (1..n) |-> b]
  <2>1. \A t \in SUBSET (1..n) : t \subseteq 1..0 => t = {}
    OBVIOUS
  <2>2. Upto(I, 0)
    BY <2>1
  <2> HIDE DEF I, Upto
  <2> QED
    BY <2>2
<1>3. ASSUME NEW k \in Nat, k \in T
      PROVE  k + 1 \in T
  <2>1. PICK I : Upto(I, k)
    BY <1>3
  <2> DEFINE G == [t \in SUBSET (1..n) |-> IF t \subseteq 1..k THEN I[t] ELSE Val(I, t)]
  <2>2. ASSUME NEW t \in SUBSET (1..n), t \subseteq 1..(k + 1)
        PROVE  G[t] = Val(G, t)
    <3>1. G[t] = Val(I, t)
      BY <2>1
    <3>2. ASSUME t # {}
          PROVE  G[t \ {Max(t)}] = I[t \ {Max(t)}]
      <4>1. Max(t) \in t /\ \A y \in t : Max(t) >= y
        BY <3>2, GreatestNumber
      <4> DEFINE m == Max(t)
      <4> HIDE DEF m
      <4>2. m \in t /\ (\A y \in t : m >= y)
        BY <4>1 DEF m
      <4>3. t \ {m} \subseteq 1..k /\ t \ {m} \in SUBSET (1..n)
        BY <2>2, <4>2
      <4> QED
        BY <4>3 DEF m
    <3> HIDE DEF G
    <3> QED
      BY <3>1, <3>2
  <2>3. Upto(G, k + 1)
    BY <2>2
  <2> HIDE DEF G, Upto
  <2> QED
    BY <2>3
<1> HIDE DEF T
<1>4. n \in T
  BY <1>2, <1>3, SetInduction
<1>5. PICK I : Upto(I, n)
  BY <1>4 DEF T
<1> DEFINE J == [t \in SUBSET (1..n) |-> I[t]]
<1>6. \A t \in SUBSET (1..n) : J[t] = Val(J, t)
  <2> TAKE t \in SUBSET (1..n)
  <2>1. J[t] = Val(I, t)
    BY <1>5
  <2>2. J[t \ {Max(t)}] = I[t \ {Max(t)}]
    OBVIOUS
  <2> HIDE DEF J
  <2> QED
    BY <2>1, <2>2
<1>7. J = [t \in SUBSET (1..n) |-> Val(J, t)]
  BY <1>6
<1> HIDE DEF J
<1>8. Iteration(J, f, b, s)
  BY <1>1, <1>7 DEF Iteration
<1> QED
  BY <1>8


LEMMA IterationTyped ==
  ASSUME NEW S, NEW C, NEW f \in [S \X C -> S], NEW b \in S, NEW s \in Seq(C),
         NEW I, Iteration(I, f, b, s)
  PROVE  \A t \in SUBSET (DOMAIN s) : I[t] \in S
<1>1. PICK n \in Nat : n = Len(s) /\ DOMAIN s = 1..n /\ \A k \in 1..n : s[k] \in C
  BY LenProperties, ElementOfSeq
<1> DEFINE T == {k \in Nat : \A t \in SUBSET (1..n) : t \subseteq 1..k => I[t] \in S}
<1>2. \A t \in SUBSET (1..n) : I[t] = IF t = {} THEN b ELSE f[<<I[t \ {Max(t)}], s[Max(t)]>>]
  BY <1>1 DEF Iteration
<1>3. 0 \in T
  <2>1. \A t : t \subseteq 1..0 => t = {}
    OBVIOUS
  <2> QED
    BY <1>2, <2>1
<1>4. ASSUME NEW k \in Nat, k \in T
      PROVE  k + 1 \in T
  <2>1. ASSUME NEW t \in SUBSET (1..n), t \subseteq 1..(k + 1), t # {}
        PROVE  I[t] \in S
    <3> DEFINE m == Max(t)
    <3>1. m \in t /\ (\A y \in t : m >= y)
      BY <2>1, GreatestNumber
    <3>2. I[t] = f[<<I[t \ {m}], s[m]>>]
      BY <1>2, <2>1
    <3> HIDE DEF m
    <3>3. t \ {m} \subseteq 1..k /\ t \ {m} \in SUBSET (1..n)
      BY <2>1, <3>1
    <3>4. I[t \ {m}] \in S /\ s[m] \in C
      BY <1>1, <1>4, <3>1, <3>3
    <3> QED
      BY <3>2, <3>4
  <2>2. I[{}] \in S
    BY <1>2
  <2>3. \A t \in SUBSET (1..n) : t \subseteq 1..(k + 1) => I[t] \in S
    BY <2>1, <2>2, Zenon
  <2> QED
    BY <2>3
<1> HIDE DEF T
<1>5. n \in T
  BY <1>3, <1>4, SetInduction
<1> QED
  BY <1>1, <1>5 DEF T

Steps(I, f, b, s, n) ==
  I[{}] = b /\ \A k \in 0..(n - 1) : I[1..(k + 1)] = f[<<I[1..k], s[k + 1]>>]

LEMMA IterationSteps ==
  ASSUME NEW f, NEW b, NEW C, NEW s \in Seq(C), NEW I, Iteration(I, f, b, s)
  PROVE  Steps(I, f, b, s, Len(s))
<1>1. PICK n \in Nat : n = Len(s) /\ DOMAIN s = 1..n
  BY LenProperties
<1>2. \A t \in SUBSET (1..n) : I[t] = IF t = {} THEN b ELSE f[<<I[t \ {Max(t)}], s[Max(t)]>>]
  BY <1>1 DEF Iteration
<1>3. ASSUME NEW k \in 0..(n - 1)
      PROVE  I[1..(k + 1)] = f[<<I[1..k], s[k + 1]>>]
  <2>1. k \in Nat /\ 1..(k + 1) \in SUBSET (1..n)
    OBVIOUS
  <2>2. 1..(k + 1) # {} /\ Max(1..(k + 1)) = k + 1 /\ (1..(k + 1)) \ {k + 1} = 1..k
    BY <2>1, UptoFacts
  <2> QED
    BY <1>2, <2>1, <2>2
<1>4. I[{}] = b
  BY <1>2
<1> QED
  BY <1>1, <1>3, <1>4 DEF Steps

\* The same as long as the result is one of S.
StepsWithin(S, I, f, b, s, n) ==
  /\ I[{}] = b
  /\ \A k \in 0..(n - 1) : I[1..k] \in S => I[1..(k + 1)] = f[<<I[1..k], s[k + 1]>>]

\* Two iterations that take the same steps over the first n elements agree there.
StepsInto(S, C, f, b) == f \in [S \X C -> S] /\ b \in S

LEMMA IterationsAgree ==
  ASSUME NEW S, NEW C, NEW f, NEW b, StepsInto(S, C, f, b), NEW s \in Seq(C),
         NEW n, n = Len(s),
         NEW I, StepsWithin(S, I, f, b, s, n), NEW J, StepsWithin(S, J, f, b, s, n)
  PROVE  I[1..n] \in S /\ I[1..n] = J[1..n]
<1> DEFINE T == {k \in Nat : k <= n => I[1..k] \in S /\ I[1..k] = J[1..k]}
<1>0. n \in Nat /\ \A k \in 1..n : s[k] \in C
  BY LenProperties, ElementOfSeq
<1>1. 0 \in T
  <2>1. 1..0 = {}
    OBVIOUS
  <2> QED
    BY <2>1 DEF StepsWithin, StepsInto
<1>2. ASSUME NEW k \in Nat, k \in T
      PROVE  k + 1 \in T
  <2>1. ASSUME k + 1 <= n
        PROVE  I[1..(k + 1)] \in S /\ I[1..(k + 1)] = J[1..(k + 1)]
    <3>1. k \in 0..(n - 1) /\ k + 1 \in 1..n /\ I[1..k] \in S /\ I[1..k] = J[1..k]
      BY <1>0, <1>2, <2>1
    <3>2. s[k + 1] \in C
      BY <1>0, <3>1
    <3>3. I[1..(k + 1)] = f[<<I[1..k], s[k + 1]>>] /\ J[1..(k + 1)] = f[<<I[1..k], s[k + 1]>>]
      BY <3>1 DEF StepsWithin
    <3> QED
      BY <3>1, <3>2, <3>3 DEF StepsInto
  <2> QED
    BY <2>1
<1> HIDE DEF T
<1>3. n \in T
  BY <1>0, <1>1, <1>2, SetInduction
<1> QED
  BY <1>0, <1>3 DEF T

\* The fold of an operator given as a function.
Folded(f, b, s) == FoldLeft(LAMBDA x, c : f[<<x, c>>], b, s)

TheIteration(f, b, s) == CHOOSE I : Iteration(I, f, b, s)

LEMMA FoldedIsIteration ==
  ASSUME NEW f, NEW b, NEW C, NEW s \in Seq(C)
  PROVE  /\ Folded(f, b, s) = TheIteration(f, b, s)[DOMAIN s]
         /\ Iteration(TheIteration(f, b, s), f, b, s)
<1>1. Iteration(TheIteration(f, b, s), f, b, s)
  BY IterationExists DEF TheIteration
<1>2. Folded(f, b, s) = TheIteration(f, b, s)[DOMAIN s]
  BY Zenon DEF Folded, FoldLeft, MapThenFoldSet, TheIteration, Iteration
<1> QED
  BY <1>1, <1>2

FoldLaws(S, C, f, b) ==
  /\ Folded(f, b, <<>>) = b
  /\ \A s \in Seq(C) : Folded(f, b, s) \in S
  /\ \A s \in Seq(C), c \in C : Folded(f, b, Append(s, c)) = f[<<Folded(f, b, s), c>>]

LEMMA FoldLawsHold ==
  ASSUME NEW S, NEW C, NEW f, NEW b, StepsInto(S, C, f, b)
  PROVE  FoldLaws(S, C, f, b)
<1>0. f \in [S \X C -> S] /\ b \in S
  BY DEF StepsInto
<1>1. Folded(f, b, <<>>) = b
  <2> DEFINE I == TheIteration(f, b, <<>>)
  <2>1. <<>> \in Seq(C) /\ DOMAIN <<>> = {}
    OBVIOUS
  <2> HIDE DEF I
  <2>2. Folded(f, b, <<>>) = I[DOMAIN <<>>] /\ Iteration(I, f, b, <<>>)
    BY <2>1, FoldedIsIteration DEF I
  <2>3. I[{}] = b
    BY <2>1, <2>2 DEF Iteration
  <2> QED
    BY <2>1, <2>2, <2>3
<1>2. ASSUME NEW s \in Seq(C)
      PROVE  Folded(f, b, s) \in S
  <2>1. /\ Folded(f, b, s) = TheIteration(f, b, s)[DOMAIN s]
        /\ Iteration(TheIteration(f, b, s), f, b, s)
    BY FoldedIsIteration
  <2>2. \A t \in SUBSET (DOMAIN s) : TheIteration(f, b, s)[t] \in S
    BY <1>0, <2>1, IterationTyped, Zenon
  <2> QED
    BY <2>1, <2>2
<1>3. ASSUME NEW s \in Seq(C), NEW c \in C
      PROVE  Folded(f, b, Append(s, c)) = f[<<Folded(f, b, s), c>>]
  <2> DEFINE a == Append(s, c)
             I == TheIteration(f, b, a)
             J == TheIteration(f, b, s)
  <2>1. PICK n \in Nat : n = Len(s)
    BY LenProperties
  <2>2. /\ a \in Seq(C) /\ Len(a) = n + 1 /\ a[n + 1] = c /\ \A k \in 1..n : a[k] = s[k]
        /\ \A k \in 1..n : s[k] \in C
        /\ DOMAIN s = 1..n /\ DOMAIN a = 1..(n + 1)
    BY <2>1, AppendProperties, LenProperties, ElementOfSeq
  <2> HIDE DEF a
  <2>3. /\ Folded(f, b, a) = I[1..(n + 1)] /\ Iteration(I, f, b, a)
        /\ Folded(f, b, s) = J[1..n] /\ Iteration(J, f, b, s)
    BY <2>2, FoldedIsIteration
  <2> HIDE DEF I, J
  <2>4. /\ I[{}] = b /\ \A k \in 0..n : I[1..(k + 1)] = f[<<I[1..k], a[k + 1]>>]
        /\ J[{}] = b /\ \A k \in 0..(n - 1) : J[1..(k + 1)] = f[<<J[1..k], s[k + 1]>>]
    <3>1. Steps(I, f, b, a, Len(a)) /\ Steps(J, f, b, s, Len(s))
      BY <2>2, <2>3, IterationSteps
    <3> QED
      BY <2>1, <2>2, <3>1 DEF Steps
  <2>5. StepsWithin(S, I, f, b, s, n) /\ StepsWithin(S, J, f, b, s, n)
    <3>1. \A k \in 0..(n - 1) : k \in 0..n /\ k + 1 \in 1..n
      OBVIOUS
    <3> QED
      BY <2>2, <2>4, <3>1 DEF StepsWithin
  <2>6. I[1..n] = J[1..n]
    BY <2>1, <2>5, IterationsAgree
  <2>7. I[1..(n + 1)] = f[<<I[1..n], c>>]
    BY <2>2, <2>4
  <2> QED
    BY <2>3, <2>6, <2>7 DEF a
<1> QED
  BY <1>1, <1>2, <1>3, Zenon DEF FoldLaws

\* Whatever iterates an operator that agrees with f on S and C computes this fold.
IteratesWithin(S, K, f, b, s) ==
  /\ K[{}] = b
  /\ \A t \in SUBSET (DOMAIN s) : t # {} /\ K[t \ {Max(t)}] \in S =>
        K[t] = f[<<K[t \ {Max(t)}], s[Max(t)]>>]

LEMMA AnyIteration ==
  ASSUME NEW S, NEW C, NEW f, NEW b, StepsInto(S, C, f, b), NEW s \in Seq(C),
         NEW K, IteratesWithin(S, K, f, b, s)
  PROVE  K[DOMAIN s] = Folded(f, b, s)
<1> DEFINE J == TheIteration(f, b, s)
<1>1. PICK n \in Nat : n = Len(s) /\ DOMAIN s = 1..n
  BY LenProperties
<1>2. Iteration(J, f, b, s) /\ Folded(f, b, s) = J[1..n]
  BY <1>1, FoldedIsIteration
<1> HIDE DEF J
<1>3. StepsWithin(S, K, f, b, s, n)
  <2>1. ASSUME NEW k \in 0..(n - 1), K[1..k] \in S
        PROVE  K[1..(k + 1)] = f[<<K[1..k], s[k + 1]>>]
    <3>1. k \in Nat /\ 1..(k + 1) \in SUBSET (1..n)
      BY <1>1
    <3>2. 1..(k + 1) # {} /\ Max(1..(k + 1)) = k + 1 /\ (1..(k + 1)) \ {k + 1} = 1..k
      BY <3>1, UptoFacts
    <3> QED
      BY <1>1, <2>1, <3>1, <3>2, Zenon DEF IteratesWithin
  <2> QED
    BY <2>1 DEF StepsWithin, IteratesWithin
<1>4. StepsWithin(S, J, f, b, s, n)
  <2>1. Steps(J, f, b, s, n)
    BY <1>1, <1>2, IterationSteps
  <2> QED
    BY <2>1 DEF Steps, StepsWithin
<1>5. K[1..n] = J[1..n]
  BY <1>1, <1>3, <1>4, IterationsAgree
<1> QED
  BY <1>1, <1>2, <1>5

\* The iteration of f is one of the operator.
LEMMA IterationWithin ==
  ASSUME NEW S, NEW C, NEW f, NEW b, StepsInto(S, C, f, b), NEW s \in Seq(C)
  PROVE  LET J == TheIteration(f, b, s)
         IN  /\ J = [t \in SUBSET (DOMAIN s) |->
                       IF t = {} THEN b ELSE f[<<J[t \ {Max(t)}], s[Max(t)]>>]]
             /\ \A t \in SUBSET (DOMAIN s) : t # {} => J[t \ {Max(t)}] \in S /\ s[Max(t)] \in C
<1> DEFINE J == TheIteration(f, b, s)
<1>1. PICK n \in Nat : n = Len(s) /\ DOMAIN s = 1..n /\ \A k \in 1..n : s[k] \in C
  BY LenProperties, ElementOfSeq
<1>2. Iteration(J, f, b, s)
  BY FoldedIsIteration
<1> HIDE DEF J
<1>3. \A t \in SUBSET (DOMAIN s) : J[t] \in S
  BY <1>2, IterationTyped DEF StepsInto
<1>4. ASSUME NEW t \in SUBSET (DOMAIN s), t # {}
      PROVE  J[t \ {Max(t)}] \in S /\ s[Max(t)] \in C
  <2>1. Max(t) \in t
    BY <1>1, <1>4, GreatestNumber
  <2> QED
    BY <1>1, <1>3, <2>1
<1> QED
  BY <1>2, <1>4 DEF Iteration, J

Reading(S, C, f) == \A x \in S, c \in C : f[<<x, c>>] = TakeChar(x, c)

LEMMA ReadingIsFolded ==
  ASSUME NEW S, NEW C, NEW f, StepsInto(S, C, f, Start),
         Reading(S, C, f), NEW s \in Seq(C)
  PROVE  FoldLeft(TakeChar, Start, s) = Folded(f, Start, s)
<1> DEFINE b == Start
           Obeys(I) == I = [t \in SUBSET (DOMAIN s) |->
                              IF t = {} THEN b ELSE TakeChar(I[t \ {Max(t)}], s[Max(t)])]
           J == TheIteration(f, b, s)
           K == CHOOSE I : Obeys(I)
<1>1. FoldLeft(TakeChar, Start, s) = K[DOMAIN s]
  BY Zenon DEF FoldLeft, MapThenFoldSet
<1> HIDE DEF b
<1>2. StepsInto(S, C, f, b)
  BY DEF b
<1>3. Obeys(J)
  <2>1. /\ J = [t \in SUBSET (DOMAIN s) |->
                  IF t = {} THEN b ELSE f[<<J[t \ {Max(t)}], s[Max(t)]>>]]
        /\ \A t \in SUBSET (DOMAIN s) : t # {} => J[t \ {Max(t)}] \in S /\ s[Max(t)] \in C
    BY <1>2, IterationWithin
  <2> HIDE DEF J
  <2> QED
    BY <2>1 DEF Reading
<1>4. K = [t \in SUBSET (DOMAIN s) |-> IF t = {} THEN b ELSE TakeChar(K[t \ {Max(t)}], s[Max(t)])]
  <2> HIDE DEF Obeys, J
  <2>1. Obeys(K)
    BY <1>3
  <2> HIDE DEF K
  <2> QED
    BY <2>1 DEF Obeys
<1> HIDE DEF K, Obeys
<1>5. IteratesWithin(S, K, f, b, s)
  <2>1. ASSUME NEW t \in SUBSET (DOMAIN s), t # {}, K[t \ {Max(t)}] \in S
        PROVE  K[t] = f[<<K[t \ {Max(t)}], s[Max(t)]>>]
    <3>1. K[t] = TakeChar(K[t \ {Max(t)}], s[Max(t)])
      BY <1>4, <2>1
    <3>2. s[Max(t)] \in C
      <4>1. \A u \in SUBSET (DOMAIN s) : u # {} => s[Max(u)] \in C
        BY <1>2, IterationWithin
      <4> QED
        BY <2>1, <4>1
    <3> QED
      BY <2>1, <3>1, <3>2 DEF Reading
  <2>2. K[{}] = b
    BY <1>4
  <2> QED
    BY <2>1, <2>2 DEF IteratesWithin
<1>6. K[DOMAIN s] = Folded(f, b, s)
  BY <1>2, <1>5, AnyIteration
<1> QED
  BY <1>1, <1>6 DEF b

Escape(st, c, extra) ==
  IF c = Backslash THEN [st EXCEPT !.slashes = @ + 1]
  ELSE [out |-> st.out \o Repeat(Backslash, IF c = Quote THEN 2 * st.slashes + extra
                                            ELSE st.slashes) \o <<c>>,
        slashes |-> 0]

Escaping(S, C, f, extra) == \A x \in S, c \in C : f[<<x, c>>] = Escape(x, c, extra)

LEMMA EscapingIsFolded ==
  ASSUME NEW S, NEW C, NEW f, NEW extra, StepsInto(S, C, f, [out |-> <<>>, slashes |-> 0]),
         Escaping(S, C, f, extra), NEW s \in Seq(C)
  PROVE  Escaped(s, extra) = Folded(f, [out |-> <<>>, slashes |-> 0], s)
<1> DEFINE b == [out |-> <<>>, slashes |-> 0]
           Obeys(I) == I = [t \in SUBSET (DOMAIN s) |->
                              IF t = {} THEN b ELSE Escape(I[t \ {Max(t)}], s[Max(t)], extra)]
           J == TheIteration(f, b, s)
           K == CHOOSE I : Obeys(I)
<1>1. Escaped(s, extra) = K[DOMAIN s]
  BY Zenon DEF FoldLeft, MapThenFoldSet, Escaped, Escape
<1> HIDE DEF b
<1>2. StepsInto(S, C, f, b)
  BY DEF b
<1>3. Obeys(J)
  <2>1. /\ J = [t \in SUBSET (DOMAIN s) |->
                  IF t = {} THEN b ELSE f[<<J[t \ {Max(t)}], s[Max(t)]>>]]
        /\ \A t \in SUBSET (DOMAIN s) : t # {} => J[t \ {Max(t)}] \in S /\ s[Max(t)] \in C
    BY <1>2, IterationWithin
  <2> HIDE DEF J
  <2> QED
    BY <2>1 DEF Escaping
<1>4. K = [t \in SUBSET (DOMAIN s) |-> IF t = {} THEN b ELSE Escape(K[t \ {Max(t)}], s[Max(t)], extra)]
  <2> HIDE DEF Obeys, J
  <2>1. Obeys(K)
    BY <1>3
  <2> HIDE DEF K
  <2> QED
    BY <2>1 DEF Obeys
<1> HIDE DEF K, Obeys
<1>5. IteratesWithin(S, K, f, b, s)
  <2>1. ASSUME NEW t \in SUBSET (DOMAIN s), t # {}, K[t \ {Max(t)}] \in S
        PROVE  K[t] = f[<<K[t \ {Max(t)}], s[Max(t)]>>]
    <3>1. K[t] = Escape(K[t \ {Max(t)}], s[Max(t)], extra)
      BY <1>4, <2>1
    <3>2. s[Max(t)] \in C
      <4>1. \A u \in SUBSET (DOMAIN s) : u # {} => s[Max(u)] \in C
        BY <1>2, IterationWithin
      <4> QED
        BY <2>1, <4>1
    <3> QED
      BY <2>1, <3>1, <3>2 DEF Escaping
  <2>2. K[{}] = b
    BY <1>4
  <2> QED
    BY <2>1, <2>2 DEF IteratesWithin
<1>6. K[DOMAIN s] = Folded(f, b, s)
  BY <1>2, <1>5, AnyIteration
<1> QED
  BY <1>1, <1>6 DEF b

-----------------------------------------------------------------------------
(* Concatenations of a sequence of sequences.                              *)

Flattens(F, ws) ==
  F = [i \in 1..Len(ws) |-> IF i = 1 THEN ws[i] ELSE F[i - 1] \o ws[i]]

TheFlattening(ws) == CHOOSE F : Flattens(F, ws)

LEMMA FlattensExists ==
  ASSUME NEW C, NEW ws \in Seq(Seq(C))
  PROVE  /\ Flattens(TheFlattening(ws), ws)
         /\ Len(ws) # 0 => FlattenSeq(ws) = TheFlattening(ws)[Len(ws)]
<1>1. PICK n \in Nat : n = Len(ws)
  BY LenProperties
<1> DEFINE Val(F, i) == IF i = 1 THEN ws[i] ELSE F[i - 1] \o ws[i]
           Upto(F, k) == \A i \in 1..n : i <= k => F[i] = Val(F, i)
           T == {k \in Nat : \E F : Upto(F, k)}
<1>2. 0 \in T
  <2>1. \A F : Upto(F, 0)
    OBVIOUS
  <2> HIDE DEF Upto
  <2> QED
    BY <2>1
<1>3. ASSUME NEW k \in Nat, k \in T
      PROVE  k + 1 \in T
  <2>1. PICK F : Upto(F, k)
    BY <1>3
  <2> DEFINE G == [i \in 1..n |-> IF i <= k THEN F[i] ELSE Val(F, i)]
  <2>2. ASSUME NEW i \in 1..n, i <= k + 1
        PROVE  G[i] = Val(G, i)
    <3>1. G[i] = Val(F, i)
      BY <2>1
    <3>2. i # 1 => G[i - 1] = F[i - 1]
      BY <2>2
    <3> HIDE DEF G
    <3> QED
      BY <3>1, <3>2
  <2>3. Upto(G, k + 1)
    BY <2>2
  <2> HIDE DEF G, Upto
  <2> QED
    BY <2>3
<1> HIDE DEF T
<1>4. n \in T
  BY <1>2, <1>3, SetInduction
<1>5. PICK F : Upto(F, n)
  BY <1>4 DEF T
<1> DEFINE H == [i \in 1..n |-> F[i]]
<1>6. \A i \in 1..n : H[i] = Val(H, i)
  <2> TAKE i \in 1..n
  <2>1. H[i] = Val(F, i)
    BY <1>5
  <2>2. i # 1 => H[i - 1] = F[i - 1]
    OBVIOUS
  <2> HIDE DEF H
  <2> QED
    BY <2>1, <2>2
<1>7. H = [i \in 1..n |-> Val(H, i)]
  BY <1>6
<1> HIDE DEF H
<1>8. Flattens(H, ws)
  BY <1>1, <1>7 DEF Flattens
<1>9. Flattens(TheFlattening(ws), ws)
  BY <1>8 DEF TheFlattening
<1>10. Len(ws) # 0 => FlattenSeq(ws) = TheFlattening(ws)[Len(ws)]
  BY Zenon DEF FlattenSeq, TheFlattening, Flattens
<1> QED
  BY <1>9, <1>10

FlatteningSteps(F, ws, n) ==
  \A i \in 1..n : F[i] = IF i = 1 THEN ws[i] ELSE F[i - 1] \o ws[i]

LEMMA FlattensSteps ==
  ASSUME NEW ws, NEW F, Flattens(F, ws), NEW n, n = Len(ws)
  PROVE  FlatteningSteps(F, ws, n)
<1>1. F = [i \in 1..n |-> IF i = 1 THEN ws[i] ELSE F[i - 1] \o ws[i]]
  BY DEF Flattens
<1> QED
  BY <1>1 DEF FlatteningSteps

\* A flattening goes through the sequence from the left.
SameUpto(C, ws, us, n) ==
  n \in Nat /\ n >= 1 /\ \A i \in 1..n : ws[i] \in Seq(C) /\ us[i] = ws[i]

LEMMA FlattenedUpto ==
  ASSUME NEW C, NEW ws, NEW us, NEW n, SameUpto(C, ws, us, n),
         NEW F, FlatteningSteps(F, ws, n), NEW G, FlatteningSteps(G, us, n)
  PROVE  F[n] \in Seq(C) /\ G[n] = F[n]
<1> DEFINE T == {k \in Nat : 1 <= k /\ k <= n => F[k] \in Seq(C) /\ G[k] = F[k]}
<1>1. n \in Nat /\ n >= 1 /\ \A i \in 1..n : ws[i] \in Seq(C) /\ us[i] = ws[i]
  BY DEF SameUpto
<1>2. \A i \in 1..n : F[i] = (IF i = 1 THEN ws[i] ELSE F[i - 1] \o ws[i])
  BY DEF FlatteningSteps
<1>3. \A i \in 1..n : G[i] = (IF i = 1 THEN ws[i] ELSE G[i - 1] \o ws[i])
  BY <1>1 DEF FlatteningSteps
<1>4. 0 \in T
  OBVIOUS
<1>5. ASSUME NEW k \in Nat, k \in T
      PROVE  k + 1 \in T
  <2>1. ASSUME k + 1 <= n
        PROVE  F[k + 1] \in Seq(C) /\ G[k + 1] = F[k + 1]
    <3>1. k + 1 \in 1..n /\ ws[k + 1] \in Seq(C)
      BY <1>1, <2>1
    <3>2. CASE k = 0
      <4>1. F[1] = ws[1] /\ G[1] = ws[1]
        BY <1>2, <1>3, <3>1, <3>2
      <4> QED
        BY <3>1, <3>2, <4>1
    <3>3. CASE k # 0
      <4>1. F[k] \in Seq(C) /\ G[k] = F[k]
        BY <1>1, <1>5, <2>1, <3>3
      <4>2. k + 1 # 1 /\ (k + 1) - 1 = k
        BY <3>3
      <4>3. F[k + 1] = F[k] \o ws[k + 1] /\ G[k + 1] = G[k] \o ws[k + 1]
        BY <1>2, <1>3, <3>1, <4>2
      <4> QED
        BY <3>1, <4>1, <4>3, ConcatProperties
    <3> QED
      BY <3>2, <3>3
  <2> QED
    BY <2>1
<1> HIDE DEF T
<1>6. n \in T
  BY <1>1, <1>4, <1>5, SetInduction
<1> QED
  BY <1>1, <1>6 DEF T

LEMMA FlattenFacts ==
  ASSUME NEW C
  PROVE  /\ FlattenSeq(<<>>) = <<>>
         /\ \A ws \in Seq(Seq(C)) : FlattenSeq(ws) \in Seq(C)
         /\ \A ws \in Seq(Seq(C)), w \in Seq(C) :
               FlattenSeq(Append(ws, w)) = FlattenSeq(ws) \o w
<1>1. FlattenSeq(<<>>) = <<>>
  BY DEF FlattenSeq
<1>2. ASSUME NEW ws \in Seq(Seq(C))
      PROVE  FlattenSeq(ws) \in Seq(C)
  <2>1. PICK n \in Nat : n = Len(ws)
    BY LenProperties
  <2>2. CASE n = 0
    <3>1. ws = <<>> /\ <<>> \in Seq(C)
      BY <2>1, <2>2, EmptySeq
    <3> QED
      BY <1>1, <3>1, Zenon
  <2>3. CASE n # 0
    <3>1. /\ Flattens(TheFlattening(ws), ws)
          /\ FlattenSeq(ws) = TheFlattening(ws)[n]
      BY <2>1, <2>3, FlattensExists
    <3>2. SameUpto(C, ws, ws, n)
      BY <2>1, <2>3, ElementOfSeq DEF SameUpto
    <3> DEFINE F == TheFlattening(ws)
    <3> HIDE DEF F
    <3>3. FlatteningSteps(F, ws, n)
      BY <2>1, <3>1, FlattensSteps DEF F
    <3>4. F[n] \in Seq(C)
      BY <3>2, <3>3, FlattenedUpto
    <3> QED
      BY <3>1, <3>4 DEF F
  <2> QED
    BY <2>2, <2>3
<1>3. ASSUME NEW ws \in Seq(Seq(C)), NEW w \in Seq(C)
      PROVE  FlattenSeq(Append(ws, w)) = FlattenSeq(ws) \o w
  <2> DEFINE us == Append(ws, w)
             F == TheFlattening(ws)
             G == TheFlattening(us)
  <2>1. PICK n \in Nat : n = Len(ws)
    BY LenProperties
  <2>2. us \in Seq(Seq(C)) /\ Len(us) = n + 1 /\ us[n + 1] = w /\ \A i \in 1..n : us[i] = ws[i]
    BY <2>1, AppendProperties
  <2> HIDE DEF us
  <2>3. Flattens(F, ws) /\ Flattens(G, us) /\ FlattenSeq(us) = G[n + 1]
    BY <2>1, <2>2, FlattensExists
  <2>4. n # 0 => FlattenSeq(ws) = F[n]
    BY <2>1, FlattensExists
  <2> HIDE DEF F, G
  <2>5. G[n + 1] = IF n = 0 THEN w ELSE G[n] \o w
    <3>1. n + 1 \in 1..(n + 1) /\ (n + 1) - 1 = n /\ (n + 1 = 1 <=> n = 0)
      BY <2>1, LenProperties
    <3>2. FlatteningSteps(G, us, n + 1)
      BY <2>2, <2>3, FlattensSteps
    <3>3. G[n + 1] = IF n + 1 = 1 THEN us[n + 1] ELSE G[(n + 1) - 1] \o us[n + 1]
      BY <3>1, <3>2 DEF FlatteningSteps
    <3> QED
      BY <2>2, <3>1, <3>3
  <2>6. CASE n = 0
    <3>1. ws = <<>> /\ FlattenSeq(ws) = <<>> /\ <<>> \o w = w
      BY <1>1, <2>1, <2>6, EmptySeq, ConcatEmptySeq
    <3> QED
      BY <2>3, <2>5, <2>6, <3>1 DEF us
  <2>7. CASE n # 0
    <3>1. n \in Nat /\ \A i \in 1..n : ws[i] \in Seq(C) /\ i \in 1..(n + 1)
      BY <2>1, LenProperties, ElementOfSeq
    <3>2. SameUpto(C, ws, us, n)
      BY <2>2, <2>7, <3>1 DEF SameUpto
    <3>3. FlatteningSteps(F, ws, n) /\ FlatteningSteps(G, us, n + 1)
      BY <2>1, <2>2, <2>3, FlattensSteps
    <3>4. FlatteningSteps(G, us, n)
      BY <3>1, <3>3 DEF FlatteningSteps
    <3>5. G[n] = F[n]
      BY <3>2, <3>3, <3>4, FlattenedUpto
    <3> QED
      BY <2>3, <2>4, <2>5, <2>7, <3>5 DEF us
  <2> QED
    BY <2>6, <2>7
<1> QED
  BY <1>1, <1>2, <1>3


-----------------------------------------------------------------------------
(* Links.                                                                  *)

FirstOf(s, e) == SelectInSeq(s, LAMBDA c : c = e)

\* The first position of e in s, 0 without one.
FirstAt(s, e, first) ==
  \/ first = 0 /\ \A i \in 1..Len(s) : s[i] # e
  \/ first \in 1..Len(s) /\ s[first] = e /\ \A i \in 1..(first - 1) : s[i] # e

LEMMA FirstIsFound ==
  ASSUME NEW C, NEW s \in Seq(C), NEW e
  PROVE  FirstAt(s, e, FirstOf(s, e))
<1> DEFINE I == {i \in 1..Len(s) : s[i] = e}
<1>1. PICK n \in Nat : Len(s) = n
  BY LenProperties
<1>2. FirstOf(s, e) = IF I # {} THEN Min(I) ELSE 0
  BY Zenon DEF FirstOf, SelectInSeq
<1>3. CASE I = {}
  <2>1. \A i \in 1..Len(s) : s[i] # e
    BY <1>3
  <2> HIDE DEF I
  <2>2. FirstOf(s, e) = 0
    BY <1>2, <1>3
  <2> QED
    BY <2>1, <2>2 DEF FirstAt
<1>4. CASE I # {}
  <2>1. I \subseteq Nat
    BY <1>1
  <2>2. PICK m \in I : \A k \in I : m <= k
    <3> HIDE DEF I
    <3> QED
      BY <1>4, <2>1, LeastNumber
  <2>3. Min(I) \in I /\ \A k \in I : Min(I) <= k
    <3> HIDE DEF I
    <3> QED
      BY <2>2, Zenon DEF Min
  <2> DEFINE first == Min(I)
  <2> HIDE DEF first
  <2>4. first \in I /\ \A k \in I : first <= k
    BY <2>3 DEF first
  <2>5. first \in 1..Len(s) /\ s[first] = e
    BY <2>4
  <2>6. \A i \in 1..(first - 1) : s[i] # e
    BY <1>1, <2>4, <2>5
  <2>7. FirstOf(s, e) = first
    BY <1>2, <1>4, Zenon DEF first
  <2> QED
    BY <2>5, <2>6, <2>7 DEF FirstAt
<1> QED
  BY <1>3, <1>4

LEMMA FirstIsUnique ==
  ASSUME NEW C, NEW s \in Seq(C), NEW e, NEW k, FirstAt(s, e, k)
  PROVE  FirstOf(s, e) = k
<1> DEFINE first == FirstOf(s, e)
<1>1. FirstAt(s, e, first)
  BY FirstIsFound
<1>2. PICK n \in Nat : Len(s) = n
  BY LenProperties
<1> HIDE DEF first
<1>3. first = k
  BY <1>1, <1>2 DEF FirstAt
<1> QED
  BY <1>3 DEF first

LEMMA FirstSignFound ==
  ASSUME NEW C, NEW s \in Seq(C)
  PROVE  FirstAt(s, "=", SelectInSeq(s, IsEquals))
<1>1. SelectInSeq(s, IsEquals) = FirstOf(s, "=")
  BY Zenon DEF FirstOf, SelectInSeq, IsEquals
<1> QED
  BY <1>1, FirstIsFound

LEMMA FirstSignUnique ==
  ASSUME NEW C, NEW s \in Seq(C), NEW k, k \in 1..Len(s), s[k] = "=",
         \A i \in 1..(k - 1) : s[i] # "="
  PROVE  SelectInSeq(s, IsEquals) = k
<1>1. SelectInSeq(s, IsEquals) = FirstOf(s, "=")
  BY Zenon DEF FirstOf, SelectInSeq, IsEquals
<1>2. FirstAt(s, "=", k)
  BY DEF FirstAt
<1> QED
  BY <1>1, <1>2, FirstIsUnique

\* The two parts of a concatenation.
LEMMA Cut ==
  ASSUME NEW C, NEW a \in Seq(C), NEW b \in Seq(C)
  PROVE  /\ SubSeq(a \o b, 1, Len(a)) = a
         /\ SubSeq(a \o b, Len(a) + 1, Len(a \o b)) = b
<1>1. PICK m \in Nat : Len(a) = m
  BY LenProperties
<1>2. PICK n \in Nat : Len(b) = n
  BY LenProperties
<1> DEFINE s == a \o b
<1>3. s \in Seq(C) /\ Len(s) = m + n /\ \A i \in 1..(m + n) : s[i] = IF i <= m THEN a[i] ELSE b[i - m]
  BY <1>1, <1>2, ConcatProperties
<1> HIDE DEF s
<1>4. \A i \in 1..(m + n) : s[i] \in C
  BY <1>3, ElementOfSeq
<1>5. SubSeq(s, 1, m) = a
  <2>1. \A i \in 1..m : s[i] \in C
    BY <1>1, <1>2, <1>4
  <2> DEFINE u == SubSeq(s, 1, m)
  <2>2. u \in Seq(C) /\ Len(u) = m /\ \A i \in 1..m : u[i] = s[i]
    BY <1>1, <2>1, SubSeqProperties
  <2> HIDE DEF u
  <2>3. \A i \in 1..m : u[i] = a[i]
    BY <1>1, <1>2, <1>3, <2>2
  <2>4. u = a
    BY <1>1, <2>2, <2>3, SeqEqual
  <2> QED
    BY <2>4 DEF u
<1>6. SubSeq(s, m + 1, m + n) = b
  <2>1. \A i \in (m + 1)..(m + n) : s[i] \in C
    BY <1>1, <1>2, <1>4
  <2> DEFINE u == SubSeq(s, m + 1, m + n)
  <2>2. u \in Seq(C) /\ Len(u) = n /\ \A i \in 1..n : u[i] = s[m + i]
    <3>1. m + 1 \in Int /\ m + n \in Int
      BY <1>1, <1>2
    <3>2. /\ u \in Seq(C)
          /\ Len(u) = IF m + 1 <= m + n THEN (m + n) - (m + 1) + 1 ELSE 0
          /\ \A i \in 1..((m + n) - (m + 1) + 1) : u[i] = s[(m + 1) + i - 1]
      BY <2>1, <3>1, SubSeqProperties
    <3> HIDE DEF u
    <3> QED
      BY <1>1, <1>2, <3>2
  <2> HIDE DEF u
  <2>3. \A i \in 1..n : u[i] = b[i]
    <3> TAKE i \in 1..n
    <3>1. m + i \in 1..(m + n) /\ ~ (m + i <= m) /\ (m + i) - m = i
      BY <1>1, <1>2
    <3> QED
      BY <1>3, <2>2, <3>1
  <2>4. u = b
    BY <1>2, <2>2, <2>3, SeqEqual
  <2> QED
    BY <2>4 DEF u
<1> QED
  BY <1>1, <1>2, <1>3, <1>5, <1>6 DEF s


Sign(readOnly) == IF readOnly THEN <<"=", "=">> ELSE <<"=">>

\* What is made of a root and a target.
Parts(root, target, readOnly) ==
  IF WithoutPlus(root) = <<>> THEN Refused
  ELSE [outcome |-> "split", root |-> WithoutPlus(root), target |-> target,
        readOnly |-> readOnly, merged |-> Last(root) = "+"]

LEMMA SplitOfParts ==
  ASSUME NEW C, "=" \in C, NEW root \in Seq(C), root # <<>>, \A i \in 1..Len(root) : root[i] # "=",
         NEW target \in Seq(C), target # <<>>, NEW readOnly \in BOOLEAN
  PROVE  LET split == SplitLinkSpec((root \o Sign(readOnly)) \o target)
         IN  IF readOnly \/ target[1] # "=" THEN split = Parts(root, target, readOnly)
             ELSE split = Refused \/ split.readOnly = TRUE
<1> DEFINE head == root \o Sign(readOnly)
           s == head \o target
<1>1. PICK m \in Nat : Len(root) = m /\ m # 0
  BY LenProperties, EmptySeq
<1>2. PICK n \in Nat : Len(target) = n /\ n # 0
  BY LenProperties, EmptySeq
<1>3. PICK d \in Nat : d = IF readOnly THEN 2 ELSE 1
  OBVIOUS
<1>4. /\ Sign(readOnly) \in Seq(C) /\ Len(Sign(readOnly)) = d
      /\ Sign(readOnly)[1] = "=" /\ (readOnly => Sign(readOnly)[2] = "=")
  <2>1. CASE readOnly
    <3>1. <<"=", "=">> \in Seq(C)
      OBVIOUS
    <3> QED
      BY <1>3, <2>1, <3>1 DEF Sign
  <2>2. CASE ~readOnly
    <3>1. <<"=">> \in Seq(C)
      OBVIOUS
    <3> QED
      BY <1>3, <2>2, <3>1 DEF Sign
  <2> QED
    BY <2>1, <2>2
<1>5. /\ head \in Seq(C) /\ Len(head) = m + d
      /\ \A i \in 1..(m + d) : head[i] = IF i <= m THEN root[i] ELSE Sign(readOnly)[i - m]
  BY <1>1, <1>4, ConcatProperties
<1> HIDE DEF head
<1>6. /\ s \in Seq(C) /\ Len(s) = m + d + n
      /\ \A i \in 1..(m + d + n) : s[i] = IF i <= m + d THEN head[i] ELSE target[i - (m + d)]
      /\ SubSeq(s, m + d + 1, m + d + n) = target
  <2>1. m + d \in Nat /\ (m + d) + n = m + d + n
    BY <1>3
  <2>2. /\ s \in Seq(C) /\ Len(s) = Len(head) + Len(target)
        /\ \A i \in 1..(Len(head) + Len(target)) :
              s[i] = IF i <= Len(head) THEN head[i] ELSE target[i - Len(head)]
    BY <1>5, ConcatProperties
  <2>3. SubSeq(s, Len(head) + 1, Len(s)) = target
    BY <1>5, Cut
  <2> HIDE DEF s
  <2> QED
    BY <1>2, <1>5, <2>1, <2>2, <2>3
<1>7. SubSeq(s, 1, m) = root
  <2>1. s = root \o (Sign(readOnly) \o target) /\ Sign(readOnly) \o target \in Seq(C)
    BY <1>4, ConcatAssociative, ConcatProperties DEF head
  <2> QED
    BY <1>1, <2>1, Cut
<1> HIDE DEF s
<1>8. s[m + 1] = "=" /\ \A i \in 1..m : s[i] # "="
  <2>1. \A i \in 1..m : s[i] = root[i]
    <3> TAKE i \in 1..m
    <3>1. i \in 1..(m + d) /\ i \in 1..(m + d + n) /\ i <= m /\ i <= m + d
      BY <1>1, <1>2, <1>3
    <3> QED
      BY <1>5, <1>6, <3>1
  <2>2. m + 1 \in 1..(m + d) /\ m + 1 \in 1..(m + d + n) /\ ~ (m + 1 <= m) /\ m + 1 <= m + d /\ (m + 1) - m = 1
    BY <1>1, <1>2, <1>3
  <2>3. s[m + 1] = Sign(readOnly)[1]
    BY <1>5, <1>6, <2>2
  <2> QED
    BY <1>1, <1>4, <2>1, <2>3
<1>9. SelectInSeq(s, IsEquals) = m + 1
  <2>1. m + 1 \in 1..Len(s) /\ (m + 1) - 1 = m
    BY <1>1, <1>2, <1>3, <1>6
  <2> QED
    BY <1>6, <1>8, <2>1, FirstSignUnique
<1>10. s[m + 2] = IF readOnly THEN "=" ELSE target[1]
  <2>1. CASE readOnly
    <3>1. m + 2 \in 1..(m + d) /\ m + 2 \in 1..(m + d + n) /\ ~ (m + 2 <= m) /\ m + 2 <= m + d /\ (m + 2) - m = 2
      BY <1>1, <1>2, <1>3, <2>1
    <3>2. s[m + 2] = head[m + 2]
      BY <1>6, <3>1
    <3>3. head[m + 2] = Sign(readOnly)[2]
      BY <1>5, <3>1
    <3> QED
      BY <1>4, <2>1, <3>2, <3>3, Zenon
  <2>2. CASE ~readOnly
    <3>1. m + 2 \in 1..(m + d + n) /\ ~ (m + 2 <= m + d) /\ (m + 2) - (m + d) = 1
      BY <1>1, <1>2, <1>3, <2>2
    <3> QED
      BY <1>6, <2>2, <3>1
  <2> QED
    BY <2>1, <2>2, Zenon
<1>11. m + 1 < Len(s) /\ (m + 1) + 1 = m + 2 /\ (m + 1) - 1 = m /\ ~ (m + 1 <= 1)
  BY <1>1, <1>2, <1>3, <1>6
<1> DEFINE double == readOnly \/ target[1] = "="
           rest == SubSeq(s, (m + 1) + (IF double THEN 2 ELSE 1), Len(s))
<1>12. SplitLinkSpec(s) = IF WithoutPlus(root) = <<>> \/ rest = <<>> THEN Refused
                          ELSE [outcome |-> "split", root |-> WithoutPlus(root), target |-> rest,
                                readOnly |-> double, merged |-> Last(root) = "+"]
  <2>1. ((m + 1) < Len(s) /\ s[(m + 1) + 1] = "=") = double
    BY <1>10, <1>11
  <2> HIDE DEF double
  <2> QED
    BY <1>7, <1>9, <1>11, <2>1, Zenon DEF SplitLinkSpec
<1>13. CASE readOnly \/ target[1] # "="
  <2>1. double = readOnly /\ (m + 1) + (IF double THEN 2 ELSE 1) = m + d + 1
    BY <1>1, <1>3, <1>13
  <2>2. rest = target
    BY <1>6, <2>1
  <2> HIDE DEF rest, double
  <2> QED
    BY <1>12, <1>13, <2>1, <2>2, Zenon DEF Parts, s, head
<1>14. CASE ~readOnly /\ target[1] = "="
  <2>1. double = TRUE
    BY <1>14
  <2> HIDE DEF rest, double
  <2> QED
    BY <1>12, <1>14, <2>1 DEF s, head
<1> QED
  BY <1>13, <1>14


\* The root that is split off holds no equals sign.
LEMMA SplitRootHasNoSign ==
  ASSUME NEW C, NEW s \in Seq(C), SplitLinkSpec(s).outcome = "split"
  PROVE  ~Contains(SplitLinkSpec(s).root, "=")
<1> DEFINE first == SelectInSeq(s, IsEquals)
           root == SubSeq(s, 1, first - 1)
<1>1. FirstAt(s, "=", first)
  BY FirstSignFound
<1>2. PICK n \in Nat : Len(s) = n
  BY LenProperties
<1> HIDE DEF first
<1>3. first > 1 /\ SplitLinkSpec(s).root = WithoutPlus(root)
  <2> HIDE DEF root
  <2>1. ~(first <= 1) /\ SplitLinkSpec(s).root = WithoutPlus(root)
    BY DEF SplitLinkSpec, Refused, first, root
  <2> QED
    BY <1>1, <1>2, <2>1 DEF FirstAt
<1>4. first \in 1..n /\ \A i \in 1..(first - 1) : s[i] # "=" /\ s[i] \in C
  BY <1>1, <1>2, <1>3, ElementOfSeq DEF FirstAt
<1>5. root \in Seq(C) /\ Len(root) = first - 1 /\ \A i \in 1..(first - 1) : root[i] = s[i]
  <2>1. 1 \in Int /\ first - 1 \in Int /\ 1 <= first - 1
    BY <1>3, <1>4
  <2>2. /\ root \in Seq(C) /\ Len(root) = IF 1 <= first - 1 THEN (first - 1) - 1 + 1 ELSE 0
        /\ \A i \in 1..((first - 1) - 1 + 1) : root[i] = s[1 + i - 1]
    BY <1>4, <2>1, SubSeqProperties
  <2> HIDE DEF root
  <2>3. (first - 1) - 1 + 1 = first - 1 /\ \A i \in 1..(first - 1) : 1 + i - 1 = i
    BY <1>4
  <2> QED
    BY <2>1, <2>2, <2>3
<1> HIDE DEF root
<1>6. PICK m \in Nat : m = first - 1 /\ m >= 1
  BY <1>3, <1>4
<1>7. WithoutPlus(root) = root \/ WithoutPlus(root) = SubSeq(root, 1, m - 1)
  BY <1>5, <1>6, Zenon DEF WithoutPlus, Front
<1>8. CASE WithoutPlus(root) = root
  BY <1>3, <1>4, <1>5, <1>8 DEF Contains
<1>9. CASE WithoutPlus(root) = SubSeq(root, 1, m - 1)
  <2> DEFINE u == SubSeq(root, 1, m - 1)
  <2>1. Len(u) = m - 1 /\ \A i \in 1..(m - 1) : u[i] = root[i]
    <3>1. \A i \in 1..(m - 1) : root[i] \in C
      BY <1>4, <1>5, <1>6
    <3>2. 1 \in Int /\ m - 1 \in Int
      OBVIOUS
    <3>3. /\ Len(u) = IF 1 <= m - 1 THEN (m - 1) - 1 + 1 ELSE 0
          /\ \A i \in 1..((m - 1) - 1 + 1) : u[i] = root[1 + i - 1]
      BY <3>1, <3>2, SubSeqProperties
    <3> HIDE DEF u
    <3>4. (m - 1) - 1 + 1 = m - 1 /\ \A i \in 1..(m - 1) : 1 + i - 1 = i
      OBVIOUS
    <3> QED
      BY <1>6, <3>3, <3>4
  <2> HIDE DEF u
  <2>2. \A i \in 1..Len(u) : u[i] # "="
    BY <1>4, <1>5, <1>6, <2>1
  <2>3. SplitLinkSpec(s).root = u
    BY <1>3, <1>9, Zenon DEF u
  <2> QED
    BY <2>2, <2>3 DEF Contains
<1> QED
  BY <1>7, <1>8, <1>9

\* A link is taken apart as it was put together, under exactly these conditions.
LEMMA LinkArrives ==
  ASSUME NEW C, "=" \in C, "+" \in C, NEW root \in Seq(C), root # <<>>,
         NEW target \in Seq(C), target # <<>>, NEW readOnly \in BOOLEAN, NEW merged \in BOOLEAN
  PROVE  (SplitLinkSpec(AddSpec(root, target, readOnly, merged)) =
            [outcome |-> "split", root |-> root, target |-> target,
             readOnly |-> readOnly, merged |-> merged])
           <=> /\ ~Contains(root, "=")
               /\ merged \/ Last(root) # "+"
               /\ readOnly \/ target[1] # "="
<1> DEFINE plus == IF merged THEN <<"+">> ELSE <<>>
           full == root \o plus
           s == (full \o Sign(readOnly)) \o target
           made == [outcome |-> "split", root |-> root, target |-> target,
                    readOnly |-> readOnly, merged |-> merged]
<1>1. AddSpec(root, target, readOnly, merged) = s
  BY Zenon DEF AddSpec, Sign
<1>2. PICK m \in Nat : Len(root) = m /\ m # 0
  BY LenProperties, EmptySeq
<1>3. PICK e \in Nat : e = IF merged THEN 1 ELSE 0
  OBVIOUS
<1>4. plus \in Seq(C) /\ Len(plus) = e /\ (merged => plus[1] = "+") /\ (~merged => plus = <<>>)
  <2>1. CASE merged
    <3>1. <<"+">> \in Seq(C)
      OBVIOUS
    <3> QED
      BY <1>3, <2>1, <3>1
  <2>2. CASE ~merged
    BY <1>3, <2>2, EmptySeq
  <2> QED
    BY <2>1, <2>2
<1>5. Sign(readOnly) \in Seq(C)
  <2>1. <<"=", "=">> \in Seq(C) /\ <<"=">> \in Seq(C)
    OBVIOUS
  <2> QED
    BY <2>1, Zenon DEF Sign
<1> HIDE DEF plus
<1>6. /\ full \in Seq(C) /\ Len(full) = m + e
      /\ \A i \in 1..(m + e) : full[i] = IF i <= m THEN root[i] ELSE plus[i - m]
      /\ SubSeq(full, 1, m) = root
  <2>1. /\ full \in Seq(C) /\ Len(full) = Len(root) + Len(plus)
        /\ \A i \in 1..(Len(root) + Len(plus)) :
              full[i] = IF i <= Len(root) THEN root[i] ELSE plus[i - Len(root)]
    BY <1>4, ConcatProperties
  <2>2. SubSeq(full, 1, Len(root)) = root
    BY <1>4, Cut
  <2> HIDE DEF full
  <2> QED
    BY <1>2, <1>4, <2>1, <2>2
<1>7. full # <<>> /\ full[1] = root[1]
  BY <1>2, <1>3, <1>6, EmptySeq
<1>8. ~merged => full = root
  BY <1>4, ConcatEmptySeq
<1>9. s \in Seq(C)
  BY <1>5, <1>6, ConcatProperties
<1> HIDE DEF full
<1>10. merged => Last(full) = "+" /\ WithoutPlus(full) = root
  <2> SUFFICES ASSUME merged PROVE Last(full) = "+" /\ WithoutPlus(full) = root
    OBVIOUS
  <2>1. Len(full) = m + 1 /\ m + 1 \in 1..(m + e) /\ ~ (m + 1 <= m) /\ (m + 1) - m = 1
    BY <1>2, <1>3, <1>6
  <2>2. Last(full) = "+"
    BY <1>4, <1>6, <2>1 DEF Last
  <2>3. Front(full) = root
    <3>1. (m + 1) - 1 = m
      OBVIOUS
    <3> QED
      BY <1>6, <2>1, <3>1, Zenon DEF Front
  <2> QED
    BY <1>7, <2>2, <2>3, Zenon DEF WithoutPlus
<1>11. ~merged /\ Last(root) # "+" => WithoutPlus(full) = root
  BY <1>8, Zenon DEF WithoutPlus
<1>12. (\A i \in 1..Len(root) : root[i] # "=") => \A i \in 1..Len(full) : full[i] # "="
  <2> SUFFICES ASSUME \A i \in 1..Len(root) : root[i] # "=", NEW i \in 1..Len(full)
               PROVE  full[i] # "="
    OBVIOUS
  <2>1. CASE i <= m
    BY <1>2, <1>6, <2>1
  <2>2. CASE ~ (i <= m)
    <3>1. merged /\ i - m = 1 /\ i \in 1..(m + e)
      BY <1>2, <1>3, <1>6, <2>2
    <3>2. full[i] = plus[1]
      BY <1>6, <2>2, <3>1
    <3> QED
      BY <1>4, <3>1, <3>2
  <2> QED
    BY <2>1, <2>2
<1>13. (\A i \in 1..Len(root) : root[i] # "=") =>
         IF readOnly \/ target[1] # "=" THEN SplitLinkSpec(s) = Parts(full, target, readOnly)
         ELSE SplitLinkSpec(s) = Refused \/ SplitLinkSpec(s).readOnly = TRUE
  BY <1>6, <1>7, <1>12, SplitOfParts
<1> HIDE DEF s
<1>14. ASSUME SplitLinkSpec(s) = made
       PROVE  /\ \A i \in 1..Len(root) : root[i] # "="
              /\ merged \/ Last(root) # "+"
              /\ readOnly \/ target[1] # "="
  <2>1. \A i \in 1..Len(root) : root[i] # "="
    <3>1. SplitLinkSpec(s).outcome = "split" /\ SplitLinkSpec(s).root = root
      BY <1>14
    <3> QED
      BY <1>9, <3>1, SplitRootHasNoSign DEF Contains
  <2>2. readOnly \/ target[1] # "="
    <3> SUFFICES ASSUME ~readOnly, target[1] = "=" PROVE FALSE
      OBVIOUS
    <3>1. SplitLinkSpec(s) = Refused \/ SplitLinkSpec(s).readOnly = TRUE
      BY <1>13, <2>1
    <3>2. made.readOnly = readOnly /\ made # Refused
      BY DEF Refused
    <3> HIDE DEF made
    <3> QED
      BY <1>14, <3>1, <3>2, Zenon
  <2>3. merged \/ Last(root) # "+"
    <3> SUFFICES ASSUME ~merged, Last(root) = "+" PROVE FALSE
      OBVIOUS
    <3>1. SplitLinkSpec(s) = Parts(root, target, readOnly)
      BY <1>8, <1>13, <2>1, <2>2
    <3>2. made # Refused /\ made.merged = FALSE
      BY DEF Refused
    <3>3. WithoutPlus(root) # <<>> =>
            Parts(root, target, readOnly).merged = TRUE
      BY DEF Parts
    <3>4. WithoutPlus(root) = <<>> => Parts(root, target, readOnly) = Refused
      BY DEF Parts
    <3> HIDE DEF made
    <3> QED
      BY <1>14, <3>1, <3>2, <3>3, <3>4, Zenon
  <2> QED
    BY <2>1, <2>2, <2>3
<1>15. ASSUME \A i \in 1..Len(root) : root[i] # "=", merged \/ Last(root) # "+",
              readOnly \/ target[1] # "="
       PROVE  SplitLinkSpec(s) = made
  <2>1. SplitLinkSpec(s) = Parts(full, target, readOnly)
    BY <1>13, <1>15, Zenon
  <2>2. WithoutPlus(full) = root
    BY <1>10, <1>11, <1>15, Zenon
  <2>3. (Last(full) = "+") = merged
    BY <1>8, <1>10, <1>15
  <2>4. SplitLinkSpec(s) = [outcome |-> "split", root |-> root, target |-> target,
                             readOnly |-> readOnly, merged |-> (Last(full) = "+")]
    BY <2>1, <2>2, Zenon DEF Parts
  <2> QED
    BY <2>3, <2>4, Zenon
<1>16. ~Contains(root, "=") <=> \A i \in 1..Len(root) : root[i] # "="
  BY DEF Contains
<1> QED
  BY <1>1, <1>14, <1>15, <1>16, Zenon


LEMMA LinkRootRead ==
  ASSUME NEW s, SplitLinkSpec(s).outcome = "split"
  PROVE  GetLinkRoot(s) = SplitLinkSpec(s).root
<1> DEFINE first == SelectInSeq(s, IsEquals)
           root == SubSeq(s, 1, first - 1)
<1> HIDE DEF first, root
<1>1. ~(first <= 1) /\ SplitLinkSpec(s).root = WithoutPlus(root)
  BY DEF SplitLinkSpec, Refused, first, root
<1> QED
  BY <1>1, Zenon DEF GetLinkRoot, first, root

-----------------------------------------------------------------------------
(* The inputs.                                                             *)

Input == /\ kind \in Kinds => words \in Seq(Seq(Alphabet[kind]))
         /\ kind \notin Kinds => kind = "boxes" /\ words = <<>>

LEMMA InitHolds == Init => Input
<1> SUFFICES ASSUME Init PROVE Input
  OBVIOUS
<1>1. words = <<>> /\ (kind \notin Kinds => kind = "boxes")
  BY DEF Init
<1> QED
  BY <1>1, EmptySeq DEF Input

LEMMA NextKeeps == Input /\ [Next]_vars => Input'
<1> SUFFICES ASSUME Input, [Next]_vars
             PROVE  Input'
  OBVIOUS
<1>1. CASE NewWord
  <2>1. kind \in Kinds /\ kind' = kind /\ words' = Append(words, <<>>)
    BY <1>1 DEF NewWord
  <2>2. words \in Seq(Seq(Alphabet[kind])) /\ <<>> \in Seq(Alphabet[kind])
    BY <2>1, EmptySeq DEF Input
  <2>3. words' \in Seq(Seq(Alphabet[kind]))
    BY <2>1, <2>2, AppendProperties
  <2> QED
    BY <2>1, <2>3 DEF Input, Kinds
<1>2. CASE NewLetter
  <2>1. PICK c \in Alphabet[kind] : words' = [words EXCEPT ![Len(words)] = Append(@, c)]
    BY <1>2 DEF NewLetter
  <2>2. kind \in Kinds /\ kind' = kind /\ words # <<>>
    BY <1>2 DEF NewLetter
  <2> DEFINE W == Seq(Alphabet[kind])
             n == Len(words)
  <2>3. words \in Seq(W)
    BY <2>2 DEF Input
  <2>4. n \in 1..n
    BY <2>2, <2>3, EmptySeq
  <2>5. words[n] \in W
    BY <2>3, <2>4, ElementOfSeq
  <2>6. Append(words[n], c) \in W
    BY <2>5, AppendProperties
  <2>7. words' = [words EXCEPT ![n] = Append(words[n], c)]
    BY <2>1
  <2> HIDE DEF W, n
  <2>8. n \in 1..Len(words)
    BY <2>4 DEF n
  <2>9. words' \in Seq(W)
    BY <2>3, <2>6, <2>7, <2>8, ExceptSeq
  <2> QED
    BY <2>2, <2>9 DEF Input, Kinds, W
<1>3. CASE UNCHANGED vars
  BY <1>3 DEF Input, Kinds, vars
<1> QED
  BY <1>1, <1>2, <1>3 DEF Next

\* The words are sequences of letters of their kind.
LEMMA InputsAreWords == Spec => []Input
<1>1. Init => Input
  BY InitHolds
<1>2. Input /\ [Next]_vars => Input'
  BY NextKeeps
<1> QED
  BY <1>1, <1>2, PTL DEF Spec

-----------------------------------------------------------------------------
(* The properties.                                                         *)

LEMMA InputsOf ==
  ASSUME NEW k, k # "boxes", kind = k, Input
  PROVE  words \in Seq(Seq(Alphabet[k])) /\ Len(words) \in Nat
<1>1. words \in Seq(Seq(Alphabet[k]))
  BY DEF Input
<1> QED
  BY <1>1, LenProperties

\* A link is taken apart by exec and by the GUI as it was put together, for
\* roots and targets of any letters and any length.
THEOREM LinksArriveHolds == Spec => []LinksArrive
<1>1. Input => LinksArrive
  <2> SUFFICES ASSUME Input, kind = "link"
               PROVE  /\ Len(words) = 2 /\ words[1] # <<>> /\ words[2] # <<>> =>
                           \A readOnly, merged \in BOOLEAN :
                              (SplitLinkSpec(AddSpec(words[1], words[2], readOnly, merged)) =
                                 [outcome |-> "split", root |-> words[1], target |-> words[2],
                                  readOnly |-> readOnly, merged |-> merged])
                                <=> /\ ~Contains(words[1], "=")
                                    /\ merged \/ Last(words[1]) # "+"
                                    /\ readOnly \/ words[2][1] # "="
                      /\ Len(words) = 1 /\ SplitLinkSpec(words[1]).outcome = "split" =>
                           GetLinkRoot(words[1]) = SplitLinkSpec(words[1]).root
    BY Zenon DEF LinksArrive
  <2> DEFINE C == Alphabet["link"] \cup {"=", "+"}
  <2>1. words \in Seq(Seq(Alphabet["link"]))
    BY InputsOf
  <2>2. \A i \in 1..Len(words) : words[i] \in Seq(C)
    <3> TAKE i \in 1..Len(words)
    <3>1. words[i] \in Seq(Alphabet["link"])
      BY <2>1, ElementOfSeq
    <3>2. Alphabet["link"] \subseteq C
      OBVIOUS
    <3> HIDE DEF C
    <3> QED
      BY <3>1, <3>2, SeqMonotonic
  <2>3. "=" \in C /\ "+" \in C
    OBVIOUS
  <2> HIDE DEF C
  <2>4. ASSUME Len(words) = 2, words[1] # <<>>, words[2] # <<>>,
               NEW readOnly \in BOOLEAN, NEW merged \in BOOLEAN
        PROVE  (SplitLinkSpec(AddSpec(words[1], words[2], readOnly, merged)) =
                  [outcome |-> "split", root |-> words[1], target |-> words[2],
                   readOnly |-> readOnly, merged |-> merged])
                 <=> /\ ~Contains(words[1], "=")
                     /\ merged \/ Last(words[1]) # "+"
                     /\ readOnly \/ words[2][1] # "="
    <3>1. words[1] \in Seq(C) /\ words[2] \in Seq(C)
      BY <2>2, <2>4
    <3> QED
      BY <2>3, <2>4, <3>1, LinkArrives
  <2> QED
    BY <2>4, LinkRootRead
<1> QED
  BY <1>1, InputsAreWords, PTL


-----------------------------------------------------------------------------
(* Inductions over sequences.                                              *)

LEMMA SequenceInduction ==
  ASSUME NEW C, NEW T, <<>> \in T, \A s \in Seq(C), c \in C : s \in T => Append(s, c) \in T
  PROVE  Seq(C) \subseteq T
<1> DEFINE N == {n \in Nat : \A s \in Seq(C) : Len(s) = n => s \in T}
<1>1. 0 \in N
  BY EmptySeq
<1>2. ASSUME NEW n \in Nat, n \in N
      PROVE  n + 1 \in N
  <2>1. ASSUME NEW s \in Seq(C), Len(s) = n + 1
        PROVE  s \in T
    <3>1. s # <<>>
      BY <2>1, EmptySeq
    <3>2. PICK u \in Seq(C), c \in C : s = Append(u, c)
      BY <3>1, SequenceEmptyOrAppend
    <3>3. PICK m \in Nat : Len(u) = m
      BY LenProperties
    <3>4. Len(s) = m + 1
      BY <3>2, <3>3, AppendProperties
    <3>5. u \in T
      BY <1>2, <2>1, <3>3, <3>4
    <3> QED
      BY <3>2, <3>5
  <2> QED
    BY <2>1
<1> HIDE DEF N
<1>3. Nat \subseteq N
  BY <1>1, <1>2, SetInduction
<1> QED
  BY <1>3, LenProperties DEF N

LEMMA ConcatAppend ==
  ASSUME NEW C, NEW s \in Seq(C), NEW t \in Seq(C), NEW c \in C
  PROVE  s \o Append(t, c) = Append(s \o t, c) /\ s \o <<c>> = Append(s, c)
<1>1. Append(t, c) = t \o <<c>> /\ <<c>> \in Seq(C) /\ s \o t \in Seq(C)
  BY AppendIsConcat, ConcatProperties
<1>2. Append(s \o t, c) = (s \o t) \o <<c>> /\ Append(s, c) = s \o <<c>>
  BY <1>1, AppendIsConcat
<1>3. (s \o t) \o <<c>> = s \o (t \o <<c>>)
  BY <1>1, ConcatAssociative
<1> QED
  BY <1>1, <1>2, <1>3

LEMMA FoldedConcat ==
  ASSUME NEW S, NEW C, NEW f, NEW b, StepsInto(S, C, f, b), NEW s \in Seq(C), NEW t \in Seq(C)
  PROVE  Folded(f, b, s \o t) = Folded(f, Folded(f, b, s), t)
<1> DEFINE m == Folded(f, b, s)
           T == {u \in Seq(C) : Folded(f, b, s \o u) = Folded(f, m, u)}
<1>1. FoldLaws(S, C, f, b)
  BY FoldLawsHold
<1>2. StepsInto(S, C, f, m)
  BY <1>1 DEF FoldLaws, StepsInto
<1> HIDE DEF m
<1>3. FoldLaws(S, C, f, m)
  BY <1>2, FoldLawsHold
<1>4. <<>> \in T
  <2>1. s \o <<>> = s /\ <<>> \in Seq(C)
    BY ConcatEmptySeq, EmptySeq
  <2>2. Folded(f, m, <<>>) = m
    BY <1>3 DEF FoldLaws
  <2> QED
    BY <2>1, <2>2 DEF m
<1>5. ASSUME NEW u \in Seq(C), NEW c \in C, u \in T
      PROVE  Append(u, c) \in T
  <2>1. s \o Append(u, c) = Append(s \o u, c) /\ s \o u \in Seq(C) /\ Append(u, c) \in Seq(C)
    BY ConcatAppend, ConcatProperties, AppendProperties
  <2>2. Folded(f, b, Append(s \o u, c)) = f[<<Folded(f, b, s \o u), c>>]
    BY <1>1, <2>1 DEF FoldLaws
  <2>3. Folded(f, m, Append(u, c)) = f[<<Folded(f, m, u), c>>]
    BY <1>3 DEF FoldLaws
  <2> QED
    BY <1>5, <2>1, <2>2, <2>3
<1> HIDE DEF T
<1>6. t \in T
  BY <1>4, <1>5, SequenceInduction
<1> QED
  BY <1>6 DEF T, m

-----------------------------------------------------------------------------
(* Backslashes.                                                            *)

LEMMA RepeatFacts ==
  ASSUME NEW C, NEW c \in C, NEW n \in Nat
  PROVE  /\ Repeat(c, n) \in Seq(C) /\ Repeat(c, 0) = <<>>
         /\ Repeat(c, n + 1) = Append(Repeat(c, n), c)
<1>1. \A k \in Nat : Repeat(c, k) \in Seq(C) /\ Len(Repeat(c, k)) = k /\ \A i \in 1..k : Repeat(c, k)[i] = c
  BY DEF Repeat
<1> DEFINE r == Repeat(c, n)
           q == Repeat(c, n + 1)
           a == Append(r, c)
<1>2. r \in Seq(C) /\ Len(r) = n /\ \A i \in 1..n : r[i] = c
  BY <1>1
<1>3. q \in Seq(C) /\ Len(q) = n + 1 /\ \A i \in 1..(n + 1) : q[i] = c
  BY <1>1
<1> HIDE DEF r, q
<1>4. a \in Seq(C) /\ Len(a) = n + 1 /\ (\A i \in 1..n : a[i] = r[i]) /\ a[n + 1] = c
  BY <1>2, AppendProperties
<1> HIDE DEF a
<1>5. \A i \in 1..(n + 1) : q[i] = a[i]
  <2> TAKE i \in 1..(n + 1)
  <2>1. i \in 1..n \/ i = n + 1
    OBVIOUS
  <2> QED
    BY <1>2, <1>3, <1>4, <2>1
<1>6. q = a
  BY <1>3, <1>4, <1>5, SeqEqual
<1>7. Repeat(c, 0) = <<>>
  BY <1>1, EmptySeq
<1> QED
  BY <1>2, <1>6, <1>7 DEF r, q, a


-----------------------------------------------------------------------------
(* The reader.                                                             *)

HasMarks(C) == Space \in C /\ Quote \in C /\ Backslash \in C

ReaderStates(C) == [args : Seq(Seq(C)), word : Seq(C), open : BOOLEAN, quoted : BOOLEAN,
                    closed : BOOLEAN, slashes : Nat]

Taking(C) == [p \in ReaderStates(C) \X C |-> TakeChar(p[1], p[2])]

LEMMA MarksDiffer == Space # Quote /\ Space # Backslash /\ Quote # Backslash
BY DEF Space, Quote, Backslash

LEMMA WithSlashesTyped ==
  ASSUME NEW C, HasMarks(C), NEW st \in ReaderStates(C), NEW n \in Nat
  PROVE  /\ WithSlashes(st, n) \in ReaderStates(C)
         /\ WithSlashes(st, n).slashes = 0
<1>1. Repeat(Backslash, n) \in Seq(C)
  BY RepeatFacts DEF HasMarks
<1> DEFINE w == st.word \o Repeat(Backslash, n)
<1>2. w \in Seq(C)
  BY <1>1, ConcatProperties DEF ReaderStates
<1> HIDE DEF w
<1>3. WithSlashes(st, n) = [st EXCEPT !.word = w, !.slashes = 0, !.open = TRUE, !.closed = FALSE]
  BY DEF WithSlashes, w
<1>4. ASSUME NEW r, r = [st EXCEPT !.word = w, !.slashes = 0, !.open = TRUE, !.closed = FALSE]
      PROVE  r \in ReaderStates(C) /\ r.slashes = 0
  BY <1>2, <1>4 DEF ReaderStates
<1> QED
  BY <1>3, <1>4

LEMMA TakeCharTyped ==
  ASSUME NEW C, HasMarks(C), NEW st \in ReaderStates(C), NEW c \in C
  PROVE  TakeChar(st, c) \in ReaderStates(C)
<1>1. st.slashes \in Nat /\ st.slashes \div 2 \in Nat
  BY DEF ReaderStates
<1>2. CASE c = Backslash
  <2>1. TakeChar(st, c) = [st EXCEPT !.slashes = @ + 1, !.open = TRUE, !.closed = FALSE]
    BY <1>2, MarksDiffer DEF TakeChar
  <2>2. PICK k \in Nat : k = st.slashes + 1
    BY <1>1
  <2>3. ASSUME NEW r, r = [st EXCEPT !.slashes = k, !.open = TRUE, !.closed = FALSE]
        PROVE  r \in ReaderStates(C)
    BY <2>3 DEF ReaderStates
  <2>4. TakeChar(st, c) = [st EXCEPT !.slashes = k, !.open = TRUE, !.closed = FALSE]
    BY <2>1, <2>2
  <2> QED
    BY <2>3, <2>4
<1>3. CASE c = Quote
  <2> DEFINE w == WithSlashes(st, st.slashes \div 2)
  <2>1. w \in ReaderStates(C)
    BY <1>1, WithSlashesTyped
  <2> HIDE DEF w
  <2>2. \/ TakeChar(st, c) = [w EXCEPT !.word = Append(@, Quote)]
        \/ TakeChar(st, c) = [w EXCEPT !.quoted = ~@, !.closed = st.quoted]
    BY <1>3, MarksDiffer DEF TakeChar, w
  <2>3. Append(w.word, Quote) \in Seq(C)
    BY <2>1, AppendProperties DEF ReaderStates, HasMarks
  <2> QED
    BY <2>1, <2>2, <2>3 DEF ReaderStates
<1>4. CASE c = Space /\ ~st.quoted
  <2> DEFINE w == WithSlashes(st, st.slashes)
  <2>1. w \in ReaderStates(C)
    BY <1>1, WithSlashesTyped
  <2> HIDE DEF w
  <2>2. TakeChar(st, c) = EndWord(st)
    BY <1>4, MarksDiffer DEF TakeChar
  <2>3. EndWord(st) = st \/ EndWord(st) = [w EXCEPT !.args = Append(@, w.word), !.word = <<>>, !.open = FALSE]
    BY DEF EndWord, w
  <2>4. Append(w.args, w.word) \in Seq(Seq(C)) /\ <<>> \in Seq(C)
    BY <2>1, AppendProperties DEF ReaderStates
  <2> QED
    BY <2>1, <2>2, <2>3, <2>4 DEF ReaderStates
<1>5. CASE c # Backslash /\ c # Quote /\ ~(c = Space /\ ~st.quoted)
  <2> DEFINE w == WithSlashes(st, st.slashes)
  <2>1. w \in ReaderStates(C)
    BY <1>1, WithSlashesTyped
  <2> HIDE DEF w
  <2>2. TakeChar(st, c) = [w EXCEPT !.word = Append(@, c)]
    BY <1>5 DEF TakeChar, w
  <2>3. Append(w.word, c) \in Seq(C)
    BY <2>1, AppendProperties DEF ReaderStates
  <2> QED
    BY <2>1, <2>2, <2>3 DEF ReaderStates
<1> QED
  BY <1>2, <1>3, <1>4, <1>5

LEMMA TakingSteps ==
  ASSUME NEW C, HasMarks(C), NEW st \in ReaderStates(C)
  PROVE  StepsInto(ReaderStates(C), C, Taking(C), st)
BY TakeCharTyped DEF StepsInto, Taking

LEMMA TakingTakes ==
  ASSUME NEW C, NEW st \in ReaderStates(C), NEW c \in C
  PROVE  Taking(C)[<<st, c>>] = TakeChar(st, c)
BY DEF Taking

LEMMA StartTyped == ASSUME NEW C PROVE Start \in ReaderStates(C)
<1>1. <<>> \in Seq(C) /\ <<>> \in Seq(Seq(C))
  BY EmptySeq
<1> QED
  BY <1>1 DEF Start, ReaderStates

\* The state after reading s from st.
Read(C, st, s) == Folded(Taking(C), st, s)

LEMMA ReadTyped ==
  ASSUME NEW C, HasMarks(C), NEW st \in ReaderStates(C), NEW s \in Seq(C)
  PROVE  Read(C, st, s) \in ReaderStates(C) /\ Read(C, st, <<>>) = st
<1>1. FoldLaws(ReaderStates(C), C, Taking(C), st)
  BY TakingSteps, FoldLawsHold
<1> QED
  BY <1>1 DEF FoldLaws, Read

LEMMA ReadAppend ==
  ASSUME NEW C, HasMarks(C), NEW st \in ReaderStates(C), NEW s \in Seq(C), NEW c \in C
  PROVE  Read(C, st, Append(s, c)) = TakeChar(Read(C, st, s), c)
<1>1. FoldLaws(ReaderStates(C), C, Taking(C), st)
  BY TakingSteps, FoldLawsHold
<1>2. Read(C, st, Append(s, c)) = Taking(C)[<<Read(C, st, s), c>>]
  BY <1>1 DEF FoldLaws, Read
<1> QED
  BY <1>2, ReadTyped, TakingTakes

LEMMA ReadConcat ==
  ASSUME NEW C, HasMarks(C), NEW st \in ReaderStates(C), NEW s \in Seq(C), NEW t \in Seq(C)
  PROVE  Read(C, st, s \o t) = Read(C, Read(C, st, s), t)
BY TakingSteps, FoldedConcat DEF Read

LEMMA ToArgvReads ==
  ASSUME NEW C, HasMarks(C), NEW line \in Seq(C)
  PROVE  ToArgv(line) = EndWord(Read(C, Start, line)).args
<1> DEFINE S == ReaderStates(C)
           f == Taking(C)
<1>1. StepsInto(S, C, f, Start)
  BY StartTyped, TakingSteps
<1>2. Reading(S, C, f)
  BY TakingTakes DEF Reading
<1> HIDE DEF S, f
<1>3. FoldLeft(TakeChar, Start, line) = Folded(f, Start, line)
  BY <1>1, <1>2, ReadingIsFolded
<1> QED
  BY <1>3, Zenon DEF ToArgv, Read, f


\* The states in front of an argument, within one, and behind a closing quote.
Between(a) == [args |-> a, word |-> <<>>, open |-> FALSE, quoted |-> FALSE,
               closed |-> FALSE, slashes |-> 0]
Inside(a, w, q, n) == [args |-> a, word |-> w, open |-> TRUE, quoted |-> q,
                       closed |-> FALSE, slashes |-> n]
Behind(a, w) == [args |-> a, word |-> w, open |-> TRUE, quoted |-> FALSE,
                 closed |-> TRUE, slashes |-> 0]

\* Whether the reader is in quotes, as a value like any other.
Yes == TRUE
No  == FALSE

LEMMA PlacesTyped ==
  ASSUME NEW C, NEW a \in Seq(Seq(C)), NEW w \in Seq(C), NEW q \in BOOLEAN, NEW n \in Nat
  PROVE  /\ Between(a) \in ReaderStates(C) /\ Inside(a, w, q, n) \in ReaderStates(C)
         /\ Behind(a, w) \in ReaderStates(C)
<1>1. <<>> \in Seq(C)
  BY EmptySeq
<1> QED
  BY <1>1 DEF Between, Inside, Behind, ReaderStates

LEMMA SlashesOf ==
  ASSUME NEW a, NEW w, NEW o, NEW q, NEW d, NEW n, NEW k, NEW st,
         st = [args |-> a, word |-> w, open |-> o, quoted |-> q, closed |-> d, slashes |-> n]
  PROVE  WithSlashes(st, k) = Inside(a, w \o Repeat(Backslash, k), q, 0)
<1>1. PICK x : x = w \o Repeat(Backslash, k)
  OBVIOUS
<1>2. PICK r : r = [st EXCEPT !.word = x, !.slashes = 0, !.open = TRUE, !.closed = FALSE]
  OBVIOUS
<1>3. r = Inside(a, x, q, 0)
  BY <1>2 DEF Inside
<1>4. st.word = w
  OBVIOUS
<1> QED
  BY <1>1, <1>2, <1>3, <1>4, Zenon DEF WithSlashes

LEMMA SlashesInside ==
  ASSUME NEW a, NEW w, NEW q, NEW n, NEW k
  PROVE  WithSlashes(Inside(a, w, q, n), k) = Inside(a, w \o Repeat(Backslash, k), q, 0)
<1>1. PICK st : st = Inside(a, w, q, n)
  OBVIOUS
<1>2. st = [args |-> a, word |-> w, open |-> TRUE, quoted |-> q, closed |-> FALSE, slashes |-> n]
  BY <1>1 DEF Inside
<1>3. WithSlashes(st, k) = Inside(a, w \o Repeat(Backslash, k), q, 0)
  BY <1>2, SlashesOf
<1> QED
  BY <1>1, <1>3

LEMMA SlashesOutside ==
  ASSUME NEW C, HasMarks(C), NEW a, NEW w \in Seq(C), NEW d, NEW o, NEW q, NEW st,
         st = [args |-> a, word |-> w, open |-> o, quoted |-> q, closed |-> d, slashes |-> 0]
  PROVE  WithSlashes(st, 0) = Inside(a, w, q, 0)
<1>1. w \o Repeat(Backslash, 0) = w
  BY RepeatFacts, ConcatEmptySeq DEF HasMarks
<1>2. PICK n : n = 0
  OBVIOUS
<1>3. st = [args |-> a, word |-> w, open |-> o, quoted |-> q, closed |-> d, slashes |-> n]
  BY <1>2
<1>4. WithSlashes(st, n) = Inside(a, w \o Repeat(Backslash, n), q, 0)
  BY <1>3, SlashesOf
<1> QED
  BY <1>1, <1>2, <1>4

LEMMA WordInside ==
  ASSUME NEW a, NEW w, NEW q, NEW n, NEW c, NEW v, v = Inside(a, w, q, n)
  PROVE  [v EXCEPT !.word = Append(@, c)] = Inside(a, Append(w, c), q, n)
<1>1. PICK r : r = [v EXCEPT !.word = Append(@, c)]
  OBVIOUS
<1>2. r = Inside(a, Append(w, c), q, n)
  BY <1>1 DEF Inside
<1> QED
  BY <1>1, <1>2, Zenon

LEMMA EndInside ==
  ASSUME NEW a, NEW w, NEW v, v = Inside(a, w, No, 0)
  PROVE  [v EXCEPT !.args = Append(@, v.word), !.word = <<>>, !.open = FALSE]
           = Between(Append(a, w))
<1>1. PICK r : r = [v EXCEPT !.args = Append(@, v.word), !.word = <<>>, !.open = FALSE]
  OBVIOUS
<1>2. r = Between(Append(a, w))
  BY <1>1 DEF Inside, Between, No
<1> QED
  BY <1>1, <1>2, Zenon

LEMMA InsideSlash ==
  ASSUME NEW a, NEW w, NEW q, NEW n
  PROVE  TakeChar(Inside(a, w, q, n), Backslash) = Inside(a, w, q, n + 1)
<1>1. PICK st : st = Inside(a, w, q, n)
  OBVIOUS
<1>2. PICK r : r = [st EXCEPT !.slashes = @ + 1, !.open = TRUE, !.closed = FALSE]
  OBVIOUS
<1>3. r = Inside(a, w, q, n + 1)
  BY <1>1, <1>2 DEF Inside
<1>4. TakeChar(st, Backslash) = r
  BY <1>2, MarksDiffer DEF TakeChar
<1> QED
  BY <1>1, <1>3, <1>4, Zenon

LEMMA InsideLetter ==
  ASSUME NEW a, NEW w, NEW q \in BOOLEAN, NEW n, NEW c, c # Backslash, c # Quote, c # Space \/ q
  PROVE  TakeChar(Inside(a, w, q, n), c) = Inside(a, Append(w \o Repeat(Backslash, n), c), q, 0)
<1>1. PICK st : st = Inside(a, w, q, n)
  OBVIOUS
<1>2. PICK v : v = WithSlashes(st, n)
  OBVIOUS
<1>3. st.slashes = n /\ st.quoted = q
  BY <1>1 DEF Inside
<1>4. v = Inside(a, w \o Repeat(Backslash, n), q, 0)
  BY <1>1, <1>2, SlashesInside
<1>5. [v EXCEPT !.word = Append(@, c)] = Inside(a, Append(w \o Repeat(Backslash, n), c), q, 0)
  BY <1>4, WordInside
<1>6. TakeChar(st, c) = [v EXCEPT !.word = Append(@, c)]
  BY <1>2, <1>3, MarksDiffer DEF TakeChar
<1> QED
  BY <1>1, <1>5, <1>6, Zenon

LEMMA InsideQuoteOdd ==
  ASSUME NEW a, NEW w, NEW q, NEW n \in Nat
  PROVE  TakeChar(Inside(a, w, q, 2 * n + 1), Quote) =
           Inside(a, Append(w \o Repeat(Backslash, n), Quote), q, 0)
<1>1. PICK st : st = Inside(a, w, q, 2 * n + 1)
  OBVIOUS
<1>2. PICK v : v = WithSlashes(st, n)
  OBVIOUS
<1>3. st.slashes = 2 * n + 1 /\ (2 * n + 1) \div 2 = n /\ (2 * n + 1) % 2 = 1
  BY <1>1 DEF Inside
<1>4. v = Inside(a, w \o Repeat(Backslash, n), q, 0)
  BY <1>1, <1>2, SlashesInside
<1>5. [v EXCEPT !.word = Append(@, Quote)] = Inside(a, Append(w \o Repeat(Backslash, n), Quote), q, 0)
  BY <1>4, WordInside
<1>6. TakeChar(st, Quote) = [v EXCEPT !.word = Append(@, Quote)]
  BY <1>2, <1>3, MarksDiffer DEF TakeChar
<1> QED
  BY <1>1, <1>5, <1>6, Zenon

LEMMA InsideQuoteEven ==
  ASSUME NEW a, NEW w, NEW n \in Nat
  PROVE  TakeChar(Inside(a, w, Yes, 2 * n), Quote) = Behind(a, w \o Repeat(Backslash, n))
<1> PICK m : m = 2 * n
  OBVIOUS
<1>1. PICK st : st = Inside(a, w, Yes, m)
  OBVIOUS
<1>2. PICK v : v = WithSlashes(st, n)
  OBVIOUS
<1>3. st.slashes = m /\ st.closed = FALSE /\ m \div 2 = n /\ m % 2 = 0
  BY <1>1 DEF Inside
<1>4. v = Inside(a, w \o Repeat(Backslash, n), Yes, 0)
  <2>1. WithSlashes(Inside(a, w, Yes, m), n) = Inside(a, w \o Repeat(Backslash, n), Yes, 0)
    BY SlashesInside
  <2> QED
    BY <1>1, <1>2, <2>1, Zenon
<1>5. PICK x : x = w \o Repeat(Backslash, n)
  OBVIOUS
<1>6. PICK r : r = [v EXCEPT !.quoted = ~@, !.closed = st.quoted]
  OBVIOUS
<1>7. r = Behind(a, x)
  <2>1. st.quoted = TRUE
    BY <1>1 DEF Inside, Yes
  <2> QED
    BY <2>1, <1>4, <1>5, <1>6 DEF Inside, Behind, Yes
<1>8. TakeChar(st, Quote) = r
  <2>1. st.slashes \div 2 = n /\ ~(st.slashes % 2 = 1 \/ (st.closed /\ st.slashes = 0))
    BY <1>3
  <2> QED
    BY <1>2, <1>6, <2>1, MarksDiffer DEF TakeChar
<1> QED
  BY <1>1, <1>5, <1>7, <1>8, Zenon

LEMMA EndOfInside ==
  ASSUME NEW a, NEW w, NEW n
  PROVE  EndWord(Inside(a, w, No, n)) = Between(Append(a, w \o Repeat(Backslash, n)))
<1>1. PICK st : st = Inside(a, w, No, n)
  OBVIOUS
<1>2. PICK v : v = WithSlashes(st, n)
  OBVIOUS
<1>3. st.slashes = n /\ st.open = TRUE
  BY <1>1 DEF Inside
<1>4. v = Inside(a, w \o Repeat(Backslash, n), No, 0)
  BY <1>1, <1>2, SlashesInside
<1>5. [v EXCEPT !.args = Append(@, v.word), !.word = <<>>, !.open = FALSE]
        = Between(Append(a, w \o Repeat(Backslash, n)))
  BY <1>4, EndInside
<1>6. EndWord(st) = [v EXCEPT !.args = Append(@, v.word), !.word = <<>>, !.open = FALSE]
  BY <1>2, <1>3 DEF EndWord
<1> QED
  BY <1>1, <1>5, <1>6, Zenon

LEMMA EndOfBehind ==
  ASSUME NEW C, HasMarks(C), NEW a, NEW w \in Seq(C)
  PROVE  EndWord(Behind(a, w)) = Between(Append(a, w))
<1>1. PICK st : st = Behind(a, w)
  OBVIOUS
<1>2. PICK v : v = WithSlashes(st, 0)
  OBVIOUS
<1>4. st.slashes = 0 /\ st.open = TRUE
  BY <1>1 DEF Behind
<1>5. st = [args |-> a, word |-> w, open |-> Yes, quoted |-> No, closed |-> Yes, slashes |-> 0]
  BY <1>1 DEF Behind, Yes, No
<1>6. v = Inside(a, w, No, 0)
  BY <1>2, <1>5, SlashesOutside
<1>7. [v EXCEPT !.args = Append(@, v.word), !.word = <<>>, !.open = FALSE] = Between(Append(a, w))
  BY <1>6, EndInside
<1>8. EndWord(st) = [v EXCEPT !.args = Append(@, v.word), !.word = <<>>, !.open = FALSE]
  BY <1>2, <1>4 DEF EndWord
<1> QED
  BY <1>1, <1>7, <1>8, Zenon

LEMMA EndOfBetween ==
  ASSUME NEW a
  PROVE  EndWord(Between(a)) = Between(a)
BY DEF EndWord, Between

LEMMA SpaceEnds ==
  ASSUME NEW st, st.quoted = FALSE
  PROVE  TakeChar(st, Space) = EndWord(st)
BY MarksDiffer DEF TakeChar

LEMMA BetweenTakes ==
  ASSUME NEW C, HasMarks(C), NEW a, NEW c
  PROVE  /\ TakeChar(Between(a), Quote) = Inside(a, <<>>, Yes, 0)
         /\ TakeChar(Between(a), Backslash) = Inside(a, <<>>, No, 1)
         /\ c \notin {Space, Quote, Backslash} =>
              TakeChar(Between(a), c) = Inside(a, Append(<<>>, c), No, 0)
<1>1. PICK st : st = Between(a)
  OBVIOUS
<1>2. PICK v : v = WithSlashes(st, 0)
  OBVIOUS
<1>3. st.slashes = 0 /\ st.quoted = FALSE /\ st.closed = FALSE
  BY <1>1 DEF Between
<1>4. v = Inside(a, <<>>, No, 0)
  <2>1. st = [args |-> a, word |-> <<>>, open |-> No, quoted |-> No, closed |-> No, slashes |-> 0]
    BY <1>1 DEF Between, No
  <2>2. <<>> \in Seq(C)
    BY EmptySeq
  <2> QED
    BY <1>2, <2>1, <2>2, SlashesOutside
<1>5. TakeChar(st, Backslash) = Inside(a, <<>>, No, 1)
  <2>1. PICK r : r = [st EXCEPT !.slashes = @ + 1, !.open = TRUE, !.closed = FALSE]
    OBVIOUS
  <2>2. r = Inside(a, <<>>, No, 1)
    <3>1. r = [st EXCEPT !.slashes = 1, !.open = TRUE, !.closed = FALSE]
      BY <1>3, <2>1
    <3> QED
      BY <1>1, <3>1 DEF Between, Inside, No
  <2>3. TakeChar(st, Backslash) = r
    BY <2>1, MarksDiffer DEF TakeChar
  <2> QED
    BY <2>2, <2>3, Zenon
<1>6. TakeChar(st, Quote) = Inside(a, <<>>, Yes, 0)
  <2>1. 0 \div 2 = 0 /\ 0 % 2 = 0
    OBVIOUS
  <2>2. PICK r : r = [v EXCEPT !.quoted = ~@, !.closed = st.quoted]
    OBVIOUS
  <2>3. r = Inside(a, <<>>, Yes, 0)
    BY <1>3, <1>4, <2>2 DEF Inside, Yes, No
  <2>4. TakeChar(st, Quote) = r
    BY <1>2, <1>3, <2>1, <2>2, MarksDiffer DEF TakeChar
  <2> QED
    BY <2>3, <2>4, Zenon
<1>7. c \notin {Space, Quote, Backslash} => TakeChar(st, c) = Inside(a, Append(<<>>, c), No, 0)
  <2>1. [v EXCEPT !.word = Append(@, c)] = Inside(a, Append(<<>>, c), No, 0)
    <3>1. PICK e : e = <<>>
      OBVIOUS
    <3>2. v = Inside(a, e, No, 0)
      BY <1>4, <3>1
    <3>3. [v EXCEPT !.word = Append(@, c)] = Inside(a, Append(e, c), No, 0)
      BY <3>2, WordInside
    <3> QED
      BY <3>1, <3>3, Zenon
  <2>2. c \notin {Space, Quote, Backslash} => TakeChar(st, c) = [v EXCEPT !.word = Append(@, c)]
    BY <1>2, <1>3, MarksDiffer DEF TakeChar
  <2> QED
    BY <2>1, <2>2, Zenon
<1> QED
  BY <1>1, <1>5, <1>6, <1>7, Zenon


-----------------------------------------------------------------------------
(* One argument.                                                           *)

EscapeStates(C) == [out : Seq(C), slashes : Nat]
EscapeStart == [out |-> <<>>, slashes |-> 0]
EscapeFunction(C, extra) == [p \in EscapeStates(C) \X C |-> Escape(p[1], p[2], extra)]

EscapesTo(st, c, extra, d) ==
  /\ c = Backslash => d.out = st.out /\ d.slashes = st.slashes + 1
  /\ c # Backslash =>
       LET n == IF c = Quote THEN 2 * st.slashes + extra ELSE st.slashes
       IN  d.out = Append(st.out \o Repeat(Backslash, n), c) /\ d.slashes = 0

LEMMA EscapeValues ==
  ASSUME NEW C, HasMarks(C), NEW extra \in Nat, NEW st \in EscapeStates(C), NEW c \in C
  PROVE  /\ Escape(st, c, extra) \in EscapeStates(C)
         /\ EscapesTo(st, c, extra, Escape(st, c, extra))
<1>1. st.out \in Seq(C) /\ st.slashes \in Nat
  BY DEF EscapeStates
<1>2. CASE c = Backslash
  <2>1. Escape(st, c, extra) = [st EXCEPT !.slashes = @ + 1]
    BY <1>2, Zenon DEF Escape
  <2>2. PICK r : r = [st EXCEPT !.slashes = @ + 1]
    OBVIOUS
  <2>3. r \in EscapeStates(C) /\ r.out = st.out /\ r.slashes = st.slashes + 1
    BY <1>1, <2>2 DEF EscapeStates
  <2> QED
    BY <1>2, <2>1, <2>2, <2>3 DEF EscapesTo
<1>3. CASE c # Backslash
  <2>1. PICK n \in Nat : n = IF c = Quote THEN 2 * st.slashes + extra ELSE st.slashes
    BY <1>1
  <2>2. Repeat(Backslash, n) \in Seq(C)
    BY RepeatFacts DEF HasMarks
  <2>3. PICK x : x = Append(st.out \o Repeat(Backslash, n), c)
    OBVIOUS
  <2>4. x \in Seq(C) /\ x = st.out \o Repeat(Backslash, n) \o <<c>>
    BY <1>1, <2>2, <2>3, ConcatProperties, ConcatAppend, AppendProperties
  <2>5. Escape(st, c, extra) = [out |-> x, slashes |-> 0]
    BY <1>3, <2>1, <2>4, Zenon DEF Escape
  <2>6. PICK r : r = [out |-> x, slashes |-> 0]
    OBVIOUS
  <2>7. r \in EscapeStates(C) /\ r.out = x /\ r.slashes = 0
    BY <2>4, <2>6 DEF EscapeStates
  <2> QED
    BY <1>3, <2>1, <2>3, <2>5, <2>6, <2>7 DEF EscapesTo
<1> QED
  BY <1>2, <1>3

LEMMA EscapedFacts ==
  ASSUME NEW C, HasMarks(C), NEW extra \in Nat
  PROVE  /\ Escaped(<<>>, extra) = EscapeStart
         /\ \A s \in Seq(C) : Escaped(s, extra) \in EscapeStates(C)
         /\ \A s \in Seq(C), c \in C :
               Escaped(Append(s, c), extra) = Escape(Escaped(s, extra), c, extra)
<1> DEFINE S == EscapeStates(C)
           f == EscapeFunction(C, extra)
<1>1. StepsInto(S, C, f, EscapeStart)
  <2>1. f \in [S \X C -> S]
    BY EscapeValues DEF EscapeFunction
  <2>2. EscapeStart \in S
    BY EmptySeq DEF EscapeStart, EscapeStates
  <2> QED
    BY <2>1, <2>2, Zenon DEF StepsInto
<1>2. Escaping(S, C, f, extra)
  BY DEF Escaping, EscapeFunction
<1> HIDE DEF S, f
<1>3. \A s \in Seq(C) : Escaped(s, extra) = Folded(f, EscapeStart, s)
  BY <1>1, <1>2, EscapingIsFolded DEF EscapeStart
<1>4. FoldLaws(S, C, f, EscapeStart)
  BY <1>1, FoldLawsHold
<1>5. <<>> \in Seq(C)
  BY EmptySeq
<1>6. ASSUME NEW s \in Seq(C), NEW c \in C
      PROVE  Escaped(Append(s, c), extra) = Escape(Escaped(s, extra), c, extra)
  <2>1. Append(s, c) \in Seq(C)
    BY AppendProperties
  <2>2. Escaped(Append(s, c), extra) = f[<<Escaped(s, extra), c>>] /\ Escaped(s, extra) \in S
    BY <1>3, <1>4, <2>1 DEF FoldLaws
  <2> QED
    BY <1>2, <2>2 DEF Escaping
<1> QED
  BY <1>3, <1>4, <1>5, <1>6 DEF FoldLaws, S

LEMMA ReadRepeat ==
  ASSUME NEW C, HasMarks(C), NEW a \in Seq(Seq(C)), NEW w \in Seq(C), NEW q \in BOOLEAN, NEW n \in Nat
  PROVE  Read(C, Inside(a, w, q, 0), Repeat(Backslash, n)) = Inside(a, w, q, n)
<1> DEFINE st == Inside(a, w, q, 0)
           T == {k \in Nat : Read(C, st, Repeat(Backslash, k)) = Inside(a, w, q, k)}
<1>1. st \in ReaderStates(C)
  BY PlacesTyped
<1> HIDE DEF st
<1>2. 0 \in T
  <2>1. Repeat(Backslash, 0) = <<>>
    BY RepeatFacts DEF HasMarks
  <2>2. Read(C, st, <<>>) = st
    BY <1>1, EmptySeq, ReadTyped
  <2> QED
    BY <2>1, <2>2 DEF st
<1>3. ASSUME NEW k \in Nat, k \in T
      PROVE  k + 1 \in T
  <2>1. Repeat(Backslash, k) \in Seq(C) /\ Repeat(Backslash, k + 1) = Append(Repeat(Backslash, k), Backslash)
    BY RepeatFacts DEF HasMarks
  <2>2. Read(C, st, Repeat(Backslash, k + 1)) = TakeChar(Inside(a, w, q, k), Backslash)
    <3>1. PICK r \in Seq(C) : r = Repeat(Backslash, k)
      BY <2>1
    <3>2. Read(C, st, Append(r, Backslash)) = TakeChar(Read(C, st, r), Backslash)
      BY <1>1, ReadAppend DEF HasMarks
    <3>3. Read(C, st, r) = Inside(a, w, q, k)
      BY <1>3, <3>1
    <3> QED
      BY <2>1, <3>1, <3>2, <3>3
  <2>3. Read(C, st, Repeat(Backslash, k + 1)) = Inside(a, w, q, k + 1)
    BY <2>2, InsideSlash
  <2> QED
    BY <2>3
<1> HIDE DEF T
<1>4. n \in T
  BY <1>2, <1>3, SetInduction
<1> QED
  BY <1>4 DEF T, st


\* Reading a run of backslashes and another character from within quotes.
LEMMA ReadRun ==
  ASSUME NEW C, HasMarks(C), NEW a \in Seq(Seq(C)), NEW w \in Seq(C), NEW out \in Seq(C),
         NEW st \in ReaderStates(C), Read(C, st, out) = Inside(a, w, Yes, 0),
         NEW n \in Nat, NEW c \in C
  PROVE  /\ Append(out \o Repeat(Backslash, n), c) \in Seq(C)
         /\ Read(C, st, Append(out \o Repeat(Backslash, n), c)) =
              TakeChar(Inside(a, w, Yes, n), c)
<1>1. Repeat(Backslash, n) \in Seq(C)
  BY RepeatFacts DEF HasMarks
<1>2. out \o Repeat(Backslash, n) \in Seq(C)
  BY <1>1, ConcatProperties
<1>3. Read(C, st, out \o Repeat(Backslash, n)) = Read(C, Inside(a, w, Yes, 0), Repeat(Backslash, n))
  BY <1>1, ReadConcat
<1>4. Yes \in BOOLEAN
  BY DEF Yes
<1>5. Read(C, Inside(a, w, Yes, 0), Repeat(Backslash, n)) = Inside(a, w, Yes, n)
  BY <1>4, ReadRepeat
<1>6. Read(C, st, Append(out \o Repeat(Backslash, n), c)) =
        TakeChar(Read(C, st, out \o Repeat(Backslash, n)), c)
  BY <1>2, ReadAppend
<1>7. Append(out \o Repeat(Backslash, n), c) \in Seq(C)
  BY <1>2, AppendProperties
<1> QED
  BY <1>3, <1>5, <1>6, <1>7

\* The escaped characters of s, and the backslashes still counted, are s.
EscapeRead(C, a, s, e) ==
  \E w \in Seq(C) : /\ Read(C, Inside(a, <<>>, Yes, 0), e.out) = Inside(a, w, Yes, 0)
                    /\ w \o Repeat(Backslash, e.slashes) = s

LEMMA EscapeIsRead ==
  ASSUME NEW C, HasMarks(C), NEW a \in Seq(Seq(C)), NEW s \in Seq(C),
         NEW extra \in Nat, extra = 1 \/ ~Contains(s, Quote)
  PROVE  EscapeRead(C, a, s, Escaped(s, extra))
<1> DEFINE st == Inside(a, <<>>, Yes, 0)
           T == {u \in Seq(C) : extra = 1 \/ ~Contains(u, Quote) =>
                                  EscapeRead(C, a, u, Escaped(u, extra))}
<1>1. /\ Escaped(<<>>, extra) = EscapeStart
      /\ \A u \in Seq(C) : Escaped(u, extra) \in EscapeStates(C)
      /\ \A u \in Seq(C), c \in C : Escaped(Append(u, c), extra) = Escape(Escaped(u, extra), c, extra)
  BY EscapedFacts
<1>2. <<>> \in Seq(C) /\ Yes \in BOOLEAN
  BY EmptySeq DEF Yes
<1>3. st \in ReaderStates(C)
  BY <1>2, PlacesTyped
<1> HIDE DEF st
<1>4. <<>> \in T
  <2>1. Repeat(Backslash, 0) = <<>> /\ <<>> \o <<>> = <<>>
    BY <1>2, RepeatFacts, ConcatEmptySeq DEF HasMarks
  <2>2. Read(C, st, <<>>) = Inside(a, <<>>, Yes, 0)
    BY <1>2, <1>3, ReadTyped DEF st
  <2>3. EscapeStart.out = <<>> /\ EscapeStart.slashes = 0
    BY DEF EscapeStart
  <2>4. EscapeRead(C, a, <<>>, EscapeStart)
    BY <1>2, <2>1, <2>2, <2>3 DEF EscapeRead, st
  <2> QED
    BY <1>1, <1>2, <2>4
<1>5. ASSUME NEW u \in Seq(C), NEW c \in C, u \in T
      PROVE  Append(u, c) \in T
  <2> DEFINE v == Append(u, c)
  <2>1. v \in Seq(C)
    BY AppendProperties
  <2> SUFFICES ASSUME extra = 1 \/ ~Contains(v, Quote)
               PROVE  EscapeRead(C, a, v, Escaped(v, extra))
    BY <2>1
  <2>2. extra = 1 \/ (~Contains(u, Quote) /\ c # Quote)
    <3>1. PICK n \in Nat : Len(u) = n
      BY LenProperties
    <3>2. Len(v) = n + 1 /\ v[n + 1] = c /\ \A i \in 1..n : v[i] = u[i]
      BY <3>1, AppendProperties
    <3> HIDE DEF v
    <3>3. ~Contains(v, Quote) => ~Contains(u, Quote) /\ c # Quote
      BY <3>1, <3>2 DEF Contains
    <3> QED
      BY <3>3
  <2> DEFINE e == Escaped(u, extra)
             d == Escape(e, c, extra)
  <2>3. PICK w \in Seq(C) : Read(C, st, e.out) = Inside(a, w, Yes, 0) /\ w \o Repeat(Backslash, e.slashes) = u
    BY <1>5, <2>2 DEF EscapeRead, st
  <2>4. e \in EscapeStates(C) /\ Escaped(v, extra) = d
    BY <1>1
  <2>5. e.out \in Seq(C) /\ e.slashes \in Nat
    BY <2>4 DEF EscapeStates
  <2> HIDE DEF e
  <2> HIDE DEF d
  <2>5a. EscapesTo(e, c, extra, d)
    BY <2>4, EscapeValues DEF d
  <2>6. /\ c = Backslash => d.out = e.out /\ d.slashes = e.slashes + 1
        /\ c # Backslash =>
             LET n == IF c = Quote THEN 2 * e.slashes + extra ELSE e.slashes
             IN  d.out = Append(e.out \o Repeat(Backslash, n), c) /\ d.slashes = 0
    BY <2>5a DEF EscapesTo
  <2>7. CASE c = Backslash
    <3>1. /\ Repeat(Backslash, e.slashes) \in Seq(C)
          /\ Repeat(Backslash, e.slashes + 1) = Append(Repeat(Backslash, e.slashes), Backslash)
      BY <2>5, RepeatFacts DEF HasMarks
    <3>2. w \o Repeat(Backslash, e.slashes + 1) = v
      <4>1. w \o Append(Repeat(Backslash, e.slashes), Backslash)
              = Append(w \o Repeat(Backslash, e.slashes), Backslash)
        BY <3>1, ConcatAppend DEF HasMarks
      <4> QED
        BY <2>3, <2>7, <3>1, <4>1
    <3>3. Read(C, st, d.out) = Inside(a, w, Yes, 0) /\ w \o Repeat(Backslash, d.slashes) = v
      BY <2>3, <2>6, <2>7, <3>2
    <3> QED
      BY <2>4, <3>3 DEF EscapeRead, st
  <2>8. CASE c # Backslash
    <3>1. d.slashes = 0 /\ v \o Repeat(Backslash, 0) = v
      BY <2>1, <2>6, <2>8, RepeatFacts, ConcatEmptySeq DEF HasMarks
    <3>2. Read(C, st, d.out) = Inside(a, v, Yes, 0)
      <4>1. CASE c = Quote
        <5>1. extra = 1 /\ d.out = Append(e.out \o Repeat(Backslash, 2 * e.slashes + 1), c)
          BY <2>2, <2>6, <2>8, <4>1
        <5>2. 2 * e.slashes + 1 \in Nat
          BY <2>5
        <5>3. Read(C, st, d.out) = TakeChar(Inside(a, w, Yes, 2 * e.slashes + 1), Quote)
          <6>1. PICK n \in Nat : n = 2 * e.slashes + 1
            BY <5>2
          <6>2. Read(C, st, Append(e.out \o Repeat(Backslash, n), c)) = TakeChar(Inside(a, w, Yes, n), c)
            BY <1>3, <2>3, <2>5, ReadRun
          <6> QED
            BY <4>1, <5>1, <6>1, <6>2
        <5>4. TakeChar(Inside(a, w, Yes, 2 * e.slashes + 1), Quote)
                = Inside(a, Append(w \o Repeat(Backslash, e.slashes), Quote), Yes, 0)
          BY <2>5, InsideQuoteOdd
        <5> QED
          BY <2>3, <4>1, <5>3, <5>4
      <4>2. CASE c # Quote
        <5>1. d.out = Append(e.out \o Repeat(Backslash, e.slashes), c)
          BY <2>6, <2>8, <4>2
        <5>2. Read(C, st, d.out) = TakeChar(Inside(a, w, Yes, e.slashes), c)
          BY <1>3, <2>3, <2>5, <5>1, ReadRun
        <5>3. TakeChar(Inside(a, w, Yes, e.slashes), c)
                = Inside(a, Append(w \o Repeat(Backslash, e.slashes), c), Yes, 0)
          <6>1. c # Space \/ Yes
            BY DEF Yes
          <6> QED
            BY <1>2, <2>8, <4>2, <6>1, InsideLetter
        <5> QED
          BY <2>3, <5>2, <5>3
      <4> QED
        BY <4>1, <4>2
    <3> QED
      BY <2>1, <2>4, <3>1, <3>2 DEF EscapeRead, st
  <2> QED
    BY <2>7, <2>8
<1> HIDE DEF T
<1>6. s \in T
  BY <1>4, <1>5, SequenceInduction
<1> QED
  BY <1>6 DEF T

\* Quotes around the escaped characters give the argument.
LEMMA QuotedIsRead ==
  ASSUME NEW C, HasMarks(C), NEW a \in Seq(Seq(C)), NEW s \in Seq(C),
         NEW extra \in Nat, extra = 1 \/ ~Contains(s, Quote)
  PROVE  LET e == Escaped(s, extra)
             text == InQuotes(e.out, 2 * e.slashes)
         IN  text \in Seq(C) /\ Read(C, Between(a), text) = Behind(a, s)
<1> DEFINE e == Escaped(s, extra)
           text == InQuotes(e.out, 2 * e.slashes)
<1>1. e \in EscapeStates(C) /\ EscapeRead(C, a, s, e)
  BY EscapedFacts, EscapeIsRead
<1> HIDE DEF e
<1>2. PICK w \in Seq(C) : /\ Read(C, Inside(a, <<>>, Yes, 0), e.out) = Inside(a, w, Yes, 0)
                          /\ w \o Repeat(Backslash, e.slashes) = s
  BY <1>1, Zenon DEF EscapeRead
<1>3. e.out \in Seq(C) /\ e.slashes \in Nat /\ 2 * e.slashes \in Nat
  BY <1>1 DEF EscapeStates
<1>4. <<Quote>> \in Seq(C) /\ <<>> \in Seq(C) /\ <<Quote>> = Append(<<>>, Quote)
  BY EmptySeq, AppendProperties, ConcatAppend DEF HasMarks
<1> DEFINE head == <<Quote>> \o e.out
<1>5. head \in Seq(C)
  BY <1>3, <1>4, ConcatProperties
<1>6. Between(a) \in ReaderStates(C)
  BY <1>4, PlacesTyped
<1>7. Read(C, Between(a), <<Quote>>) = Inside(a, <<>>, Yes, 0)
  <2>1. Read(C, Between(a), Append(<<>>, Quote)) = TakeChar(Between(a), Quote)
    <3>1. Read(C, Between(a), <<>>) = Between(a)
      BY <1>4, <1>6, ReadTyped
    <3>2. Read(C, Between(a), Append(<<>>, Quote)) = TakeChar(Read(C, Between(a), <<>>), Quote)
      BY <1>4, <1>6, ReadAppend DEF HasMarks
    <3> QED
      BY <3>1, <3>2
  <2> QED
    BY <1>4, <2>1, BetweenTakes
<1>8. Read(C, Between(a), head) = Inside(a, w, Yes, 0)
  <2>1. Read(C, Between(a), head) = Read(C, Read(C, Between(a), <<Quote>>), e.out)
    BY <1>3, <1>4, <1>6, ReadConcat
  <2> QED
    BY <1>2, <1>7, <2>1
<1>9. text = Append(head \o Repeat(Backslash, 2 * e.slashes), Quote)
  <2>1. Repeat(Backslash, 2 * e.slashes) \in Seq(C)
    BY <1>3, RepeatFacts DEF HasMarks
  <2>2. head \o Repeat(Backslash, 2 * e.slashes) \in Seq(C)
    BY <1>5, <2>1, ConcatProperties
  <2>3. (head \o Repeat(Backslash, 2 * e.slashes)) \o <<Quote>>
          = Append(head \o Repeat(Backslash, 2 * e.slashes), Quote)
    BY <2>2, ConcatAppend DEF HasMarks
  <2> QED
    BY <2>3, Zenon DEF InQuotes
<1> HIDE DEF head, text
<1>10. /\ text \in Seq(C)
       /\ Read(C, Between(a), text) = TakeChar(Inside(a, w, Yes, 2 * e.slashes), Quote)
  <2>1. PICK n \in Nat : n = 2 * e.slashes
    BY <1>3
  <2>2. PICK st \in ReaderStates(C) : st = Between(a)
    BY <1>6
  <2>3. Quote \in C
    BY DEF HasMarks
  <2>4. Read(C, st, head) = Inside(a, w, Yes, 0)
    BY <1>8, <2>2
  <2>5. /\ Append(head \o Repeat(Backslash, n), Quote) \in Seq(C)
        /\ Read(C, st, Append(head \o Repeat(Backslash, n), Quote)) = TakeChar(Inside(a, w, Yes, n), Quote)
    BY <1>5, <2>3, <2>4, ReadRun
  <2> QED
    BY <1>9, <2>1, <2>2, <2>5
<1>11. TakeChar(Inside(a, w, Yes, 2 * e.slashes), Quote) = Behind(a, w \o Repeat(Backslash, e.slashes))
  BY <1>3, InsideQuoteEven
<1> QED
  BY <1>2, <1>10, <1>11 DEF text, e


\* So does an argument without spaces and quotes.
PlainRead(C, a, s) ==
  \E w \in Seq(C), n \in Nat : /\ Read(C, Between(a), s) = Inside(a, w, No, n)
                               /\ w \o Repeat(Backslash, n) = s

LEMMA PlainIsRead ==
  ASSUME NEW C, HasMarks(C), NEW a \in Seq(Seq(C)), NEW s \in Seq(C), s # <<>>, ~NeedsQuotes(s)
  PROVE  PlainRead(C, a, s)
<1> DEFINE T == {u \in Seq(C) : u = <<>> \/ NeedsQuotes(u) \/ PlainRead(C, a, u)}
<1>1. <<>> \in Seq(C) /\ No \in BOOLEAN
  BY EmptySeq DEF No
<1>2. Between(a) \in ReaderStates(C)
  BY <1>1, PlacesTyped
<1>3. ASSUME NEW u \in Seq(C), NEW c \in C, u \in T
      PROVE  Append(u, c) \in T
  <2> DEFINE v == Append(u, c)
  <2>1. v \in Seq(C)
    BY AppendProperties
  <2> SUFFICES ASSUME ~NeedsQuotes(v)
               PROVE  PlainRead(C, a, v)
    BY <2>1
  <2>2. ~NeedsQuotes(u) /\ c # Space /\ c # Quote
    <3>1. PICK n \in Nat : Len(u) = n
      BY LenProperties
    <3>2. Len(v) = n + 1 /\ v[n + 1] = c /\ \A i \in 1..n : v[i] = u[i]
      BY <3>1, AppendProperties
    <3> HIDE DEF v
    <3>3. \A x : ~Contains(v, x) => ~Contains(u, x) /\ c # x
      BY <3>1, <3>2 DEF Contains
    <3> QED
      BY <3>3 DEF NeedsQuotes
  <2>3. Read(C, Between(a), v) = TakeChar(Read(C, Between(a), u), c)
    BY <1>2, ReadAppend
  <2>4. CASE u = <<>>
    <3>1. Read(C, Between(a), u) = Between(a)
      BY <1>1, <1>2, <2>4, ReadTyped
    <3>2. CASE c = Backslash
      <4>1. TakeChar(Between(a), c) = Inside(a, <<>>, No, 1)
        BY <3>2, BetweenTakes
      <4>2. <<>> \o Repeat(Backslash, 1) = v
        <5>1. Repeat(Backslash, 0 + 1) = Append(Repeat(Backslash, 0), Backslash) /\ Repeat(Backslash, 0) = <<>>
          BY RepeatFacts DEF HasMarks
        <5>2. Repeat(Backslash, 1) = v
          BY <2>4, <3>2, <5>1
        <5> HIDE DEF v
        <5>3. <<>> \o v = v
          BY <2>1, ConcatEmptySeq
        <5> QED
          BY <5>2, <5>3
      <4> HIDE DEF v
      <4> QED
        BY <1>1, <2>3, <3>1, <4>1, <4>2 DEF PlainRead
    <3>3. CASE c # Backslash
      <4>1. TakeChar(Between(a), c) = Inside(a, v, No, 0)
        <5>1. c \notin {Space, Quote, Backslash}
          BY <2>2, <3>3
        <5> QED
          BY <2>4, <5>1, BetweenTakes
      <4>2. v \o Repeat(Backslash, 0) = v
        BY <2>1, RepeatFacts, ConcatEmptySeq DEF HasMarks
      <4> HIDE DEF v
      <4> QED
        BY <2>1, <2>3, <3>1, <4>1, <4>2 DEF PlainRead
    <3> QED
      BY <3>2, <3>3
  <2>5. CASE u # <<>>
    <3>1. PICK w \in Seq(C), n \in Nat : /\ Read(C, Between(a), u) = Inside(a, w, No, n)
                                         /\ w \o Repeat(Backslash, n) = u
      BY <1>3, <2>2, <2>5 DEF PlainRead
    <3>2. CASE c = Backslash
      <4>1. TakeChar(Inside(a, w, No, n), c) = Inside(a, w, No, n + 1)
        BY <3>2, InsideSlash
      <4>2. w \o Repeat(Backslash, n + 1) = v
        <5>1. Repeat(Backslash, n) \in Seq(C) /\ Repeat(Backslash, n + 1) = Append(Repeat(Backslash, n), Backslash)
          BY RepeatFacts DEF HasMarks
        <5>2. w \o Append(Repeat(Backslash, n), Backslash) = Append(w \o Repeat(Backslash, n), Backslash)
          BY <5>1, ConcatAppend DEF HasMarks
        <5> QED
          BY <3>1, <3>2, <5>1, <5>2
      <4> HIDE DEF v
      <4>3. n + 1 \in Nat
        OBVIOUS
      <4> QED
        BY <2>3, <3>1, <4>1, <4>2, <4>3 DEF PlainRead
    <3>3. CASE c # Backslash
      <4>1. TakeChar(Inside(a, w, No, n), c) = Inside(a, v, No, 0)
        <5>1. TakeChar(Inside(a, w, No, n), c) = Inside(a, Append(w \o Repeat(Backslash, n), c), No, 0)
          BY <1>1, <2>2, <3>3, InsideLetter
        <5> QED
          BY <3>1, <5>1
      <4>2. v \o Repeat(Backslash, 0) = v
        BY <2>1, RepeatFacts, ConcatEmptySeq DEF HasMarks
      <4> HIDE DEF v
      <4> QED
        BY <2>1, <2>3, <3>1, <4>1, <4>2 DEF PlainRead
    <3> QED
      BY <3>2, <3>3
  <2> QED
    BY <2>4, <2>5
<1>4. <<>> \in T
  BY <1>1
<1> HIDE DEF T
<1>5. s \in T
  BY <1>3, <1>4, SequenceInduction
<1> QED
  BY <1>5 DEF T

\* A text that the reader takes for one argument, s, that a space or the end ends.
ReadsAs(C, text, s) ==
  /\ text \in Seq(C)
  /\ \A a \in Seq(Seq(C)) : /\ EndWord(Read(C, Between(a), text)) = Between(Append(a, s))
                            /\ Read(C, Between(a), text).quoted = FALSE

LEMMA PlainReadsAs ==
  ASSUME NEW C, HasMarks(C), NEW s \in Seq(C), s # <<>>, ~NeedsQuotes(s)
  PROVE  ReadsAs(C, s, s)
<1> SUFFICES ASSUME NEW a \in Seq(Seq(C))
             PROVE  /\ EndWord(Read(C, Between(a), s)) = Between(Append(a, s))
                    /\ Read(C, Between(a), s).quoted = FALSE
  BY DEF ReadsAs
<1>0. PlainRead(C, a, s)
  BY PlainIsRead
<1>1. PICK w \in Seq(C), n \in Nat : /\ Read(C, Between(a), s) = Inside(a, w, No, n)
                                     /\ w \o Repeat(Backslash, n) = s
  BY <1>0, Zenon DEF PlainRead
<1>2. EndWord(Inside(a, w, No, n)) = Between(Append(a, w \o Repeat(Backslash, n)))
  BY EndOfInside
<1>3. Inside(a, w, No, n).quoted = FALSE
  BY DEF Inside, No
<1> QED
  BY <1>1, <1>2, <1>3

LEMMA QuotedReadsAs ==
  ASSUME NEW C, HasMarks(C), NEW s \in Seq(C),
         NEW extra \in Nat, extra = 1 \/ ~Contains(s, Quote)
  PROVE  ReadsAs(C, InQuotes(Escaped(s, extra).out, 2 * Escaped(s, extra).slashes), s)
<1> DEFINE text == InQuotes(Escaped(s, extra).out, 2 * Escaped(s, extra).slashes)
<1>1. \A a \in Seq(Seq(C)) : text \in Seq(C) /\ Read(C, Between(a), text) = Behind(a, s)
  BY QuotedIsRead
<1>2. <<>> \in Seq(Seq(C))
  BY EmptySeq
<1> HIDE DEF text
<1>3. ASSUME NEW a \in Seq(Seq(C))
      PROVE  /\ EndWord(Read(C, Between(a), text)) = Between(Append(a, s))
             /\ Read(C, Between(a), text).quoted = FALSE
  <2>1. Behind(a, s).quoted = FALSE
    BY DEF Behind
  <2> QED
    BY <1>1, <2>1, EndOfBehind
<1> QED
  BY <1>1, <1>2, <1>3 DEF ReadsAs, text

LEMMA QuoteArgReads ==
  ASSUME NEW C, HasMarks(C), NEW s \in Seq(C)
  PROVE  ReadsAs(C, QuoteArg(s), s)
<1>1. CASE s # <<>> /\ ~NeedsQuotes(s)
  <2>1. QuoteArg(s) = s
    BY <1>1, Zenon DEF QuoteArg
  <2> QED
    BY <1>1, <2>1, PlainReadsAs
<1>2. CASE ~(s # <<>> /\ ~NeedsQuotes(s))
  <2>1. QuoteArg(s) = InQuotes(Escaped(s, 1).out, 2 * Escaped(s, 1).slashes)
    BY <1>2, Zenon DEF QuoteArg
  <2> QED
    BY <2>1, QuotedReadsAs
<1> QED
  BY <1>1, <1>2

LEMMA QuoteProcessArgumentReads ==
  ASSUME NEW C, HasMarks(C), NEW s \in Seq(C), s # <<>>, ~Contains(s, Quote)
  PROVE  ReadsAs(C, QuoteProcessArgument(s), s)
<1>1. CASE ~NeedsQuotes(s)
  <2>1. QuoteProcessArgument(s) = s
    BY <1>1, Zenon DEF QuoteProcessArgument
  <2> QED
    BY <1>1, <2>1, PlainReadsAs
<1>2. CASE NeedsQuotes(s)
  <2>1. QuoteProcessArgument(s) = InQuotes(Escaped(s, 2).out, 2 * Escaped(s, 2).slashes)
    BY <1>2, Zenon DEF QuoteProcessArgument
  <2> QED
    BY <2>1, QuotedReadsAs
<1> QED
  BY <1>1, <1>2


-----------------------------------------------------------------------------
(* A line of arguments.                                                    *)

Pieces(ws) == [k \in DOMAIN ws |-> (IF k = 1 THEN <<>> ELSE <<Space>>) \o ws[k]]

LEMMA PiecesFacts ==
  ASSUME NEW C, Space \in C, NEW ws \in Seq(Seq(C))
  PROVE  /\ Pieces(ws) \in Seq(Seq(C)) /\ Len(Pieces(ws)) = Len(ws)
         /\ \A k \in 1..Len(ws) : Pieces(ws)[k] = (IF k = 1 THEN <<>> ELSE <<Space>>) \o ws[k]
<1>1. PICK n \in Nat : Len(ws) = n /\ DOMAIN ws = 1..n
  BY LenProperties
<1> DEFINE p == Pieces(ws)
<1>2. p = [k \in 1..n |-> (IF k = 1 THEN <<>> ELSE <<Space>>) \o ws[k]]
  BY <1>1 DEF Pieces
<1>3. \A k \in 1..n : (IF k = 1 THEN <<>> ELSE <<Space>>) \o ws[k] \in Seq(C)
  <2> TAKE k \in 1..n
  <2>1. ws[k] \in Seq(C)
    BY <1>1, ElementOfSeq
  <2>2. <<>> \in Seq(C) /\ <<Space>> \in Seq(C)
    BY EmptySeq
  <2>3. PICK m : m = IF k = 1 THEN <<>> ELSE <<Space>>
    OBVIOUS
  <2>4. m \in Seq(C)
    BY <2>2, <2>3
  <2>5. m \o ws[k] \in Seq(C)
    BY <2>1, <2>4, ConcatProperties
  <2> QED
    BY <2>3, <2>5
<1> HIDE DEF p
<1>4. p \in [1..n -> Seq(C)]
  BY <1>2, <1>3
<1>5. p \in Seq(Seq(C)) /\ Len(p) = n
  BY <1>4
<1> QED
  BY <1>1, <1>2, <1>5 DEF p

LEMMA JoinedFacts ==
  ASSUME NEW C, Space \in C
  PROVE  /\ Joined(<<>>) = <<>>
         /\ \A ws \in Seq(Seq(C)) : Joined(ws) \in Seq(C)
         /\ \A ws \in Seq(Seq(C)), w \in Seq(C) :
               Joined(Append(ws, w)) = IF ws = <<>> THEN w ELSE Joined(ws) \o (<<Space>> \o w)
<1>1. \A ws : Joined(ws) = FlattenSeq(Pieces(ws))
  BY Zenon DEF Joined, Pieces
<1>2. /\ FlattenSeq(<<>>) = <<>>
      /\ \A ws \in Seq(Seq(C)) : FlattenSeq(ws) \in Seq(C)
      /\ \A ws \in Seq(Seq(C)), w \in Seq(C) : FlattenSeq(Append(ws, w)) = FlattenSeq(ws) \o w
  BY FlattenFacts
<1>3. Pieces(<<>>) = <<>> /\ <<>> \in Seq(Seq(C))
  <2>1. Pieces(<<>>) \in Seq(Seq(C)) /\ Len(Pieces(<<>>)) = Len(<<>>)
    BY PiecesFacts, EmptySeq
  <2> QED
    BY <2>1, EmptySeq
<1>4. \A ws \in Seq(Seq(C)) : Joined(ws) \in Seq(C)
  BY <1>1, <1>2, PiecesFacts
<1>5. ASSUME NEW ws \in Seq(Seq(C)), NEW w \in Seq(C)
      PROVE  Joined(Append(ws, w)) = IF ws = <<>> THEN w ELSE Joined(ws) \o (<<Space>> \o w)
  <2>1. PICK n \in Nat : Len(ws) = n
    BY LenProperties
  <2> DEFINE us == Append(ws, w)
             p == Pieces(ws)
             q == Pieces(us)
             l == (IF n = 0 THEN <<>> ELSE <<Space>>) \o w
  <2>2. us \in Seq(Seq(C)) /\ Len(us) = n + 1 /\ us[n + 1] = w /\ \A k \in 1..n : us[k] = ws[k]
    BY <2>1, AppendProperties
  <2> HIDE DEF us
  <2>3. /\ p \in Seq(Seq(C)) /\ Len(p) = n
        /\ \A k \in 1..n : p[k] = (IF k = 1 THEN <<>> ELSE <<Space>>) \o ws[k]
    BY <2>1, PiecesFacts
  <2>4. /\ q \in Seq(Seq(C)) /\ Len(q) = n + 1
        /\ \A k \in 1..(n + 1) : q[k] = (IF k = 1 THEN <<>> ELSE <<Space>>) \o us[k]
    BY <2>2, PiecesFacts
  <2> HIDE DEF p, q
  <2>5. l \in Seq(C)
    <3>1. <<>> \in Seq(C) /\ <<Space>> \in Seq(C)
      BY EmptySeq
    <3>2. PICK m : m = IF n = 0 THEN <<>> ELSE <<Space>>
      OBVIOUS
    <3>3. m \in Seq(C)
      BY <3>1, <3>2
    <3>4. m \o w \in Seq(C)
      BY <3>3, ConcatProperties
    <3> QED
      BY <3>2, <3>4
  <2>6. q[n + 1] = l /\ \A k \in 1..n : q[k] = p[k]
    <3>1. n + 1 \in 1..(n + 1) /\ (n + 1 = 1 <=> n = 0) /\ \A k \in 1..n : k \in 1..(n + 1)
      OBVIOUS
    <3>2. q[n + 1] = (IF n + 1 = 1 THEN <<>> ELSE <<Space>>) \o us[n + 1]
      BY <2>4, <3>1
    <3>3. \A k \in 1..n : q[k] = (IF k = 1 THEN <<>> ELSE <<Space>>) \o us[k]
      BY <2>4, <3>1
    <3>4. (IF n + 1 = 1 THEN <<>> ELSE <<Space>>) = (IF n = 0 THEN <<>> ELSE <<Space>>)
      BY <3>1
    <3>5. q[n + 1] = l
      BY <2>2, <3>2, <3>4, Zenon
    <3>6. ASSUME NEW k \in 1..n
          PROVE  q[k] = p[k]
      <4>1. us[k] = ws[k] /\ p[k] = (IF k = 1 THEN <<>> ELSE <<Space>>) \o ws[k]
        BY <2>2, <2>3
      <4>2. q[k] = (IF k = 1 THEN <<>> ELSE <<Space>>) \o us[k]
        BY <3>3
      <4> QED
        BY <4>1, <4>2, Zenon
    <3> QED
      BY <3>5, <3>6
  <2> HIDE DEF l
  <2>7. q = Append(p, l)
    <3> DEFINE r == Append(p, l)
    <3>1. r \in Seq(Seq(C)) /\ Len(r) = n + 1 /\ r[n + 1] = l /\ \A k \in 1..n : r[k] = p[k]
      BY <2>3, <2>5, AppendProperties
    <3> HIDE DEF r
    <3>2. \A k \in 1..(n + 1) : q[k] = r[k]
      <4> TAKE k \in 1..(n + 1)
      <4>1. k \in 1..n \/ k = n + 1
        OBVIOUS
      <4> QED
        BY <2>6, <3>1, <4>1
    <3>3. q = r
      BY <2>4, <3>1, <3>2, SeqEqual
    <3> QED
      BY <3>3 DEF r
  <2>8. Joined(us) = FlattenSeq(p) \o l /\ FlattenSeq(p) = Joined(ws)
    BY <1>1, <1>2, <2>3, <2>5, <2>7 DEF p, q
  <2>9. CASE n = 0
    <3>1. ws = <<>> /\ p = <<>>
      BY <2>1, <2>3, <2>9, EmptySeq
    <3>2. <<>> \o w = w
      BY ConcatEmptySeq
    <3>3. l = w
      BY <2>9, <3>2 DEF l
    <3> QED
      BY <1>2, <2>8, <3>1, <3>2, <3>3 DEF us
  <2>10. CASE n # 0
    <3>1. ws # <<>> /\ l = <<Space>> \o w
      BY <2>1, <2>10, EmptySeq DEF l
    <3> QED
      BY <2>8, <3>1 DEF us
  <2> QED
    BY <2>9, <2>10
<1> QED
  BY <1>1, <1>2, <1>3, <1>4, <1>5

\* Texts that are read as these arguments.
Texts(C, ts, ws) ==
  ts \in Seq(Seq(C)) /\ Len(ts) = Len(ws) /\ \A k \in 1..Len(ws) : ReadsAs(C, ts[k], ws[k])

LineRead(C, line, ws) ==
  /\ line \in Seq(C)
  /\ EndWord(Read(C, Start, line)) = Between(ws)
  /\ Read(C, Start, line).quoted = FALSE

LEMMA LineIsRead ==
  ASSUME NEW C, HasMarks(C), NEW ws \in Seq(Seq(C)), NEW ts, Texts(C, ts, ws)
  PROVE  LineRead(C, Joined(ts), ws)
<1> DEFINE T == {us \in Seq(Seq(C)) : \A vs : Texts(C, vs, us) => LineRead(C, Joined(vs), us)}
<1>1. /\ Joined(<<>>) = <<>>
      /\ \A us \in Seq(Seq(C)) : Joined(us) \in Seq(C)
      /\ \A us \in Seq(Seq(C)), w \in Seq(C) :
            Joined(Append(us, w)) = IF us = <<>> THEN w ELSE Joined(us) \o (<<Space>> \o w)
  BY JoinedFacts DEF HasMarks
<1>2. Start \in ReaderStates(C) /\ Start = Between(<<>>) /\ Start.quoted = FALSE
  BY StartTyped DEF Start, Between
<1>3. <<>> \in T
  <2>1. ASSUME NEW vs, Texts(C, vs, <<>>)
        PROVE  LineRead(C, Joined(vs), <<>>)
    <3>1. vs = <<>> /\ <<>> \in Seq(C)
      BY <2>1, EmptySeq DEF Texts
    <3>2. Read(C, Start, <<>>) = Start
      BY <1>2, <3>1, ReadTyped
    <3>3. EndWord(Start) = Between(<<>>)
      BY <1>2, EndOfBetween
    <3> QED
      BY <1>1, <1>2, <3>1, <3>2, <3>3 DEF LineRead
  <2> QED
    BY <2>1, EmptySeq
<1>4. ASSUME NEW us \in Seq(Seq(C)), NEW w \in Seq(C), us \in T
      PROVE  Append(us, w) \in T
  <2> DEFINE xs == Append(us, w)
  <2>1. PICK n \in Nat : Len(us) = n
    BY LenProperties
  <2>2. xs \in Seq(Seq(C)) /\ Len(xs) = n + 1 /\ xs[n + 1] = w /\ \A k \in 1..n : xs[k] = us[k]
    BY <2>1, AppendProperties
  <2>3. ASSUME NEW vs, Texts(C, vs, xs)
        PROVE  LineRead(C, Joined(vs), xs)
    <3> HIDE DEF xs
    <3>1. vs \in Seq(Seq(C)) /\ Len(vs) = n + 1 /\ \A k \in 1..(n + 1) : ReadsAs(C, vs[k], xs[k])
      BY <2>2, <2>3 DEF Texts
    <3>2. PICK rs \in Seq(Seq(C)), t \in Seq(C) : vs = Append(rs, t)
      <4>1. vs # <<>>
        BY <3>1, EmptySeq
      <4> QED
        BY <3>1, <4>1, SequenceEmptyOrAppend
    <3>3. Len(rs) = n /\ vs[n + 1] = t /\ \A k \in 1..n : vs[k] = rs[k]
      <4>1. PICK m \in Nat : Len(rs) = m
        BY LenProperties
      <4>2. Len(vs) = m + 1 /\ vs[m + 1] = t /\ \A k \in 1..m : vs[k] = rs[k]
        BY <3>2, <4>1, AppendProperties
      <4>3. m = n
        BY <3>1, <4>2
      <4> QED
        BY <4>1, <4>2, <4>3
    <3>4. Texts(C, rs, us)
      <4>1. ASSUME NEW k \in 1..n
            PROVE  ReadsAs(C, rs[k], us[k])
        <5>1. k \in 1..(n + 1) /\ vs[k] = rs[k] /\ xs[k] = us[k]
          BY <2>2, <3>3
        <5>2. ReadsAs(C, vs[k], xs[k])
          BY <3>1, <5>1
        <5> QED
          BY <5>1, <5>2
      <4> QED
        BY <2>1, <3>3, <4>1 DEF Texts
    <3>5. ReadsAs(C, t, w)
      BY <2>2, <3>1, <3>3
    <3>6. LineRead(C, Joined(rs), us)
      BY <1>4, <3>4
    <3> DEFINE a == Joined(rs)
    <3>7. a \in Seq(C) /\ EndWord(Read(C, Start, a)) = Between(us) /\ Read(C, Start, a).quoted = FALSE
      BY <3>6 DEF LineRead
    <3>8. Joined(vs) = IF rs = <<>> THEN t ELSE a \o (<<Space>> \o t)
      BY <1>1, <3>2
    <3> HIDE DEF a
    <3>9. Joined(vs) \in Seq(C) /\ Read(C, Start, Joined(vs)) = Read(C, Between(us), t)
      <4>1. Joined(vs) \in Seq(C)
        BY <1>1, <3>1
      <4>2. CASE rs = <<>>
        <5>1. us = <<>>
          BY <2>1, <3>3, <4>2, EmptySeq
        <5> QED
          BY <1>2, <3>8, <4>1, <4>2, <5>1
      <4>3. CASE rs # <<>>
        <5>1. /\ <<Space>> \in Seq(C) /\ <<>> \in Seq(C) /\ <<Space>> = Append(<<>>, Space)
          BY EmptySeq, ConcatAppend DEF HasMarks
        <5>2. <<Space>> \o t \in Seq(C)
          BY <5>1, ConcatProperties
        <5> DEFINE st == Read(C, Start, a)
        <5>3. st \in ReaderStates(C)
          BY <1>2, <3>7, ReadTyped
        <5>4. Read(C, Start, a \o (<<Space>> \o t)) = Read(C, st, <<Space>> \o t)
          BY <1>2, <3>7, <5>2, ReadConcat
        <5>5. Between(us) \in ReaderStates(C)
          BY <5>1, PlacesTyped
        <5> HIDE DEF st
        <5>6. Read(C, st, <<Space>> \o t) = Read(C, Read(C, st, <<Space>>), t)
          BY <5>1, <5>3, ReadConcat
        <5>7. Read(C, st, <<Space>>) = Between(us)
          <6>1. Read(C, st, Append(<<>>, Space)) = TakeChar(Read(C, st, <<>>), Space)
            BY <5>1, <5>3, ReadAppend DEF HasMarks
          <6>2. Read(C, st, <<>>) = st
            BY <5>1, <5>3, ReadTyped
          <6>3. TakeChar(st, Space) = EndWord(st)
            BY <3>7, SpaceEnds DEF st
          <6> QED
            BY <3>7, <5>1, <6>1, <6>2, <6>3 DEF st
        <5> QED
          BY <3>8, <4>1, <4>3, <5>4, <5>6, <5>7
      <4> QED
        BY <4>2, <4>3
    <3> QED
      BY <3>5, <3>9 DEF LineRead, ReadsAs, xs
  <2> QED
    BY <2>2, <2>3
<1> HIDE DEF T
<1>5. ws \in T
  BY <1>3, <1>4, SequenceInduction
<1> QED
  BY <1>5 DEF T


LEMMA ArgvOfTexts ==
  ASSUME NEW C, HasMarks(C), NEW ws \in Seq(Seq(C)), NEW ts, Texts(C, ts, ws)
  PROVE  ToArgv(Joined(ts)) = ws
<1>1. Joined(ts) \in Seq(C) /\ EndWord(Read(C, Start, Joined(ts))) = Between(ws)
  BY LineIsRead DEF LineRead
<1>2. ToArgv(Joined(ts)) = EndWord(Read(C, Start, Joined(ts))).args
  BY <1>1, ToArgvReads
<1> QED
  BY <1>1, <1>2 DEF Between

QuotedArgs(ws) == [k \in DOMAIN ws |-> QuoteArg(ws[k])]

LEMMA QuotedArgsAreTexts ==
  ASSUME NEW C, HasMarks(C), NEW ws \in Seq(Seq(C))
  PROVE  Texts(C, QuotedArgs(ws), ws) /\ \A k \in 1..Len(ws) : QuotedArgs(ws)[k] = QuoteArg(ws[k])
<1>1. PICK n \in Nat : Len(ws) = n /\ DOMAIN ws = 1..n
  BY LenProperties
<1>2. \A k \in 1..n : ReadsAs(C, QuoteArg(ws[k]), ws[k])
  BY <1>1, ElementOfSeq, QuoteArgReads
<1>3. \A k \in 1..n : QuoteArg(ws[k]) \in Seq(C)
  BY <1>2 DEF ReadsAs
<1> DEFINE ts == QuotedArgs(ws)
<1>4. ts \in [1..n -> Seq(C)] /\ \A k \in 1..n : ts[k] = QuoteArg(ws[k])
  BY <1>1, <1>3 DEF QuotedArgs
<1> HIDE DEF ts
<1>5. ts \in Seq(Seq(C)) /\ Len(ts) = n
  BY <1>4
<1> QED
  BY <1>1, <1>2, <1>4, <1>5 DEF Texts, ts

ProcessArgs(ws) == [k \in DOMAIN ws |-> QuoteProcessArgument(ws[k])]

LEMMA ProcessArgsAreTexts ==
  ASSUME NEW C, HasMarks(C), NEW ws \in Seq(Seq(C)),
         \A k \in DOMAIN ws : ws[k] # <<>> /\ ~Contains(ws[k], Quote)
  PROVE  Texts(C, ProcessArgs(ws), ws)
<1>1. PICK n \in Nat : Len(ws) = n /\ DOMAIN ws = 1..n
  BY LenProperties
<1>2. \A k \in 1..n : ReadsAs(C, QuoteProcessArgument(ws[k]), ws[k])
  BY <1>1, ElementOfSeq, QuoteProcessArgumentReads
<1>3. \A k \in 1..n : QuoteProcessArgument(ws[k]) \in Seq(C)
  BY <1>2 DEF ReadsAs
<1> DEFINE ts == ProcessArgs(ws)
<1>4. ts \in [1..n -> Seq(C)] /\ \A k \in 1..n : ts[k] = QuoteProcessArgument(ws[k])
  BY <1>1, <1>3 DEF ProcessArgs
<1> HIDE DEF ts
<1>5. ts \in Seq(Seq(C)) /\ Len(ts) = n
  BY <1>4
<1> QED
  BY <1>1, <1>2, <1>4, <1>5 DEF Texts, ts

-----------------------------------------------------------------------------
(* The name of the program.                                                *)

LEMMA FirstPart ==
  ASSUME NEW C, NEW w \in Seq(C), NEW r \in Seq(C), NEW e, ~Contains(w, e), r # <<>>, r[1] = e
  PROVE  FirstOf(w \o r, e) = Len(w) + 1 /\ SubSeq(w \o r, 1, Len(w)) = w
<1>1. PICK m \in Nat : Len(w) = m
  BY LenProperties
<1>2. PICK n \in Nat : Len(r) = n /\ n # 0
  BY LenProperties, EmptySeq
<1> DEFINE s == w \o r
<1>3. s \in Seq(C) /\ Len(s) = m + n /\ \A i \in 1..(m + n) : s[i] = IF i <= m THEN w[i] ELSE r[i - m]
  BY <1>1, <1>2, ConcatProperties
<1>4. SubSeq(s, 1, m) = w
  BY <1>1, Cut
<1> HIDE DEF s
<1>5. s[m + 1] = e /\ \A i \in 1..m : s[i] # e
  <2>1. m + 1 \in 1..(m + n) /\ ~ (m + 1 <= m) /\ (m + 1) - m = 1
    BY <1>2
  <2>2. s[m + 1] = r[1]
    BY <1>3, <2>1
  <2>3. ASSUME NEW i \in 1..m
        PROVE  s[i] # e
    <3>1. i \in 1..(m + n) /\ i <= m
      BY <1>2
    <3>2. s[i] = w[i]
      BY <1>3, <3>1
    <3> QED
      BY <1>1, <3>2 DEF Contains
  <2> QED
    BY <2>2, <2>3
<1>6. FirstAt(s, e, m + 1)
  <2>1. m + 1 \in 1..Len(s) /\ (m + 1) - 1 = m
    BY <1>2, <1>3
  <2> QED
    BY <1>5, <2>1 DEF FirstAt
<1>7. FirstOf(s, e) = m + 1
  BY <1>3, <1>6, FirstIsUnique
<1> QED
  BY <1>1, <1>4, <1>7 DEF s

LEMMA TailOfConcat ==
  ASSUME NEW C, NEW c \in C, NEW x \in Seq(C)
  PROVE  Tail(<<c>> \o x) = x /\ (<<c>> \o x)[1] = c
<1>1. <<c>> \in Seq(C) /\ Len(<<c>>) = 1 /\ <<c>>[1] = c
  OBVIOUS
<1>2. PICK n \in Nat : Len(x) = n
  BY LenProperties
<1> DEFINE a == <<c>>
           s == a \o x
<1> HIDE DEF a
<1>3. s \in Seq(C) /\ Len(s) = 1 + n /\ \A i \in 1..(1 + n) : s[i] = IF i <= 1 THEN a[i] ELSE x[i - 1]
  BY <1>1, <1>2, ConcatProperties DEF a
<1>4. SubSeq(s, Len(a) + 1, Len(s)) = x
  BY <1>1, Cut DEF a
<1> HIDE DEF s
<1>5. s # <<>> /\ Len(a) + 1 = 2
  BY <1>1, <1>3, EmptySeq DEF a
<1>6. Tail(s) = SubSeq(s, 2, Len(s))
  BY <1>3, <1>5, TailIsSubSeq
<1>7. s[1] = c
  BY <1>1, <1>3 DEF a
<1> QED
  BY <1>4, <1>5, <1>6, <1>7 DEF s, a

\* A line begins with its first text, and a space follows it.
BeginsWith(C, line, text) ==
  \E rest \in Seq(C) : line = text \o rest /\ (rest = <<>> \/ rest[1] = Space)

LEMMA BeginsStill ==
  ASSUME NEW C, NEW x \in Seq(C), NEW rest \in Seq(C), rest = <<>> \/ rest[1] = Space,
         NEW l \in Seq(C), l # <<>>, l[1] = Space
  PROVE  BeginsWith(C, (x \o rest) \o l, x)
<1>1. PICK m \in Nat : Len(rest) = m
  BY LenProperties
<1>2. PICK j \in Nat : Len(l) = j /\ j # 0
  BY LenProperties, EmptySeq
<1> DEFINE r == rest \o l
<1>3. r \in Seq(C) /\ Len(r) = m + j /\ \A i \in 1..(m + j) : r[i] = IF i <= m THEN rest[i] ELSE l[i - m]
  BY <1>1, <1>2, ConcatProperties
<1>4. (x \o rest) \o l = x \o r
  BY ConcatAssociative
<1> HIDE DEF r
<1>5. r[1] = Space
  <2>1. 1 \in 1..(m + j) /\ (1 <= m <=> m # 0) /\ (m = 0 => 1 - m = 1)
    BY <1>2
  <2>2. CASE m = 0
    BY <1>3, <2>1, <2>2
  <2>3. CASE m # 0
    <3>1. rest # <<>>
      BY <1>1, <2>3, EmptySeq
    <3> QED
      BY <1>3, <2>1, <2>3, <3>1
  <2> QED
    BY <2>2, <2>3
<1> QED
  BY <1>3, <1>4, <1>5 DEF BeginsWith

LEMMA JoinedBegins ==
  ASSUME NEW C, Space \in C, NEW ts \in Seq(Seq(C)), ts # <<>>
  PROVE  BeginsWith(C, Joined(ts), ts[1])
<1> DEFINE T == {us \in Seq(Seq(C)) : us = <<>> \/ BeginsWith(C, Joined(us), us[1])}
<1>1. /\ \A us \in Seq(Seq(C)) : Joined(us) \in Seq(C)
      /\ \A us \in Seq(Seq(C)), w \in Seq(C) :
            Joined(Append(us, w)) = IF us = <<>> THEN w ELSE Joined(us) \o (<<Space>> \o w)
  BY JoinedFacts
<1>2. <<>> \in T
  BY EmptySeq
<1>3. ASSUME NEW us \in Seq(Seq(C)), NEW w \in Seq(C), us \in T
      PROVE  Append(us, w) \in T
  <2> DEFINE vs == Append(us, w)
  <2>1. PICK n \in Nat : Len(us) = n
    BY LenProperties
  <2>2. vs \in Seq(Seq(C)) /\ vs[n + 1] = w /\ \A k \in 1..n : vs[k] = us[k]
    BY <2>1, AppendProperties
  <2>3. Joined(vs) = IF us = <<>> THEN w ELSE Joined(us) \o (<<Space>> \o w)
    BY <1>1
  <2> HIDE DEF vs
  <2>4. CASE us = <<>>
    <3>1. n + 1 = 1
      BY <2>1, <2>4, EmptySeq
    <3>2. <<>> \in Seq(C) /\ w = w \o <<>>
      BY EmptySeq, ConcatEmptySeq
    <3>3. vs[1] = w /\ Joined(vs) = w
      BY <2>2, <2>3, <2>4, <3>1
    <3>4. BeginsWith(C, Joined(vs), vs[1])
      BY <3>2, <3>3 DEF BeginsWith
    <3> QED
      BY <2>2, <3>4 DEF vs
  <2>5. CASE us # <<>>
    <3>1. PICK rest \in Seq(C) : Joined(us) = us[1] \o rest /\ (rest = <<>> \/ rest[1] = Space)
      BY <1>3, <2>5 DEF BeginsWith
    <3>2. n # 0
      BY <2>1, <2>5, EmptySeq
    <3>3. us[1] \in Seq(C) /\ vs[1] = us[1]
      BY <2>1, <2>2, <3>2, ElementOfSeq
    <3>4. PICK l \in Seq(C) : l = <<Space>> \o w /\ l # <<>> /\ l[1] = Space
      <4>1. <<Space>> \in Seq(C) /\ Len(<<Space>>) = 1
        OBVIOUS
      <4>2. <<Space>> \o w \in Seq(C) /\ (<<Space>> \o w)[1] = Space
        BY <4>1, ConcatProperties, TailOfConcat
      <4>3. Len(<<Space>> \o w) = 1 + Len(w) /\ Len(w) \in Nat
        BY <4>1, ConcatProperties, LenProperties
      <4>4. <<Space>> \o w # <<>>
        <5>1. PICK t \in Seq(C) : t = <<Space>> \o w
          BY <4>2
        <5> QED
          BY <4>3, <5>1, EmptySeq
      <4> QED
        BY <4>2, <4>4
    <3>5. PICK x \in Seq(C) : x = us[1]
      BY <3>3
    <3>6. BeginsWith(C, (x \o rest) \o l, x)
      BY <3>1, <3>4, BeginsStill
    <3>7. Joined(vs) = (x \o rest) \o l
      BY <2>3, <2>5, <3>1, <3>4, <3>5
    <3>8. BeginsWith(C, Joined(vs), vs[1])
      BY <3>3, <3>5, <3>6, <3>7
    <3> QED
      BY <2>2, <3>8 DEF vs
  <2> QED
    BY <2>4, <2>5
<1> HIDE DEF T
<1>4. ts \in T
  BY <1>2, <1>3, SequenceInduction
<1> QED
  BY <1>4 DEF T

\* Without a quote, the escaped characters and the backslashes still counted are
\* the argument; none are counted if it ends in another character.
EscapedPlain(s, e) ==
  /\ e.out \o Repeat(Backslash, e.slashes) = s
  /\ s = <<>> \/ s[Len(s)] # Backslash => e.slashes = 0

LEMMA EscapedNoQuote ==
  ASSUME NEW C, HasMarks(C), NEW s \in Seq(C), ~Contains(s, Quote)
  PROVE  EscapedPlain(s, Escaped(s, 1))
<1> DEFINE T == {u \in Seq(C) : ~Contains(u, Quote) => EscapedPlain(u, Escaped(u, 1))}
<1>1. /\ Escaped(<<>>, 1) = EscapeStart
      /\ \A u \in Seq(C) : Escaped(u, 1) \in EscapeStates(C)
      /\ \A u \in Seq(C), c \in C : Escaped(Append(u, c), 1) = Escape(Escaped(u, 1), c, 1)
  BY EscapedFacts
<1>2. <<>> \in T
  <2>1. Repeat(Backslash, 0) = <<>> /\ <<>> \o <<>> = <<>> /\ <<>> \in Seq(C)
    BY EmptySeq, RepeatFacts, ConcatEmptySeq DEF HasMarks
  <2>2. EscapeStart.out = <<>> /\ EscapeStart.slashes = 0
    BY DEF EscapeStart
  <2>3. EscapedPlain(<<>>, EscapeStart)
    BY <2>1, <2>2 DEF EscapedPlain
  <2> QED
    BY <1>1, <2>1, <2>3
<1>3. ASSUME NEW u \in Seq(C), NEW c \in C, u \in T
      PROVE  Append(u, c) \in T
  <2> DEFINE v == Append(u, c)
             e == Escaped(u, 1)
             d == Escape(e, c, 1)
  <2>1. PICK n \in Nat : Len(u) = n
    BY LenProperties
  <2>2. v \in Seq(C) /\ Len(v) = n + 1 /\ v[n + 1] = c /\ \A i \in 1..n : v[i] = u[i]
    BY <2>1, AppendProperties
  <2>3. e \in EscapeStates(C) /\ Escaped(v, 1) = d
    BY <1>1
  <2>4. v # <<>> /\ v[Len(v)] = c
    BY <2>1, <2>2, EmptySeq
  <2> SUFFICES ASSUME ~Contains(v, Quote)
               PROVE  EscapedPlain(v, Escaped(v, 1))
    BY <2>2
  <2> HIDE DEF v, e
  <2>5. ~Contains(u, Quote) /\ c # Quote
    BY <2>1, <2>2 DEF Contains
  <2>6. e.out \o Repeat(Backslash, e.slashes) = u
    BY <1>3, <2>5 DEF EscapedPlain, e
  <2>7. e.out \in Seq(C) /\ e.slashes \in Nat
    BY <2>3 DEF EscapeStates
  <2> HIDE DEF d
  <2>8. EscapesTo(e, c, 1, d)
    BY <2>3, EscapeValues DEF d
  <2>9. CASE c = Backslash
    <3>1. d.out = e.out /\ d.slashes = e.slashes + 1
      BY <2>8, <2>9 DEF EscapesTo
    <3>2. /\ Repeat(Backslash, e.slashes) \in Seq(C)
          /\ Repeat(Backslash, e.slashes + 1) = Append(Repeat(Backslash, e.slashes), Backslash)
      BY <2>7, RepeatFacts DEF HasMarks
    <3>3. e.out \o Append(Repeat(Backslash, e.slashes), Backslash)
            = Append(e.out \o Repeat(Backslash, e.slashes), Backslash)
      <4>1. PICK x \in Seq(C) : x = e.out
        BY <2>7
      <4>2. PICK y \in Seq(C) : y = Repeat(Backslash, e.slashes)
        BY <3>2
      <4>3. x \o Append(y, Backslash) = Append(x \o y, Backslash)
        BY ConcatAppend DEF HasMarks
      <4> QED
        BY <4>1, <4>2, <4>3
    <3>4. d.out \o Repeat(Backslash, d.slashes) = v
      BY <2>6, <2>9, <3>1, <3>2, <3>3 DEF v
    <3> QED
      BY <2>3, <2>4, <2>9, <3>4 DEF EscapedPlain
  <2>10. CASE c # Backslash
    <3>1. d.out = Append(e.out \o Repeat(Backslash, e.slashes), c) /\ d.slashes = 0
      BY <2>5, <2>8, <2>10 DEF EscapesTo
    <3>2. d.out = v
      BY <2>6, <3>1 DEF v
    <3>3. v \o Repeat(Backslash, 0) = v
      BY <2>2, RepeatFacts, ConcatEmptySeq DEF HasMarks
    <3> QED
      BY <2>3, <3>1, <3>2, <3>3 DEF EscapedPlain
  <2> QED
    BY <2>9, <2>10
<1> HIDE DEF T
<1>4. s \in T
  BY <1>2, <1>3, SequenceInduction
<1> QED
  BY <1>4 DEF T

\* A program's name keeps its characters, inside quotes if it has a space.
LEMMA QuotedProgram ==
  ASSUME NEW C, HasMarks(C), NEW w \in Seq(C), IsProgram(w)
  PROVE  QuoteArg(w) = IF Contains(w, Space) THEN Append(<<Quote>> \o w, Quote) ELSE w
<1>1. w # <<>> /\ ~Contains(w, Quote) /\ w[Len(w)] # Backslash
  BY DEF IsProgram, Last
<1>2. CASE ~Contains(w, Space)
  <2>1. QuoteArg(w) = w
    BY <1>1, <1>2, Zenon DEF QuoteArg, NeedsQuotes
  <2> QED
    BY <1>2, <2>1
<1>3. CASE Contains(w, Space)
  <2> DEFINE e == Escaped(w, 1)
  <2>1. QuoteArg(w) = <<Quote>> \o e.out \o Repeat(Backslash, 2 * e.slashes) \o <<Quote>>
    BY <1>3, Zenon DEF QuoteArg, NeedsQuotes, InQuotes
  <2>2. EscapedPlain(w, e)
    BY <1>1, EscapedNoQuote
  <2>3. e \in EscapeStates(C)
    BY EscapedFacts
  <2> HIDE DEF e
  <2>4. e.out \o Repeat(Backslash, e.slashes) = w /\ e.slashes = 0
    BY <1>1, <2>2 DEF EscapedPlain
  <2>5. e.out \in Seq(C)
    BY <2>3 DEF EscapeStates
  <2>6. Repeat(Backslash, 0) = <<>>
    BY RepeatFacts DEF HasMarks
  <2>7. e.out = w
    BY <2>4, <2>5, <2>6, ConcatEmptySeq
  <2>8. <<Quote>> \in Seq(C) /\ Quote \in C
    BY DEF HasMarks
  <2> DEFINE h == <<Quote>> \o w
  <2>9. h \in Seq(C)
    BY <2>8, ConcatProperties
  <2>10. QuoteArg(w) = h \o Repeat(Backslash, 0) \o <<Quote>>
    <3>1. 2 * e.slashes = 0
      BY <2>4
    <3> QED
      BY <2>1, <2>7, <3>1
  <2> HIDE DEF h
  <2>11. h \o Repeat(Backslash, 0) = h
    BY <2>6, <2>9, ConcatEmptySeq
  <2>12. h \o <<Quote>> = Append(h, Quote)
    BY <2>8, <2>9, ConcatAppend
  <2>13. QuoteArg(w) = Append(h, Quote)
    BY <2>10, <2>11, <2>12
  <2> QED
    BY <1>3, <2>13 DEF h
<1> QED
  BY <1>2, <1>3

LEMMA ProgramIsFirst ==
  ASSUME NEW C, HasMarks(C), NEW w \in Seq(C), IsProgram(w), NEW line,
         BeginsWith(C, line, QuoteArg(w))
  PROVE  ProgramName(line) = w
<1>0. \A x, y, z \in Seq(C) : (x \o y) \o z = x \o (y \o z)
  BY ConcatAssociative
<1>1. PICK rest \in Seq(C) : line = QuoteArg(w) \o rest /\ (rest = <<>> \/ rest[1] = Space)
  BY DEF BeginsWith
<1>2. w # <<>> /\ ~Contains(w, Quote)
  BY DEF IsProgram
<1>3. PICK n \in Nat : Len(w) = n /\ n # 0
  BY <1>2, LenProperties, EmptySeq
<1>4. CASE Contains(w, Space)
  <2> DEFINE q == <<Quote>>
             r == q \o rest
             t == w \o r
  <2>1. q \in Seq(C) /\ Quote \in C
    BY DEF HasMarks
  <2>2. r \in Seq(C) /\ r # <<>> /\ r[1] = Quote
    <3>1. r \in Seq(C) /\ r[1] = Quote
      BY <2>1, ConcatProperties, TailOfConcat
    <3>2. PICK m \in Nat : Len(rest) = m
      BY LenProperties
    <3>3. Len(q) = 1 /\ Len(r) = Len(q) + Len(rest)
      BY <2>1, ConcatProperties
    <3> HIDE DEF r, q
    <3>4. r # <<>>
      BY <3>1, <3>2, <3>3, EmptySeq
    <3> QED
      BY <3>1, <3>4
  <2>3. line = q \o t
    <3>1. QuoteArg(w) = Append(q \o w, Quote)
      BY <1>4, QuotedProgram
    <3>2. q \o w \in Seq(C)
      BY <2>1, ConcatProperties
    <3> DEFINE h == q \o w
    <3> HIDE DEF h
    <3>3. Append(h, Quote) = h \o q
      BY <2>1, <3>2, ConcatAppend DEF h
    <3> HIDE DEF q
    <3>4. (h \o q) \o rest = h \o (q \o rest)
      BY <1>0, <2>1, <3>2 DEF h
    <3>5. (q \o w) \o r = q \o (w \o r)
      BY <1>0, <2>1, <2>2
    <3> QED
      BY <1>1, <3>1, <3>3, <3>4, <3>5 DEF h
  <2>4. t \in Seq(C)
    BY <2>2, ConcatProperties
  <2> HIDE DEF r
  <2>5. FirstOf(t, Quote) = n + 1 /\ SubSeq(t, 1, n) = w
    BY <1>2, <1>3, <2>2, FirstPart
  <2> HIDE DEF t
  <2>6. Tail(line) = t /\ line[1] = Quote
    BY <2>1, <2>3, <2>4, TailOfConcat
  <2>7. ProgramName(line) = IF FirstOf(t, Quote) = 0 THEN t ELSE SubSeq(t, 1, FirstOf(t, Quote) - 1)
    BY <2>6, Zenon DEF ProgramName, FirstOf, SelectInSeq
  <2>8. n + 1 # 0 /\ (n + 1) - 1 = n
    BY <1>3
  <2> QED
    BY <2>5, <2>7, <2>8
<1>5. CASE ~Contains(w, Space)
  <2>1. line = w \o rest /\ line \in Seq(C)
    <3>1. QuoteArg(w) = w
      BY <1>5, QuotedProgram
    <3>2. w \o rest \in Seq(C)
      BY ConcatProperties
    <3> QED
      BY <1>1, <3>1, <3>2
  <2>2. line[1] # Quote
    <3>1. PICK m \in Nat : Len(rest) = m
      BY LenProperties
    <3>2. \A i \in 1..(n + m) : (w \o rest)[i] = IF i <= n THEN w[i] ELSE rest[i - n]
      BY <1>3, <3>1, ConcatProperties
    <3>3. 1 \in 1..(n + m) /\ 1 <= n /\ 1 \in 1..n
      BY <1>3, <3>1
    <3>4. line[1] = w[1]
      BY <2>1, <3>2, <3>3
    <3> QED
      BY <1>2, <1>3, <3>3, <3>4 DEF Contains
  <2>3. ProgramName(line) = IF FirstOf(line, Space) = 0 THEN line
                            ELSE SubSeq(line, 1, FirstOf(line, Space) - 1)
    BY <2>2, Zenon DEF ProgramName, FirstOf, SelectInSeq
  <2>4. CASE rest = <<>>
    <3>1. line = w
      BY <2>1, <2>4, ConcatEmptySeq
    <3>2. FirstAt(w, Space, 0)
      BY <1>5 DEF FirstAt, Contains
    <3>3. FirstOf(w, Space) = 0
      BY <3>2, FirstIsUnique
    <3> QED
      BY <2>3, <3>1, <3>3
  <2>5. CASE rest # <<>>
    <3>1. FirstOf(line, Space) = n + 1 /\ SubSeq(line, 1, n) = w
      BY <1>1, <1>3, <1>5, <2>1, <2>5, FirstPart
    <3>2. n + 1 # 0 /\ (n + 1) - 1 = n
      BY <1>3
    <3> QED
      BY <2>3, <3>1, <3>2
  <2> QED
    BY <2>4, <2>5
<1> QED
  BY <1>4, <1>5

LEMMA ArgumentsOf ==
  ASSUME Input, kind = "arguments"
  PROVE  LET C == Alphabet["arguments"] \cup {Space, Quote, Backslash}
         IN  HasMarks(C) /\ words \in Seq(Seq(C))
<1> DEFINE A == Alphabet["arguments"]
           C == A \cup {Space, Quote, Backslash}
<1>1. words \in Seq(Seq(A)) /\ HasMarks(C) /\ A \subseteq C
  BY InputsOf DEF HasMarks
<1> HIDE DEF A, C
<1>2. Seq(A) \subseteq Seq(C)
  BY <1>1, SeqMonotonic
<1>3. Seq(Seq(A)) \subseteq Seq(Seq(C))
  BY <1>2, SeqMonotonic
<1> QED
  BY <1>1, <1>3 DEF A, C

\* The command that exec and silo exec start has exactly the arguments they were
\* given, and its program's name, for arguments of any letters, number and length.
THEOREM ArgumentsArriveHolds == Spec => []ArgumentsArrive
<1>1. Input => ArgumentsArrive
  <2> SUFFICES ASSUME Input, kind = "arguments", words # <<>>
               PROVE  /\ ToArgv(BuildCommandLine(words)) = words
                      /\ IsProgram(words[1]) => ProgramName(BuildCommandLine(words)) = words[1]
    BY Zenon DEF ArgumentsArrive
  <2> DEFINE C == Alphabet["arguments"] \cup {Space, Quote, Backslash}
  <2>1. HasMarks(C) /\ words \in Seq(Seq(C))
    BY ArgumentsOf
  <2> HIDE DEF C
  <2>2. Texts(C, QuotedArgs(words), words) /\ \A k \in 1..Len(words) : QuotedArgs(words)[k] = QuoteArg(words[k])
    BY <2>1, QuotedArgsAreTexts
  <2>3. BuildCommandLine(words) = Joined(QuotedArgs(words))
    BY Zenon DEF BuildCommandLine, QuotedArgs
  <2>4. ToArgv(Joined(QuotedArgs(words))) = words
    BY <2>1, <2>2, ArgvOfTexts
  <2>5. ASSUME IsProgram(words[1])
        PROVE  ProgramName(BuildCommandLine(words)) = words[1]
    <3> DEFINE ts == QuotedArgs(words)
    <3>1. PICK n \in Nat : Len(words) = n /\ n # 0
      BY <2>1, LenProperties, EmptySeq
    <3>2. PICK w \in Seq(C) : w = words[1]
      BY <2>1, <3>1, ElementOfSeq
    <3>3. ts \in Seq(Seq(C)) /\ Len(ts) = n
      BY <2>2, <3>1 DEF Texts
    <3>4. ts # <<>> /\ ts[1] = QuoteArg(w)
      BY <2>2, <3>1, <3>2, <3>3, EmptySeq
    <3> HIDE DEF ts
    <3>5. Space \in C
      BY <2>1 DEF HasMarks
    <3>6. BeginsWith(C, Joined(ts), ts[1])
      BY <3>3, <3>4, <3>5, JoinedBegins
    <3>7. IsProgram(w)
      BY <2>5, <3>2
    <3>8. ProgramName(Joined(ts)) = w
      <4>1. PICK line : line = Joined(ts)
        OBVIOUS
      <4>2. BeginsWith(C, line, QuoteArg(w))
        BY <3>4, <3>6, <4>1
      <4>3. ProgramName(line) = w
        BY <2>1, <3>7, <4>2, ProgramIsFirst
      <4> QED
        BY <4>1, <4>3
    <3> QED
      BY <2>3, <3>2, <3>8 DEF ts
  <2> QED
    BY <2>3, <2>4, <2>5
<1> QED
  BY <1>1, InputsAreWords, PTL

\* The GUI's argument string gives bindmount.exe its arguments, of any letters but
\* quotes, and any number and length.
THEOREM PlainArgumentsArriveHolds == Spec => []PlainArgumentsArrive
<1>1. Input => PlainArgumentsArrive
  <2> SUFFICES ASSUME Input, kind = "arguments",
                      \A k \in DOMAIN words : words[k] # <<>> /\ ~Contains(words[k], Quote)
               PROVE  ToArgv(ArgumentString(words)) = words
    BY Zenon DEF PlainArgumentsArrive
  <2> DEFINE C == Alphabet["arguments"] \cup {Space, Quote, Backslash}
  <2>1. HasMarks(C) /\ words \in Seq(Seq(C))
    BY ArgumentsOf
  <2> HIDE DEF C
  <2>2. Texts(C, ProcessArgs(words), words)
    BY <2>1, ProcessArgsAreTexts
  <2>3. ArgumentString(words) = Joined(ProcessArgs(words))
    BY Zenon DEF ArgumentString, ProcessArgs
  <2>4. ToArgv(Joined(ProcessArgs(words))) = words
    BY <2>1, <2>2, ArgvOfTexts
  <2> QED
    BY <2>3, <2>4
<1> QED
  BY <1>1, InputsAreWords, PTL

-----------------------------------------------------------------------------
(* The strings of an alias.                                                *)

UnitStates(A) == [out : Seq(Seq(A)), word : Seq(A), over : BOOLEAN]
UnitStart == [out |-> <<>>, word |-> <<>>, over |-> FALSE]

\* Any units: 0, and those of strings.
Units(A) == A \cup {0}

TakeUnit(st, u) ==
  CASE st.over -> st
    [] ~st.over /\ u # 0 -> [st EXCEPT !.word = Append(@, u)]
    [] ~st.over /\ u = 0 /\ st.word = <<>> -> [st EXCEPT !.over = TRUE]
    [] OTHER -> [st EXCEPT !.out = Append(@, st.word), !.word = <<>>]

Parsing(S, C, f) == \A x \in S, c \in C : f[<<x, c>>] = TakeUnit(x, c)

LEMMA ParsingIsFolded ==
  ASSUME NEW S, NEW C, NEW f, StepsInto(S, C, f, UnitStart),
         Parsing(S, C, f), NEW s \in Seq(C)
  PROVE  ParseAllStrings(s) = Folded(f, UnitStart, s).out
<1> DEFINE b == UnitStart
           Obeys(I) == I = [t \in SUBSET (DOMAIN s) |->
                              IF t = {} THEN b ELSE TakeUnit(I[t \ {Max(t)}], s[Max(t)])]
           J == TheIteration(f, b, s)
           K == CHOOSE I : Obeys(I)
<1>1. ParseAllStrings(s) = K[DOMAIN s].out
  BY Zenon DEF FoldLeft, MapThenFoldSet, ParseAllStrings, TakeUnit, UnitStart
<1> HIDE DEF b
<1>2. StepsInto(S, C, f, b)
  BY DEF b
<1>3. Obeys(J)
  <2>1. /\ J = [t \in SUBSET (DOMAIN s) |->
                  IF t = {} THEN b ELSE f[<<J[t \ {Max(t)}], s[Max(t)]>>]]
        /\ \A t \in SUBSET (DOMAIN s) : t # {} => J[t \ {Max(t)}] \in S /\ s[Max(t)] \in C
    BY <1>2, IterationWithin
  <2> HIDE DEF J
  <2> QED
    BY <2>1 DEF Parsing
<1>4. K = [t \in SUBSET (DOMAIN s) |-> IF t = {} THEN b ELSE TakeUnit(K[t \ {Max(t)}], s[Max(t)])]
  <2> HIDE DEF Obeys, J
  <2>1. Obeys(K)
    BY <1>3
  <2> HIDE DEF K
  <2> QED
    BY <2>1 DEF Obeys
<1> HIDE DEF K, Obeys
<1>5. IteratesWithin(S, K, f, b, s)
  <2>1. ASSUME NEW t \in SUBSET (DOMAIN s), t # {}, K[t \ {Max(t)}] \in S
        PROVE  K[t] = f[<<K[t \ {Max(t)}], s[Max(t)]>>]
    <3>1. K[t] = TakeUnit(K[t \ {Max(t)}], s[Max(t)])
      BY <1>4, <2>1
    <3>2. s[Max(t)] \in C
      <4>1. \A u \in SUBSET (DOMAIN s) : u # {} => s[Max(u)] \in C
        BY <1>2, IterationWithin
      <4> QED
        BY <2>1, <4>1
    <3> QED
      BY <2>1, <3>1, <3>2 DEF Parsing
  <2>2. K[{}] = b
    BY <1>4
  <2> QED
    BY <2>1, <2>2 DEF IteratesWithin
<1>6. K[DOMAIN s] = Folded(f, b, s)
  BY <1>2, <1>5, AnyIteration
<1> QED
  BY <1>1, <1>6 DEF b

\* What one unit does to the state.
UnitTo(st, u, d) ==
  /\ st.over => d = st
  /\ ~st.over /\ u # 0 => d.out = st.out /\ d.word = Append(st.word, u) /\ ~d.over
  /\ ~st.over /\ u = 0 /\ st.word = <<>> => d.out = st.out /\ d.word = <<>> /\ d.over
  /\ ~st.over /\ u = 0 /\ st.word # <<>> =>
       d.out = Append(st.out, st.word) /\ d.word = <<>> /\ ~d.over

LEMMA UnitValues ==
  ASSUME NEW A, NEW st \in UnitStates(A), NEW u \in Units(A)
  PROVE  /\ TakeUnit(st, u) \in UnitStates(A)
         /\ UnitTo(st, u, TakeUnit(st, u))
<1>1. st.out \in Seq(Seq(A)) /\ st.word \in Seq(A) /\ st.over \in BOOLEAN /\ <<>> \in Seq(A)
  BY EmptySeq DEF UnitStates
<1>2. CASE st.over
  <2>1. TakeUnit(st, u) = st
    BY <1>2, Zenon DEF TakeUnit
  <2> QED
    BY <1>2, <2>1 DEF UnitTo
<1>3. CASE ~st.over /\ u # 0
  <2>1. PICK x : x = Append(st.word, u)
    OBVIOUS
  <2>2. u \in A
    BY <1>3 DEF Units
  <2>3. x \in Seq(A)
    BY <1>1, <2>1, <2>2, AppendProperties
  <2>4. TakeUnit(st, u) = [st EXCEPT !.word = x]
    BY <1>3, <2>1 DEF TakeUnit
  <2>5. PICK r : r = [st EXCEPT !.word = x]
    OBVIOUS
  <2>6. r \in UnitStates(A) /\ r.out = st.out /\ r.word = x /\ r.over = st.over
    BY <1>1, <2>3, <2>5 DEF UnitStates
  <2> QED
    BY <1>3, <2>1, <2>4, <2>5, <2>6 DEF UnitTo
<1>4. CASE ~st.over /\ u = 0 /\ st.word = <<>>
  <2>1. TakeUnit(st, u) = [st EXCEPT !.over = TRUE]
    BY <1>4 DEF TakeUnit
  <2>2. PICK r : r = [st EXCEPT !.over = TRUE]
    OBVIOUS
  <2>3. r \in UnitStates(A) /\ r.out = st.out /\ r.word = st.word /\ r.over
    BY <1>1, <2>2 DEF UnitStates
  <2> QED
    BY <1>4, <2>1, <2>2, <2>3 DEF UnitTo
<1>5. CASE ~st.over /\ u = 0 /\ st.word # <<>>
  <2>1. PICK x : x = Append(st.out, st.word)
    OBVIOUS
  <2>2. x \in Seq(Seq(A))
    BY <1>1, <2>1, AppendProperties
  <2>3. TakeUnit(st, u) = [st EXCEPT !.out = x, !.word = <<>>]
    BY <1>5, <2>1 DEF TakeUnit
  <2>4. PICK r : r = [st EXCEPT !.out = x, !.word = <<>>]
    OBVIOUS
  <2>5. r \in UnitStates(A) /\ r.out = x /\ r.word = <<>> /\ r.over = st.over
    BY <1>1, <2>2, <2>4 DEF UnitStates
  <2> QED
    BY <1>5, <2>1, <2>3, <2>4, <2>5 DEF UnitTo
<1> QED
  BY <1>2, <1>3, <1>4, <1>5

UnitFunction(A) == [p \in UnitStates(A) \X Units(A) |-> TakeUnit(p[1], p[2])]

\* The state after the units s from st.
Scan(A, st, s) == Folded(UnitFunction(A), st, s)

LEMMA ScanSteps ==
  ASSUME NEW A, NEW st \in UnitStates(A)
  PROVE  StepsInto(UnitStates(A), Units(A), UnitFunction(A), st)
BY UnitValues DEF StepsInto, UnitFunction

LEMMA ScanTyped ==
  ASSUME NEW A, NEW st \in UnitStates(A), NEW s \in Seq(Units(A))
  PROVE  Scan(A, st, s) \in UnitStates(A) /\ Scan(A, st, <<>>) = st
<1>1. FoldLaws(UnitStates(A), Units(A), UnitFunction(A), st)
  BY ScanSteps, FoldLawsHold
<1> QED
  BY <1>1 DEF FoldLaws, Scan

LEMMA ScanAppend ==
  ASSUME NEW A, NEW st \in UnitStates(A), NEW s \in Seq(Units(A)), NEW u \in Units(A)
  PROVE  UnitTo(Scan(A, st, s), u, Scan(A, st, Append(s, u)))
<1> DEFINE x == Scan(A, st, s)
<1>1. FoldLaws(UnitStates(A), Units(A), UnitFunction(A), st)
  BY ScanSteps, FoldLawsHold
<1>2. x \in UnitStates(A)
  BY ScanTyped
<1>3. Scan(A, st, Append(s, u)) = UnitFunction(A)[<<x, u>>]
  BY <1>1 DEF FoldLaws, Scan
<1> HIDE DEF x
<1>4. UnitFunction(A)[<<x, u>>] = TakeUnit(x, u)
  BY <1>2 DEF UnitFunction
<1>5. UnitTo(x, u, TakeUnit(x, u))
  BY <1>2, UnitValues
<1> QED
  BY <1>3, <1>4, <1>5 DEF x

LEMMA ScanConcat ==
  ASSUME NEW A, NEW st \in UnitStates(A), NEW s \in Seq(Units(A)), NEW t \in Seq(Units(A))
  PROVE  Scan(A, st, s \o t) = Scan(A, Scan(A, st, s), t)
BY ScanSteps, FoldedConcat DEF Scan

LEMMA ParseScans ==
  ASSUME NEW A, NEW s \in Seq(Units(A))
  PROVE  ParseAllStrings(s) = Scan(A, UnitStart, s).out /\ UnitStart \in UnitStates(A)
<1> DEFINE S == UnitStates(A)
           C == Units(A)
           f == UnitFunction(A)
<1>1. UnitStart \in S
  <2>1. <<>> \in Seq(A) /\ <<>> \in Seq(Seq(A))
    BY EmptySeq
  <2> QED
    BY <2>1 DEF UnitStart, UnitStates
<1>2. StepsInto(S, C, f, UnitStart)
  BY <1>1, ScanSteps
<1>3. Parsing(S, C, f)
  BY DEF Parsing, UnitFunction
<1> HIDE DEF S, C, f
<1>4. s \in Seq(C)
  BY DEF C
<1>5. ParseAllStrings(s) = Folded(f, UnitStart, s).out
  BY <1>2, <1>3, <1>4, ParsingIsFolded
<1> QED
  BY <1>1, <1>5, Zenon DEF Scan, S, f

LEMMA UnitFacts ==
  ASSUME NEW A
  PROVE  /\ Seq(A) \subseteq Seq(Units(A)) /\ <<0>> \in Seq(Units(A)) /\ 0 \in Units(A)
         /\ <<>> \in Seq(Units(A)) /\ <<>> \in Seq(A)
<1>1. A \subseteq Units(A) /\ 0 \in Units(A)
  BY DEF Units
<1>2. Seq(A) \subseteq Seq(Units(A))
  BY <1>1, SeqMonotonic
<1> QED
  BY <1>1, <1>2, EmptySeq

\* The units of a string, and the one that ends it.
LEMMA EndedFacts ==
  ASSUME NEW A, NEW w \in Seq(A)
  PROVE  /\ w \o <<0>> \in Seq(Units(A)) /\ w \in Seq(Units(A))
         /\ w \o <<0>> = Append(w, 0) /\ Len(w \o <<0>>) = Len(w) + 1
<1>1. w \in Seq(Units(A)) /\ 0 \in Units(A) /\ <<0>> \in Seq(Units(A))
  BY UnitFacts
<1> DEFINE U == Units(A)
<1> HIDE DEF U
<1>2. w \o <<0>> = Append(w, 0)
  <2>1. <<>> \in Seq(U)
    BY EmptySeq
  <2> QED
    BY <1>1, <2>1, ConcatAppend DEF U
<1>3. Append(w, 0) \in Seq(U) /\ Len(Append(w, 0)) = Len(w) + 1
  BY <1>1, AppendProperties DEF U
<1> QED
  BY <1>1, <1>2, <1>3 DEF U

EndedStrings(ws) == [k \in DOMAIN ws |-> ws[k] \o <<0>>]

LEMMA PayloadFacts ==
  ASSUME NEW A
  PROVE  /\ Payload(<<>>) = <<>>
         /\ \A ws \in Seq(Seq(A)) : Payload(ws) \in Seq(Units(A))
         /\ \A ws \in Seq(Seq(A)), w \in Seq(A) :
               Payload(Append(ws, w)) = Payload(ws) \o (w \o <<0>>)
<1> DEFINE U == Units(A)
<1>1. \A ws : Payload(ws) = FlattenSeq(EndedStrings(ws))
  BY Zenon DEF Payload, EndedStrings
<1>2. /\ FlattenSeq(<<>>) = <<>>
      /\ \A ws \in Seq(Seq(U)) : FlattenSeq(ws) \in Seq(U)
      /\ \A ws \in Seq(Seq(U)), w \in Seq(U) : FlattenSeq(Append(ws, w)) = FlattenSeq(ws) \o w
  BY FlattenFacts
<1>3. \A w \in Seq(A) : w \o <<0>> \in Seq(U)
  BY EndedFacts
<1> HIDE DEF U
<1>4. ASSUME NEW ws \in Seq(Seq(A))
      PROVE  /\ EndedStrings(ws) \in Seq(Seq(U)) /\ Len(EndedStrings(ws)) = Len(ws)
             /\ \A k \in 1..Len(ws) : EndedStrings(ws)[k] = ws[k] \o <<0>>
  <2>1. PICK n \in Nat : Len(ws) = n /\ DOMAIN ws = 1..n /\ \A k \in 1..n : ws[k] \in Seq(A)
    BY LenProperties, ElementOfSeq
  <2> DEFINE p == EndedStrings(ws)
  <2>2. p = [k \in 1..n |-> ws[k] \o <<0>>]
    BY <2>1 DEF EndedStrings
  <2> HIDE DEF p
  <2>3. p \in [1..n -> Seq(U)]
    BY <1>3, <2>1, <2>2
  <2>4. p \in Seq(Seq(U)) /\ Len(p) = n
    BY <2>3
  <2> QED
    BY <2>1, <2>2, <2>4 DEF p
<1>5. Payload(<<>>) = <<>>
  <2>1. <<>> \in Seq(Seq(A)) /\ Len(<<>>) = 0
    BY EmptySeq
  <2>2. EndedStrings(<<>>) \in Seq(Seq(U)) /\ Len(EndedStrings(<<>>)) = 0
    BY <1>4, <2>1
  <2>3. EndedStrings(<<>>) = <<>>
    BY <2>2, EmptySeq
  <2> QED
    BY <1>1, <1>2, <2>3
<1>6. ASSUME NEW ws \in Seq(Seq(A)), NEW w \in Seq(A)
      PROVE  Payload(Append(ws, w)) = Payload(ws) \o (w \o <<0>>)
  <2>1. PICK n \in Nat : Len(ws) = n
    BY LenProperties
  <2>2. PICK us : /\ us = Append(ws, w) /\ us \in Seq(Seq(A)) /\ Len(us) = n + 1
                  /\ us[n + 1] = w /\ \A k \in 1..n : us[k] = ws[k]
    <3> DEFINE x == Append(ws, w)
    <3>1. x \in Seq(Seq(A)) /\ Len(x) = n + 1 /\ x[n + 1] = w /\ \A k \in 1..n : x[k] = ws[k]
      BY <2>1, AppendProperties
    <3> QED
      BY <3>1, Zenon
  <2>3. PICK l \in Seq(U) : l = w \o <<0>>
    BY <1>3
  <2>4. PICK p \in Seq(Seq(U)) : /\ p = EndedStrings(ws) /\ Len(p) = n
                                 /\ \A k \in 1..n : p[k] = ws[k] \o <<0>>
    BY <1>4, <2>1
  <2>5. PICK q \in Seq(Seq(U)) : /\ q = EndedStrings(us) /\ Len(q) = n + 1
                                 /\ \A k \in 1..(n + 1) : q[k] = us[k] \o <<0>>
    BY <1>4, <2>2
  <2>6. PICK r : /\ r = Append(p, l) /\ r \in Seq(Seq(U)) /\ Len(r) = n + 1
                 /\ r[n + 1] = l /\ \A k \in 1..n : r[k] = p[k]
    <3> DEFINE x == Append(p, l)
    <3>1. x \in Seq(Seq(U)) /\ Len(x) = n + 1 /\ x[n + 1] = l /\ \A k \in 1..n : x[k] = p[k]
      BY <2>4, AppendProperties
    <3> QED
      BY <3>1, Zenon
  <2>7. \A k \in 1..(n + 1) : q[k] = r[k]
    <3> TAKE k \in 1..(n + 1)
    <3>1. k \in 1..n \/ k = n + 1
      OBVIOUS
    <3>2. CASE k \in 1..n
      <4>1. q[k] = us[k] \o <<0>> /\ us[k] = ws[k] /\ p[k] = ws[k] \o <<0>> /\ r[k] = p[k]
        BY <2>2, <2>4, <2>5, <2>6, <3>2
      <4> QED
        BY <4>1, Zenon
    <3>3. CASE k = n + 1
      <4>1. q[k] = us[k] \o <<0>> /\ us[k] = w /\ r[k] = l
        BY <2>2, <2>5, <2>6, <3>3
      <4> QED
        BY <2>3, <4>1, Zenon
    <3> QED
      BY <3>1, <3>2, <3>3
  <2>8. q = r
    BY <2>5, <2>6, <2>7, SeqEqual
  <2>9. FlattenSeq(Append(p, l)) = FlattenSeq(p) \o l
    BY <1>2
  <2> QED
    BY <1>1, <2>2, <2>3, <2>4, <2>5, <2>6, <2>8, <2>9, Zenon
<1>7. \A ws \in Seq(Seq(A)) : Payload(ws) \in Seq(U)
  BY <1>1, <1>2, <1>4
<1> QED
  BY <1>5, <1>6, <1>7 DEF U

\* A string's units are collected.
Collecting(st, w) == st.word = w /\ ~st.over

LEMMA StringIsCollected ==
  ASSUME NEW A, 0 \notin A, NEW st \in UnitStates(A), Collecting(st, <<>>), NEW w \in Seq(A)
  PROVE  Collecting(Scan(A, st, w), w) /\ Scan(A, st, w).out = st.out
<1> DEFINE T == {v \in Seq(A) : Collecting(Scan(A, st, v), v) /\ Scan(A, st, v).out = st.out}
<1>1. <<>> \in T
  <2>1. <<>> \in Seq(A) /\ <<>> \in Seq(Units(A))
    BY EmptySeq
  <2>2. Scan(A, st, <<>>) = st
    BY <2>1, ScanTyped
  <2> QED
    BY <2>1, <2>2
<1>2. ASSUME NEW v \in Seq(A), NEW u \in A, v \in T
      PROVE  Append(v, u) \in T
  <2>1. v \in Seq(Units(A)) /\ u \in Units(A) /\ u # 0
    BY UnitFacts DEF Units
  <2>2. PICK x : x = Scan(A, st, v)
    OBVIOUS
  <2>3. PICK d : d = Scan(A, st, Append(v, u))
    OBVIOUS
  <2>4. UnitTo(x, u, d)
    BY <2>1, <2>2, <2>3, ScanAppend
  <2>5. x.word = v /\ ~x.over /\ x.out = st.out
    BY <1>2, <2>2 DEF Collecting
  <2>6. d.out = st.out /\ d.word = Append(v, u) /\ ~d.over
    BY <2>1, <2>4, <2>5 DEF UnitTo
  <2>7. Append(v, u) \in Seq(A)
    BY AppendProperties
  <2> QED
    BY <2>3, <2>6, <2>7 DEF Collecting
<1> HIDE DEF T
<1>3. w \in T
  BY <1>1, <1>2, SequenceInduction
<1> QED
  BY <1>3 DEF T

\* Nothing is collected behind the end of the strings.
LEMMA OverStays ==
  ASSUME NEW A, NEW st \in UnitStates(A), st.over, NEW s \in Seq(Units(A))
  PROVE  Scan(A, st, s) = st
<1> DEFINE C == Units(A)
           T == {v \in Seq(C) : Scan(A, st, v) = st}
<1>1. <<>> \in T
  <2>1. <<>> \in Seq(Units(A))
    BY EmptySeq
  <2> QED
    BY <2>1, ScanTyped
<1>2. ASSUME NEW v \in Seq(C), NEW u \in C, v \in T
      PROVE  Append(v, u) \in T
  <2>1. UnitTo(Scan(A, st, v), u, Scan(A, st, Append(v, u)))
    BY ScanAppend
  <2>2. Scan(A, st, v) = st
    BY <1>2
  <2>3. PICK d : d = Scan(A, st, Append(v, u))
    OBVIOUS
  <2>4. UnitTo(st, u, d)
    BY <2>1, <2>2, <2>3
  <2>5. d = st
    BY <2>4 DEF UnitTo
  <2>6. Append(v, u) \in Seq(C)
    BY AppendProperties
  <2> QED
    BY <2>3, <2>5, <2>6
<1> HIDE DEF T
<1>3. s \in T
  BY <1>1, <1>2, SequenceInduction
<1> QED
  BY <1>3 DEF T

\* What a string does to the state, with the unit that ends it.
StringTo(st, w, d) ==
  /\ st.over => d = st
  /\ ~st.over /\ w = <<>> => d.out = st.out /\ d.word = <<>> /\ d.over
  /\ ~st.over /\ w # <<>> => d.out = Append(st.out, w) /\ d.word = <<>> /\ ~d.over

LEMMA StringIsRead ==
  ASSUME NEW A, 0 \notin A, NEW st \in UnitStates(A), ~st.over => st.word = <<>>, NEW w \in Seq(A)
  PROVE  StringTo(st, w, Scan(A, st, w \o <<0>>))
<1>1. w \o <<0>> = Append(w, 0) /\ w \in Seq(Units(A)) /\ 0 \in Units(A) /\ w \o <<0>> \in Seq(Units(A))
  BY EndedFacts, UnitFacts
<1>2. CASE st.over
  <2>1. Scan(A, st, w \o <<0>>) = st
    BY <1>1, <1>2, OverStays
  <2> QED
    BY <1>2, <2>1 DEF StringTo
<1>3. CASE ~st.over
  <2>1. PICK x : x = Scan(A, st, w)
    OBVIOUS
  <2>2. PICK d : d = Scan(A, st, Append(w, 0))
    OBVIOUS
  <2>3. x.word = w /\ ~x.over /\ x.out = st.out
    <3>1. Collecting(st, <<>>)
      BY <1>3 DEF Collecting
    <3>2. Collecting(Scan(A, st, w), w) /\ Scan(A, st, w).out = st.out
      BY <3>1, StringIsCollected
    <3> QED
      BY <2>1, <3>2 DEF Collecting
  <2>4. UnitTo(x, 0, d)
    BY <1>1, <2>1, <2>2, ScanAppend
  <2>5. StringTo(st, w, d)
    BY <1>3, <2>3, <2>4 DEF UnitTo, StringTo
  <2> QED
    BY <1>1, <2>2, <2>5
<1> QED
  BY <1>2, <1>3

\* The strings read are the first ones, up to an empty one.
StringsRead(st, ws) ==
  \E n \in 0..Len(ws) :
     /\ Len(st.out) = n /\ \A k \in 1..n : st.out[k] = ws[k] /\ ws[k] # <<>>
     /\ ~st.over => n = Len(ws) /\ st.word = <<>>
     /\ st.over => n < Len(ws) /\ ws[n + 1] = <<>>

LEMMA PayloadIsRead ==
  ASSUME NEW A, 0 \notin A, NEW ws \in Seq(Seq(A))
  PROVE  StringsRead(Scan(A, UnitStart, Payload(ws)), ws)
<1> DEFINE T == {us \in Seq(Seq(A)) : StringsRead(Scan(A, UnitStart, Payload(us)), us)}
<1>1. /\ Payload(<<>>) = <<>>
      /\ \A us \in Seq(Seq(A)) : Payload(us) \in Seq(Units(A))
      /\ \A us \in Seq(Seq(A)), w \in Seq(A) : Payload(Append(us, w)) = Payload(us) \o (w \o <<0>>)
  BY PayloadFacts
<1>2. UnitStart \in UnitStates(A) /\ <<>> \in Seq(Units(A))
  BY ParseScans, EmptySeq
<1>3. <<>> \in T
  <2>1. Scan(A, UnitStart, Payload(<<>>)) = UnitStart
    BY <1>1, <1>2, ScanTyped
  <2>2. <<>> \in Seq(Seq(A)) /\ Len(<<>>) = 0
    BY EmptySeq
  <2>3. UnitStart.out = <<>> /\ UnitStart.word = <<>> /\ UnitStart.over = FALSE
    BY DEF UnitStart
  <2>4. StringsRead(UnitStart, <<>>)
    <3>1. 0 \in 0..Len(<<>>) /\ Len(UnitStart.out) = 0
      BY <2>2, <2>3
    <3> QED
      BY <2>2, <2>3, <3>1 DEF StringsRead
  <2> QED
    BY <2>1, <2>2, <2>4
<1>4. ASSUME NEW us \in Seq(Seq(A)), NEW w \in Seq(A), us \in T
      PROVE  Append(us, w) \in T
  <2>1. PICK m \in Nat : Len(us) = m
    BY LenProperties
  <2>2. PICK vs : /\ vs = Append(us, w) /\ vs \in Seq(Seq(A)) /\ Len(vs) = m + 1
                  /\ vs[m + 1] = w /\ \A k \in 1..m : vs[k] = us[k]
    <3> DEFINE x == Append(us, w)
    <3>1. x \in Seq(Seq(A)) /\ Len(x) = m + 1 /\ x[m + 1] = w /\ \A k \in 1..m : x[k] = us[k]
      BY <2>1, AppendProperties
    <3> QED
      BY <3>1, Zenon
  <2>3. PICK p \in Seq(Units(A)) : p = Payload(us)
    BY <1>1
  <2>4. PICK e \in Seq(Units(A)) : e = w \o <<0>>
    BY EndedFacts
  <2>5. PICK st \in UnitStates(A) : st = Scan(A, UnitStart, p)
    BY <1>2, ScanTyped
  <2>6. PICK d : d = Scan(A, st, e)
    OBVIOUS
  <2>7. Scan(A, UnitStart, Payload(vs)) = d
    <3>1. Payload(vs) = p \o e
      BY <1>1, <2>2, <2>3, <2>4, Zenon
    <3>2. Scan(A, UnitStart, p \o e) = Scan(A, Scan(A, UnitStart, p), e)
      BY <1>2, ScanConcat
    <3> QED
      BY <2>5, <2>6, <3>1, <3>2
  <2>8. StringsRead(st, us)
    BY <1>4, <2>3, <2>5
  <2>9. PICK n \in 0..m :
           /\ Len(st.out) = n /\ \A k \in 1..n : st.out[k] = us[k] /\ us[k] # <<>>
           /\ ~st.over => n = m /\ st.word = <<>>
           /\ st.over => n < m /\ us[n + 1] = <<>>
    BY <2>1, <2>8 DEF StringsRead
  <2>10. StringTo(st, w, d)
    <3>1. StringTo(st, w, Scan(A, st, w \o <<0>>))
      BY <2>9, StringIsRead
    <3> QED
      BY <2>4, <2>6, <3>1
  <2>11. StringsRead(d, vs)
    <3>1. CASE st.over
      <4>1. d = st /\ n \in 0..Len(vs) /\ n < m + 1 /\ n + 1 \in 1..m
        BY <2>2, <2>9, <2>10, <3>1 DEF StringTo
      <4>2. \A k \in 1..n : st.out[k] = vs[k] /\ vs[k] # <<>>
        <5> TAKE k \in 1..n
        <5>1. k \in 1..m
          OBVIOUS
        <5> QED
          BY <2>2, <2>9, <5>1
      <4>3. vs[n + 1] = <<>>
        BY <2>2, <2>9, <3>1, <4>1
      <4> QED
        BY <2>2, <2>9, <3>1, <4>1, <4>2, <4>3 DEF StringsRead
    <3>2. CASE ~st.over /\ w = <<>>
      <4>1. d.out = st.out /\ d.over /\ n = m /\ n \in 0..Len(vs) /\ n < Len(vs)
        BY <2>2, <2>9, <2>10, <3>2 DEF StringTo
      <4>2. \A k \in 1..n : d.out[k] = vs[k] /\ vs[k] # <<>>
        BY <2>2, <2>9, <4>1
      <4>3. vs[n + 1] = <<>>
        BY <2>2, <3>2, <4>1
      <4> QED
        BY <2>9, <4>1, <4>2, <4>3 DEF StringsRead
    <3>3. CASE ~st.over /\ w # <<>>
      <4>1. d.out = Append(st.out, w) /\ d.word = <<>> /\ ~d.over /\ n = m
        BY <2>9, <2>10, <3>3 DEF StringTo
      <4>2. st.out \in Seq(Seq(A))
        BY DEF UnitStates
      <4>3. PICK o : /\ o = Append(st.out, w) /\ Len(o) = m + 1 /\ o[m + 1] = w
                     /\ \A k \in 1..m : o[k] = st.out[k]
        <5>1. PICK y \in Seq(Seq(A)) : y = st.out /\ Len(y) = m
          BY <2>9, <4>1, <4>2
        <5> DEFINE x == Append(y, w)
        <5>2. Len(x) = m + 1 /\ x[m + 1] = w /\ \A k \in 1..m : x[k] = y[k]
          BY <5>1, AppendProperties
        <5> QED
          BY <5>1, <5>2, Zenon
      <4>4. \A k \in 1..(m + 1) : d.out[k] = vs[k] /\ vs[k] # <<>>
        <5> TAKE k \in 1..(m + 1)
        <5>1. k \in 1..m \/ k = m + 1
          OBVIOUS
        <5> QED
          BY <2>2, <2>9, <3>3, <4>1, <4>3, <5>1
      <4>5. m + 1 \in 0..Len(vs) /\ Len(d.out) = m + 1
        BY <2>2, <4>1, <4>3
      <4> QED
        BY <2>2, <4>1, <4>4, <4>5 DEF StringsRead
    <3> QED
      BY <3>1, <3>2, <3>3
  <2> QED
    BY <2>2, <2>7, <2>11
<1> HIDE DEF T
<1>5. ws \in T
  BY <1>3, <1>4, SequenceInduction
<1> QED
  BY <1>5 DEF T

\* From the middle of the first part on.
LEMMA RestOfConcat ==
  ASSUME NEW C, NEW s \in Seq(C), NEW t \in Seq(C), NEW m \in 1..(Len(s) + 1)
  PROVE  SubSeq(s \o t, m, Len(s \o t)) = SubSeq(s, m, Len(s)) \o t
<1>1. PICK n \in Nat : Len(s) = n
  BY LenProperties
<1> DEFINE x == SubSeq(s, 1, m - 1)
           u == SubSeq(s, m, n)
<1>2. \A i \in 1..n : s[i] \in C
  BY <1>1, ElementOfSeq
<1>3. x \in Seq(C) /\ Len(x) = m - 1
  <2>1. m - 1 \in Int /\ 1 \in Int /\ \A i \in 1..(m - 1) : s[i] \in C
    BY <1>1, <1>2
  <2>2. x \in Seq(C) /\ Len(x) = IF 1 <= m - 1 THEN (m - 1) - 1 + 1 ELSE 0
    BY <2>1, SubSeqProperties
  <2> HIDE DEF x
  <2> QED
    BY <1>1, <2>2
<1>4. u \in Seq(C)
  <2>1. m \in Int /\ n \in Int /\ \A i \in m..n : s[i] \in C
    BY <1>1, <1>2
  <2> QED
    BY <2>1, SubSeqProperties
<1>5. x \o u = s
  <2>1. 1 \in 1..(Len(s) + 1) /\ m - 1 \in 0..Len(s) /\ 1 - 1 = 0 /\ n \in (m - 1)..Len(s) /\ (m - 1) + 1 = m
    BY <1>1
  <2>2. SubSeq(s, 1, m - 1) \o SubSeq(s, (m - 1) + 1, n) = SubSeq(s, 1, n)
    BY <2>1, ConcatAdjacentSubSeq
  <2>3. SubSeq(s, 1, n) = s
    BY <1>1, SubSeqFull
  <2> QED
    BY <2>1, <2>2, <2>3
<1> HIDE DEF x, u
<1>6. (x \o u) \o t = x \o (u \o t)
  BY <1>3, <1>4, ConcatAssociative
<1>7. PICK v \in Seq(C) : v = u \o t
  BY <1>4, ConcatProperties
<1>8. SubSeq(x \o v, Len(x) + 1, Len(x \o v)) = v
  BY <1>3, Cut
<1>9. x \o v = s \o t
  BY <1>5, <1>6, <1>7
<1>10. Len(x) + 1 = m
  BY <1>1, <1>3
<1>11. SubSeq(s \o t, m, Len(s \o t)) = v
  BY <1>8, <1>9, <1>10, Zenon
<1> QED
  BY <1>1, <1>7, <1>11 DEF u

\* From behind the first part on.
LEMMA RestBehind ==
  ASSUME NEW C, NEW s \in Seq(C), NEW t \in Seq(C), NEW m \in Nat, m > Len(s)
  PROVE  SubSeq(s \o t, m, Len(s \o t)) = SubSeq(t, m - Len(s), Len(t))
<1>1. PICK n \in Nat : Len(s) = n
  BY LenProperties
<1>2. PICK l \in Nat : Len(t) = l
  BY LenProperties
<1>3. Len(s \o t) = n + l
  BY <1>1, <1>2, ConcatProperties
<1>4. CASE m <= n + l
  <2>1. m \in (Len(s) + 1)..(Len(s) + Len(t)) /\ n + l \in (Len(s) + 1)..(Len(s) + Len(t)) /\ (n + l) - n = l
    BY <1>1, <1>2, <1>4
  <2>2. SubSeq(s \o t, m, n + l) = SubSeq(t, m - Len(s), (n + l) - Len(s))
    BY <2>1, SubSeqOfConcat2
  <2> QED
    BY <1>1, <1>2, <1>3, <2>1, <2>2
<1>5. CASE m > n + l
  <2>1. SubSeq(s \o t, m, n + l) = <<>>
    BY <1>5, SubSeqEmpty
  <2>2. m - n \in Int /\ l < m - n
    BY <1>5
  <2>3. SubSeq(t, m - n, l) = <<>>
    BY <2>2, SubSeqEmpty
  <2> QED
    BY <1>1, <1>2, <1>3, <2>1, <2>3
<1> QED
  BY <1>4, <1>5

\* What is read from a later byte on are strings again, and no more of them.
LaterStrings(A, ws, m) ==
  \E us \in Seq(Seq(A)) :
     /\ SubSeq(Payload(ws), m, Len(Payload(ws))) = Payload(us)
     /\ Len(us) <= Len(ws)

\* What is left of a string is a string, or nothing.
LEMMA RestOfString ==
  ASSUME NEW A, NEW w \in Seq(A), NEW j \in Nat \ {0}
  PROVE  \E vs \in Seq(Seq(A)) :
            SubSeq(w \o <<0>>, j, Len(w \o <<0>>)) = Payload(vs) /\ Len(vs) \in 0..1
<1> DEFINE U == Units(A)
<1>1. /\ Payload(<<>>) = <<>>
      /\ \A us \in Seq(Seq(A)), v \in Seq(A) : Payload(Append(us, v)) = Payload(us) \o (v \o <<0>>)
  BY PayloadFacts
<1>2. <<>> \in Seq(Seq(A)) /\ Len(<<>>) = 0
  BY EmptySeq
<1>3. PICK b \in Nat : Len(w) = b
  BY LenProperties
<1>4. w \in Seq(U) /\ <<0>> \in Seq(U) /\ Len(w \o <<0>>) = b + 1
  BY <1>3, EndedFacts, UnitFacts
<1> HIDE DEF U
<1>5. CASE j <= b + 1
  <2>1. j \in 1..(Len(w) + 1)
    BY <1>3, <1>5
  <2>2. SubSeq(w \o <<0>>, j, Len(w \o <<0>>)) = SubSeq(w, j, Len(w)) \o <<0>>
    BY <1>4, <2>1, RestOfConcat
  <2>3. PICK v \in Seq(A) : v = SubSeq(w, j, Len(w))
    <3>1. \A k \in j..b : w[k] \in A
      BY <1>3, ElementOfSeq
    <3>2. SubSeq(w, j, b) \in Seq(A)
      BY <3>1, SubSeqProperties
    <3> QED
      BY <1>3, <3>2
  <2>4. Payload(Append(<<>>, v)) = <<>> \o (v \o <<0>>)
    BY <1>1, <1>2
  <2>5. <<>> \o (v \o <<0>>) = v \o <<0>>
    <3>1. v \o <<0>> \in Seq(U)
      BY EndedFacts DEF U
    <3> QED
      BY <3>1, ConcatEmptySeq
  <2>6. Append(<<>>, v) \in Seq(Seq(A)) /\ Len(Append(<<>>, v)) = 0 + 1
    BY <1>2, AppendProperties
  <2>7. Len(Append(<<>>, v)) \in 0..1
    BY <2>6
  <2>8. SubSeq(w \o <<0>>, j, Len(w \o <<0>>)) = Payload(Append(<<>>, v))
    BY <2>2, <2>3, <2>4, <2>5
  <2> DEFINE x == Append(<<>>, v)
  <2>9. x \in Seq(Seq(A)) /\ SubSeq(w \o <<0>>, j, Len(w \o <<0>>)) = Payload(x) /\ Len(x) \in 0..1
    BY <2>6, <2>7, <2>8, Zenon
  <2> HIDE DEF x
  <2> QED
    BY <2>9, Zenon
<1>6. CASE j > b + 1
  <2>1. SubSeq(w \o <<0>>, j, b + 1) = <<>>
    BY <1>6, SubSeqEmpty
  <2>2. SubSeq(w \o <<0>>, j, Len(w \o <<0>>)) = Payload(<<>>)
    BY <1>1, <1>4, <2>1
  <2>3. Len(<<>>) \in 0..1
    BY <1>2
  <2> QED
    BY <1>2, <2>2, <2>3, Zenon
<1>7. j <= b + 1 \/ j > b + 1
  OBVIOUS
<1> QED
  BY <1>5, <1>6, <1>7, Zenon

LEMMA AtMostOneMore ==
  ASSUME NEW n \in Nat, NEW l \in 0..1
  PROVE  l <= n + 1
OBVIOUS

LEMMA Difference ==
  ASSUME NEW i \in Nat, NEW a \in Nat, i > a
  PROVE  i - a \in Nat \ {0}
OBVIOUS

LEMMA RestOfPayload ==
  ASSUME NEW A, NEW ws \in Seq(Seq(A)), NEW m \in Nat \ {0}
  PROVE  LaterStrings(A, ws, m)
<1> DEFINE T == {us \in Seq(Seq(A)) : \A i \in Nat \ {0} : LaterStrings(A, us, i)}
           U == Units(A)
<1>1. /\ Payload(<<>>) = <<>>
      /\ \A us \in Seq(Seq(A)) : Payload(us) \in Seq(U)
      /\ \A us \in Seq(Seq(A)), w \in Seq(A) : Payload(Append(us, w)) = Payload(us) \o (w \o <<0>>)
  BY PayloadFacts
<1>2. <<>> \in Seq(Seq(A)) /\ Len(<<>>) = 0
  BY EmptySeq
<1>3. <<>> \in T
  <2>1. ASSUME NEW i \in Nat \ {0}
        PROVE  LaterStrings(A, <<>>, i)
    <3>1. SubSeq(<<>>, i, 0) = <<>>
      BY SubSeqEmpty
    <3>2. PICK x : x = Payload(<<>>)
      OBVIOUS
    <3>3. x = <<>> /\ Len(x) = 0
      BY <1>1, <1>2, <3>2
    <3>4. SubSeq(x, i, Len(x)) = x /\ Len(<<>>) <= Len(<<>>)
      BY <1>2, <3>1, <3>3
    <3> QED
      BY <1>2, <3>2, <3>4, Zenon DEF LaterStrings
  <2> QED
    BY <1>2, <2>1
<1>4. ASSUME NEW us \in Seq(Seq(A)), NEW w \in Seq(A), us \in T
      PROVE  Append(us, w) \in T
  <2> HIDE DEF U
  <2>1. PICK n \in Nat : Len(us) = n
    BY LenProperties
  <2>2. Append(us, w) \in Seq(Seq(A)) /\ Len(Append(us, w)) = n + 1
    BY <2>1, AppendProperties
  <2>3. PICK p \in Seq(U) : p = Payload(us)
    BY <1>1
  <2>4. PICK e \in Seq(U) : e = w \o <<0>>
    BY EndedFacts DEF U
  <2>5. PICK a \in Nat : Len(p) = a
    BY LenProperties
  <2>6. PICK s \in Seq(U) : s = p \o e /\ s = Payload(Append(us, w))
    BY <1>1, <2>3, <2>4, ConcatProperties
  <2>7. ASSUME NEW i \in Nat \ {0}
        PROVE  LaterStrings(A, Append(us, w), i)
    <3>1. CASE i <= a
      <4>1. i \in 1..(Len(p) + 1)
        BY <2>5, <3>1
      <4>2. SubSeq(s, i, Len(s)) = SubSeq(p, i, Len(p)) \o e
        BY <2>6, <4>1, RestOfConcat
      <4>3. LaterStrings(A, us, i)
        BY <1>4
      <4>4. PICK vs \in Seq(Seq(A)) : SubSeq(p, i, Len(p)) = Payload(vs) /\ Len(vs) <= n
        BY <2>1, <2>3, <4>3 DEF LaterStrings
      <4>5. Payload(Append(vs, w)) = Payload(vs) \o e
        BY <1>1, <2>4
      <4>6. PICK l \in Nat : Len(vs) = l
        BY LenProperties
      <4>7. Append(vs, w) \in Seq(Seq(A)) /\ Len(Append(vs, w)) = l + 1
        BY <4>6, AppendProperties
      <4>8. Len(Append(vs, w)) <= Len(Append(us, w))
        BY <2>2, <4>4, <4>6, <4>7
      <4>9. SubSeq(s, i, Len(s)) = Payload(Append(vs, w))
        BY <4>2, <4>4, <4>5
      <4> QED
        BY <2>6, <4>7, <4>8, <4>9, Zenon DEF LaterStrings
    <3>2. CASE i > a
      <4>1. i > Len(p) /\ i - Len(p) \in Nat \ {0}
        <5>1. i \in Nat /\ i - a \in Nat \ {0}
          BY <3>2, Difference
        <5> QED
          BY <2>5, <3>2, <5>1, Zenon
      <4>2. SubSeq(s, i, Len(s)) = SubSeq(e, i - Len(p), Len(e))
        <5>1. SubSeq(p \o e, i, Len(p \o e)) = SubSeq(e, i - Len(p), Len(e))
          BY <4>1, RestBehind
        <5> QED
          BY <2>6, <5>1, Zenon
      <4>3. PICK vs \in Seq(Seq(A)) :
               SubSeq(e, i - Len(p), Len(e)) = Payload(vs) /\ Len(vs) \in 0..1
        BY <2>4, <4>1, RestOfString
      <4>4. Len(vs) <= Len(Append(us, w))
        <5>1. Len(vs) <= n + 1
          BY <4>3, AtMostOneMore
        <5> QED
          BY <2>2, <5>1, Zenon
      <4>5. SubSeq(s, i, Len(s)) = Payload(vs)
        BY <4>2, <4>3
      <4> QED
        BY <2>6, <4>3, <4>4, <4>5, Zenon DEF LaterStrings
    <3> QED
      BY <2>5, <3>1, <3>2
  <2> QED
    BY <2>2, <2>7
<1> HIDE DEF T
<1>5. ws \in T
  BY <1>3, <1>4, SequenceInduction
<1> QED
  BY <1>5 DEF T

\* Behind two empty strings lie the others, four bytes on.
BehindEmpty(A, us) ==
  /\ Len(us) = 1 /\ us[1] = <<>> => Len(Payload(us)) = 1
  /\ Len(us) >= 2 /\ us[1] = <<>> /\ us[2] = <<>> =>
       /\ Len(Payload(us)) >= 2 /\ SubSeq(us, 3, Len(us)) \in Seq(Seq(A))
       /\ SubSeq(Payload(us), 3, Len(Payload(us))) = Payload(SubSeq(us, 3, Len(us)))

LEMMA EmptyStringsPassed ==
  ASSUME NEW A, NEW ws \in Seq(Seq(A))
  PROVE  BehindEmpty(A, ws)
<1> DEFINE T == {us \in Seq(Seq(A)) : BehindEmpty(A, us)}
           U == Units(A)
<1>1. /\ Payload(<<>>) = <<>>
      /\ \A us \in Seq(Seq(A)) : Payload(us) \in Seq(U)
      /\ \A us \in Seq(Seq(A)), w \in Seq(A) : Payload(Append(us, w)) = Payload(us) \o (w \o <<0>>)
  BY PayloadFacts
<1>2. <<>> \in Seq(Seq(A)) /\ Len(<<>>) = 0
  BY EmptySeq
<1>3. <<>> \in T
  BY <1>2 DEF BehindEmpty
<1>4. ASSUME NEW us \in Seq(Seq(A)), NEW w \in Seq(A), us \in T
      PROVE  Append(us, w) \in T
  <2> HIDE DEF U
  <2>1. PICK n \in Nat : Len(us) = n
    BY LenProperties
  <2>2. PICK vs : /\ vs = Append(us, w) /\ vs \in Seq(Seq(A)) /\ Len(vs) = n + 1
                  /\ vs[n + 1] = w /\ \A k \in 1..n : vs[k] = us[k]
    <3> DEFINE x == Append(us, w)
    <3>1. x \in Seq(Seq(A)) /\ Len(x) = n + 1 /\ x[n + 1] = w /\ \A k \in 1..n : x[k] = us[k]
      BY <2>1, AppendProperties
    <3> QED
      BY <3>1, Zenon
  <2>3. PICK p \in Seq(U) : p = Payload(us)
    BY <1>1
  <2>4. PICK e \in Seq(U) : e = w \o <<0>>
    BY EndedFacts DEF U
  <2>5. PICK a \in Nat : Len(p) = a
    BY LenProperties
  <2>6. PICK b \in Nat : Len(e) = b
    BY LenProperties
  <2>7. PICK s \in Seq(U) : s = p \o e /\ s = Payload(vs) /\ Len(s) = a + b
    <3>1. p \o e \in Seq(U) /\ Len(p \o e) = a + b
      BY <2>5, <2>6, ConcatProperties
    <3>2. Payload(vs) = p \o e
      BY <1>1, <2>2, <2>3, <2>4, Zenon
    <3> QED
      BY <3>1, <3>2
  <2>8. w = <<>> => b = 1
    <3>1. w = <<>> => Len(w) = 0
      BY <1>2
    <3>2. PICK c \in Nat : Len(w) = c /\ Len(w \o <<0>>) = c + 1
      BY EndedFacts, LenProperties
    <3> QED
      BY <2>4, <2>6, <3>1, <3>2
  <2>9. BehindEmpty(A, us)
    BY <1>4
  <2>10. ASSUME n = 0 PROVE BehindEmpty(A, vs)
    <3>1. us = <<>>
      BY <2>1, <2>10, EmptySeq
    <3>2. a = 0
      BY <1>1, <1>2, <2>3, <2>5, <3>1
    <3>3. vs[1] = w /\ Len(vs) = 1
      BY <2>2, <2>10
    <3> QED
      BY <2>2, <2>7, <2>8, <3>2, <3>3 DEF BehindEmpty
  <2>11. ASSUME n = 1 PROVE BehindEmpty(A, vs)
    <3>1. ASSUME vs[1] = <<>>, vs[2] = <<>>
          PROVE  /\ Len(s) >= 2 /\ SubSeq(vs, 3, Len(vs)) \in Seq(Seq(A))
                 /\ SubSeq(s, 3, Len(s)) = Payload(SubSeq(vs, 3, Len(vs)))
      <4>1. us[1] = <<>> /\ w = <<>>
        BY <2>2, <2>11, <3>1
      <4>2. a = 1 /\ b = 1
        BY <2>1, <2>3, <2>5, <2>8, <2>9, <2>11, <4>1 DEF BehindEmpty
      <4>3. SubSeq(s, 3, 2) = <<>> /\ SubSeq(vs, 3, 2) = <<>>
        BY SubSeqEmpty
      <4>4. Len(s) = 2 /\ Len(vs) = 2
        BY <2>2, <2>7, <2>11, <4>2
      <4>5. Len(s) >= 2
        BY <4>4
      <4> QED
        BY <1>1, <1>2, <4>3, <4>4, <4>5, Zenon
    <3>2. Len(vs) # 1
      BY <2>2, <2>11
    <3> QED
      BY <2>7, <3>1, <3>2, Zenon DEF BehindEmpty
  <2>12. ASSUME n >= 2 PROVE BehindEmpty(A, vs)
    <3>1. ASSUME vs[1] = <<>>, vs[2] = <<>>
          PROVE  /\ Len(s) >= 2 /\ SubSeq(vs, 3, Len(vs)) \in Seq(Seq(A))
                 /\ SubSeq(s, 3, Len(s)) = Payload(SubSeq(vs, 3, Len(vs)))
      <4>1. us[1] = <<>> /\ us[2] = <<>>
        BY <2>2, <2>12, <3>1
      <4>2. PICK rest \in Seq(Seq(A)) :
              rest = SubSeq(us, 3, Len(us)) /\ a >= 2 /\ SubSeq(p, 3, Len(p)) = Payload(rest)
        BY <2>1, <2>3, <2>5, <2>9, <2>12, <4>1 DEF BehindEmpty
      <4>3. SubSeq(s, 3, Len(s)) = Payload(rest) \o e
        <5>1. 3 \in 1..(Len(p) + 1)
          BY <2>5, <4>2
        <5>2. SubSeq(p \o e, 3, Len(p \o e)) = SubSeq(p, 3, Len(p)) \o e
          BY <5>1, RestOfConcat
        <5> QED
          BY <2>7, <4>2, <5>2, Zenon
      <4>4. SubSeq(vs, 3, Len(vs)) = Append(rest, w)
        <5>1. 3 \in 1..(Len(us) + 1) /\ <<w>> \in Seq(Seq(A))
          BY <2>1, <2>12
        <5>2. SubSeq(us \o <<w>>, 3, Len(us \o <<w>>)) = SubSeq(us, 3, Len(us)) \o <<w>>
          BY <5>1, RestOfConcat
        <5>3. vs = us \o <<w>> /\ Append(rest, w) = rest \o <<w>>
          BY <2>2, AppendIsConcat
        <5> QED
          BY <4>2, <5>2, <5>3, Zenon
      <4>5. Append(rest, w) \in Seq(Seq(A)) /\ Payload(Append(rest, w)) = Payload(rest) \o e
        BY <1>1, <2>4, AppendProperties
      <4>6. Len(s) >= 2
        BY <2>7, <4>2
      <4> QED
        BY <4>3, <4>4, <4>5, <4>6, Zenon
    <3>2. Len(vs) # 1
      BY <2>2, <2>12
    <3> QED
      BY <2>7, <3>1, <3>2, Zenon DEF BehindEmpty
  <2>13. n = 0 \/ n = 1 \/ n >= 2
    OBVIOUS
  <2>14. BehindEmpty(A, vs)
    BY <2>10, <2>11, <2>12, <2>13
  <2> QED
    BY <2>2, <2>14
<1> HIDE DEF T
<1>5. ws \in T
  BY <1>3, <1>4, SequenceInduction
<1> QED
  BY <1>5 DEF T

\* The strings that are read from the data are among those it holds.
LEMMA StringsParsed ==
  ASSUME NEW A, 0 \notin A, NEW ws \in Seq(Seq(A)), NEW strs, strs = ParseAllStrings(Payload(ws))
  PROVE  /\ Len(strs) \in 0..Len(ws) /\ \A k \in 1..Len(strs) : strs[k] = ws[k] /\ ws[k] # <<>>
         /\ Len(strs) # Len(ws) => Len(strs) + 1 \in 1..Len(ws) /\ ws[Len(strs) + 1] = <<>>
<1>1. Payload(ws) \in Seq(Units(A))
  BY PayloadFacts
<1>2. PICK st : st = Scan(A, UnitStart, Payload(ws))
  OBVIOUS
<1>3. strs = st.out
  BY <1>1, <1>2, ParseScans
<1>4. StringsRead(st, ws)
  BY <1>2, PayloadIsRead
<1>5. PICK m \in Nat : Len(ws) = m
  BY LenProperties
<1>6. PICK n \in 0..m :
        /\ Len(st.out) = n /\ \A k \in 1..n : st.out[k] = ws[k] /\ ws[k] # <<>>
        /\ ~st.over => n = m
        /\ st.over => n < m /\ ws[n + 1] = <<>>
  BY <1>4, <1>5 DEF StringsRead
<1> QED
  BY <1>3, <1>5, <1>6

\* The first and the third string of an alias without a count are returned, and
\* fewer than three are refused: for strings of any units, number and length.
THEOREM AliasIsReadHolds == Spec => []AliasIsRead
<1>1. Input => AliasIsRead
  <2> DEFINE data == Payload(words)
             info == ReadAppExecLinkInfo(data)
             A == Alphabet["alias"]
  <2> SUFFICES ASSUME Input, kind = "alias"
               PROVE  /\ Len(words) >= 3 /\ (\A k \in 1..3 : words[k] # <<>>) => info = Info(words)
                      /\ Len(words) < 3 => info.outcome # "read"
                      /\ /\ Len(words) >= 5 /\ words[1] = <<>> /\ words[2] = <<>>
                         /\ \A k \in 3..5 : words[k] # <<>>
                         => info = Info(SubSeq(words, 3, Len(words)))
    BY Zenon DEF AliasIsRead
  <2>1. words \in Seq(Seq(A)) /\ 0 \notin A
    <3>1. kind \in DOMAIN Alphabet
      BY DEF Input, Kinds
    <3> QED
      BY <3>1, InputsOf, UnitsAssumption
  <2>2. PICK n \in Nat : Len(words) = n
    BY <2>1, LenProperties
  <2>3. PICK first : first = ParseAllStrings(data)
    OBVIOUS
  <2>4. PICK second : second = ParseAllStrings(SubSeq(data, 3, Len(data)))
    OBVIOUS
  <2>5. info = IF EnoughStrings(first) THEN Info(first)
               ELSE IF Len(data) < 2 THEN Outcome("panic")
               ELSE IF EnoughStrings(second) THEN Info(second)
               ELSE Outcome("refused")
    BY <2>3, <2>4, Zenon DEF ReadAppExecLinkInfo
  <2> HIDE DEF A, info
  <2>6. /\ Len(first) \in 0..n /\ \A k \in 1..Len(first) : first[k] = words[k] /\ words[k] # <<>>
        /\ Len(first) # n => Len(first) + 1 \in 1..n /\ words[Len(first) + 1] = <<>>
    BY <2>1, <2>2, <2>3, StringsParsed
  <2>7. ASSUME n >= 3, \A k \in 1..3 : words[k] # <<>>
        PROVE  info = Info(words)
    <3>1. PICK l \in 0..n : Len(first) = l
      BY <2>6
    <3>2. l > 2
      <4>1. ASSUME l <= 2 PROVE FALSE
        <5>1. l # n /\ l + 1 \in 1..3
          BY <2>7, <4>1
        <5> QED
          BY <2>6, <2>7, <3>1, <5>1
      <4> QED
        BY <4>1
    <3>3. first[1] = words[1] /\ first[3] = words[3] /\ EnoughStrings(first)
      BY <2>6, <3>1, <3>2 DEF EnoughStrings
    <3>4. info = Info(first)
      BY <2>5, <3>3, Zenon
    <3> QED
      BY <3>3, <3>4, Zenon DEF Info
  <2>8. ASSUME n < 3
        PROVE  info.outcome # "read"
    <3>1. ~EnoughStrings(first)
      BY <2>2, <2>6, <2>8 DEF EnoughStrings
    <3>2. ~EnoughStrings(second)
      <4>1. LaterStrings(A, words, 3)
        BY <2>1, RestOfPayload
      <4>2. PICK us \in Seq(Seq(A)) :
               SubSeq(data, 3, Len(data)) = Payload(us) /\ Len(us) <= n
        BY <2>2, <4>1 DEF LaterStrings
      <4>3. PICK m \in Nat : Len(us) = m
        BY LenProperties
      <4>4. second = ParseAllStrings(Payload(us))
        BY <2>4, <4>2, Zenon
      <4>5. Len(second) \in 0..m
        BY <2>1, <4>3, <4>4, StringsParsed
      <4> QED
        BY <2>8, <4>2, <4>3, <4>5 DEF EnoughStrings
    <3>3. info = Outcome("panic") \/ info = Outcome("refused")
      BY <2>5, <3>1, <3>2, Zenon
    <3> QED
      BY <3>3 DEF Outcome
  <2>9. ASSUME n >= 5, words[1] = <<>>, words[2] = <<>>, \A k \in 3..5 : words[k] # <<>>
        PROVE  info = Info(SubSeq(words, 3, Len(words)))
    <3>1. PICK rest \in Seq(Seq(A)) :
            /\ rest = SubSeq(words, 3, n) /\ Len(data) >= 2
            /\ SubSeq(data, 3, Len(data)) = Payload(rest)
      <4>1. BehindEmpty(A, words)
        BY <2>1, EmptyStringsPassed
      <4>2. Len(words) >= 2
        BY <2>2, <2>9
      <4>3. /\ Len(data) >= 2 /\ SubSeq(words, 3, Len(words)) \in Seq(Seq(A))
            /\ SubSeq(data, 3, Len(data)) = Payload(SubSeq(words, 3, Len(words)))
        BY <2>9, <4>1, <4>2, Zenon DEF BehindEmpty
      <4> QED
        BY <2>2, <4>3, Zenon
    <3>2. Len(rest) = n - 2 /\ rest[1] = words[3] /\ rest[2] = words[4] /\ rest[3] = words[5]
      <4>1. \A i \in 3..n : words[i] \in Seq(A)
        BY <2>1, <2>2, ElementOfSeq
      <4> QED
        BY <2>9, <3>1, <4>1, SubSeqProperties
    <3>3. second = ParseAllStrings(Payload(rest))
      BY <2>4, <3>1, Zenon
    <3>4. /\ Len(second) \in 0..(n - 2) /\ \A k \in 1..Len(second) : second[k] = rest[k]
          /\ Len(second) # n - 2 => Len(second) + 1 \in 1..(n - 2) /\ rest[Len(second) + 1] = <<>>
      <4>1. /\ Len(second) \in 0..Len(rest)
            /\ \A k \in 1..Len(second) : second[k] = rest[k] /\ rest[k] # <<>>
            /\ Len(second) # Len(rest) =>
                 Len(second) + 1 \in 1..Len(rest) /\ rest[Len(second) + 1] = <<>>
        BY <2>1, <3>3, StringsParsed
      <4>2. Len(rest) = n - 2
        BY <3>2
      <4> QED
        BY <4>1, <4>2, Zenon
    <3>5. PICK l \in Nat : Len(second) = l
      BY <2>9, <3>4
    <3>6. l > 2
      <4>1. ASSUME l <= 2 PROVE FALSE
        <5>1. l = 0 \/ l = 1 \/ l = 2
          BY <4>1
        <5>2. 3 \in 3..5 /\ 4 \in 3..5 /\ 5 \in 3..5 /\ 0 + 1 = 1 /\ 1 + 1 = 2 /\ 2 + 1 = 3
          OBVIOUS
        <5>3. rest[1] # <<>> /\ rest[2] # <<>> /\ rest[3] # <<>>
          BY <2>9, <3>2, <5>2, Zenon
        <5>4. rest[l + 1] # <<>>
          BY <5>1, <5>2, <5>3, Zenon
        <5>5. l # n - 2
          BY <2>9, <4>1
        <5> QED
          BY <3>4, <3>5, <5>4, <5>5, Zenon
      <4> QED
        BY <4>1
    <3>7. second[1] = rest[1] /\ second[3] = rest[3] /\ EnoughStrings(second)
      BY <3>4, <3>5, <3>6 DEF EnoughStrings
    <3>8. ~EnoughStrings(first)
      <4>1. ASSUME Len(first) >= 1 PROVE FALSE
        BY <2>6, <2>9, <4>1
      <4> QED
        BY <2>6, <4>1 DEF EnoughStrings
    <3>9. info = Info(second)
      BY <2>5, <3>1, <3>7, <3>8
    <3> QED
      BY <2>2, <3>1, <3>7, <3>9, Zenon DEF Info
  <2> QED
    BY <2>2, <2>7, <2>8, <2>9
<1> QED
  BY <1>1, InputsAreWords, PTL

-----------------------------------------------------------------------------
(* The flags of exec.                                                      *)

Word == Typed \cup PassthroughNames \cup (Reserved \ {"--"}) \cup {"--link"}

Wants == {"flag", "dir", "error", "--passthrough", "--no-passthrough"}

FlagStates ==
  [detach : BOOLEAN, noUI : BOOLEAN, rootDir : Word \cup {NoDirectory}, readOnlyRoot : BOOLEAN,
   verbose : BOOLEAN, on : SUBSET PassthroughNames, set : SUBSET PassthroughNames,
   rest : Seq(Word), want : Wants]

LEMMA WordFacts ==
  /\ "--" \notin Word /\ "--link" \in Word
  /\ "--detach" \in Word /\ "--root" \in Word /\ "--readonly-root" \in Word
  /\ "--passthrough" \in Word /\ "--no-passthrough" \in Word
  /\ PassthroughNames \subseteq Word /\ Typed \subseteq Word
<1>1. "--" \notin Typed
  BY SettingsAssumption DEF Reserved
<1> QED
  BY <1>1 DEF Word, Reserved, PassthroughNames

LEMMA NoFlagsTyped == NoFlags \in FlagStates
<1>1. <<>> \in Seq(Word) /\ "flag" \in Wants
  BY EmptySeq DEF Wants
<1>2. {} \in SUBSET PassthroughNames /\ FALSE \in BOOLEAN
  OBVIOUS
<1> QED
  BY <1>1, <1>2, Zenon DEF NoFlags, FlagStates

LEMMA TakeFlagTyped ==
  ASSUME NEW st \in FlagStates, NEW a \in Word
  PROVE  TakeFlag(st, a) \in FlagStates
<1> DEFINE W == Word
           N == PassthroughNames
<1>1. /\ st.on \in SUBSET N /\ st.set \in SUBSET N
      /\ st.rest \in Seq(W) /\ st.want \in Wants
  BY DEF FlagStates
<1> HIDE DEF W, N
<1>2. PICK x \in Seq(W) : x = Append(st.rest, a)
  BY <1>1, AppendProperties DEF W
<1>3. [st EXCEPT !.rest = x] \in FlagStates
  BY <1>2 DEF FlagStates, W
<1>4. \A w \in Wants : [st EXCEPT !.rootDir = a, !.want = w] \in FlagStates /\ [st EXCEPT !.want = w] \in FlagStates
  BY DEF FlagStates
<1>5. \A o, s \in SUBSET N, w \in Wants : [st EXCEPT !.on = o, !.set = s, !.want = w] \in FlagStates
  BY DEF FlagStates, N
<1>6. /\ [st EXCEPT !.detach = TRUE] \in FlagStates
      /\ [st EXCEPT !.noUI = TRUE] \in FlagStates
      /\ [st EXCEPT !.readOnlyRoot = TRUE] \in FlagStates
      /\ [st EXCEPT !.verbose = TRUE] \in FlagStates
  BY DEF FlagStates
<1>7. /\ "flag" \in Wants /\ "dir" \in Wants /\ "error" \in Wants
      /\ "--passthrough" \in Wants /\ "--no-passthrough" \in Wants
  BY DEF Wants
<1>8. CASE st.want \in {"--passthrough", "--no-passthrough"} /\ a \in N
  <2>1. PICK o \in SUBSET N :
           o = IF st.want = "--passthrough" THEN st.on \cup {a} ELSE st.on \ {a}
    BY <1>1, <1>8
  <2>2. PICK s \in SUBSET N : s = st.set \cup {a}
    BY <1>1, <1>8
  <2>3. TakeFlag(st, a) = [st EXCEPT !.on = o, !.set = s, !.want = "flag"]
    BY <1>8, <2>1, <2>2 DEF TakeFlag, N
  <2>4. [st EXCEPT !.on = o, !.set = s, !.want = "flag"] \in FlagStates
    BY <1>5, <1>7
  <2> QED
    BY <2>3, <2>4, Zenon
<1>9. CASE ~(st.want \in {"--passthrough", "--no-passthrough"} /\ a \in N)
  <2>1. \/ TakeFlag(st, a) = st
        \/ TakeFlag(st, a) = [st EXCEPT !.rootDir = a, !.want = "flag"]
        \/ TakeFlag(st, a) = [st EXCEPT !.want = "error"]
        \/ TakeFlag(st, a) = [st EXCEPT !.detach = TRUE]
        \/ TakeFlag(st, a) = [st EXCEPT !.noUI = TRUE]
        \/ TakeFlag(st, a) = [st EXCEPT !.readOnlyRoot = TRUE]
        \/ TakeFlag(st, a) = [st EXCEPT !.verbose = TRUE]
        \/ TakeFlag(st, a) = [st EXCEPT !.want = "dir"]
        \/ TakeFlag(st, a) = [st EXCEPT !.want = "--passthrough"]
        \/ TakeFlag(st, a) = [st EXCEPT !.want = "--no-passthrough"]
        \/ TakeFlag(st, a) = [st EXCEPT !.rest = x]
    BY <1>2, <1>9 DEF TakeFlag, N
  <2> QED
    BY <1>3, <1>4, <1>6, <1>7, <2>1
<1> QED
  BY <1>8, <1>9

Flagging(S, C, f) == \A x \in S, c \in C : f[<<x, c>>] = TakeFlag(x, c)

LEMMA FlaggingIsFolded ==
  ASSUME NEW S, NEW C, NEW f, StepsInto(S, C, f, NoFlags),
         Flagging(S, C, f), NEW s \in Seq(C)
  PROVE  FoldLeft(TakeFlag, NoFlags, s) = Folded(f, NoFlags, s)
<1> DEFINE b == NoFlags
           Obeys(I) == I = [t \in SUBSET (DOMAIN s) |->
                              IF t = {} THEN b ELSE TakeFlag(I[t \ {Max(t)}], s[Max(t)])]
           J == TheIteration(f, b, s)
           K == CHOOSE I : Obeys(I)
<1>1. FoldLeft(TakeFlag, NoFlags, s) = K[DOMAIN s]
  BY Zenon DEF FoldLeft, MapThenFoldSet
<1> HIDE DEF b
<1>2. StepsInto(S, C, f, b)
  BY DEF b
<1>3. Obeys(J)
  <2>1. /\ J = [t \in SUBSET (DOMAIN s) |->
                  IF t = {} THEN b ELSE f[<<J[t \ {Max(t)}], s[Max(t)]>>]]
        /\ \A t \in SUBSET (DOMAIN s) : t # {} => J[t \ {Max(t)}] \in S /\ s[Max(t)] \in C
    BY <1>2, IterationWithin
  <2> HIDE DEF J
  <2> QED
    BY <2>1 DEF Flagging
<1>4. K = [t \in SUBSET (DOMAIN s) |-> IF t = {} THEN b ELSE TakeFlag(K[t \ {Max(t)}], s[Max(t)])]
  <2> HIDE DEF Obeys, J
  <2>1. Obeys(K)
    BY <1>3
  <2> HIDE DEF K
  <2> QED
    BY <2>1 DEF Obeys
<1> HIDE DEF K, Obeys
<1>5. IteratesWithin(S, K, f, b, s)
  <2>1. ASSUME NEW t \in SUBSET (DOMAIN s), t # {}, K[t \ {Max(t)}] \in S
        PROVE  K[t] = f[<<K[t \ {Max(t)}], s[Max(t)]>>]
    <3>1. K[t] = TakeFlag(K[t \ {Max(t)}], s[Max(t)])
      BY <1>4, <2>1
    <3>2. s[Max(t)] \in C
      <4>1. \A u \in SUBSET (DOMAIN s) : u # {} => s[Max(u)] \in C
        BY <1>2, IterationWithin
      <4> QED
        BY <2>1, <4>1
    <3> QED
      BY <2>1, <3>1, <3>2 DEF Flagging
  <2>2. K[{}] = b
    BY <1>4
  <2> QED
    BY <2>1, <2>2 DEF IteratesWithin
<1>6. K[DOMAIN s] = Folded(f, b, s)
  BY <1>2, <1>5, AnyIteration
<1> QED
  BY <1>1, <1>6 DEF b

FlagFunction == [p \in FlagStates \X Word |-> TakeFlag(p[1], p[2])]

\* The state after the arguments s from st.
Flags(st, s) == Folded(FlagFunction, st, s)

LEMMA FlagSteps ==
  ASSUME NEW st \in FlagStates
  PROVE  StepsInto(FlagStates, Word, FlagFunction, st)
BY TakeFlagTyped DEF StepsInto, FlagFunction

LEMMA FlagsRead ==
  ASSUME NEW s \in Seq(Word)
  PROVE  FoldLeft(TakeFlag, NoFlags, s) = Flags(NoFlags, s)
<1>1. StepsInto(FlagStates, Word, FlagFunction, NoFlags)
  BY NoFlagsTyped, FlagSteps
<1>2. Flagging(FlagStates, Word, FlagFunction)
  BY DEF Flagging, FlagFunction
<1> QED
  BY <1>1, <1>2, FlaggingIsFolded DEF Flags

LEMMA FlagsConcat ==
  ASSUME NEW st \in FlagStates, NEW s \in Seq(Word), NEW t \in Seq(Word)
  PROVE  Flags(st, s \o t) = Flags(Flags(st, s), t)
BY FlagSteps, FoldedConcat DEF Flags

LEMMA FlagsTyped ==
  ASSUME NEW st \in FlagStates, NEW s \in Seq(Word)
  PROVE  Flags(st, s) \in FlagStates /\ Flags(st, <<>>) = st
<1>1. FoldLaws(FlagStates, Word, FlagFunction, st)
  BY FlagSteps, FoldLawsHold
<1> QED
  BY <1>1 DEF FoldLaws, Flags

LEMMA FlagsAppend ==
  ASSUME NEW st \in FlagStates, NEW s \in Seq(Word), NEW a \in Word
  PROVE  Flags(st, Append(s, a)) = TakeFlag(Flags(st, s), a)
<1>1. FoldLaws(FlagStates, Word, FlagFunction, st)
  BY FlagSteps, FoldLawsHold
<1>2. Flags(st, s) \in FlagStates
  BY FlagsTyped
<1>3. Flags(st, Append(s, a)) = FlagFunction[<<Flags(st, s), a>>]
  BY <1>1 DEF FoldLaws, Flags
<1> QED
  BY <1>2, <1>3 DEF FlagFunction

LEMMA FlagsOne ==
  ASSUME NEW st \in FlagStates, NEW a \in Word
  PROVE  Flags(st, <<a>>) = TakeFlag(st, a) /\ <<a>> \in Seq(Word)
<1>1. <<>> \in Seq(Word) /\ <<a>> = Append(<<>>, a) /\ <<a>> \in Seq(Word)
  BY EmptySeq
<1>2. Flags(st, Append(<<>>, a)) = TakeFlag(Flags(st, <<>>), a)
  BY <1>1, FlagsAppend
<1>3. Flags(st, <<>>) = st
  BY <1>1, FlagsTyped
<1> QED
  BY <1>1, <1>2, <1>3

LEMMA FlagsTwo ==
  ASSUME NEW st \in FlagStates, NEW a \in Word, NEW c \in Word
  PROVE  Flags(st, <<a, c>>) = TakeFlag(TakeFlag(st, a), c) /\ <<a, c>> \in Seq(Word)
<1>1. <<a>> \in Seq(Word) /\ <<a, c>> = Append(<<a>>, c) /\ <<a, c>> \in Seq(Word)
  OBVIOUS
<1>2. Flags(st, <<a, c>>) = TakeFlag(Flags(st, <<a>>), c)
  BY <1>1, FlagsAppend
<1> QED
  BY <1>1, <1>2, FlagsOne

\* Between two arguments.
Settled(detach, dir, ro, on, set, rest, want) ==
  [detach |-> detach, noUI |-> FALSE, rootDir |-> dir, readOnlyRoot |-> ro,
   verbose |-> FALSE, on |-> on, set |-> set, rest |-> rest, want |-> want]

Settles(detach, dir, ro, on, set, rest, want) ==
  /\ detach \in BOOLEAN /\ ro \in BOOLEAN /\ dir \in Word \cup {NoDirectory}
  /\ on \in SUBSET PassthroughNames /\ set \in SUBSET PassthroughNames
  /\ rest \in Seq(Word) /\ want \in Wants

LEMMA SettledTyped ==
  ASSUME NEW detach, NEW dir, NEW ro, NEW on, NEW set, NEW rest, NEW want,
         Settles(detach, dir, ro, on, set, rest, want)
  PROVE  Settled(detach, dir, ro, on, set, rest, want) \in FlagStates
BY DEF Settles, Settled, FlagStates

LEMMA PlainTaken ==
  ASSUME NEW detach, NEW dir, NEW ro, NEW on, NEW set, NEW rest, NEW a, a \notin Reserved
  PROVE  TakeFlag(Settled(detach, dir, ro, on, set, rest, "flag"), a)
           = Settled(detach, dir, ro, on, set, Append(rest, a), "flag")
<1>1. /\ a # "--detach" /\ a # "--no-ui-restrictions" /\ a # "--root" /\ a # "--readonly-root"
      /\ a # "--verbose" /\ a \notin {"--passthrough", "--no-passthrough"}
  BY DEF Reserved
<1> QED
  BY <1>1 DEF Settled, TakeFlag

Switches(detach, root, ro, dir) ==
  (IF detach THEN <<"--detach">> ELSE <<>>)
    \o (IF root THEN <<"--root", dir>> ELSE <<>>)
    \o (IF ro THEN <<"--readonly-root">> ELSE <<>>)

SwitchesLeave(detach, root, ro, dir) ==
  /\ Switches(detach, root, ro, dir) \in Seq(Word)
  /\ Flags(NoFlags, Switches(detach, root, ro, dir)) =
       Settled(detach, IF root THEN dir ELSE NoDirectory, ro, {}, {}, <<>>, "flag")

\* The arguments up to the boxes.
LEMMA SwitchesRead ==
  ASSUME NEW detach \in BOOLEAN, NEW root \in BOOLEAN, NEW ro \in BOOLEAN, NEW dir \in Word
  PROVE  SwitchesLeave(detach, root, ro, dir)
<1> DEFINE args == Switches(detach, root, ro, dir)
           p1 == IF detach THEN <<"--detach">> ELSE <<>>
           p2 == IF root THEN <<"--root", dir>> ELSE <<>>
           p3 == IF ro THEN <<"--readonly-root">> ELSE <<>>
           at == IF root THEN dir ELSE NoDirectory
           s0 == Settled(FALSE, NoDirectory, FALSE, {}, {}, <<>>, "flag")
           s1 == Settled(detach, NoDirectory, FALSE, {}, {}, <<>>, "flag")
           s2 == Settled(detach, at, FALSE, {}, {}, <<>>, "flag")
           s3 == Settled(detach, at, ro, {}, {}, <<>>, "flag")
<1>1. NoFlags = s0
  BY Zenon DEF NoFlags, Settled
<1>2. s0 \in FlagStates /\ s1 \in FlagStates /\ s2 \in FlagStates
  <2>1. <<>> \in Seq(Word) /\ "flag" \in Wants
    BY EmptySeq DEF Wants
  <2>2. /\ Settles(FALSE, NoDirectory, FALSE, {}, {}, <<>>, "flag")
        /\ Settles(detach, NoDirectory, FALSE, {}, {}, <<>>, "flag")
        /\ Settles(detach, at, FALSE, {}, {}, <<>>, "flag")
    BY <2>1 DEF Settles
  <2> HIDE DEF at
  <2> QED
    BY <2>2, SettledTyped
<1>3. p1 \in Seq(Word) /\ p2 \in Seq(Word) /\ p3 \in Seq(Word)
  BY EmptySeq, WordFacts, FlagsOne, FlagsTwo, <1>2
<1>4. Flags(s0, p1) = s1
  <2>1. CASE detach = TRUE
    <3>1. Flags(s0, p1) = TakeFlag(s0, "--detach")
      <4> HIDE DEF s0
      <4> QED
        BY <2>1, <1>2, WordFacts, FlagsOne
    <3> HIDE DEF p1
    <3>2. TakeFlag(s0, "--detach") = s1
      BY <2>1 DEF Settled, TakeFlag
    <3> HIDE DEF s0, s1
    <3> QED
      BY <3>1, <3>2
  <2>2. CASE detach = FALSE
    <3>1. Flags(s0, p1) = s0
      <4> HIDE DEF s0
      <4> QED
        BY <2>2, <1>2, EmptySeq, FlagsTyped
    <3> QED
      BY <2>2, <3>1
  <2> QED
    BY <2>1, <2>2
<1>5. Flags(s1, p2) = s2
  <2>1. CASE root = TRUE
    <3>1. Flags(s1, p2) = TakeFlag(TakeFlag(s1, "--root"), dir)
      <4> HIDE DEF s1
      <4> QED
        BY <2>1, <1>2, WordFacts, FlagsTwo
    <3> HIDE DEF p2
    <3> DEFINE s == Settled(detach, NoDirectory, FALSE, {}, {}, <<>>, "dir")
    <3>2. TakeFlag(s1, "--root") = s
      BY DEF Settled, TakeFlag
    <3>3. TakeFlag(s, dir) = s2
      BY <2>1 DEF Settled, TakeFlag
    <3> HIDE DEF s, s1, s2
    <3> QED
      BY <3>1, <3>2, <3>3
  <2>2. CASE root = FALSE
    <3>1. Flags(s1, p2) = s1
      <4> HIDE DEF s1
      <4> QED
        BY <2>2, <1>2, EmptySeq, FlagsTyped
    <3> QED
      BY <2>2, <3>1
  <2> QED
    BY <2>1, <2>2
<1>6. Flags(s2, p3) = s3
  <2>1. CASE ro = TRUE
    <3>1. Flags(s2, p3) = TakeFlag(s2, "--readonly-root")
      <4> HIDE DEF s2
      <4> QED
        BY <2>1, <1>2, WordFacts, FlagsOne
    <3> HIDE DEF at, p3
    <3>2. TakeFlag(s2, "--readonly-root") = s3
      BY <2>1 DEF Settled, TakeFlag
    <3> HIDE DEF s2, s3
    <3> QED
      BY <3>1, <3>2
  <2>2. CASE ro = FALSE
    <3>1. Flags(s2, p3) = s2
      <4> HIDE DEF s2
      <4> QED
        BY <2>2, <1>2, EmptySeq, FlagsTyped
    <3> QED
      BY <2>2, <3>1
  <2> QED
    BY <2>1, <2>2
<1>7. args = (p1 \o p2) \o p3
  BY DEF Switches
<1> HIDE DEF p1, p2, p3, s0, s1, s2, args
<1>8. p1 \o p2 \in Seq(Word) /\ (p1 \o p2) \o p3 \in Seq(Word)
  BY <1>3, ConcatProperties
<1>9. Flags(s0, p1 \o p2) = s2
  BY <1>2, <1>3, <1>4, <1>5, FlagsConcat
<1>10. Flags(s0, (p1 \o p2) \o p3) = s3
  BY <1>2, <1>3, <1>6, <1>8, <1>9, FlagsConcat
<1> QED
  BY <1>1, <1>7, <1>8, <1>10 DEF SwitchesLeave, args

\* Words that are no flags are left for the links and the name.
Plain == Word \ Reserved

RestLeaves(detach, dir, ro, on, set, rest, ws) ==
  /\ ws \in Seq(Word)
  /\ Flags(Settled(detach, dir, ro, on, set, rest, "flag"), ws)
       = Settled(detach, dir, ro, on, set, rest \o ws, "flag")

LEMMA RestRead ==
  ASSUME NEW detach, NEW dir, NEW ro, NEW on, NEW set, NEW rest,
         Settles(detach, dir, ro, on, set, rest, "flag"), NEW ws \in Seq(Plain)
  PROVE  RestLeaves(detach, dir, ro, on, set, rest, ws)
<1> DEFINE st == Settled(detach, dir, ro, on, set, rest, "flag")
           After(u) == Settled(detach, dir, ro, on, set, rest \o u, "flag")
           T == {u \in Seq(Word) : Flags(st, u) = After(u)}
<1>1. st \in FlagStates /\ rest \in Seq(Word)
  BY SettledTyped DEF Settles
<1>2. <<>> \in T
  <2>1. rest \o <<>> = rest /\ <<>> \in Seq(Word)
    BY <1>1, ConcatEmptySeq, EmptySeq
  <2>2. Flags(st, <<>>) = st
    BY <1>1, <2>1, FlagsTyped
  <2> QED
    BY <2>1, <2>2
<1>3. ASSUME NEW u \in Seq(Plain), NEW a \in Plain, u \in T
      PROVE  Append(u, a) \in T
  <2>1. u \in Seq(Word) /\ a \in Word /\ a \notin Reserved /\ Flags(st, u) = After(u)
    BY <1>3 DEF Plain
  <2>2. Append(u, a) \in Seq(Word) /\ rest \o Append(u, a) = Append(rest \o u, a)
    BY <1>1, <2>1, AppendProperties, ConcatAppend
  <2>3. Flags(st, Append(u, a)) = TakeFlag(After(u), a)
    <3> HIDE DEF st, After
    <3> QED
      BY <1>1, <2>1, FlagsAppend
  <2>4. TakeFlag(After(u), a) = Settled(detach, dir, ro, on, set, Append(rest \o u, a), "flag")
    BY <2>1, PlainTaken
  <2> QED
    BY <2>2, <2>3, <2>4
<1> HIDE DEF T
<1>4. ws \in T
  BY <1>2, <1>3, SequenceInduction
<1> QED
  BY <1>4 DEF T, RestLeaves

LEMMA BoxNames ==
  /\ DOMAIN Boxes = 1..6 /\ \A k \in 1..6 : Boxes[k] \in PassthroughNames
  /\ {Boxes[k] : k \in 1..6} = PassthroughNames \ {"powershell"}
<1> DEFINE t == Boxes
<1>1. /\ t[1] = "executable" /\ t[2] = "path" /\ t[3] = "cwd"
      /\ t[4] = "gitroot" /\ t[5] = "appexec" /\ t[6] = "appstate"
      /\ DOMAIN t = 1..6
  BY DEF Boxes
<1> HIDE DEF t
<1>2. \A k \in 1..6 : k = 1 \/ k = 2 \/ k = 3 \/ k = 4 \/ k = 5 \/ k = 6
  OBVIOUS
<1>3. \A k \in 1..6 : t[k] \in PassthroughNames /\ t[k] # "powershell"
  BY <1>1, <1>2 DEF PassthroughNames
<1>4. \A n \in PassthroughNames \ {"powershell"} : \E k \in 1..6 : n = t[k]
  <2>1. 1 \in 1..6 /\ 2 \in 1..6 /\ 3 \in 1..6 /\ 4 \in 1..6 /\ 5 \in 1..6 /\ 6 \in 1..6
    OBVIOUS
  <2> QED
    BY <1>1, <2>1 DEF PassthroughNames
<1>5. {t[k] : k \in 1..6} = PassthroughNames \ {"powershell"}
  BY <1>3, <1>4
<1> QED
  BY <1>1, <1>3, <1>5 DEF t

\* After the boxes in S.
Boxed(detach, dir, ro, root, checked, S) ==
  Settled(detach, dir, ro, checked \cap S, IF root THEN S ELSE checked \cap S, <<>>, "flag")

BoxPiece(n, root, checked) ==
  IF n \in checked THEN <<"--passthrough", n>>
  ELSE IF root THEN <<"--no-passthrough", n>> ELSE <<>>

LEMMA BoxRead ==
  ASSUME NEW detach \in BOOLEAN, NEW dir \in Word \cup {NoDirectory}, NEW ro \in BOOLEAN,
         NEW root \in BOOLEAN, NEW checked \in SUBSET PassthroughNames,
         NEW S \in SUBSET PassthroughNames, NEW n \in PassthroughNames
  PROVE  /\ BoxPiece(n, root, checked) \in Seq(Word)
         /\ Boxed(detach, dir, ro, root, checked, S) \in FlagStates
         /\ Flags(Boxed(detach, dir, ro, root, checked, S), BoxPiece(n, root, checked))
              = Boxed(detach, dir, ro, root, checked, S \cup {n})
<1> DEFINE on == checked \cap S
           set == IF root THEN S ELSE on
           st == Settled(detach, dir, ro, on, set, <<>>, "flag")
           s2 == Boxed(detach, dir, ro, root, checked, S \cup {n})
<1>1. st \in FlagStates /\ st = Boxed(detach, dir, ro, root, checked, S)
  <2>1. <<>> \in Seq(Word) /\ "flag" \in Wants
    BY EmptySeq DEF Wants
  <2>2. Settles(detach, dir, ro, on, set, <<>>, "flag")
    BY <2>1 DEF Settles
  <2> HIDE DEF on, set
  <2>3. st \in FlagStates
    BY <2>2, SettledTyped
  <2> QED
    BY <2>3 DEF Boxed, on, set
<1>2. n \in Word
  BY WordFacts
<1>3. CASE n \in checked
  <2>1. Flags(st, <<"--passthrough", n>>) = TakeFlag(TakeFlag(st, "--passthrough"), n)
    <3> HIDE DEF st
    <3> QED
      BY <1>1, <1>2, WordFacts, FlagsTwo
  <2> DEFINE s1 == Settled(detach, dir, ro, on, set, <<>>, "--passthrough")
  <2>2. TakeFlag(st, "--passthrough") = s1
    <3> HIDE DEF on, set
    <3> QED
      BY DEF Settled, TakeFlag
  <2>3. TakeFlag(s1, n) = Settled(detach, dir, ro, on \cup {n}, set \cup {n}, <<>>, "flag")
    <3> HIDE DEF on, set
    <3> QED
      BY DEF Settled, TakeFlag
  <2>4. on \cup {n} = checked \cap (S \cup {n})
    BY <1>3
  <2>5. set \cup {n} = IF root THEN S \cup {n} ELSE checked \cap (S \cup {n})
    BY <1>3
  <2>6. TakeFlag(s1, n) = s2
    <3> HIDE DEF s1, on, set
    <3> QED
      BY <2>3, <2>4, <2>5 DEF Boxed
  <2>7. BoxPiece(n, root, checked) = <<"--passthrough", n>>
    BY <1>3 DEF BoxPiece
  <2> HIDE DEF st, s1, s2
  <2> QED
    BY <1>1, <1>2, <2>1, <2>2, <2>6, <2>7, WordFacts, FlagsTwo DEF s2
<1>4. CASE n \notin checked /\ root = TRUE
  <2>1. Flags(st, <<"--no-passthrough", n>>) = TakeFlag(TakeFlag(st, "--no-passthrough"), n)
    <3> HIDE DEF st
    <3> QED
      BY <1>1, <1>2, WordFacts, FlagsTwo
  <2> DEFINE s1 == Settled(detach, dir, ro, on, set, <<>>, "--no-passthrough")
  <2>2. TakeFlag(st, "--no-passthrough") = s1
    <3> HIDE DEF on, set
    <3> QED
      BY DEF Settled, TakeFlag
  <2>3. TakeFlag(s1, n) = Settled(detach, dir, ro, on \ {n}, set \cup {n}, <<>>, "flag")
    <3> HIDE DEF on, set
    <3> QED
      BY DEF Settled, TakeFlag
  <2>4. on \ {n} = checked \cap (S \cup {n})
    BY <1>4
  <2>5. set \cup {n} = IF root THEN S \cup {n} ELSE checked \cap (S \cup {n})
    BY <1>4
  <2>6. TakeFlag(s1, n) = s2
    <3> HIDE DEF s1, on, set
    <3> QED
      BY <2>3, <2>4, <2>5 DEF Boxed
  <2>7. BoxPiece(n, root, checked) = <<"--no-passthrough", n>>
    BY <1>4 DEF BoxPiece
  <2> HIDE DEF st, s1, s2
  <2> QED
    BY <1>1, <1>2, <2>1, <2>2, <2>6, <2>7, WordFacts, FlagsTwo DEF s2
<1>5. CASE n \notin checked /\ root = FALSE
  <2>1. BoxPiece(n, root, checked) = <<>> /\ <<>> \in Seq(Word)
    BY <1>5, EmptySeq DEF BoxPiece
  <2>2. Flags(st, <<>>) = st
    <3> HIDE DEF st
    <3> QED
      BY <1>1, <2>1, FlagsTyped
  <2>3. on = checked \cap (S \cup {n})
    BY <1>5
  <2>4. st = s2
    BY <1>5, <2>3 DEF Boxed
  <2> HIDE DEF st, s2
  <2> QED
    BY <1>1, <2>1, <2>2, <2>4 DEF s2
<1> QED
  BY <1>3, <1>4, <1>5

BoxPieces(root, checked) == [k \in DOMAIN Boxes |-> BoxPiece(Boxes[k], root, checked)]

BoxesLeave(detach, dir, ro, root, checked) ==
  /\ FlattenSeq(BoxPieces(root, checked)) \in Seq(Word)
  /\ Flags(Settled(detach, dir, ro, {}, {}, <<>>, "flag"), FlattenSeq(BoxPieces(root, checked)))
       = Boxed(detach, dir, ro, root, checked, PassthroughNames \ {"powershell"})
  /\ Settled(detach, dir, ro, {}, {}, <<>>, "flag") \in FlagStates

\* The six boxes with a default leave exactly the checked ones on, and what is
\* off under --root is set.
LEMMA BoxesRead ==
  ASSUME NEW detach \in BOOLEAN, NEW dir \in Word \cup {NoDirectory}, NEW ro \in BOOLEAN,
         NEW root \in BOOLEAN, NEW checked \in SUBSET PassthroughNames
  PROVE  BoxesLeave(detach, dir, ro, root, checked)
<1> DEFINE P == BoxPieces(root, checked)
           F == TheFlattening(P)
           S(k) == {Boxes[j] : j \in 1..k}
           At(k) == Boxed(detach, dir, ro, root, checked, S(k))
           st == Settled(detach, dir, ro, {}, {}, <<>>, "flag")
           Good(k) == F[k] \in Seq(Word) /\ Flags(st, F[k]) = At(k)
           T == {n \in Nat : n + 1 <= 6 => Good(n + 1)}
<1>1. P \in Seq(Seq(Word)) /\ Len(P) = 6 /\ \A k \in 1..6 : P[k] = BoxPiece(Boxes[k], root, checked)
  <2>1. P = [k \in 1..6 |-> BoxPiece(Boxes[k], root, checked)]
    BY BoxNames DEF BoxPieces
  <2>2. \A k \in 1..6 : BoxPiece(Boxes[k], root, checked) \in Seq(Word)
    BY BoxNames, BoxRead
  <2> HIDE DEF P
  <2>3. PICK n \in Nat : n = 6
    OBVIOUS
  <2>4. P \in [1..n -> Seq(Word)]
    BY <2>1, <2>2, <2>3
  <2>5. P \in Seq(Seq(Word)) /\ Len(P) = n
    BY <2>4
  <2> QED
    BY <2>1, <2>3, <2>5
<1> HIDE DEF P
<1>2. FlatteningSteps(F, P, 6) /\ FlattenSeq(P) = F[6]
  <2>1. Flattens(F, P) /\ (Len(P) # 0 => FlattenSeq(P) = F[Len(P)])
    BY <1>1, FlattensExists
  <2> HIDE DEF F
  <2>2. FlatteningSteps(F, P, 6)
    BY <1>1, <2>1, FlattensSteps
  <2> QED
    BY <1>1, <2>1, <2>2
<1> HIDE DEF F
<1>3. ASSUME NEW k \in 1..6
      PROVE  F[k] = IF k = 1 THEN P[k] ELSE F[k - 1] \o P[k]
  BY <1>2 DEF FlatteningSteps
<1>4. ASSUME NEW k \in Nat, k + 1 <= 6
      PROVE  /\ P[k + 1] \in Seq(Word) /\ At(k) \in FlagStates
             /\ Flags(At(k), P[k + 1]) = At(k + 1)
  <2>1. k + 1 \in 1..6
    BY <1>4
  <2>2. Boxes[k + 1] \in PassthroughNames
    BY <2>1, BoxNames
  <2>3. S(k + 1) = S(k) \cup {Boxes[k + 1]}
    <3>1. \A j : j \in 1..(k + 1) <=> j \in 1..k \/ j = k + 1
      BY <1>4
    <3> QED
      BY <3>1
  <2>4. S(k) \in SUBSET PassthroughNames
    <3>1. \A j \in 1..k : j \in 1..6
      BY <1>4
    <3> QED
      BY <3>1, BoxNames
  <2> DEFINE x == S(k)
             n == Boxes[k + 1]
  <2>5. At(k) = Boxed(detach, dir, ro, root, checked, x)
    OBVIOUS
  <2>6. At(k + 1) = Boxed(detach, dir, ro, root, checked, x \cup {n})
    BY <2>3
  <2>7. P[k + 1] = BoxPiece(n, root, checked)
    BY <1>1, <2>1
  <2>8. x \in SUBSET PassthroughNames /\ n \in PassthroughNames
    BY <2>2, <2>4
  <2> HIDE DEF x, n, At
  <2>9. /\ BoxPiece(n, root, checked) \in Seq(Word)
        /\ Boxed(detach, dir, ro, root, checked, x) \in FlagStates
        /\ Flags(Boxed(detach, dir, ro, root, checked, x), BoxPiece(n, root, checked))
             = Boxed(detach, dir, ro, root, checked, x \cup {n})
    BY <2>8, BoxRead
  <2> QED
    BY <2>5, <2>6, <2>7, <2>9
<1>5. st = At(0) /\ st \in FlagStates
  <2>1. S(0) = {}
    OBVIOUS
  <2> HIDE DEF S
  <2>2. st = At(0)
    BY <2>1 DEF Boxed
  <2> HIDE DEF st
  <2> QED
    BY <1>4, <2>2
<1> HIDE DEF At, st
<1>6. 0 \in T
  <2>1. F[1] = P[1]
    BY <1>3
  <2>2. P[1] \in Seq(Word) /\ Flags(At(0), P[1]) = At(1)
    BY <1>4
  <2> QED
    BY <1>5, <2>1, <2>2
<1>7. ASSUME NEW n \in Nat, n \in T
      PROVE  n + 1 \in T
  <2> SUFFICES ASSUME (n + 1) + 1 <= 6
               PROVE  Good((n + 1) + 1)
    OBVIOUS
  <2> DEFINE m == n + 1
  <2>1. m \in Nat /\ m + 1 <= 6 /\ m + 1 \in 1..6 /\ m + 1 # 1 /\ (m + 1) - 1 = m
    OBVIOUS
  <2>2. Good(m)
    BY <1>7, <2>1
  <2> HIDE DEF m
  <2>3. F[m + 1] = F[m] \o P[m + 1]
    BY <1>3, <2>1
  <2>4. P[m + 1] \in Seq(Word) /\ At(m) \in FlagStates /\ Flags(At(m), P[m + 1]) = At(m + 1)
    BY <1>4, <2>1
  <2>5. F[m + 1] \in Seq(Word)
    BY <2>2, <2>3, <2>4, ConcatProperties
  <2>6. Flags(st, F[m + 1]) = At(m + 1)
    BY <1>5, <2>2, <2>3, <2>4, FlagsConcat
  <2> QED
    BY <2>5, <2>6 DEF m
<1>8. Good(6)
  <2> HIDE DEF T
  <2>1. 5 \in T
    BY <1>6, <1>7, SetInduction
  <2> QED
    BY <2>1 DEF T
<1>9. At(6) = Boxed(detach, dir, ro, root, checked, PassthroughNames \ {"powershell"})
  BY BoxNames DEF At
<1> QED
  BY <1>2, <1>5, <1>8, <1>9 DEF BoxesLeave, P, st

PassthroughLeaves(detach, dir, ro, b) ==
  /\ PassthroughArguments(b) \in Seq(Word)
  /\ \E set \in SUBSET PassthroughNames :
       /\ b.root => PassthroughNames \ {"powershell"} \subseteq set
       /\ Flags(Settled(detach, dir, ro, {}, {}, <<>>, "flag"), PassthroughArguments(b))
            = Settled(detach, dir, ro, b.checked, set, <<>>, "flag")

\* The arguments of the boxes leave exactly the checked ones on, and under
\* --root every default is set.
LEMMA PassthroughRead ==
  ASSUME NEW detach \in BOOLEAN, NEW dir \in Word \cup {NoDirectory}, NEW ro \in BOOLEAN,
         NEW b, b.root \in BOOLEAN, b.checked \in SUBSET PassthroughNames
  PROVE  PassthroughLeaves(detach, dir, ro, b)
<1> DEFINE N == PassthroughNames
           D == N \ {"powershell"}
           checked == b.checked
           root == b.root
           P == FlattenSeq(BoxPieces(root, checked))
           Q == IF "powershell" \in checked THEN <<"--passthrough", "powershell">> ELSE <<>>
           st == Settled(detach, dir, ro, {}, {}, <<>>, "flag")
           set == IF root THEN D ELSE checked \cap D
           s1 == Settled(detach, dir, ro, checked \cap D, set, <<>>, "flag")
<1>1. PassthroughArguments(b) = P \o Q
  BY Zenon DEF PassthroughArguments, BoxPieces, BoxPiece
<1>2. P \in Seq(Word) /\ Flags(st, P) = s1 /\ st \in FlagStates
  <2> HIDE DEF checked, root
  <2>1. root \in BOOLEAN /\ checked \in SUBSET PassthroughNames
    BY DEF checked, root
  <2> QED
    <3>1. /\ P \in Seq(Word)
          /\ Flags(st, P) = Boxed(detach, dir, ro, root, checked, D)
          /\ st \in FlagStates
      <4>1. BoxesLeave(detach, dir, ro, root, checked)
        BY <2>1, BoxesRead
      <4> QED
        BY <4>1 DEF BoxesLeave
    <3>2. Boxed(detach, dir, ro, root, checked, D) = s1
      BY DEF Boxed
    <3> HIDE DEF P, st, s1, D
    <3> QED
      BY <3>1, <3>2
<1>3. "powershell" \in N /\ "powershell" \in Word
  BY WordFacts DEF PassthroughNames
<1>4. s1 \in FlagStates
  <2> HIDE DEF s1, P, st
  <2> QED
    BY <1>2, FlagsTyped
<1>5. CASE "powershell" \in checked
  <2> DEFINE s2 == Settled(detach, dir, ro, checked \cap D, set, <<>>, "--passthrough")
             s3 == Settled(detach, dir, ro, checked, set \cup {"powershell"}, <<>>, "flag")
  <2>1. Flags(s1, Q) = TakeFlag(TakeFlag(s1, "--passthrough"), "powershell") /\ Q \in Seq(Word)
    <3> HIDE DEF s1
    <3>1. Q = <<"--passthrough", "powershell">>
      BY <1>5
    <3> HIDE DEF Q
    <3> QED
      BY <1>3, <1>4, <3>1, WordFacts, FlagsTwo
  <2>2. TakeFlag(s1, "--passthrough") = s2
    <3> HIDE DEF D, set, checked
    <3> QED
      BY DEF Settled, TakeFlag
  <2>3. TakeFlag(s2, "powershell") = s3
    <3>1. (checked \cap D) \cup {"powershell"} = checked
      BY <1>5
    <3> HIDE DEF D, set, checked
    <3> QED
      BY <1>3, <3>1 DEF Settled, TakeFlag
  <2>4. set \cup {"powershell"} \in SUBSET N /\ (root => D \subseteq set \cup {"powershell"})
    BY <1>3
  <2>5. P \o Q \in Seq(Word) /\ Flags(st, P \o Q) = s3
    <3> HIDE DEF P, Q, st, s1, s2, s3
    <3> QED
      BY <1>2, <2>1, <2>2, <2>3, ConcatProperties, FlagsConcat
  <2> HIDE DEF P, Q, st, set
  <2> QED
    BY <1>1, <2>4, <2>5 DEF PassthroughLeaves, st
<1>6. CASE "powershell" \notin checked
  <2> DEFINE s3 == Settled(detach, dir, ro, checked, set, <<>>, "flag")
  <2>1. Q = <<>>
    BY <1>6
  <2>2. P \o Q = P
    <3> HIDE DEF P, Q
    <3> QED
      BY <1>2, <2>1, ConcatEmptySeq
  <2>3. checked \cap D = checked
    BY <1>6
  <2>4. s1 = s3
    <3> HIDE DEF set
    <3> QED
      BY <2>3
  <2>5. set \in SUBSET N /\ (root => D \subseteq set)
    OBVIOUS
  <2>6. P \o Q \in Seq(Word) /\ Flags(st, P \o Q) = s3
    <3> HIDE DEF P, Q, st, s1, s3
    <3> QED
      BY <1>2, <2>2, <2>4
  <2> HIDE DEF P, Q, st, set
  <2> QED
    BY <1>1, <2>5, <2>6 DEF PassthroughLeaves, st
<1> QED
  BY <1>5, <1>6

-----------------------------------------------------------------------------
(* The links of exec.                                                      *)

LinkPair(l) == <<"--link", l>>

LinkPairs(links) == [k \in DOMAIN links |-> LinkPair(links[k])]

LEMMA PlainFacts ==
  ASSUME NEW l \in Typed
  PROVE  l \in Plain /\ "--link" \in Plain /\ LinkPair(l) \in Seq(Plain)
<1>1. l \in Plain
  BY SettingsAssumption DEF Plain, Word
<1>2. "--link" \in Plain
  BY DEF Plain, Word, Reserved
<1> HIDE DEF Plain
<1> QED
  BY <1>1, <1>2 DEF LinkPair

LEMMA LinkPairsFacts ==
  ASSUME NEW links \in Seq(Typed)
  PROVE  /\ LinkPairs(links) \in Seq(Seq(Plain)) /\ Len(LinkPairs(links)) = Len(links)
         /\ \A k \in 1..Len(links) : LinkPairs(links)[k] = LinkPair(links[k])
<1>1. PICK n \in Nat : Len(links) = n /\ DOMAIN links = 1..n /\ \A k \in 1..n : links[k] \in Typed
  BY LenProperties, ElementOfSeq
<1> DEFINE p == LinkPairs(links)
<1>2. p = [k \in 1..n |-> LinkPair(links[k])]
  BY <1>1 DEF LinkPairs
<1>3. \A k \in 1..n : LinkPair(links[k]) \in Seq(Plain)
  BY <1>1, PlainFacts
<1> HIDE DEF p
<1>4. p \in [1..n -> Seq(Plain)]
  BY <1>2, <1>3
<1>5. p \in Seq(Seq(Plain)) /\ Len(p) = n
  BY <1>4
<1> QED
  BY <1>1, <1>2, <1>5 DEF p

LEMMA LinkArgumentsSteps ==
  /\ LinkArguments(<<>>) = <<>>
  /\ \A links \in Seq(Typed) : LinkArguments(links) \in Seq(Plain)
  /\ \A links \in Seq(Typed), l \in Typed :
        LinkArguments(Append(links, l)) = LinkArguments(links) \o LinkPair(l)
<1>1. \A links : LinkArguments(links) = FlattenSeq(LinkPairs(links))
  BY Zenon DEF LinkArguments, LinkPairs, LinkPair
<1> DEFINE C == Plain
<1> HIDE DEF C
<1>2. /\ FlattenSeq(<<>>) = <<>>
      /\ \A ws \in Seq(Seq(C)) : FlattenSeq(ws) \in Seq(C)
      /\ \A ws \in Seq(Seq(C)), w \in Seq(C) : FlattenSeq(Append(ws, w)) = FlattenSeq(ws) \o w
  BY FlattenFacts
<1>3. \A links \in Seq(Typed) :
         /\ LinkPairs(links) \in Seq(Seq(C)) /\ Len(LinkPairs(links)) = Len(links)
         /\ \A k \in 1..Len(links) : LinkPairs(links)[k] = LinkPair(links[k])
  BY LinkPairsFacts DEF C
<1>4. LinkArguments(<<>>) = <<>>
  <2>1. <<>> \in Seq(Typed) /\ Len(<<>>) = 0
    BY EmptySeq
  <2>2. LinkPairs(<<>>) \in Seq(Seq(C)) /\ Len(LinkPairs(<<>>)) = 0
    BY <1>3, <2>1
  <2>3. LinkPairs(<<>>) = <<>>
    BY <2>2, EmptySeq
  <2> QED
    BY <1>1, <1>2, <2>3
<1>5. ASSUME NEW links \in Seq(Typed), NEW l \in Typed
      PROVE  LinkArguments(Append(links, l)) = LinkArguments(links) \o LinkPair(l)
  <2>1. PICK n \in Nat : Len(links) = n
    BY LenProperties
  <2>2. PICK us : /\ us = Append(links, l) /\ us \in Seq(Typed) /\ Len(us) = n + 1
                  /\ us[n + 1] = l /\ \A k \in 1..n : us[k] = links[k]
    <3> DEFINE x == Append(links, l)
    <3>1. x \in Seq(Typed) /\ Len(x) = n + 1 /\ x[n + 1] = l /\ \A k \in 1..n : x[k] = links[k]
      BY <2>1, AppendProperties
    <3> QED
      BY <3>1, Zenon
  <2>3. PICK e \in Seq(C) : e = LinkPair(l)
    BY PlainFacts DEF C
  <2>4. PICK p \in Seq(Seq(C)) : /\ p = LinkPairs(links) /\ Len(p) = n
                                 /\ \A k \in 1..n : p[k] = LinkPair(links[k])
    BY <1>3, <2>1
  <2>5. PICK q \in Seq(Seq(C)) : /\ q = LinkPairs(us) /\ Len(q) = n + 1
                                 /\ \A k \in 1..(n + 1) : q[k] = LinkPair(us[k])
    BY <1>3, <2>2
  <2>6. PICK r : /\ r = Append(p, e) /\ r \in Seq(Seq(C)) /\ Len(r) = n + 1
                 /\ r[n + 1] = e /\ \A k \in 1..n : r[k] = p[k]
    <3> DEFINE x == Append(p, e)
    <3>1. x \in Seq(Seq(C)) /\ Len(x) = n + 1 /\ x[n + 1] = e /\ \A k \in 1..n : x[k] = p[k]
      BY <2>3, <2>4, AppendProperties
    <3> QED
      BY <3>1, Zenon
  <2>7. \A k \in 1..(n + 1) : q[k] = r[k]
    <3> TAKE k \in 1..(n + 1)
    <3>1. k \in 1..n \/ k = n + 1
      OBVIOUS
    <3>2. CASE k \in 1..n
      <4>1. q[k] = LinkPair(us[k]) /\ us[k] = links[k] /\ p[k] = LinkPair(links[k]) /\ r[k] = p[k]
        BY <2>2, <2>4, <2>5, <2>6, <3>2
      <4> QED
        BY <4>1, Zenon
    <3>3. CASE k = n + 1
      <4>1. q[k] = LinkPair(us[k]) /\ us[k] = l /\ r[k] = e
        BY <2>2, <2>5, <2>6, <3>3
      <4> QED
        BY <2>3, <4>1, Zenon
    <3> QED
      BY <3>1, <3>2, <3>3
  <2>8. q = r
    BY <2>5, <2>6, <2>7, SeqEqual
  <2>9. FlattenSeq(Append(p, e)) = FlattenSeq(p) \o e
    BY <1>2
  <2> QED
    BY <1>1, <2>2, <2>3, <2>4, <2>5, <2>6, <2>8, <2>9, Zenon
<1>6. \A links \in Seq(Typed) : LinkArguments(links) \in Seq(C)
  BY <1>1, <1>2, <1>3
<1> QED
  BY <1>4, <1>5, <1>6 DEF C

\* Every link stands behind a --link.
Linked(args, links) ==
  /\ Len(args) = 2 * Len(links)
  /\ \A k \in 1..Len(links) : args[2 * k - 1] = "--link" /\ args[2 * k] = links[k]

LEMMA LinkArgumentsFacts ==
  ASSUME NEW links \in Seq(Typed)
  PROVE  LinkArguments(links) \in Seq(Plain) /\ Linked(LinkArguments(links), links)
<1> DEFINE T == {u \in Seq(Typed) : Linked(LinkArguments(u), u)}
<1>1. <<>> \in T
  <2>1. <<>> \in Seq(Typed) /\ Len(<<>>) = 0 /\ 2 * 0 = 0
    BY EmptySeq
  <2> QED
    BY <2>1, LinkArgumentsSteps DEF Linked
<1>2. ASSUME NEW u \in Seq(Typed), NEW l \in Typed, u \in T
      PROVE  Append(u, l) \in T
  <2>1. PICK n \in Nat : Len(u) = n
    BY LenProperties
  <2>2. PICK us : /\ us = Append(u, l) /\ us \in Seq(Typed) /\ Len(us) = n + 1
                  /\ us[n + 1] = l /\ \A k \in 1..n : us[k] = u[k]
    <3> DEFINE x == Append(u, l)
    <3>1. x \in Seq(Typed) /\ Len(x) = n + 1 /\ x[n + 1] = l /\ \A k \in 1..n : x[k] = u[k]
      BY <2>1, AppendProperties
    <3> QED
      BY <3>1, Zenon
  <2>3. PICK a \in Seq(Plain) : /\ a = LinkArguments(u) /\ Len(a) = 2 * n
                                /\ \A k \in 1..n : a[2 * k - 1] = "--link" /\ a[2 * k] = u[k]
    BY <1>2, <2>1, LinkArgumentsSteps DEF Linked
  <2>4. PICK e \in Seq(Plain) : e = LinkPair(l) /\ Len(e) = 2 /\ e[1] = "--link" /\ e[2] = l
    <3>1. LinkPair(l) \in Seq(Plain) /\ Len(LinkPair(l)) = 2 /\ LinkPair(l)[1] = "--link" /\ LinkPair(l)[2] = l
      BY PlainFacts DEF LinkPair
    <3> QED
      BY <3>1, Zenon
  <2>5. LinkArguments(us) = a \o e
    BY <2>2, <2>3, <2>4, LinkArgumentsSteps
  <2> DEFINE s == a \o e
  <2>6. Len(s) = 2 * n + 2 /\ \A i \in 1..(2 * n + 2) : s[i] = IF i <= 2 * n THEN a[i] ELSE e[i - 2 * n]
    <3>1. PICK m \in Nat : m = 2 * n
      OBVIOUS
    <3>2. Len(a) = m /\ Len(e) = 2
      BY <2>3, <2>4, <3>1
    <3>3. Len(s) = m + 2 /\ \A i \in 1..(m + 2) : s[i] = IF i <= m THEN a[i] ELSE e[i - m]
      <4>1. Len(s) = Len(a) + Len(e)
            /\ \A i \in 1..(Len(a) + Len(e)) : s[i] = IF i <= Len(a) THEN a[i] ELSE e[i - Len(a)]
        BY ConcatProperties
      <4> HIDE DEF s
      <4> QED
        BY <3>2, <4>1
    <3> HIDE DEF s
    <3> QED
      BY <3>1, <3>3
  <2> HIDE DEF s
  <2>7. ASSUME NEW k \in 1..(n + 1)
        PROVE  s[2 * k - 1] = "--link" /\ s[2 * k] = us[k]
    <3>1. CASE k \in 1..n
      <4>1. /\ 2 * k - 1 \in 1..(2 * n + 2) /\ 2 * k - 1 <= 2 * n
            /\ 2 * k \in 1..(2 * n + 2) /\ 2 * k <= 2 * n
        BY <3>1
      <4>2. s[2 * k - 1] = a[2 * k - 1] /\ s[2 * k] = a[2 * k]
        BY <2>6, <4>1
      <4> QED
        BY <2>2, <2>3, <3>1, <4>2
    <3>2. CASE k = n + 1
      <4>1. /\ 2 * k - 1 \in 1..(2 * n + 2) /\ ~(2 * k - 1 <= 2 * n) /\ (2 * k - 1) - 2 * n = 1
            /\ 2 * k \in 1..(2 * n + 2) /\ ~(2 * k <= 2 * n) /\ 2 * k - 2 * n = 2
        BY <3>2
      <4>2. s[2 * k - 1] = e[1] /\ s[2 * k] = e[2]
        BY <2>6, <4>1
      <4> QED
        BY <2>2, <2>4, <3>2, <4>2
    <3>3. k \in 1..n \/ k = n + 1
      OBVIOUS
    <3> QED
      BY <3>1, <3>2, <3>3
  <2>8. Linked(s, us)
    <3>1. 2 * (n + 1) = 2 * n + 2
      OBVIOUS
    <3> QED
      BY <2>2, <2>6, <2>7, <3>1 DEF Linked
  <2> QED
    BY <2>2, <2>5, <2>8 DEF s
<1> HIDE DEF T
<1>3. links \in T
  BY <1>1, <1>2, SequenceInduction
<1> QED
  BY <1>3, LinkArgumentsSteps DEF T

\* parseLinkFlags takes the links out again, or refuses one that it cannot split.
LEMMA LinksParsed ==
  ASSUME NEW links \in Seq(Typed), NEW M
  PROVE  ParseLinkFlags(LinkArguments(links), M) =
           IF \E k \in DOMAIN links : links[k] \in M THEN Refused
           ELSE [outcome |-> "parsed", links |-> links]
<1> DEFINE a == LinkArguments(links)
<1>1. PICK n \in Nat : Len(links) = n /\ DOMAIN links = 1..n
  BY LenProperties
<1>2. a \in Seq(Plain) /\ Linked(a, links)
  BY LinkArgumentsFacts
<1> HIDE DEF a
<1>3. Len(a) = 2 * n /\ DOMAIN a = 1..(2 * n)
      /\ \A k \in 1..n : a[2 * k - 1] = "--link" /\ a[2 * k] = links[k]
  BY <1>1, <1>2, LenProperties DEF Linked
<1>4. /\ (2 * n) % 2 = 0 /\ (2 * n) \div 2 = n
      /\ \A k \in 1..n : /\ (2 * k) % 2 = 0 /\ 2 * k \in 1..(2 * n)
      /\ \A i \in 1..(2 * n) : \/ i % 2 = 1 /\ \E k \in 1..n : i = 2 * k - 1
                               \/ i % 2 # 1 /\ \E k \in 1..n : i = 2 * k
  <2>1. ASSUME NEW i \in 1..(2 * n)
        PROVE  \/ i % 2 = 1 /\ \E k \in 1..n : i = 2 * k - 1
               \/ i % 2 # 1 /\ \E k \in 1..n : i = 2 * k
    <3>1. PICK k \in Int : i = 2 * k - 1 \/ i = 2 * k
      <4>1. (i + 1) \div 2 \in Int /\ (i = 2 * ((i + 1) \div 2) - 1 \/ i = 2 * ((i + 1) \div 2))
        OBVIOUS
      <4> QED
        BY <4>1
    <3>2. k \in 1..n
      BY <3>1
    <3>3. (i = 2 * k - 1 => i % 2 = 1) /\ (i = 2 * k => i % 2 # 1)
      BY <3>1
    <3> QED
      BY <3>1, <3>2, <3>3
  <2>2. ASSUME NEW k \in 1..n
        PROVE  (2 * k) % 2 = 0 /\ 2 * k \in 1..(2 * n)
    OBVIOUS
  <2>3. (2 * n) % 2 = 0 /\ (2 * n) \div 2 = n
    OBVIOUS
  <2> QED
    BY <2>1, <2>2, <2>3
<1> DEFINE Fine == \A i \in 1..(2 * n) : IF i % 2 = 1 THEN a[i] \in {"--link", "-l"} ELSE a[i] \notin M
<1>5. Fine <=> ~\E k \in 1..n : links[k] \in M
  <2>1. ASSUME Fine, NEW k \in 1..n
        PROVE  links[k] \notin M
    <3>1. 2 * k \in 1..(2 * n) /\ (2 * k) % 2 = 0
      BY <1>4
    <3>2. a[2 * k] \notin M
      BY <2>1, <3>1
    <3> QED
      BY <1>3, <3>2
  <2>2. ASSUME \A k \in 1..n : links[k] \notin M
        PROVE  Fine
    <3> SUFFICES ASSUME NEW i \in 1..(2 * n)
                 PROVE  IF i % 2 = 1 THEN a[i] \in {"--link", "-l"} ELSE a[i] \notin M
      OBVIOUS
    <3>1. CASE i % 2 = 1 /\ \E k \in 1..n : i = 2 * k - 1
      BY <1>3, <3>1
    <3>2. CASE i % 2 # 1 /\ \E k \in 1..n : i = 2 * k
      BY <1>3, <2>2, <3>2
    <3> QED
      BY <1>4, <3>1, <3>2
  <2> HIDE DEF Fine
  <2> QED
    BY <2>1, <2>2
<1>6. ParseLinkFlags(a, M) = IF Fine THEN [outcome |-> "parsed", links |-> [k \in 1..n |-> a[2 * k]]] ELSE Refused
  BY <1>3, <1>4 DEF ParseLinkFlags
<1>7. [k \in 1..n |-> a[2 * k]] = links
  <2>1. [k \in 1..n |-> a[2 * k]] = [k \in 1..n |-> links[k]]
    BY <1>3
  <2>2. links = [k \in 1..n |-> links[k]]
    BY <1>1
  <2> QED
    BY <2>1, <2>2
<1> HIDE DEF Fine
<1> QED
  BY <1>1, <1>5, <1>6, <1>7 DEF a

-----------------------------------------------------------------------------
(* The arguments of exec.                                                  *)

Associate(C, x, p, m) ==
  x \o (p \o m) = (x \o p) \o m /\ x \o p \in Seq(C) /\ p \o m \in Seq(C)

LEMMA ThreeParts ==
  ASSUME NEW C, NEW x \in Seq(C), NEW p \in Seq(C), NEW m \in Seq(C)
  PROVE  Associate(C, x, p, m)
BY ConcatProperties, ConcatAssociative DEF Associate

LengthAdds(x, p) == Len(x \o p) = Len(x) + Len(p)

LEMMA LengthOfConcat ==
  ASSUME NEW C, NEW x \in Seq(C), NEW p \in Seq(C)
  PROVE  LengthAdds(x, p)
BY ConcatProperties DEF LengthAdds

\* What stands before and behind the first double dash.
DashesBetween(args, pre, tail) ==
  /\ SelectInSeq(args, IsDashes) = Len(pre) + 1
  /\ SelectInSeq(args, IsDashes) # 0 /\ SelectInSeq(args, IsDashes) # Len(args)
  /\ SubSeq(args, 1, SelectInSeq(args, IsDashes) - 1) = pre
  /\ SubSeq(args, SelectInSeq(args, IsDashes) + 1, Len(args)) = tail

LEMMA SplitAtDashes ==
  ASSUME NEW C, NEW pre \in Seq(C), NEW tail \in Seq(C), tail # <<>>, "--" \in C,
         ~Contains(pre, "--"), NEW args, args = pre \o (<<"--">> \o tail)
  PROVE  DashesBetween(args, pre, tail)
<1> DEFINE d == SelectInSeq(args, IsDashes)
           one == <<"--">>
           r == one \o tail
<1>1. PICK m \in Nat : Len(pre) = m
  BY LenProperties
<1>2. PICK n \in Nat : Len(tail) = n /\ n # 0
  BY LenProperties, EmptySeq
<1>3. one \in Seq(C) /\ Len(one) = 1 /\ one[1] = "--"
  OBVIOUS
<1>4. r \in Seq(C) /\ r[1] = "--" /\ Len(r) = n + 1
  <2> HIDE DEF one
  <2>1. /\ r \in Seq(C) /\ Len(r) = Len(one) + Len(tail)
        /\ \A i \in 1..(Len(one) + Len(tail)) :
              r[i] = IF i <= Len(one) THEN one[i] ELSE tail[i - Len(one)]
    BY <1>3, ConcatProperties
  <2>2. 1 \in 1..(1 + n)
    BY <1>2
  <2> HIDE DEF r
  <2> QED
    BY <1>2, <1>3, <2>1, <2>2
<1>5. r # <<>>
  BY <1>2, <1>4, EmptySeq
<1>6. d = FirstOf(args, "--")
  BY Zenon DEF FirstOf, SelectInSeq, IsDashes
<1> HIDE DEF one, d
<1>7. d = m + 1 /\ SubSeq(args, 1, m) = pre
  <2> HIDE DEF r
  <2>1. args = pre \o r
    BY DEF r, one
  <2>2. FirstOf(pre \o r, "--") = Len(pre) + 1 /\ SubSeq(pre \o r, 1, Len(pre)) = pre
    <3>1. r \in Seq(C) /\ r # <<>> /\ r[1] = "--" /\ ~Contains(pre, "--")
      BY <1>4, <1>5
    <3> QED
      BY <3>1, FirstPart
  <2> QED
    BY <1>1, <1>6, <2>1, <2>2
<1>8. args = (pre \o one) \o tail /\ pre \o one \in Seq(C) /\ Len(pre \o one) = m + 1
  <2>1. Associate(C, pre, one, tail) /\ LengthAdds(pre, one)
    BY <1>3, ThreeParts, LengthOfConcat
  <2>2. args = pre \o (one \o tail)
    BY DEF one
  <2> QED
    BY <1>1, <1>3, <2>1, <2>2 DEF Associate, LengthAdds
<1>9. SubSeq(args, (m + 1) + 1, Len(args)) = tail /\ Len(args) = (m + 1) + n
  <2> DEFINE p == pre \o one
  <2> HIDE DEF p
  <2>1. args = p \o tail /\ p \in Seq(C) /\ Len(p) = m + 1
    BY <1>8 DEF p
  <2>2. SubSeq(p \o tail, Len(p) + 1, Len(p \o tail)) = tail
    BY <2>1, Cut
  <2>3. Len(p \o tail) = Len(p) + Len(tail)
    BY <2>1, ConcatProperties
  <2> QED
    BY <1>2, <2>1, <2>2, <2>3
<1>10. d # 0 /\ d # Len(args) /\ d - 1 = m
  BY <1>1, <1>2, <1>7, <1>9
<1>11. SubSeq(args, 1, d - 1) = pre
  BY <1>7, <1>10
<1>12. SubSeq(args, d + 1, Len(args)) = tail
  BY <1>7, <1>9
<1> QED
  BY <1>1, <1>7, <1>10, <1>11, <1>12 DEF DashesBetween, d

\* What stands before the dashes of Get-ExecArguments, and what exec reads there.
BeforeName(b, links) ==
  (IF b.detach THEN <<"--detach">> ELSE <<>>)
    \o (IF b.root THEN <<"--root", b.rootDir>> ELSE <<>>)
    \o (IF b.readOnlyRoot THEN <<"--readonly-root">> ELSE <<>>)
    \o PassthroughArguments(b) \o LinkArguments(links)

BeforeDashes(b, links) == BeforeName(b, links) \o <<b.name>>

Dir(b) == IF b.root THEN b.rootDir ELSE NoDirectory

LEMMA BeforeDashesRead ==
  ASSUME NEW b \in BoxStates, b.root => b.rootDir # NoDirectory, NEW links \in Seq(Typed)
  PROVE  /\ BeforeDashes(b, links) \in Seq(Word) /\ BeforeName(b, links) \in Seq(Word)
         /\ \E set \in SUBSET PassthroughNames :
              /\ b.root => PassthroughNames \ {"powershell"} \subseteq set
              /\ Flags(NoFlags, BeforeDashes(b, links))
                   = Settled(b.detach, Dir(b), b.readOnlyRoot, b.checked, set,
                             Append(LinkArguments(links), b.name), "flag")
<1> DEFINE sw == Switches(b.detach, b.root, b.readOnlyRoot, b.rootDir)
           pa == PassthroughArguments(b)
           la == LinkArguments(links)
           ws == Append(la, b.name)
<1>1. /\ b.detach \in BOOLEAN /\ b.root \in BOOLEAN /\ b.readOnlyRoot \in BOOLEAN
      /\ b.rootDir \in Typed \cup {NoDirectory} /\ b.checked \in SUBSET PassthroughNames
      /\ b.name \in Typed
  BY DEF BoxStates
<1>2. PICK dir \in Word : b.root => dir = b.rootDir
  <2>1. CASE b.root
    <3>1. b.rootDir \in Word
      BY <1>1, <2>1, WordFacts
    <3> QED
      BY <3>1
  <2>2. CASE ~b.root
    BY <2>2, WordFacts
  <2> QED
    BY <2>1, <2>2
<1>3. Dir(b) = IF b.root THEN dir ELSE NoDirectory
  BY <1>2 DEF Dir
<1>4. Dir(b) \in Word \cup {NoDirectory}
  BY <1>3
<1> DEFINE st == Settled(b.detach, Dir(b), b.readOnlyRoot, {}, {}, <<>>, "flag")
<1>5. sw \in Seq(Word) /\ Flags(NoFlags, sw) = st
  <2>1. sw = Switches(b.detach, b.root, b.readOnlyRoot, dir)
    BY <1>2 DEF Switches
  <2> HIDE DEF sw
  <2>2. SwitchesLeave(b.detach, b.root, b.readOnlyRoot, dir)
    BY <1>1, SwitchesRead
  <2> QED
    BY <1>3, <2>1, <2>2 DEF SwitchesLeave
<1>6. PassthroughLeaves(b.detach, Dir(b), b.readOnlyRoot, b)
  BY <1>1, <1>4, PassthroughRead, SMT
<1>7. PICK set \in SUBSET PassthroughNames :
         /\ b.root => PassthroughNames \ {"powershell"} \subseteq set
         /\ Flags(st, pa) = Settled(b.detach, Dir(b), b.readOnlyRoot, b.checked, set, <<>>, "flag")
  BY <1>6, Zenon DEF PassthroughLeaves
<1>14. pa \in Seq(Word)
  BY <1>6, Zenon DEF PassthroughLeaves
<1> DEFINE s1 == Settled(b.detach, Dir(b), b.readOnlyRoot, b.checked, set, <<>>, "flag")
           s2 == Settled(b.detach, Dir(b), b.readOnlyRoot, b.checked, set, ws, "flag")
<1>8. ws \in Seq(Plain) /\ la \in Seq(Plain) /\ <<b.name>> \in Seq(Plain) /\ ws = la \o <<b.name>>
  <2>1. la \in Seq(Plain) /\ b.name \in Plain
    BY <1>1, LinkArgumentsFacts, PlainFacts
  <2> HIDE DEF la
  <2> QED
    BY <2>1, AppendProperties, ConcatAppend
<1>9. ws \in Seq(Word) /\ Flags(s1, ws) = s2
  <2>1. <<>> \in Seq(Word) /\ "flag" \in Wants
    BY EmptySeq DEF Wants
  <2>2. Settles(b.detach, Dir(b), b.readOnlyRoot, b.checked, set, <<>>, "flag")
    BY <1>1, <1>4, <2>1 DEF Settles
  <2> HIDE DEF ws
  <2>3. ws \in Seq(Word) /\ Flags(s1, ws) = Settled(b.detach, Dir(b), b.readOnlyRoot, b.checked, set, <<>> \o ws, "flag")
    <3>1. RestLeaves(b.detach, Dir(b), b.readOnlyRoot, b.checked, set, <<>>, ws)
      BY <1>8, <2>2, RestRead
    <3> QED
      BY <3>1 DEF RestLeaves
  <2>4. <<>> \o ws = ws
    BY <2>3, ConcatEmptySeq
  <2> QED
    BY <2>3, <2>4
<1>10. BeforeDashes(b, links) = (sw \o pa) \o ws /\ BeforeName(b, links) \in Seq(Word)
  <2> HIDE DEF sw, pa, la, ws
  <2>1. /\ BeforeDashes(b, links) = ((sw \o pa) \o la) \o <<b.name>>
        /\ BeforeName(b, links) = (sw \o pa) \o la
    BY Zenon DEF BeforeDashes, BeforeName, Switches, sw, pa, la
  <2>2. la \in Seq(Word) /\ <<b.name>> \in Seq(Word)
    <3>1. Plain \subseteq Word
      BY DEF Plain
    <3> QED
      BY <1>8, <3>1, SeqMonotonic
  <2>3. sw \o pa \in Seq(Word)
    BY <1>5, <1>14, ConcatProperties
  <2>4. ((sw \o pa) \o la) \o <<b.name>> = (sw \o pa) \o (la \o <<b.name>>)
    <3> DEFINE x == sw \o pa
               z == <<b.name>>
    <3> HIDE DEF x, z
    <3>1. Associate(Word, x, la, z)
      BY <2>2, <2>3, ThreeParts DEF x, z
    <3> QED
      BY <3>1, Zenon DEF Associate, x, z
  <2>5. (sw \o pa) \o la \in Seq(Word)
    BY <2>2, <2>3, ConcatProperties
  <2> QED
    BY <1>8, <2>1, <2>4, <2>5
<1> HIDE DEF sw, pa, la, ws, st, s1, s2
<1>11. NoFlags \in FlagStates /\ sw \o pa \in Seq(Word) /\ Flags(NoFlags, sw \o pa) = s1
  BY <1>5, <1>14, <1>7, NoFlagsTyped, ConcatProperties, FlagsConcat DEF s1
<1>12. (sw \o pa) \o ws \in Seq(Word) /\ Flags(NoFlags, (sw \o pa) \o ws) = s2
  BY <1>9, <1>11, ConcatProperties, FlagsConcat
<1> QED
  BY <1>7, <1>10, <1>12 DEF s2, ws, la

LEMMA TwoMore ==
  ASSUME NEW C, NEW n \in C, NEW d \in C, NEW c \in C
  PROVE  /\ <<n, d, c>> = <<n>> \o (<<d>> \o <<c>>)
         /\ <<n>> \in Seq(C) /\ <<d>> \in Seq(C) /\ <<c>> \in Seq(C)
<1> DEFINE t == <<n, d, c>>
           p == <<n>>
           q == <<d>>
           r == <<c>>
           u == q \o r
           s == p \o u
<1>1. /\ t \in Seq(C) /\ Len(t) = 3 /\ t[1] = n /\ t[2] = d /\ t[3] = c
      /\ p \in Seq(C) /\ Len(p) = 1 /\ p[1] = n
      /\ q \in Seq(C) /\ Len(q) = 1 /\ q[1] = d
      /\ r \in Seq(C) /\ Len(r) = 1 /\ r[1] = c
  OBVIOUS
<1> HIDE DEF t, p, q, r
<1>2. u \in Seq(C) /\ Len(u) = Len(q) + Len(r)
      /\ \A i \in 1..(Len(q) + Len(r)) : u[i] = IF i <= Len(q) THEN q[i] ELSE r[i - Len(q)]
  BY <1>1, ConcatProperties
<1> HIDE DEF u
<1>3. s \in Seq(C) /\ Len(s) = Len(p) + Len(u)
      /\ \A i \in 1..(Len(p) + Len(u)) : s[i] = IF i <= Len(p) THEN p[i] ELSE u[i - Len(p)]
  <2>1. p \in Seq(C) /\ u \in Seq(C)
    BY <1>1, <1>2
  <2> QED
    BY <2>1, ConcatProperties
<1> HIDE DEF s
<1>4. u[1] = d /\ u[2] = c /\ Len(u) = 2
  BY <1>1, <1>2
<1>5. s[1] = n /\ s[2] = d /\ s[3] = c /\ Len(s) = 3
  BY <1>1, <1>3, <1>4
<1>6. \A i \in 1..3 : s[i] = t[i]
  <2>1. \A i \in 1..3 : i = 1 \/ i = 2 \/ i = 3
    OBVIOUS
  <2> QED
    BY <1>1, <1>5, <2>1
<1>7. t = s
  BY <1>1, <1>3, <1>5, <1>6, SeqEqual
<1> QED
  BY <1>1, <1>7 DEF t, p, q, r, u, s

Regrouped(x, n, d, c, y) ==
  x \o <<n, d, c>> \o y = (x \o <<n>>) \o (<<d>> \o (<<c>> \o y))

LEMMA Regroup ==
  ASSUME NEW C, NEW x \in Seq(C), NEW y \in Seq(C), NEW n \in C, NEW d \in C, NEW c \in C
  PROVE  Regrouped(x, n, d, c, y)
<1> DEFINE t == <<n, d, c>>
           p == <<n>>
           q == <<d>>
           r == <<c>>
           m == q \o r
<1>1. t = p \o m /\ p \in Seq(C) /\ q \in Seq(C) /\ r \in Seq(C)
  BY TwoMore
<1> HIDE DEF t, p, q, r
<1>2. m \in Seq(C) /\ m \o y = q \o (r \o y)
  <2>1. Associate(C, q, r, y)
    BY <1>1, ThreeParts
  <2> QED
    BY <2>1, Zenon DEF Associate
<1> HIDE DEF m
<1>3. x \o t = (x \o p) \o m /\ x \o p \in Seq(C)
  <2>1. Associate(C, x, p, m)
    BY <1>1, <1>2, ThreeParts
  <2> QED
    BY <1>1, <2>1, Zenon DEF Associate
<1>4. ((x \o p) \o m) \o y = (x \o p) \o (m \o y)
  <2> DEFINE w == x \o p
  <2> HIDE DEF w
  <2>1. w \in Seq(C)
    BY <1>3 DEF w
  <2>2. Associate(C, w, m, y)
    BY <1>2, <2>1, ThreeParts
  <2> QED
    BY <2>2, Zenon DEF Associate, w
<1>5. (x \o t) \o y = (x \o p) \o (q \o (r \o y))
  BY <1>2, <1>3, <1>4, Zenon
<1> QED
  BY <1>5 DEF Regrouped, t, p, q, r

AllWords == Word \cup CommandWords \cup {"--"}

LEMMA NoDashes ==
  ASSUME NEW s \in Seq(Word)
  PROVE  s \in Seq(AllWords) /\ ~Contains(s, "--")
<1>1. Word \subseteq AllWords
  BY DEF AllWords
<1>2. s \in Seq(AllWords)
  <2> DEFINE W == Word
             A == AllWords
  <2> HIDE DEF W, A
  <2>1. s \in Seq(W) /\ W \subseteq A
    BY <1>1 DEF W, A
  <2> QED
    BY <2>1, SeqMonotonic DEF A
<1>3. \A i \in 1..Len(s) : s[i] # "--"
  BY WordFacts, ElementOfSeq
<1> QED
  BY <1>2, <1>3 DEF Contains

\* The command and its arguments.
CommandOf(b) == <<b.command>> \o b.args

LEMMA CommandFacts ==
  ASSUME NEW b \in BoxStates
  PROVE  /\ CommandOf(b) \in Seq(AllWords) /\ CommandOf(b) # <<>>
         /\ b.args \in Seq(AllWords) /\ b.command \in AllWords
<1>1. b.command \in AllWords /\ CommandWords \subseteq AllWords /\ b.args \in Seq(CommandWords)
  BY DEF BoxStates, AllWords
<1> DEFINE A == AllWords
           c == b.command
           y == b.args
           one == <<c>>
<1>2. y \in Seq(A)
  <2> HIDE DEF A, y
  <2> QED
    BY <1>1, SeqMonotonic DEF A, y
<1> HIDE DEF A, y, c
<1>3. one \in Seq(A) /\ Len(one) = 1
  BY <1>1 DEF A, c
<1> HIDE DEF one
<1>4. PICK n \in Nat : Len(y) = n
  BY <1>2, LenProperties
<1>5. one \o y \in Seq(A) /\ Len(one \o y) = 1 + n
  <2>1. one \o y \in Seq(A) /\ LengthAdds(one, y)
    BY <1>2, <1>3, ConcatProperties, LengthOfConcat
  <2> QED
    BY <1>3, <1>4, <2>1 DEF LengthAdds
<1>6. one \o y # <<>>
  BY <1>5, EmptySeq
<1> QED
  BY <1>1, <1>2, <1>5, <1>6 DEF CommandOf, A, one, y, c

\* exec reads out of the arguments what the boxes show.
LEMMA ExecReads ==
  ASSUME NEW b \in BoxStates, ~(b.root /\ (b.readOnlyRoot \/ b.rootDir = NoDirectory)),
         NEW links \in Seq(Typed), NEW M, NEW args,
         args = BeforeDashes(b, links) \o (<<"--">> \o CommandOf(b))
  PROVE  ParseExec(args, M) =
           IF \E k \in DOMAIN links : links[k] \in M THEN Refused
           ELSE [outcome |-> "parsed", detach |-> b.detach, rootDir |-> Dir(b),
                 readOnlyRoot |-> b.readOnlyRoot, passthrough |-> b.checked,
                 links |-> links, jobName |-> b.name, cmdArgs |-> CommandOf(b)]
<1> DEFINE pre == BeforeDashes(b, links)
           d == SelectInSeq(args, IsDashes)
           la == LinkArguments(links)
           bad == \E k \in DOMAIN links : links[k] \in M
<1>1. /\ b.detach \in BOOLEAN /\ b.root \in BOOLEAN /\ b.readOnlyRoot \in BOOLEAN
      /\ b.checked \in SUBSET PassthroughNames /\ b.name \in Typed
  BY DEF BoxStates
<1>2. b.root => b.rootDir # NoDirectory
  OBVIOUS
<1>3. pre \in Seq(Word)
  BY <1>2, BeforeDashesRead
<1>4. PICK set \in SUBSET PassthroughNames :
         /\ b.root => PassthroughNames \ {"powershell"} \subseteq set
         /\ Flags(NoFlags, pre) = Settled(b.detach, Dir(b), b.readOnlyRoot, b.checked, set,
                                          Append(la, b.name), "flag")
  BY <1>2, BeforeDashesRead
<1> DEFINE st == Settled(b.detach, Dir(b), b.readOnlyRoot, b.checked, set, Append(la, b.name), "flag")
<1> HIDE DEF pre, d, la, st
<1>5. /\ d # 0 /\ d # Len(args)
      /\ SubSeq(args, 1, d - 1) = pre
      /\ SubSeq(args, d + 1, Len(args)) = CommandOf(b)
  <2>1. pre \in Seq(AllWords) /\ ~Contains(pre, "--")
    BY <1>3, NoDashes
  <2>2. CommandOf(b) \in Seq(AllWords) /\ CommandOf(b) # <<>> /\ "--" \in AllWords
    BY CommandFacts DEF AllWords
  <2>3. args = pre \o (<<"--">> \o CommandOf(b))
    BY DEF pre
  <2>4. DashesBetween(args, pre, CommandOf(b))
    BY <2>1, <2>2, <2>3, SplitAtDashes
  <2> QED
    BY <2>4 DEF DashesBetween, d
<1>6. FoldLeft(TakeFlag, NoFlags, SubSeq(args, 1, d - 1)) = st
  BY <1>3, <1>4, <1>5, FlagsRead DEF st
<1>7. /\ st.rest # <<>> /\ Front(st.rest) = la /\ Last(st.rest) = b.name
      /\ st.want = "flag" /\ st.rootDir = Dir(b) /\ st.detach = b.detach
      /\ st.readOnlyRoot = b.readOnlyRoot /\ st.on = b.checked /\ st.set = set
  <2> DEFINE r == Append(la, b.name)
  <2>1. la \in Seq(Plain) /\ b.name \in Plain
    BY <1>1, LinkArgumentsFacts, PlainFacts DEF la
  <2>2. PICK m \in Nat : Len(la) = m
    BY <2>1, LenProperties
  <2>3. r \in Seq(Plain) /\ Len(r) = m + 1 /\ r[m + 1] = b.name
    BY <2>1, <2>2, AppendProperties
  <2>4. r = la \o <<b.name>> /\ <<b.name>> \in Seq(Plain)
    BY <2>1, ConcatAppend
  <2> HIDE DEF r
  <2>5. SubSeq(r, 1, m) = la
    BY <2>1, <2>2, <2>4, Cut
  <2>6. r # <<>> /\ (m + 1) - 1 = m
    BY <2>2, <2>3, EmptySeq
  <2>7. Front(r) = la /\ Last(r) = b.name
    BY <2>3, <2>5, <2>6 DEF Front, Last
  <2>8. /\ st.rest = r /\ st.want = "flag" /\ st.rootDir = Dir(b) /\ st.detach = b.detach
        /\ st.readOnlyRoot = b.readOnlyRoot /\ st.on = b.checked /\ st.set = set
    BY DEF st, Settled, r
  <2> QED
    BY <2>6, <2>7, <2>8
<1>8. ParseLinkFlags(la, M) = IF bad THEN Refused ELSE [outcome |-> "parsed", links |-> links]
  BY LinksParsed DEF la
<1>9. WithDefaults(st) = b.checked
  <2>1. CASE Dir(b) = NoDirectory
    BY <1>7, <2>1 DEF WithDefaults
  <2>2. CASE Dir(b) # NoDirectory
    <3>1. b.root
      BY <2>2 DEF Dir
    <3>2. {"executable", "path", "cwd", "gitroot", "appexec"} \ set = {}
      BY <1>4, <3>1 DEF PassthroughNames
    <3> QED
      BY <1>7, <2>2, <3>2 DEF WithDefaults
  <2> QED
    BY <2>1, <2>2
<1>10. ~(st.rootDir # NoDirectory /\ st.readOnlyRoot)
  BY <1>7 DEF Dir
<1> DEFINE pl == ParseLinkFlags(la, M)
<1> HIDE DEF pl, bad
<1>11. ParseExec(args, M) =
         IF pl = Refused THEN Refused
         ELSE [outcome |-> "parsed", detach |-> b.detach, rootDir |-> Dir(b),
               readOnlyRoot |-> b.readOnlyRoot, passthrough |-> b.checked,
               links |-> pl.links, jobName |-> b.name, cmdArgs |-> CommandOf(b)]
  BY <1>5, <1>6, <1>7, <1>9, <1>10 DEF ParseExec, d, pl
<1>12. CASE bad
  BY <1>8, <1>11, <1>12 DEF pl, bad
<1>13. CASE ~bad
  <2>1. pl = [outcome |-> "parsed", links |-> links]
    BY <1>8, <1>13 DEF pl
  <2>2. pl # Refused /\ pl.links = links
    BY <2>1 DEF Refused
  <2> QED
    BY <1>11, <1>13, <2>2 DEF bad
<1> QED
  BY <1>12, <1>13

Four(a, n, d, c) == <<a, n, d, c>> = <<a>> \o <<n, d, c>>

LEMMA FourWords ==
  ASSUME NEW C, NEW a \in C, NEW n \in C, NEW d \in C, NEW c \in C
  PROVE  Four(a, n, d, c)
<1> DEFINE t == <<a, n, d, c>>
           p == <<a>>
           u == <<n, d, c>>
           s == p \o u
<1>1. /\ t \in Seq(C) /\ Len(t) = 4 /\ t[1] = a /\ t[2] = n /\ t[3] = d /\ t[4] = c
      /\ p \in Seq(C) /\ Len(p) = 1 /\ p[1] = a
      /\ u \in Seq(C) /\ Len(u) = 3 /\ u[1] = n /\ u[2] = d /\ u[3] = c
  OBVIOUS
<1> HIDE DEF t, p, u
<1>2. s \in Seq(C) /\ Len(s) = Len(p) + Len(u)
      /\ \A i \in 1..(Len(p) + Len(u)) : s[i] = IF i <= Len(p) THEN p[i] ELSE u[i - Len(p)]
  <2>1. p \in Seq(C) /\ u \in Seq(C)
    BY <1>1
  <2> QED
    BY <2>1, ConcatProperties
<1> HIDE DEF s
<1>3. s[1] = a /\ s[2] = n /\ s[3] = d /\ s[4] = c /\ Len(s) = 4
  BY <1>1, <1>2
<1>4. \A i \in 1..4 : s[i] = t[i]
  <2>1. \A i \in 1..4 : i = 1 \/ i = 2 \/ i = 3 \/ i = 4
    OBVIOUS
  <2> QED
    BY <1>1, <1>3, <2>1
<1>5. t = s
  BY <1>1, <1>2, <1>3, <1>4, SeqEqual
<1> QED
  BY <1>5 DEF Four, t, p, u, s

\* silo exec reads the name and the command, or refuses a name with a dash.
LEMMA SiloExecReads ==
  ASSUME NEW b \in BoxStates
  PROVE  ParseSiloExec(GetExistingSiloExecArguments(b), Dashed) =
           IF b.name \in Dashed THEN Refused
           ELSE [outcome |-> "parsed", detach |-> TRUE, jobName |-> b.name,
                 cmdArgs |-> CommandOf(b)]
<1> DEFINE a == "--detach"
           n == b.name
           pre == <<a>> \o <<n>>
           args == GetExistingSiloExecArguments(b)
           d == SelectInSeq(args, IsDashes)
<1>1. n \in Word /\ n # a /\ a \in Word
  BY WordFacts, SettingsAssumption DEF BoxStates, Reserved
<1> HIDE DEF a, n
<1>2. <<a>> \in Seq(Word) /\ <<n>> \in Seq(Word) /\ Len(<<a>>) = 1 /\ Len(<<n>>) = 1 /\ <<a>>[1] = a /\ <<n>>[1] = n
  BY <1>1
<1>3. pre \in Seq(Word) /\ Len(pre) = 2 /\ pre[1] = a /\ pre[2] = n /\ DOMAIN pre = 1..2
  <2> DEFINE p == <<a>>
             q == <<n>>
             s == p \o q
  <2> HIDE DEF p, q
  <2>1. p \in Seq(Word) /\ q \in Seq(Word) /\ Len(p) = 1 /\ Len(q) = 1 /\ p[1] = a /\ q[1] = n
    BY <1>2 DEF p, q
  <2>2. s \in Seq(Word) /\ Len(s) = Len(p) + Len(q)
        /\ \A i \in 1..(Len(p) + Len(q)) : s[i] = IF i <= Len(p) THEN p[i] ELSE q[i - Len(p)]
    <3>1. p \in Seq(Word) /\ q \in Seq(Word)
      BY <2>1
    <3> QED
      BY <3>1, ConcatProperties
  <2>3. DOMAIN s = 1..Len(s)
    BY <2>2, LenProperties
  <2>4. pre = s
    BY DEF p, q
  <2> HIDE DEF s
  <2>5. s \in Seq(Word) /\ Len(s) = 2 /\ s[1] = a /\ s[2] = n
    BY <2>1, <2>2
  <2> QED
    BY <2>3, <2>4, <2>5
<1>4. args = pre \o (<<"--">> \o CommandOf(b))
  <2> DEFINE A == AllWords
             y == b.args
             c == b.command
             dd == "--"
  <2>1. a \in A /\ n \in A /\ dd \in A /\ c \in A /\ y \in Seq(A) /\ <<a>> \in Seq(A)
    BY <1>1, CommandFacts DEF AllWords
  <2>2. args = <<a, n, dd, c>> \o y /\ CommandOf(b) = <<c>> \o y
    BY Zenon DEF GetExistingSiloExecArguments, CommandOf, a, n
  <2> HIDE DEF A, y, c, dd, args
  <2>3. Four(a, n, dd, c)
    BY <2>1, FourWords
  <2> DEFINE x == <<a>>
  <2> HIDE DEF x
  <2>4. x \in Seq(A)
    BY <2>1 DEF x
  <2>5. Regrouped(x, n, dd, c, y)
    BY <2>1, <2>4, Regroup
  <2> QED
    BY <2>2, <2>3, <2>5, Zenon DEF Four, Regrouped, dd, x
<1> HIDE DEF pre, args, d
<1>5. /\ d # 0 /\ d # Len(args)
      /\ SubSeq(args, 1, d - 1) = pre
      /\ SubSeq(args, d + 1, Len(args)) = CommandOf(b)
  <2>1. pre \in Seq(AllWords) /\ ~Contains(pre, "--")
    BY <1>3, NoDashes
  <2>2. CommandOf(b) \in Seq(AllWords) /\ CommandOf(b) # <<>> /\ "--" \in AllWords
    BY CommandFacts DEF AllWords
  <2>3. DashesBetween(args, pre, CommandOf(b))
    BY <1>4, <2>1, <2>2, SplitAtDashes
  <2> QED
    BY <2>3 DEF DashesBetween, d
<1> DEFINE P == {k \in DOMAIN pre : pre[k] # a}
<1>6. P = {2}
  BY <1>1, <1>3
<1>7. Cardinality(P) = 1 /\ (CHOOSE k \in P : TRUE) = 2
  <2>1. Cardinality({2}) = 1
    BY FS_Singleton
  <2>2. (CHOOSE k \in {2} : TRUE) = 2
    OBVIOUS
  <2> HIDE DEF P
  <2> QED
    BY <1>6, <2>1, <2>2, Zenon
<1>8. Contains(pre, a)
  <2>1. 1 \in 1..Len(pre)
    BY <1>3
  <2> QED
    BY <1>3, <2>1 DEF Contains
<1>9. (\E k \in P : pre[k] \in Dashed) <=> n \in Dashed
  BY <1>3, <1>6
<1>10. P = {k \in DOMAIN pre : pre[k] # "--detach"}
  BY DEF a
<1> HIDE DEF P
<1>11. ParseSiloExec(args, Dashed) =
         IF d = 0 \/ d = Len(args) \/ (\E k \in P : pre[k] \in Dashed) \/ Cardinality(P) # 1 THEN Refused
         ELSE [outcome |-> "parsed", detach |-> Contains(pre, "--detach"),
               jobName |-> pre[CHOOSE k \in P : TRUE], cmdArgs |-> CommandOf(b)]
  BY <1>5, <1>10, Zenon DEF ParseSiloExec, d
<1>12. Contains(pre, "--detach") = TRUE
  BY <1>8 DEF a, Contains
<1> QED
  BY <1>3, <1>5, <1>7, <1>9, <1>11, <1>12 DEF args, n

LEMMA GUILinksTyped ==
  ASSUME NEW b \in BoxStates, NEW covering
  PROVE  GUILinks(b, WslLinks, WindowsLink, covering) \in Seq(Typed)
<1> DEFINE x == b.links
           y == IF b.blockWSL THEN WslLinks ELSE <<>>
           z == IF b.windows /\ ~\E k \in DOMAIN b.links : b.links[k] \in covering
                  THEN <<WindowsLink>> ELSE <<>>
<1>1. x \in Seq(Typed) /\ y \in Seq(Typed) /\ z \in Seq(Typed)
  <2>1. WslLinks \in Seq(Typed) /\ <<WindowsLink>> \in Seq(Typed) /\ <<>> \in Seq(Typed)
    BY SettingsAssumption, EmptySeq
  <2> QED
    BY <2>1 DEF BoxStates
<1>2. GUILinks(b, WslLinks, WindowsLink, covering) = (x \o y) \o z
  BY Zenon DEF GUILinks
<1> HIDE DEF x, y, z
<1> QED
  BY <1>1, <1>2, ConcatProperties

BoxesInput == kind = "boxes" => boxes \in BoxStates

\* What is typed into the boxes stays there.
THEOREM BoxesAreTyped == Spec => []BoxesInput
<1>1. Init => BoxesInput
  BY SettingsAssumption, KindsAssumption DEF Init, BoxesInput, BoxStates, Kinds
<1>2. BoxesInput /\ [Next]_vars => BoxesInput'
  BY DEF BoxesInput, Next, NewWord, NewLetter, vars
<1> QED
  BY <1>1, <1>2, PTL DEF Spec

\* What exec and silo exec read out of the arguments is what the boxes show, for
\* every text typed into them that is none of exec's own words; of those, silo
\* exec refuses the names that begin with a dash, and no other.
THEOREM BoxesReachExecHolds == Spec => []BoxesReachExec
<1>1. BoxesInput => BoxesReachExec
  <2> DEFINE b == boxes
             links == GUILinks(b, WslLinks, WindowsLink, Covering)
             made == GetExecArguments(b, links)
  <2> SUFFICES ASSUME BoxesInput, kind = "boxes", made # Refused
               PROVE  /\ ParseExec(made.args, Malformed) =
                           IF \E k \in DOMAIN links : links[k] \in Malformed THEN Refused
                           ELSE [outcome |-> "parsed", detach |-> b.detach,
                                 rootDir |-> IF b.root THEN b.rootDir ELSE NoDirectory,
                                 readOnlyRoot |-> b.readOnlyRoot, passthrough |-> b.checked,
                                 links |-> links, jobName |-> b.name,
                                 cmdArgs |-> <<b.command>> \o b.args]
                      /\ ParseSiloExec(GetExistingSiloExecArguments(b), Dashed) =
                           IF b.name \in Dashed THEN Refused
                           ELSE [outcome |-> "parsed", detach |-> TRUE, jobName |-> b.name,
                                 cmdArgs |-> <<b.command>> \o b.args]
    BY Zenon DEF BoxesReachExec
  <2>1. b \in BoxStates
    BY DEF BoxesInput
  <2> HIDE DEF b
  <2>2. links \in Seq(Typed)
    BY <2>1, GUILinksTyped
  <2> HIDE DEF links
  <2>3. ~(b.root /\ (b.readOnlyRoot \/ b.rootDir = NoDirectory))
    BY DEF GetExecArguments
  <2> DEFINE x == (IF b.detach THEN <<"--detach">> ELSE <<>>)
                    \o (IF b.root THEN <<"--root", b.rootDir>> ELSE <<>>)
                    \o (IF b.readOnlyRoot THEN <<"--readonly-root">> ELSE <<>>)
                    \o PassthroughArguments(b) \o LinkArguments(links)
             args == x \o <<b.name, "--", b.command>> \o b.args
  <2>4. made.args = args
    <3>1. made = [outcome |-> "made", args |-> args]
      BY <2>3, Zenon DEF GetExecArguments
    <3> HIDE DEF args, made
    <3> QED
      BY <3>1
  <2>5. args = BeforeDashes(b, links) \o (<<"--">> \o CommandOf(b))
    <3> DEFINE A == AllWords
               y == b.args
               c == b.command
               dd == "--"
               n == b.name
    <3>1. BeforeDashes(b, links) = x \o <<n>> /\ x = BeforeName(b, links) /\ CommandOf(b) = <<c>> \o y
      BY Zenon DEF BeforeDashes, BeforeName, CommandOf
    <3>2. x \in Seq(Word)
      <4> HIDE DEF x
      <4> QED
        BY <2>1, <2>2, <2>3, <3>1, BeforeDashesRead
    <3> HIDE DEF x
    <3>3. x \in Seq(A) /\ n \in A /\ dd \in A /\ c \in A /\ y \in Seq(A)
      <4>1. n \in Typed
        BY <2>1 DEF BoxStates
      <4> QED
        BY <2>1, <3>2, <4>1, WordFacts, NoDashes, CommandFacts DEF AllWords
    <3>4. args = x \o <<n, dd, c>> \o y
      OBVIOUS
    <3> HIDE DEF A, y, c, dd, n, args
    <3>5. Regrouped(x, n, dd, c, y)
      BY <3>3, Regroup
    <3> QED
      BY <3>1, <3>4, <3>5, Zenon DEF Regrouped, dd
  <2>6. ParseExec(args, Malformed) =
           IF \E k \in DOMAIN links : links[k] \in Malformed THEN Refused
           ELSE [outcome |-> "parsed", detach |-> b.detach, rootDir |-> Dir(b),
                 readOnlyRoot |-> b.readOnlyRoot, passthrough |-> b.checked,
                 links |-> links, jobName |-> b.name, cmdArgs |-> CommandOf(b)]
    <3> HIDE DEF args
    <3> QED
      BY <2>1, <2>2, <2>3, <2>5, ExecReads
  <2> HIDE DEF args, made
  <2> QED
    BY <2>1, <2>4, <2>6, SiloExecReads, Zenon DEF Dir, CommandOf
<1> QED
  BY <1>1, BoxesAreTyped, PTL

=============================================================================
