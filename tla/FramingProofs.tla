---------------------------- MODULE FramingProofs ----------------------------
(***************************************************************************)
(* What TLAPS proves of Framing: for any base, length field, limit and     *)
(* payloads, the reader gives out the frames that were written, however    *)
(* the stream is cut up.                                                   *)
(***************************************************************************)
EXTENDS Framing, SequenceTheorems, WellFoundedInduction, TLAPS
-----------------------------------------------------------------------------
(* Induction.  The library's theorem takes a predicate, this one a set.      *)

\* A set of numbers that has 0 and with each number the next has all.
LEMMA SetInduction ==
  ASSUME NEW S, 0 \in S, \A n \in Nat : n \in S => n + 1 \in S
  PROVE  Nat \subseteq S
<1> DEFINE T == Nat \ S
           R == OpToRel(<, Nat)
<1>1. IsWellFoundedOn(R, Nat)
  BY NatLessThanWellFounded
<1>2. \A x, y \in Nat : x < y => <<x, y>> \in R
  BY DEF OpToRel
<1>3. T \subseteq Nat /\ \A x \in T : x # 0 /\ x - 1 \in T
  OBVIOUS
<1> HIDE DEF T, R
<1>4. ASSUME T # {} PROVE FALSE
  <2>1. PICK x \in T : \A y \in T : <<y, x>> \notin R
    BY <1>1, <1>3, <1>4, WFMin
  <2>2. x - 1 \in T /\ x - 1 \in Nat /\ x \in Nat /\ x - 1 < x
    BY <1>3
  <2> QED
    BY <1>2, <2>1, <2>2
<1> QED
  BY <1>4 DEF T

\* What is made step by step exists: f[0] is a, and f[i] is made of f[i - 1].
Steps(f, n, a, F) == f[0] = a /\ \A i \in 1 .. n : f[i] = F[i][f[i - 1]]
AllSteps(f, a, F) == f[0] = a /\ \A i \in Nat : i # 0 => f[i] = F[i][f[i - 1]]

\* They exist up to any number of steps,
LEMMA Bounded ==
  ASSUME NEW V, NEW a \in V, NEW F \in [Nat -> [V -> V]]
  PROVE  \A n \in Nat : \E f \in [Nat -> V] : Steps(f, n, a, F)
<1> DEFINE S == {n \in Nat : \E f \in [Nat -> V] : Steps(f, n, a, F)}
<1>1. 0 \in S
  <2> DEFINE f == [i \in Nat |-> a]
  <2>1. f \in [Nat -> V] /\ Steps(f, 0, a, F)
    BY DEF Steps
  <2> QED
    BY <2>1
<1>2. ASSUME NEW n \in Nat, n \in S PROVE n + 1 \in S
  <2>1. PICK f \in [Nat -> V] : Steps(f, n, a, F)
    BY <1>2
  <2> DEFINE g == [i \in Nat |-> IF i = n + 1 THEN F[i][f[i - 1]] ELSE f[i]]
  <2>2. F[n + 1][f[n]] \in V
    OBVIOUS
  <2>3. \A i \in Nat : g[i] = IF i = n + 1 THEN F[n + 1][f[n]] ELSE f[i]
    OBVIOUS
  <2>4. g \in [Nat -> V]
    <3>1. \A i \in Nat : g[i] \in V
      BY <2>2, <2>3
    <3> QED
      BY <3>1
  <2> HIDE DEF g
  <2>5. Steps(g, n + 1, a, F)
    <3>1. g[0] = a
      BY <2>1, <2>3 DEF Steps
    <3>2. ASSUME NEW i \in 1 .. n + 1 PROVE g[i] = F[i][g[i - 1]]
      <4>1. g[i - 1] = f[i - 1]
        BY <2>3
      <4>2. CASE i = n + 1
        BY <2>3, <4>1, <4>2
      <4>3. CASE i \in 1 .. n
        BY <2>1, <2>3, <4>1, <4>3 DEF Steps
      <4> QED
        BY <4>2, <4>3
    <3> QED
      BY <3>1, <3>2 DEF Steps
  <2> QED
    BY <2>4, <2>5
<1> HIDE DEF S
<1>3. Nat \subseteq S
  BY <1>1, <1>2, SetInduction
<1> QED
  BY <1>3 DEF S

\* Two that are made the same way are the same as far as they are made.
LEMMA Agree ==
  ASSUME NEW a, NEW F, NEW m \in Nat, NEW n \in Nat, m <= n, NEW f, NEW g,
         Steps(f, m, a, F), Steps(g, n, a, F)
  PROVE  \A i \in 0 .. m : f[i] = g[i]
<1> DEFINE S == {i \in Nat : i <= m => f[i] = g[i]}
<1>1. 0 \in S
  BY DEF Steps
<1>2. ASSUME NEW i \in Nat, i \in S PROVE i + 1 \in S
  <2>1. CASE i + 1 <= m
    <3>1. i + 1 \in 1 .. m /\ i + 1 \in 1 .. n /\ (i + 1) - 1 = i
      BY <2>1
    <3>2. f[i] = g[i]
      BY <1>2, <2>1
    <3>3. f[i + 1] = F[i + 1][f[i]] /\ g[i + 1] = F[i + 1][g[i]]
      BY <3>1 DEF Steps
    <3> QED
      BY <3>2, <3>3
  <2> QED
    BY <2>1
<1> HIDE DEF S
<1>3. Nat \subseteq S
  BY <1>1, <1>2, SetInduction
<1> QED
  BY <1>3 DEF S

\* ... and for all steps at once, which is what a recursive definition asks for.
LEMMA Unbounded ==
  ASSUME NEW V, NEW a \in V, NEW F \in [Nat -> [V -> V]]
  PROVE  \E f \in [Nat -> V] : AllSteps(f, a, F)
<1> DEFINE h[n \in Nat] == CHOOSE f \in [Nat -> V] : Steps(f, n, a, F)
           f == [n \in Nat |-> h[n][n]]
<1>1. \A n \in Nat : h[n] \in [Nat -> V] /\ Steps(h[n], n, a, F)
  BY Bounded
<1> HIDE DEF h
<1>2. f \in [Nat -> V] /\ \A n \in Nat : f[n] = h[n][n]
  BY <1>1
<1> HIDE DEF f
<1>3. f[0] = a
  BY <1>1, <1>2 DEF Steps
<1>4. ASSUME NEW i \in Nat, i # 0 PROVE f[i] = F[i][f[i - 1]]
  <2>1. i - 1 \in Nat /\ i - 1 <= i /\ i - 1 \in 0 .. i - 1 /\ i \in 1 .. i
    BY <1>4
  <2>2. Steps(h[i], i, a, F) /\ Steps(h[i - 1], i - 1, a, F)
    BY <1>1, <2>1
  <2>3. h[i - 1][i - 1] = h[i][i - 1]
    <3> DEFINE m == i - 1
               p == h[i - 1]
               q == h[i]
    <3>1. m \in Nat /\ m <= i /\ m \in 0 .. m /\ Steps(p, m, a, F) /\ Steps(q, i, a, F)
      BY <2>1, <2>2
    <3> HIDE DEF m, p, q
    <3>2. \A j \in 0 .. m : p[j] = q[j]
      BY <3>1, Agree
    <3>3. p[m] = q[m]
      BY <3>1, <3>2
    <3> QED
      BY <3>3 DEF m, p, q
  <2>4. h[i][i] = F[i][h[i][i - 1]]
    BY <2>1, <2>2 DEF Steps
  <2> QED
    BY <1>2, <2>1, <2>3, <2>4
<1> QED
  BY <1>2, <1>3, <1>4 DEF AllSteps
-----------------------------------------------------------------------------
(* The length field *)

\* A byte has at least the three values of the types.
LEMMA BaseFact ==
  /\ Base \in Nat /\ Base > 2 /\ LenBytes \in Nat /\ LenBytes > 0
  /\ MaxFrame \in Nat /\ MaxSent \in Nat
<1>1. 2 \in Byte
  BY FramingAssumption DEF Type, kBin
<1> QED
  BY <1>1, FramingAssumption DEF Byte

\* Quotient and last digit.
LEMMA Division ==
  ASSUME NEW n \in Nat
  PROVE  /\ n \div Base \in Nat /\ n % Base \in Byte
         /\ n = (n \div Base) * Base + (n % Base)
<1> DEFINE b == Base
<1>1. b \in Nat /\ b > 2
  BY BaseFact
<1>2. Base = b
  OBVIOUS
<1> HIDE DEF b
<1>3. n \div b \in Nat /\ n % b \in 0 .. b - 1
  BY <1>1
<1>4. n = (n \div b) * b + (n % b)
  BY <1>1
<1> QED
  BY <1>2, <1>3, <1>4 DEF Byte

\* One digit less at each step.
LEMMA ShiftedSteps ==
  ASSUME NEW n \in Nat
  PROVE  /\ Shifted(n, 0) = n
         /\ \A k \in Nat : /\ Shifted(n, k) \in Nat
                           /\ Shifted(n, k + 1) = Shifted(n, k) \div Base
<1> DEFINE F == [i \in Nat |-> [v \in Nat |-> v \div Base]]
           s[i \in Nat] == IF i = 0 THEN n ELSE s[i - 1] \div Base
           IsS(f) == f = [i \in Nat |-> IF i = 0 THEN n ELSE f[i - 1] \div Base]
<1>1. F \in [Nat -> [Nat -> Nat]]
  BY Division
<1>2. \A i \in Nat, v \in Nat : F[i][v] = v \div Base
  OBVIOUS
<1> HIDE DEF F
<1>3. PICK f \in [Nat -> Nat] : AllSteps(f, n, F)
  BY <1>1, Unbounded
<1>4. f[0] = n /\ \A i \in Nat : i # 0 => f[i - 1] \in Nat /\ f[i] = f[i - 1] \div Base
  BY <1>2, <1>3 DEF AllSteps
<1>5. IsS(f)
  BY <1>4
<1>6. s = CHOOSE g : IsS(g)
  BY Zenon
<1>7. IsS(s)
  BY <1>5, <1>6, Zenon
<1>8. \A k \in Nat : Shifted(n, k) = s[k]
  BY Zenon DEF Shifted
<1> HIDE DEF s
<1>9. s[0] = n /\ \A k \in Nat : s[k + 1] = s[k] \div Base
  BY <1>7
<1>10. Nat \subseteq {k \in Nat : s[k] \in Nat}
  <2> DEFINE T == {k \in Nat : s[k] \in Nat}
  <2>1. 0 \in T /\ \A k \in Nat : k \in T => k + 1 \in T
    BY <1>9, Division
  <2> HIDE DEF T
  <2>2. Nat \subseteq T
    BY <2>1, SetInduction
  <2> QED
    BY <2>2 DEF T
<1> QED
  BY <1>8, <1>9, <1>10

\* Reading the digits of a length gives the length back.
LEMMA DeclaredLength ==
  ASSUME NEW n \in Nat, Shifted(n, LenBytes) = 0, NEW b,
         \A k \in 1 .. LenBytes : b[k] = Shifted(n, LenBytes - k) % Base
  PROVE  Declared(b) = n
<1> DEFINE v[k \in 0 .. LenBytes] == IF k = 0 THEN 0 ELSE v[k - 1] * Base + b[k]
           IsV(f) == f = [k \in 0 .. LenBytes |-> IF k = 0 THEN 0 ELSE f[k - 1] * Base + b[k]]
           w == [k \in 0 .. LenBytes |-> Shifted(n, LenBytes - k)]
<1>1. \A k \in 0 .. LenBytes : w[k] = Shifted(n, LenBytes - k)
  OBVIOUS
<1>2. ASSUME NEW k \in 1 .. LenBytes
      PROVE  /\ Shifted(n, LenBytes - k) = Shifted(n, LenBytes - (k - 1)) * Base + b[k]
             /\ LenBytes - (k - 1) \in Nat
  <2>1. LenBytes - k \in Nat /\ (LenBytes - k) + 1 = LenBytes - (k - 1)
    BY BaseFact
  <2>2. /\ Shifted(n, LenBytes - k) \in Nat
        /\ Shifted(n, LenBytes - (k - 1)) = Shifted(n, LenBytes - k) \div Base
    BY <2>1, ShiftedSteps
  <2>3. Shifted(n, LenBytes - k)
          = (Shifted(n, LenBytes - k) \div Base) * Base + (Shifted(n, LenBytes - k) % Base)
    BY <2>2, Division
  <2> QED
    BY <2>1, <2>2, <2>3
<1>3. IsV(w)
  <2>1. w[0] = 0
    BY BaseFact
  <2>2. ASSUME NEW k \in 1 .. LenBytes PROVE w[k] = w[k - 1] * Base + b[k]
    <3>1. k \in 0 .. LenBytes /\ k - 1 \in 0 .. LenBytes
      BY BaseFact
    <3>2. w[k] = Shifted(n, LenBytes - k) /\ w[k - 1] = Shifted(n, LenBytes - (k - 1))
      BY <1>1, <3>1
    <3> HIDE DEF w
    <3> QED
      BY <1>2, <3>2
  <2>3. w = [k \in 0 .. LenBytes |-> w[k]]
    OBVIOUS
  <2>4. \A k \in 0 .. LenBytes : k # 0 => k \in 1 .. LenBytes
    OBVIOUS
  <2> HIDE DEF w
  <2> QED
    BY <2>1, <2>2, <2>3, <2>4
<1> HIDE DEF w
<1>4. v = CHOOSE f : IsV(f)
  BY Zenon
<1>5. IsV(v)
  BY <1>3, <1>4, Zenon
<1>6. Declared(b) = v[LenBytes]
  BY Zenon DEF Declared
<1> HIDE DEF v
<1>7. v[0] = 0 /\ \A k \in 1 .. LenBytes : v[k] = v[k - 1] * Base + b[k]
  BY <1>5, BaseFact
<1>8. Nat \subseteq {k \in Nat : k <= LenBytes => v[k] = Shifted(n, LenBytes - k)}
  <2> DEFINE T == {k \in Nat : k <= LenBytes => v[k] = Shifted(n, LenBytes - k)}
  <2>1. 0 \in T
    BY <1>7, BaseFact
  <2>2. ASSUME NEW k \in Nat, k \in T PROVE k + 1 \in T
    <3>1. CASE k + 1 <= LenBytes
      <4>1. k + 1 \in 1 .. LenBytes /\ (k + 1) - 1 = k /\ k <= LenBytes
        BY <3>1, BaseFact
      <4>2. v[k] = Shifted(n, LenBytes - k)
        BY <2>2, <4>1
      <4>3. v[k + 1] = v[k] * Base + b[k + 1]
        BY <1>7, <4>1
      <4>4. Shifted(n, LenBytes - (k + 1)) = Shifted(n, LenBytes - k) * Base + b[k + 1]
        BY <1>2, <4>1
      <4> QED
        BY <4>2, <4>3, <4>4
    <3> QED
      BY <3>1, BaseFact
  <2> HIDE DEF T
  <2>3. Nat \subseteq T
    BY <2>1, <2>2, SetInduction
  <2> QED
    BY <2>3 DEF T
<1>9. LenBytes \in Nat /\ LenBytes - LenBytes = 0
  BY BaseFact
<1>10. v[LenBytes] = Shifted(n, 0)
  BY <1>8, <1>9
<1> QED
  BY <1>6, <1>10, ShiftedSteps
-----------------------------------------------------------------------------
(* FlattenSeq *)

\* What is put together one after the other is what FlattenSeq computes.
LEMMA FlattenIs ==
  ASSUME NEW V, NEW q \in Seq(Seq(V)), NEW f, f[0] = <<>>,
         \A i \in 1 .. Len(q) : f[i - 1] \in Seq(V) /\ f[i] = f[i - 1] \o q[i]
  PROVE  FlattenSeq(q) = f[Len(q)]
<1> DEFINE n == Len(q)
<1>1. n \in Nat /\ n = Len(q)
  OBVIOUS
<1> HIDE DEF n
<1>2. CASE n = 0
  <2>1. q = <<>>
    BY <1>1, <1>2, EmptySeq
  <2> QED
    BY <1>1, <1>2, <2>1 DEF FlattenSeq
<1>3. CASE n # 0
  <2> DEFINE g[i \in 1 .. Len(q)] == IF i = 1 THEN q[i] ELSE g[i - 1] \o q[i]
             IsG(h) == h = [i \in 1 .. Len(q) |-> IF i = 1 THEN q[i] ELSE h[i - 1] \o q[i]]
             w == [i \in 1 .. Len(q) |-> f[i]]
  <2>1. \A i \in 1 .. n : w[i] = f[i]
    BY <1>1
  <2>2. 1 \in 1 .. n /\ \A i \in 1 .. n : i # 1 => i - 1 \in 1 .. n
    BY <1>1, <1>3
  <2>3. f[1] = q[1]
    <3>1. q[1] \in Seq(V)
      BY <1>1, <2>2, ElementOfSeq
    <3>2. 1 \in 1 .. Len(q) /\ 1 - 1 = 0
      BY <1>1, <2>2
    <3>3. f[1] = <<>> \o q[1]
      BY <3>2
    <3> QED
      BY <3>1, <3>3, ConcatEmptySeq
  <2>4. IsG(w)
    <3>1. ASSUME NEW i \in 1 .. n PROVE w[i] = IF i = 1 THEN q[i] ELSE w[i - 1] \o q[i]
      <4>1. f[i] = f[i - 1] \o q[i]
        BY <1>1
      <4>2. i # 1 => w[i - 1] = f[i - 1]
        BY <2>1, <2>2
      <4> HIDE DEF w
      <4> QED
        BY <2>1, <2>3, <4>1, <4>2
    <3>2. w = [i \in 1 .. n |-> w[i]]
      BY <1>1
    <3> HIDE DEF w
    <3> QED
      BY <1>1, <3>1, <3>2
  <2> HIDE DEF w
  <2>5. g = CHOOSE h : IsG(h)
    BY Zenon
  <2>6. IsG(g)
    BY <2>4, <2>5, Zenon
  <2>7. FlattenSeq(q) = g[n]
    <3>1. FlattenSeq(q) = IF Len(q) = 0 THEN q ELSE g[Len(q)]
      BY Zenon DEF FlattenSeq
    <3> QED
      BY <1>1, <1>3, <3>1
  <2> HIDE DEF g
  <2>8. \A i \in 1 .. n : g[i] = IF i = 1 THEN q[i] ELSE g[i - 1] \o q[i]
    BY <1>1, <2>6
  <2>9. Nat \subseteq {i \in Nat : i \in 1 .. n => g[i] = f[i]}
    <3> DEFINE T == {i \in Nat : i \in 1 .. n => g[i] = f[i]}
    <3>1. 0 \in T
      BY <1>1
    <3>2. ASSUME NEW i \in Nat, i \in T PROVE i + 1 \in T
      <4>1. CASE i + 1 \in 1 .. n /\ i # 0
        <5>1. i \in 1 .. n /\ (i + 1) - 1 = i /\ i + 1 # 1
          BY <1>1, <4>1
        <5>2. g[i] = f[i]
          BY <3>2, <5>1
        <5>3. g[i + 1] = g[i] \o q[i + 1]
          BY <2>8, <4>1, <5>1
        <5>4. f[i + 1] = f[i] \o q[i + 1]
          BY <1>1, <4>1, <5>1
        <5>5. g[i + 1] = f[i + 1]
          BY <5>2, <5>3, <5>4
        <5> QED
          BY <5>5
      <4>2. CASE i = 0
        BY <2>2, <2>3, <2>8, <4>2
      <4> QED
        BY <4>1, <4>2
    <3> HIDE DEF T
    <3>3. Nat \subseteq T
      BY <3>1, <3>2, SetInduction
    <3> QED
      BY <3>3 DEF T
  <2>10. n \in Nat /\ n \in 1 .. n
    BY <1>1, <1>3
  <2> QED
    BY <1>1, <2>7, <2>9, <2>10
<1> QED
  BY <1>2, <1>3

\* One sequence more.
LEMMA FlattenPrefix ==
  ASSUME NEW V, NEW q \in Seq(Seq(V))
  PROVE  /\ FlattenSeq(SubSeq(q, 1, 0)) = <<>>
         /\ \A k \in 0 .. Len(q) : FlattenSeq(SubSeq(q, 1, k)) \in Seq(V)
         /\ \A k \in 0 .. Len(q) - 1 :
              FlattenSeq(SubSeq(q, 1, k + 1)) = FlattenSeq(SubSeq(q, 1, k)) \o q[k + 1]
<1> DEFINE W == Seq(V)
           F == [i \in Nat |-> [v \in W |-> IF i \in 1 .. Len(q) THEN v \o q[i] ELSE v]]
<1>1. Len(q) \in Nat /\ \A i \in 1 .. Len(q) : q[i] \in Seq(V)
  OBVIOUS
<1>2. <<>> \in W /\ \A i \in 1 .. Len(q), v \in W : v \o q[i] \in W
  BY <1>1, ConcatProperties
<1>3. F \in [Nat -> [W -> W]]
  BY <1>2
<1>4. \A i \in 1 .. Len(q), v \in W : F[i][v] = v \o q[i]
  <2>1. \A i \in 1 .. Len(q) : i \in Nat
    BY <1>1
  <2> HIDE DEF W
  <2> QED
    BY <2>1
<1> HIDE DEF W, F
<1>5. PICK f \in [Nat -> W] : AllSteps(f, <<>>, F)
  BY <1>2, <1>3, Unbounded
<1>6. f[0] = <<>> /\ \A i \in 1 .. Len(q) : f[i - 1] \in W /\ f[i] = f[i - 1] \o q[i]
  <2>1. \A i \in 1 .. Len(q) : i \in Nat /\ i # 0 /\ i - 1 \in Nat
    BY <1>1
  <2> QED
    BY <1>4, <1>5, <2>1 DEF AllSteps
<1>7. ASSUME NEW k \in 0 .. Len(q) PROVE FlattenSeq(SubSeq(q, 1, k)) = f[k]
  <2> DEFINE p == SubSeq(q, 1, k)
  <2>1. p \in Seq(Seq(V)) /\ Len(p) = k /\ \A i \in 1 .. k : p[i] = q[i]
    BY <1>1, SubSeqProperties
  <2>2. \A i \in 1 .. k : i \in 1 .. Len(q)
    BY <1>1
  <2> HIDE DEF p
  <2>3. \A i \in 1 .. Len(p) : f[i - 1] \in Seq(V) /\ f[i] = f[i - 1] \o p[i]
    BY <1>6, <2>1, <2>2 DEF W
  <2>4. FlattenSeq(p) = f[Len(p)]
    BY <1>6, <2>1, <2>3, FlattenIs
  <2> QED
    BY <2>1, <2>4 DEF p
<1>8. ASSUME NEW k \in 0 .. Len(q) - 1
      PROVE  FlattenSeq(SubSeq(q, 1, k + 1)) = FlattenSeq(SubSeq(q, 1, k)) \o q[k + 1]
  <2>1. k \in 0 .. Len(q) /\ k + 1 \in 0 .. Len(q) /\ k + 1 \in 1 .. Len(q) /\ (k + 1) - 1 = k
    BY <1>1
  <2>2. FlattenSeq(SubSeq(q, 1, k)) = f[k] /\ FlattenSeq(SubSeq(q, 1, k + 1)) = f[k + 1]
    BY <1>7, <2>1
  <2>3. f[k + 1] = f[k] \o q[k + 1]
    BY <1>6, <2>1
  <2> QED
    BY <2>2, <2>3
<1>9. 0 \in 0 .. Len(q) /\ \A k \in 0 .. Len(q) : k \in Nat
  BY <1>1
<1>10. FlattenSeq(SubSeq(q, 1, 0)) = <<>>
  BY <1>6, <1>7, <1>9
<1>11. \A k \in 0 .. Len(q) : FlattenSeq(SubSeq(q, 1, k)) \in Seq(V)
  BY <1>5, <1>7, <1>9 DEF W
<1> QED
  BY <1>8, <1>10, <1>11
-----------------------------------------------------------------------------
(* Pieces of a sequence: what lies behind position e, up to a *)

\* Its length and its elements.
LEMMA Cut ==
  ASSUME NEW V, NEW w \in Seq(V), NEW e \in Nat, NEW a \in Nat, e <= a, a <= Len(w)
  PROVE  /\ SubSeq(w, e + 1, a) \in Seq(V) /\ Len(SubSeq(w, e + 1, a)) = a - e
         /\ \A i \in 1 .. a - e : SubSeq(w, e + 1, a)[i] = w[e + i]
<1>1. e + 1 \in 1 .. Len(w) + 1 /\ Len(w) \in Nat /\ e + 1 \in Nat
  OBVIOUS
<1>2. \A i \in e + 1 .. a : w[i] \in V
  OBVIOUS
<1>3. Len(SubSeq(w, e + 1, a)) = a - e
  BY <1>1
<1>4. \A i \in 1 .. a - e : SubSeq(w, e + 1, a)[i] = w[e + i]
  BY <1>1
<1>5. SubSeq(w, e + 1, a) \in Seq(V)
  BY <1>1, <1>2
<1> QED
  BY <1>3, <1>4, <1>5

\* A piece of a piece.
LEMMA CutTwice ==
  ASSUME NEW V, NEW w \in Seq(V), NEW e \in Nat, NEW c \in Nat, NEW a \in Nat,
         e + c <= a, a <= Len(w)
  PROVE  SubSeq(SubSeq(w, e + 1, a), c + 1, a - e) = SubSeq(w, (e + c) + 1, a)
<1> DEFINE u == SubSeq(w, e + 1, a)
           v == SubSeq(u, c + 1, a - e)
           z == SubSeq(w, (e + c) + 1, a)
           d == e + c
<1>1. e <= a /\ a - e \in Nat /\ c <= a - e /\ d \in Nat /\ d <= a /\ (a - e) - c = a - d
  OBVIOUS
<1>2. u \in Seq(V) /\ Len(u) = a - e /\ \A i \in 1 .. a - e : u[i] = w[e + i]
  BY <1>1, Cut
<1> HIDE DEF u
<1>3. v \in Seq(V) /\ Len(v) = (a - e) - c /\ \A i \in 1 .. (a - e) - c : v[i] = u[c + i]
  BY <1>1, <1>2, Cut
<1>4. z \in Seq(V) /\ Len(z) = a - d /\ \A i \in 1 .. a - d : z[i] = w[d + i]
  BY <1>1, Cut
<1> HIDE DEF v, z
<1>5. ASSUME NEW i \in 1 .. a - d PROVE v[i] = z[i]
  <2>1. i \in 1 .. (a - e) - c /\ c + i \in 1 .. a - e /\ e + (c + i) = d + i
    BY <1>1
  <2> QED
    BY <1>2, <1>3, <1>4, <2>1
<1>6. v = z
  BY <1>1, <1>3, <1>4, <1>5, SeqEqual
<1> QED
  BY <1>6 DEF u, v, z

\* Adjacent pieces.
LEMMA Joined ==
  ASSUME NEW V, NEW w \in Seq(V), NEW e \in Nat, NEW a \in Nat, NEW b \in Nat,
         e <= a, a <= b, b <= Len(w)
  PROVE  SubSeq(w, e + 1, a) \o SubSeq(w, a + 1, b) = SubSeq(w, e + 1, b)
<1>1. e + 1 \in 1 .. Len(w) + 1 /\ a \in (e + 1) - 1 .. Len(w) /\ b \in a .. Len(w)
  OBVIOUS
<1> QED
  BY <1>1, ConcatAdjacentSubSeq

\* A piece of what both have.
LEMMA SameCut ==
  ASSUME NEW V, NEW w \in Seq(V), NEW z \in Seq(V), NEW e \in Nat, NEW a \in Nat,
         e <= a, a <= Len(w), Len(w) <= Len(z), \A i \in 1 .. Len(w) : z[i] = w[i]
  PROVE  SubSeq(z, e + 1, a) = SubSeq(w, e + 1, a)
<1> DEFINE u == SubSeq(w, e + 1, a)
           v == SubSeq(z, e + 1, a)
<1>1. Len(w) \in Nat /\ Len(z) \in Nat /\ a <= Len(z)
  OBVIOUS
<1>2. u \in Seq(V) /\ Len(u) = a - e /\ \A i \in 1 .. a - e : u[i] = w[e + i]
  BY Cut
<1>3. v \in Seq(V) /\ Len(v) = a - e /\ \A i \in 1 .. a - e : v[i] = z[e + i]
  BY <1>1, Cut
<1>4. \A i \in 1 .. a - e : e + i \in 1 .. Len(w)
  BY <1>1
<1> HIDE DEF u, v
<1>5. \A i \in 1 .. a - e : v[i] = u[i]
  BY <1>2, <1>3, <1>4
<1>6. u = v
  BY <1>2, <1>3, <1>5, SeqEqual
<1> QED
  BY <1>6 DEF u, v
-----------------------------------------------------------------------------
(* Frames on the wire *)

\* Where the parts of an encoded frame are (encodeFrame).
LEMMA EncodeParts ==
  ASSUME NEW f \in Frame
  PROVE  /\ f.type \in Type /\ f.payload \in Payload /\ f.payload \in Seq(Byte)
         /\ Len(f.payload) \in Nat /\ Shifted(Len(f.payload), LenBytes) = 0
         /\ Encode(f) \in Seq(Byte) /\ Len(Encode(f)) = Header + Len(f.payload)
         /\ \A k \in 1 .. LenBytes : Encode(f)[k] = Shifted(Len(f.payload), LenBytes - k) % Base
         /\ Encode(f)[Header] = f.type
         /\ \A k \in 1 .. Len(f.payload) : Encode(f)[Header + k] = f.payload[k]
<1> DEFINE p == f.payload
           t == f.type
           d == BigEndian(Len(p))
           h == d \o <<t>>
           m == Len(p)
           l == LenBytes
<1>1. t \in Type /\ p \in Payload
  BY DEF Frame
<1>2. p \in Seq(Byte) /\ Shifted(Len(p), LenBytes) = 0 /\ t \in Byte
  BY <1>1, FramingAssumption
<1>3. m \in Nat /\ m = Len(p) /\ l \in Nat /\ l > 0 /\ l = LenBytes /\ Header = l + 1
  BY <1>2, BaseFact DEF Header
<1>4. d = [k \in 1 .. l |-> Shifted(m, l - k) % Base]
  BY DEF BigEndian
<1>5. Encode(f) = h \o p
  BY DEF Encode
<1> HIDE DEF m, l
<1>6. ASSUME NEW k \in 1 .. l PROVE Shifted(m, l - k) % Base \in Byte
  <2>1. l - k \in Nat
    BY <1>3
  <2>2. Shifted(m, l - k) \in Nat
    BY <1>3, <2>1, ShiftedSteps
  <2> QED
    BY <2>2, Division
<1> HIDE DEF d
<1>7. d \in Seq(Byte) /\ Len(d) = l /\ \A k \in 1 .. l : d[k] = Shifted(m, l - k) % Base
  <2>1. d \in [1 .. l -> Byte]
    BY <1>4, <1>6
  <2> QED
    BY <1>3, <1>4, <2>1
<1> HIDE DEF t, p
<1>8. /\ h \in Seq(Byte) /\ Len(h) = l + 1 /\ h[l + 1] = t
      /\ \A k \in 1 .. l : h[k] = d[k]
  BY <1>2, <1>3, <1>7
<1> HIDE DEF h
<1>9. /\ h \o p \in Seq(Byte) /\ Len(h \o p) = l + 1 + m
      /\ \A k \in 1 .. l + 1 + m : (h \o p)[k] = IF k <= l + 1 THEN h[k] ELSE p[k - (l + 1)]
  <2>1. Len(h) = l + 1 /\ Len(p) = m
    BY <1>3, <1>8 DEF m
  <2>2. /\ h \o p \in Seq(Byte) /\ Len(h \o p) = Len(h) + Len(p)
        /\ \A k \in 1 .. Len(h) + Len(p) :
             (h \o p)[k] = IF k <= Len(h) THEN h[k] ELSE p[k - Len(h)]
    BY <1>2, <1>8, ConcatProperties
  <2> QED
    BY <2>1, <2>2
<1>10. \A k \in 1 .. l : (h \o p)[k] = Shifted(m, l - k) % Base
  BY <1>3, <1>7, <1>8, <1>9
<1>11. (h \o p)[l + 1] = t
  BY <1>3, <1>8, <1>9
<1>12. \A k \in 1 .. m : (h \o p)[(l + 1) + k] = p[k]
  <2>1. ASSUME NEW k \in 1 .. m PROVE (h \o p)[(l + 1) + k] = p[k]
    <3>1. (l + 1) + k \in 1 .. l + 1 + m /\ ~((l + 1) + k <= l + 1) /\ ((l + 1) + k) - (l + 1) = k
      BY <1>3
    <3>2. (h \o p)[(l + 1) + k] = p[((l + 1) + k) - (l + 1)]
      BY <1>9, <3>1
    <3> QED
      BY <3>1, <3>2
  <2> QED
    BY <2>1
<1> QED
  BY <1>1, <1>2, <1>3, <1>5, <1>9, <1>10, <1>11, <1>12 DEF t, p

\* A buffer that begins with a frame, or with a part of it that has the header.
LEMMA HeaderRead ==
  ASSUME NEW f \in Frame, NEW b \in Seq(Byte), Len(b) >= Header,
         \A i \in 1 .. Len(b) : i <= Len(Encode(f)) => b[i] = Encode(f)[i]
  PROVE  /\ Declared(b) = Len(f.payload)
         /\ TooLarge(b) <=> Len(f.payload) > MaxFrame
         /\ Complete(b) <=> Len(b) >= Len(Encode(f))
         /\ Complete(b) => First(b) = f
<1>1. Header = LenBytes + 1 /\ Header \in Nat /\ LenBytes \in Nat /\ Len(b) \in Nat
  BY BaseFact DEF Header
<1>2. /\ Len(f.payload) \in Nat /\ Shifted(Len(f.payload), LenBytes) = 0
      /\ Len(Encode(f)) = Header + Len(f.payload) /\ f.payload \in Seq(Byte)
  BY EncodeParts
<1>3. ASSUME NEW k \in 1 .. LenBytes PROVE b[k] = Shifted(Len(f.payload), LenBytes - k) % Base
  <2> DEFINE e == Len(Encode(f))
             m == Len(f.payload)
             n == Len(b)
             h == Header
  <2>1. e = h + m /\ m \in Nat /\ n \in Nat /\ h = LenBytes + 1 /\ LenBytes \in Nat
    BY <1>1, <1>2
  <2>2. n >= h
    OBVIOUS
  <2> HIDE DEF e, m, n, h
  <2>3. k \in 1 .. n /\ k <= e
    BY <2>1, <2>2
  <2>4. b[k] = Encode(f)[k]
    BY <2>3 DEF e, n
  <2> QED
    BY <2>4, EncodeParts
<1>4. Declared(b) = Len(f.payload)
  BY <1>2, <1>3, DeclaredLength
<1>5. Complete(b) <=> Len(b) >= Len(Encode(f))
  BY <1>1, <1>2, <1>4 DEF Complete
<1>6. ASSUME Complete(b) PROVE First(b) = f
  <2> DEFINE m == Len(f.payload)
             p == SubSeq(b, Header + 1, Header + m)
             n == Len(b)
             l == Header
  <2>0. Len(b) >= Len(Encode(f))
    BY <1>5, <1>6
  <2>1. m \in Nat /\ n \in Nat /\ l \in Nat /\ l > 0 /\ n >= l + m /\ Len(Encode(f)) = l + m
    <3>1. m \in Nat /\ n \in Nat /\ l \in Nat /\ Len(Encode(f)) = l + m
      BY <1>1, <1>2
    <3>2. l = LenBytes + 1 /\ LenBytes \in Nat
      BY <1>1
    <3>3. n >= Len(Encode(f))
      BY <2>0
    <3> HIDE DEF m, n, l
    <3> QED
      BY <3>1, <3>2, <3>3
  <2>2. n = Len(b) /\ l = Header
    OBVIOUS
  <2> HIDE DEF m, n, l
  <2>3. \A i \in 1 .. l + m : b[i] = Encode(f)[i]
    <3>1. \A i \in 1 .. l + m : i \in 1 .. n /\ i <= l + m
      BY <2>1
    <3> QED
      BY <2>1, <2>2, <3>1
  <2>4. p \in Seq(Byte) /\ Len(p) = m /\ \A i \in 1 .. m : p[i] = b[l + i]
    <3>1. SubSeq(b, l + 1, l + m) \in Seq(Byte)
      BY <2>1, <2>2, SubSeqProperties
    <3>2. Len(SubSeq(b, l + 1, l + m)) = m
      BY <2>1, <2>2
    <3>3. \A i \in 1 .. m : SubSeq(b, l + 1, l + m)[i] = b[l + i]
      BY <2>1, <2>2
    <3> QED
      BY <2>2, <3>1, <3>2, <3>3
  <2> HIDE DEF p
  <2>5. \A i \in 1 .. m : p[i] = f.payload[i]
    <3>1. \A i \in 1 .. m : l + i \in 1 .. l + m
      BY <2>1
    <3>2. \A i \in 1 .. m : Encode(f)[l + i] = f.payload[i]
      BY <2>2, EncodeParts DEF m
    <3> QED
      BY <2>3, <2>4, <3>1, <3>2
  <2>6. p = f.payload
    BY <1>2, <2>4, <2>5, SeqEqual DEF m
  <2>7. b[l] = f.type
    <3>1. l \in 1 .. l + m
      BY <2>1
    <3> QED
      BY <2>2, <2>3, <3>1, EncodeParts
  <2>8. First(b) = [type |-> b[l], payload |-> p]
    BY <1>4, <2>2 DEF First, p, m
  <2>9. f = [type |-> f.type, payload |-> f.payload]
    BY DEF Frame
  <2> QED
    BY <2>6, <2>7, <2>8, <2>9
<1>7. TooLarge(b) <=> Len(f.payload) > MaxFrame
  BY <1>4 DEF TooLarge
<1> QED
  BY <1>4, <1>5, <1>6, <1>7

\* Whatever follows a frame, decoding gives the frame and leaves the rest
\* (encodeFrame and FrameReader::next).
THEOREM DecodeEncoded ==
  ASSUME NEW f \in Frame, NEW rest \in Seq(Byte), NEW b, b = Encode(f) \o rest
  PROVE  /\ Complete(b) /\ Declared(b) = Len(f.payload) /\ First(b) = f
         /\ TooLarge(b) <=> Len(f.payload) > MaxFrame
         /\ SubSeq(b, Header + Declared(b) + 1, Len(b)) = rest
<1> DEFINE c == Encode(f)
           m == Len(c)
           l == Len(rest)
<1>1. /\ c \in Seq(Byte) /\ m = Header + Len(f.payload) /\ m \in Nat /\ m = Len(c)
      /\ Len(f.payload) \in Nat /\ Header \in Nat
  <2>1. Header \in Nat
    BY BaseFact DEF Header
  <2>2. c \in Seq(Byte) /\ Len(c) = Header + Len(f.payload) /\ Len(f.payload) \in Nat
    BY EncodeParts
  <2> HIDE DEF c
  <2> QED
    BY <2>1, <2>2
<1>2. l \in Nat /\ l = Len(rest) /\ b = c \o rest
  OBVIOUS
<1> HIDE DEF c, m, l
<1>3. /\ b \in Seq(Byte) /\ Len(b) = m + l
      /\ \A i \in 1 .. m + l : b[i] = IF i <= m THEN c[i] ELSE rest[i - m]
  <2>1. /\ c \o rest \in Seq(Byte) /\ Len(c \o rest) = Len(c) + Len(rest)
        /\ \A i \in 1 .. Len(c) + Len(rest) :
             (c \o rest)[i] = IF i <= Len(c) THEN c[i] ELSE rest[i - Len(c)]
    BY <1>1, ConcatProperties
  <2> QED
    BY <1>1, <1>2, <2>1
<1>4. \A i \in 1 .. Len(b) : i <= Len(c) => b[i] = c[i]
  BY <1>1, <1>3
<1>5. Len(b) >= Header /\ Len(b) >= Len(c)
  BY <1>1, <1>2, <1>3
<1>6. /\ Declared(b) = Len(f.payload) /\ (TooLarge(b) <=> Len(f.payload) > MaxFrame)
      /\ Complete(b) /\ First(b) = f
  BY <1>3, <1>4, <1>5, HeaderRead DEF c
<1>7. SubSeq(b, m + 1, Len(b)) = rest
  <2> DEFINE z == SubSeq(b, m + 1, Len(b))
  <2>1. z \in Seq(Byte) /\ Len(z) = Len(b) - m /\ \A i \in 1 .. Len(b) - m : z[i] = b[m + i]
    <3> DEFINE n == Len(b)
    <3>1. n \in Nat /\ m <= n /\ n <= Len(b) /\ m \in Nat /\ b \in Seq(Byte)
      BY <1>1, <1>2, <1>3
    <3> HIDE DEF n
    <3>2. /\ SubSeq(b, m + 1, n) \in Seq(Byte) /\ Len(SubSeq(b, m + 1, n)) = n - m
          /\ \A i \in 1 .. n - m : SubSeq(b, m + 1, n)[i] = b[m + i]
      BY ONLY <3>1, Cut
    <3> QED
      BY <3>2 DEF n
  <2> HIDE DEF z
  <2>2. Len(b) - m = l
    BY <1>1, <1>2, <1>3
  <2>3. \A i \in 1 .. l : z[i] = rest[i]
    <3>1. ASSUME NEW i \in 1 .. l PROVE z[i] = rest[i]
      <4>1. m + i \in 1 .. m + l /\ ~(m + i <= m) /\ (m + i) - m = i
        BY <1>1, <1>2
      <4>2. b[m + i] = rest[(m + i) - m]
        BY <1>3, <4>1
      <4>3. z[i] = b[m + i]
        BY <2>1, <2>2
      <4> QED
        BY <4>1, <4>2, <4>3
    <3> QED
      BY <3>1
  <2>4. z = rest
    BY <1>2, <2>1, <2>2, <2>3, SeqEqual
  <2> QED
    BY <2>4 DEF z
<1>8. Header + Declared(b) + 1 = m + 1
  BY <1>1, <1>6
<1> QED
  BY <1>6, <1>7, <1>8

WireTo(s, k) == Wire(SubSeq(s, 1, k))

\* The wire grows by one encoded frame at a time.
LEMMA WireSteps ==
  ASSUME NEW s \in Seq(Frame)
  PROVE  /\ WireTo(s, 0) = <<>> /\ WireTo(s, Len(s)) = Wire(s)
         /\ \A k \in 0 .. Len(s) : WireTo(s, k) \in Seq(Byte)
         /\ \A k \in 0 .. Len(s) - 1 : WireTo(s, k + 1) = WireTo(s, k) \o Encode(s[k + 1])
<1> DEFINE n == Len(s)
           q == [j \in 1 .. n |-> Encode(s[j])]
<1>1. n \in Nat /\ n = Len(s) /\ DOMAIN s = 1 .. n /\ \A j \in 1 .. n : s[j] \in Frame
  OBVIOUS
<1> HIDE DEF n
<1>2. \A j \in 1 .. n : Encode(s[j]) \in Seq(Byte)
  BY <1>1, EncodeParts
<1>3. q \in Seq(Seq(Byte)) /\ Len(q) = n /\ \A j \in 1 .. n : q[j] = Encode(s[j])
  <2>1. q \in [1 .. n -> Seq(Byte)]
    BY <1>2
  <2> QED
    BY <1>1, <2>1
<1>4. Wire(s) = FlattenSeq(q)
  BY <1>1 DEF Wire
<1> HIDE DEF q
<1>5. ASSUME NEW k \in 0 .. n PROVE WireTo(s, k) = FlattenSeq(SubSeq(q, 1, k))
  <2> DEFINE p == SubSeq(s, 1, k)
             e == [j \in DOMAIN p |-> Encode(p[j])]
             r == SubSeq(q, 1, k)
  <2>1. p \in Seq(Frame) /\ Len(p) = k /\ DOMAIN p = 1 .. k /\ \A j \in 1 .. k : p[j] = s[j]
    BY <1>1
  <2>2. r \in Seq(Seq(Byte)) /\ Len(r) = k /\ \A j \in 1 .. k : r[j] = q[j]
    BY <1>1, <1>3
  <2>3. k \in Nat /\ \A j \in 1 .. k : j \in 1 .. n
    BY <1>1
  <2>4. WireTo(s, k) = FlattenSeq(e)
    BY DEF WireTo, Wire
  <2> HIDE DEF p
  <2>5. e = [j \in 1 .. k |-> Encode(p[j])]
    BY <2>1
  <2> HIDE DEF e, r
  <2>6. \A j \in 1 .. k : e[j] = r[j]
    BY <1>3, <2>1, <2>2, <2>3, <2>5
  <2>7. e \in Seq(Seq(Byte)) /\ Len(e) = k
    <3>1. \A j \in 1 .. k : Encode(p[j]) \in Seq(Byte)
      BY <1>2, <2>1, <2>3
    <3>2. e \in [1 .. k -> Seq(Byte)]
      BY <2>5, <3>1
    <3> QED
      BY <2>3, <2>5, <3>2
  <2>8. e = r
    BY <2>2, <2>6, <2>7, SeqEqual
  <2> QED
    BY <2>4, <2>8 DEF r
<1>6. /\ FlattenSeq(SubSeq(q, 1, 0)) = <<>>
      /\ \A k \in 0 .. n : FlattenSeq(SubSeq(q, 1, k)) \in Seq(Byte)
      /\ \A k \in 0 .. n - 1 :
           FlattenSeq(SubSeq(q, 1, k + 1)) = FlattenSeq(SubSeq(q, 1, k)) \o q[k + 1]
  BY <1>3, FlattenPrefix
<1>7. 0 \in 0 .. n /\ \A k \in 0 .. n - 1 : k \in 0 .. n /\ k + 1 \in 0 .. n /\ k + 1 \in 1 .. n
  BY <1>1
<1>8. WireTo(s, n) = Wire(s)
  <2>1. SubSeq(s, 1, n) = s
    BY <1>1
  <2> QED
    BY <2>1 DEF WireTo
<1>9. WireTo(s, 0) = <<>>
  BY <1>5, <1>6, <1>7
<1>10. \A k \in 0 .. n : WireTo(s, k) \in Seq(Byte)
  BY <1>5, <1>6
<1>11. ASSUME NEW k \in 0 .. n - 1 PROVE WireTo(s, k + 1) = WireTo(s, k) \o Encode(s[k + 1])
  BY <1>3, <1>5, <1>6, <1>7
<1> QED
  BY <1>1, <1>8, <1>9, <1>10, <1>11

\* What has been written stays where it is, and the frames follow one another.
LEMMA WireGrows ==
  ASSUME NEW s \in Seq(Frame), NEW k \in 0 .. Len(s)
  PROVE  \A j \in k .. Len(s) :
           /\ Len(WireTo(s, k)) <= Len(WireTo(s, j))
           /\ \A i \in 1 .. Len(WireTo(s, k)) : WireTo(s, j)[i] = WireTo(s, k)[i]
<1> DEFINE n == Len(s)
           w(j) == WireTo(s, j)
           l == Len(w(k))
           Same(j) == l <= Len(w(j)) /\ \A i \in 1 .. l : w(j)[i] = w(k)[i]
           T == {j \in Nat : j \in k .. n => Same(j)}
<1>1. n \in Nat /\ n = Len(s) /\ k \in Nat
  OBVIOUS
<1>2. \A j \in 0 .. n : w(j) \in Seq(Byte) /\ Len(w(j)) \in Nat
  BY WireSteps
<1>3. \A j \in 0 .. n - 1 : w(j + 1) = w(j) \o Encode(s[j + 1]) /\ Encode(s[j + 1]) \in Seq(Byte)
  <2>1. \A j \in 0 .. n - 1 : s[j + 1] \in Frame
    BY <1>1
  <2> QED
    BY <2>1, WireSteps, EncodeParts
<1>4. l \in Nat
  BY <1>2
<1> HIDE DEF n, w, l
<1>5. Same(k)
  BY <1>4 DEF l
<1>6. 0 \in T
  BY <1>1, <1>5
<1>7. ASSUME NEW j \in Nat, j \in T PROVE j + 1 \in T
  <2>1. CASE j \in k .. n - 1
    <3>1. j \in 0 .. n /\ j \in 0 .. n - 1 /\ j \in k .. n
      BY <1>1, <2>1
    <3>2. Same(j)
      BY <1>7, <3>1
    <3> DEFINE u == w(j)
               e == Encode(s[j + 1])
               a == Len(u)
    <3>3. u \in Seq(Byte) /\ e \in Seq(Byte) /\ a \in Nat /\ w(j + 1) = u \o e /\ a = Len(u)
      BY <1>2, <1>3, <3>1
    <3>4. l <= a /\ \A i \in 1 .. l : u[i] = w(k)[i]
      BY <3>2
    <3> HIDE DEF u, e, a
    <3>5. /\ Len(u \o e) = a + Len(e) /\ Len(e) \in Nat
          /\ \A i \in 1 .. a : (u \o e)[i] = u[i]
      BY <3>3
    <3>6. l <= Len(u \o e) /\ \A i \in 1 .. l : i \in 1 .. a
      BY <1>4, <3>3, <3>4, <3>5
    <3>7. Same(j + 1)
      BY <3>3, <3>4, <3>5, <3>6
    <3> QED
      BY <3>7
  <2>2. CASE j + 1 = k
    BY <1>5, <2>2
  <2>3. CASE j + 1 \notin k .. n
    BY <2>3
  <2> QED
    BY <1>1, <2>1, <2>2, <2>3
<1> HIDE DEF T
<1>8. Nat \subseteq T
  BY <1>6, <1>7, SetInduction
<1>9. \A j \in k .. n : j \in Nat
  BY <1>1
<1>10. \A j \in k .. n : Same(j)
  BY <1>8, <1>9 DEF T
<1> QED
  BY <1>10 DEF n, w, l
-----------------------------------------------------------------------------
(* Frames handed on *)

Legal == {f \in Frame : Len(f.payload) <= MaxFrame}
LegalTo(s, k) == \A j \in 1 .. k : Len(s[j].payload) <= MaxFrame
HandedTo(s, k) == FlattenSeq([j \in 1 .. k |-> Handed(s[j])])

\* What is handed on grows by a frame or stays, and is legal.
LEMMA HandedSteps ==
  ASSUME NEW s \in Seq(Frame), NEW k \in 0 .. Len(s), LegalTo(s, k)
  PROVE  /\ HandedTo(s, k) \in Seq(Legal)
         /\ HandedTo(s, 0) = <<>>
         /\ k # 0 => HandedTo(s, k) = HandedTo(s, k - 1) \o Handed(s[k])
<1> DEFINE q == [j \in 1 .. k |-> Handed(s[j])]
<1>1. k \in Nat /\ \A j \in 1 .. k : j \in 1 .. Len(s) /\ s[j] \in Frame
  OBVIOUS
<1>2. \A j \in 1 .. k : Handed(s[j]) \in Seq(Legal)
  <2>1. \A j \in 1 .. k : s[j] \in Legal
    BY <1>1 DEF LegalTo, Legal
  <2>2. \A f \in Legal : <<f>> \in Seq(Legal) /\ <<>> \in Seq(Legal)
    OBVIOUS
  <2> QED
    BY <2>1, <2>2 DEF Handed
<1>3. q \in Seq(Seq(Legal)) /\ Len(q) = k /\ \A j \in 1 .. k : q[j] = Handed(s[j])
  <2>1. q \in [1 .. k -> Seq(Legal)]
    BY <1>2
  <2> QED
    BY <1>1, <2>1
<1>4. HandedTo(s, k) = FlattenSeq(q)
  BY DEF HandedTo
<1>5. q = [j \in 1 .. k |-> Handed(s[j])]
  OBVIOUS
<1> HIDE DEF q
<1>6. SubSeq(q, 1, k) = q
  BY <1>1, <1>3
<1>7. \A i \in 0 .. k : FlattenSeq(SubSeq(q, 1, i)) \in Seq(Legal)
  BY <1>3, FlattenPrefix
<1>8. HandedTo(s, k) \in Seq(Legal)
  <2>1. k \in 0 .. k
    BY <1>1
  <2> QED
    BY <1>4, <1>6, <1>7, <2>1
<1>9. HandedTo(s, 0) = <<>>
  <2>1. [j \in 1 .. 0 |-> Handed(s[j])] = <<>>
    OBVIOUS
  <2>2. Len(<<>>) = 0
    OBVIOUS
  <2> QED
    BY <2>1, <2>2 DEF HandedTo, FlattenSeq
<1>10. ASSUME k # 0 PROVE HandedTo(s, k) = HandedTo(s, k - 1) \o Handed(s[k])
  <2> DEFINE i == k - 1
             p == [j \in 1 .. i |-> Handed(s[j])]
  <2>1. i \in Nat /\ i \in 0 .. k - 1 /\ i + 1 = k /\ k \in 1 .. k /\ \A j \in 1 .. i : j \in 1 .. k
    BY <1>1, <1>10
  <2>2. HandedTo(s, i) = FlattenSeq(p)
    BY DEF HandedTo
  <2> HIDE DEF i
  <2>3. p \in [1 .. i -> Seq(Legal)] /\ \A j \in 1 .. i : p[j] = Handed(s[j])
    BY <1>2, <2>1
  <2> HIDE DEF p
  <2>4. p \in Seq(Seq(Legal)) /\ Len(p) = i
    BY <2>1, <2>3
  <2>5. SubSeq(q, 1, i) = p
    <3>1. /\ SubSeq(q, 1, i) \in Seq(Seq(Legal)) /\ Len(SubSeq(q, 1, i)) = i
          /\ \A j \in 1 .. i : SubSeq(q, 1, i)[j] = q[j]
      BY <1>1, <1>3, <2>1
    <3>2. \A j \in 1 .. i : SubSeq(q, 1, i)[j] = p[j]
      BY <1>3, <2>1, <2>3, <3>1
    <3> QED
      BY <2>4, <3>1, <3>2, SeqEqual
  <2>6. FlattenSeq(SubSeq(q, 1, i + 1)) = FlattenSeq(SubSeq(q, 1, i)) \o q[i + 1]
    BY <1>3, <2>1, FlattenPrefix
  <2>7. HandedTo(s, k) = HandedTo(s, i) \o Handed(s[k])
    BY <1>3, <1>4, <1>6, <2>1, <2>2, <2>5, <2>6
  <2> QED
    BY <2>7 DEF i
<1> QED
  BY <1>8, <1>9, <1>10
-----------------------------------------------------------------------------
(* The reader *)

Reader == [buf : Seq(Byte), error : BOOLEAN, got : Seq(Legal)]
StartOf(s, k) == Len(WireTo(s, k))

\* Reader r, which has been given the first a bytes of the frames s, has handed
\* on k of them, and stands before the next.
At(r, s, a, k) ==
  /\ StartOf(s, k) <= a /\ LegalTo(s, k)
  /\ r.got = HandedTo(s, k)
  /\ ~r.error => r.buf = SubSeq(Wire(s), StartOf(s, k) + 1, a)
  /\ r.error => /\ k < Len(s) /\ Len(s[k + 1].payload) > MaxFrame
                /\ StartOf(s, k) + Header <= a

Reached(s, a) == {r \in Reader : \E k \in 0 .. Len(s) : At(r, s, a, k)}

\* It has no frame to give out.
Idle(r) == r.error \/ (~TooLarge(r.buf) /\ ~Complete(r.buf))

\* Where the frames start in the stream.
LEMMA Starts ==
  ASSUME NEW s \in Seq(Frame)
  PROVE  /\ StartOf(s, 0) = 0 /\ StartOf(s, Len(s)) = Len(Wire(s))
         /\ \A k \in 0 .. Len(s) : StartOf(s, k) \in Nat
         /\ \A k \in 0 .. Len(s) : \A j \in k .. Len(s) : StartOf(s, k) <= StartOf(s, j)
         /\ \A k \in 0 .. Len(s) - 1 :
              /\ s[k + 1] \in Frame /\ Len(s[k + 1].payload) \in Nat
              /\ StartOf(s, k + 1) = StartOf(s, k) + Header + Len(s[k + 1].payload)
<1>1. StartOf(s, 0) = 0 /\ StartOf(s, Len(s)) = Len(Wire(s))
  BY WireSteps DEF StartOf
<1>2. \A k \in 0 .. Len(s) : WireTo(s, k) \in Seq(Byte) /\ StartOf(s, k) \in Nat
  BY WireSteps DEF StartOf
<1>3. \A k \in 0 .. Len(s) : \A j \in k .. Len(s) : StartOf(s, k) <= StartOf(s, j)
  BY WireGrows DEF StartOf
<1>4. ASSUME NEW k \in 0 .. Len(s) - 1
      PROVE  /\ s[k + 1] \in Frame /\ Len(s[k + 1].payload) \in Nat
             /\ StartOf(s, k + 1) = StartOf(s, k) + Header + Len(s[k + 1].payload)
  <2> DEFINE f == s[k + 1]
             e == Encode(f)
             w == WireTo(s, k)
             h == Header
  <2>1. f \in Frame /\ k \in 0 .. Len(s)
    OBVIOUS
  <2>2. Len(f.payload) \in Nat /\ e \in Seq(Byte) /\ Len(e) = h + Len(f.payload)
    BY <2>1, EncodeParts
  <2>3. WireTo(s, k + 1) = w \o e /\ w \in Seq(Byte)
    BY <2>1, WireSteps
  <2>4. h \in Nat
    BY BaseFact DEF Header
  <2> HIDE DEF e, w, f, h
  <2>5. Len(w \o e) = Len(w) + Len(e) /\ Len(w) \in Nat
    BY <2>2, <2>3
  <2>6. StartOf(s, k + 1) = Len(w) + h + Len(f.payload)
    <3>1. StartOf(s, k + 1) = Len(w) + Len(e)
      BY <2>3, <2>5 DEF StartOf
    <3> DEFINE x == Len(f.payload)
               y == Len(w)
               z == Len(e)
    <3>2. x \in Nat /\ y \in Nat /\ z = h + x /\ StartOf(s, k + 1) = y + z
      BY <2>2, <2>5, <3>1
    <3> HIDE DEF x, y, z
    <3>3. StartOf(s, k + 1) = y + h + x
      BY ONLY <2>4, <3>2
    <3> QED
      BY <3>3 DEF x, y
  <2> QED
    BY <2>1, <2>2, <2>6 DEF StartOf, f, w, h
<1> QED
  BY <1>1, <1>2, <1>3, <1>4

\* A buffer that holds what has arrived behind k frames reads as frame k + 1.
LEMMA BufferReads ==
  ASSUME NEW s \in Seq(Frame), NEW a \in 0 .. Len(Wire(s)), NEW k \in 0 .. Len(s),
         StartOf(s, k) <= a, NEW b, b = SubSeq(Wire(s), StartOf(s, k) + 1, a)
  PROVE  /\ b \in Seq(Byte) /\ Len(b) = a - StartOf(s, k)
         /\ Len(b) >= Header =>
              /\ k < Len(s)
              /\ TooLarge(b) <=> Len(s[k + 1].payload) > MaxFrame
              /\ Complete(b) <=> StartOf(s, k + 1) <= a
              /\ Complete(b) => First(b) = s[k + 1]
              /\ Declared(b) = Len(s[k + 1].payload)
<1> DEFINE w == Wire(s)
           e == StartOf(s, k)
           n == Len(s)
           f == s[k + 1]
           c == Encode(f)
           h == Header
<1>1. n \in Nat /\ e \in Nat /\ w \in Seq(Byte) /\ w = WireTo(s, n)
  <2>1. n \in 0 .. n
    OBVIOUS
  <2> QED
    BY <2>1, Starts, WireSteps
<1>2. a \in 0 .. Len(w) /\ e <= a /\ b = SubSeq(w, e + 1, a)
  OBVIOUS
<1>3. h \in Nat /\ h > 0
  BY BaseFact DEF Header
<1>8. k \in 0 .. n
  OBVIOUS
<1> HIDE DEF w, e, h, n
<1>4. a \in Nat /\ Len(w) \in Nat
  BY <1>1, <1>2
<1>5. b \in Seq(Byte) /\ Len(b) = a - e /\ \A i \in 1 .. a - e : b[i] = w[e + i]
  <2>1. a <= Len(w) /\ a \in Nat /\ e \in Nat /\ e <= a /\ w \in Seq(Byte)
    BY <1>1, <1>2, <1>4
  <2> QED
    BY ONLY <1>2, <2>1, Cut
<1>6. ASSUME Len(b) >= h PROVE k < n
  <2>1. CASE k = n
    <3>1. e = Len(w)
      BY <2>1, Starts DEF e, w, n
    <3> QED
      BY <1>1, <1>2, <1>3, <1>4, <1>5, <1>6, <3>1
  <2> QED
    BY <2>1, <1>1, <1>8
<1>7. ASSUME Len(b) >= h
      PROVE  /\ TooLarge(b) <=> Len(f.payload) > MaxFrame
             /\ Complete(b) <=> StartOf(s, k + 1) <= a
             /\ Complete(b) => First(b) = f
             /\ Declared(b) = Len(f.payload)
  <2>1. k \in 0 .. n - 1 /\ k + 1 \in 0 .. n /\ k + 1 \in 1 .. n /\ n \in k + 1 .. n
    <3>1. k < n
      BY <1>6, <1>7
    <3> QED
      BY <1>1, <1>8, <3>1
  <2>2. /\ f \in Frame /\ c \in Seq(Byte) /\ Len(c) = h + Len(f.payload)
        /\ Len(f.payload) \in Nat
    <3>1. f \in Frame
      BY <2>1 DEF n
    <3> QED
      BY <3>1, EncodeParts DEF h
  <2>3. StartOf(s, k + 1) = e + Len(c)
    <3>1. StartOf(s, k + 1) = e + h + Len(f.payload)
      BY <2>1, Starts DEF e, h, n
    <3> QED
      <4> DEFINE x == Len(f.payload)
                 y == Len(c)
      <4>1. x \in Nat /\ y = h + x /\ StartOf(s, k + 1) = e + h + x
        BY <2>2, <3>1
      <4> HIDE DEF x, y
      <4>2. StartOf(s, k + 1) = e + y
        BY ONLY <1>1, <1>3, <4>1
      <4> QED
        BY <4>2 DEF y
  <2>4. WireTo(s, k + 1) = WireTo(s, k) \o c /\ WireTo(s, k) \in Seq(Byte)
    BY <2>1, WireSteps DEF n
  <2> DEFINE u == WireTo(s, k)
             z == WireTo(s, k + 1)
             m == Len(c)
  <2>5. Len(u) = e /\ z = u \o c /\ u \in Seq(Byte) /\ m \in Nat /\ m = Len(c)
    BY <2>2, <2>4 DEF StartOf, e
  <2>6. Len(z) = e + m /\ \A i \in 1 .. Len(z) : w[i] = z[i]
    <3>1. Len(z) = e + m
      BY <2>3 DEF StartOf
    <3>2. \A i \in 1 .. Len(z) : WireTo(s, n)[i] = z[i]
      BY <2>1, WireGrows DEF n
    <3> QED
      BY <1>1, <3>1, <3>2
  <2> HIDE DEF c, f, u, z, m
  <2>7. \A i \in 1 .. m : z[e + i] = c[i]
    <3>1. ASSUME NEW i \in 1 .. m PROVE z[e + i] = c[i]
      <4>1. e + i \in 1 .. Len(u) + Len(c) /\ ~(e + i <= Len(u)) /\ (e + i) - Len(u) = i
        BY <1>1, <2>5
      <4>2. \A j \in 1 .. Len(u) + Len(c) :
              (u \o c)[j] = IF j <= Len(u) THEN u[j] ELSE c[j - Len(u)]
        BY <2>2, <2>5, ConcatProperties
      <4>3. (u \o c)[e + i] = c[(e + i) - Len(u)]
        BY <4>1, <4>2
      <4> QED
        BY <2>5, <4>1, <4>3
    <3> QED
      BY <3>1
  <2>8. \A i \in 1 .. Len(b) : i <= Len(c) => b[i] = c[i]
    <3>1. ASSUME NEW i \in 1 .. a - e, i <= m PROVE b[i] = c[i]
      <4>1. i \in 1 .. m /\ e + i \in 1 .. e + m
        BY <1>1, <1>2, <1>4, <2>5, <3>1
      <4>2. b[i] = w[e + i]
        BY <1>5
      <4> QED
        BY <2>6, <2>7, <4>1, <4>2
    <3> QED
      BY <1>5, <2>5, <3>1
  <2>9. /\ Declared(b) = Len(f.payload)
        /\ TooLarge(b) <=> Len(f.payload) > MaxFrame
        /\ Complete(b) <=> Len(b) >= Len(c)
        /\ Complete(b) => First(b) = f
    BY <1>5, <1>7, <2>2, <2>8, HeaderRead DEF c, h
  <2>10. Len(b) >= Len(c) <=> StartOf(s, k + 1) <= a
    BY ONLY <1>1, <1>4, <1>5, <2>3, <2>5
  <2> QED
    BY <2>9, <2>10
<1> QED
  BY <1>5, <1>6, <1>7 DEF e, h, n

\* FrameReader::next in each of its cases.
LEMMA NextCases ==
  ASSUME NEW r \in Reader
  PROVE  /\ Idle(r) => NextFrame(r) = r
         /\ ~r.error /\ TooLarge(r.buf) => NextFrame(r) = [r EXCEPT !.error = TRUE]
         /\ ~r.error /\ ~TooLarge(r.buf) /\ Complete(r.buf) =>
              NextFrame(r) = [r EXCEPT !.buf = SubSeq(r.buf, Header + Declared(r.buf) + 1, Len(r.buf)),
                                       !.got = r.got \o Handed(First(r.buf))]
<1>1. r.error \in BOOLEAN
  BY DEF Reader
<1> QED
  BY <1>1, Zenon DEF NextFrame, Idle

\* One call keeps the reader at some frame of the stream.
LEMMA NextReached ==
  ASSUME NEW s \in Seq(Frame), NEW a \in 0 .. Len(Wire(s)), NEW r \in Reached(s, a)
  PROVE  /\ NextFrame(r) \in Reached(s, a)
         /\ ~Idle(r) => \/ NextFrame(r).error
                        \/ Len(NextFrame(r).buf) < Len(r.buf)
<1>1. r \in Reader /\ r.error \in BOOLEAN /\ r.buf \in Seq(Byte) /\ r.got \in Seq(Legal)
  BY DEF Reached, Reader
<1>2. PICK k \in 0 .. Len(s) : At(r, s, a, k)
  BY DEF Reached
<1> DEFINE b == r.buf
           e == StartOf(s, k)
           f == s[k + 1]
           h == Header
           x == NextFrame(r)
<1>3. e <= a /\ LegalTo(s, k) /\ r.got = HandedTo(s, k)
  BY <1>2 DEF At
<1>4. e \in Nat /\ a \in Nat /\ Len(Wire(s)) \in Nat /\ a <= Len(Wire(s)) /\ k \in Nat
      /\ Len(s) \in Nat /\ Wire(s) \in Seq(Byte)
  <2>1. Wire(s) \in Seq(Byte)
    <3>1. Len(s) \in 0 .. Len(s)
      OBVIOUS
    <3> QED
      BY <3>1, WireSteps
  <2> QED
    BY <2>1, Starts
<1>5. h \in Nat /\ h > 0
  BY BaseFact DEF Header
<1>6. CASE Idle(r)
  BY <1>1, <1>6, NextCases
<1>7. CASE ~r.error /\ TooLarge(b)
  <2>1. x = [r EXCEPT !.error = TRUE]
    BY <1>1, <1>7, NextCases
  <2>2. x.error = TRUE /\ x.got = r.got /\ x \in Reader
    BY <1>1, <2>1 DEF Reader
  <2>3. b = SubSeq(Wire(s), e + 1, a)
    BY <1>2, <1>7 DEF At
  <2>4. Len(b) >= h
    BY <1>7 DEF TooLarge
  <2>5. k < Len(s) /\ (TooLarge(b) <=> Len(f.payload) > MaxFrame) /\ Len(b) = a - e
    BY <1>3, <2>3, <2>4, BufferReads
  <2>6. e + h <= a
    BY <1>4, <1>5, <2>4, <2>5
  <2>7. At(x, s, a, k)
    BY <1>3, <1>7, <2>2, <2>5, <2>6 DEF At
  <2> QED
    BY <2>2, <2>7 DEF Reached
<1>8. CASE ~r.error /\ ~TooLarge(b) /\ Complete(b)
  <2> DEFINE m == Len(f.payload)
  <2>1. b = SubSeq(Wire(s), e + 1, a)
    BY <1>2, <1>8 DEF At
  <2>2. Len(b) >= h
    BY <1>8 DEF Complete
  <2>3. /\ k < Len(s) /\ (TooLarge(b) <=> m > MaxFrame) /\ Len(b) = a - e
        /\ (Complete(b) <=> StartOf(s, k + 1) <= a) /\ (Complete(b) => First(b) = f)
        /\ Declared(b) = m
    BY <1>3, <2>1, <2>2, BufferReads
  <2>4. k \in 0 .. Len(s) - 1 /\ k + 1 \in 0 .. Len(s) /\ (k + 1) - 1 = k /\ k + 1 # 0
    BY <1>4, <2>3
  <2>5. f \in Frame /\ m \in Nat /\ StartOf(s, k + 1) = e + h + m
    BY <2>4, Starts
  <2>6. StartOf(s, k + 1) <= a /\ First(b) = f /\ ~(m > MaxFrame)
    BY <1>8, <2>3
  <2>7. m <= MaxFrame
    BY <2>5, <2>6, BaseFact
  <2>8. x = [r EXCEPT !.buf = SubSeq(b, h + m + 1, Len(b)), !.got = r.got \o Handed(f)]
    BY <1>1, <1>8, <2>3, <2>6, NextCases
  <2> DEFINE c == h + m
             z == SubSeq(b, h + m + 1, Len(b))
             g == r.got \o Handed(f)
  <2>9. c \in Nat /\ c > 0 /\ e + c <= a /\ h + m + 1 = c + 1 /\ StartOf(s, k + 1) = e + c
    <3> DEFINE u == StartOf(s, k + 1)
    <3>1. m \in Nat /\ u = e + h + m /\ u <= a /\ e \in Nat /\ h \in Nat /\ h > 0 /\ a \in Nat
      BY <1>4, <1>5, <2>5, <2>6
    <3> HIDE DEF m, u, e, h
    <3>2. c \in Nat /\ c > 0 /\ e + c <= a /\ h + m + 1 = c + 1 /\ u = e + c
      BY ONLY <3>1
    <3> QED
      BY <3>2 DEF u
  <2>10. z = SubSeq(Wire(s), StartOf(s, k + 1) + 1, a)
    <3>1. SubSeq(SubSeq(Wire(s), e + 1, a), c + 1, a - e) = SubSeq(Wire(s), (e + c) + 1, a)
      <4> DEFINE w == Wire(s)
      <4>1. e \in Nat /\ c \in Nat /\ a \in Nat /\ e + c <= a /\ a <= Len(w) /\ w \in Seq(Byte)
        BY <1>4, <2>9
      <4> HIDE DEF e, c, w
      <4>2. SubSeq(SubSeq(w, e + 1, a), c + 1, a - e) = SubSeq(w, (e + c) + 1, a)
        BY ONLY <4>1, CutTwice
      <4> QED
        BY <4>2 DEF w
    <3>2. z = SubSeq(SubSeq(Wire(s), e + 1, a), c + 1, a - e)
      BY <2>1, <2>3, <2>9
    <3> QED
      BY <2>9, <3>1, <3>2
  <2>11. z \in Seq(Byte) /\ Len(z) = a - (e + c)
    <3> DEFINE d == e + c
    <3>1. d \in Nat /\ d <= a
      BY <1>4, <2>9
    <3>2. SubSeq(Wire(s), d + 1, a) \in Seq(Byte) /\ Len(SubSeq(Wire(s), d + 1, a)) = a - d
      BY <1>4, <3>1, Cut
    <3> QED
      BY <2>9, <2>10, <3>2
  <2>12. LegalTo(s, k + 1)
    <3>1. \A j \in 1 .. k + 1 : j \in 1 .. k \/ j = k + 1
      BY <1>4
    <3> QED
      BY <1>3, <2>7, <3>1 DEF LegalTo
  <2>13. g = HandedTo(s, k + 1) /\ g \in Seq(Legal)
    BY <1>3, <2>4, <2>12, HandedSteps
  <2> HIDE DEF z, g, x
  <2>14. x.buf = z /\ x.got = g /\ x.error = r.error /\ x \in Reader
    <3>1. x = [r EXCEPT !.buf = z, !.got = g]
      BY <2>8 DEF z, g
    <3> QED
      BY <1>1, <2>11, <2>13, <3>1 DEF Reader
  <2>15. At(x, s, a, k + 1)
    BY <1>8, <2>6, <2>10, <2>12, <2>13, <2>14 DEF At
  <2>16. Len(x.buf) < Len(b)
    BY <1>4, <2>3, <2>9, <2>11, <2>14
  <2> QED
    BY <2>4, <2>14, <2>15, <2>16 DEF x, Reached
<1> QED
  BY <1>1, <1>6, <1>7, <1>8 DEF Idle

\* With n calls done, l bytes at first.
Shorter(r, n, l) == Idle(r) \/ Len(r.buf) + n <= l

\* The loop ends: every call of next() that has a frame shortens the buffer.
LEMMA DrainedReached ==
  ASSUME NEW s \in Seq(Frame), NEW a \in 0 .. Len(Wire(s)), NEW r \in Reached(s, a)
  PROVE  Drained(r) \in Reached(s, a) /\ Idle(Drained(r))
<1> DEFINE V == Reached(s, a)
           F == [i \in Nat |-> [v \in V |-> NextFrame(v)]]
           after[n \in Nat] == IF n = 0 THEN r ELSE NextFrame(after[n - 1])
           IsA(g) == g = [n \in Nat |-> IF n = 0 THEN r ELSE NextFrame(g[n - 1])]
           l == Len(r.buf)
<1>1. r \in V /\ \A v \in V : NextFrame(v) \in V
  BY NextReached
<1>2. F \in [Nat -> [V -> V]] /\ \A i \in Nat, v \in V : F[i][v] = NextFrame(v)
  <2> HIDE DEF V
  <2> QED
    BY <1>1
<1>3. \A v \in V : v \in Reader /\ v.buf \in Seq(Byte) /\ Len(v.buf) \in Nat
  BY DEF Reached, Reader
<1>4. \A v \in V : ~Idle(v) => NextFrame(v).error \/ Len(NextFrame(v).buf) < Len(v.buf)
  BY NextReached
<1> HIDE DEF V, F
<1>5. PICK f \in [Nat -> V] : AllSteps(f, r, F)
  BY <1>1, <1>2, Unbounded
<1>6. f[0] = r /\ \A n \in Nat : n # 0 => f[n - 1] \in V /\ f[n] = NextFrame(f[n - 1])
  BY <1>2, <1>5 DEF AllSteps
<1>7. IsA(f)
  BY <1>6
<1>8. after = CHOOSE g : IsA(g)
  BY Zenon
<1>9. IsA(after)
  BY <1>7, <1>8, Zenon
<1>10. Drained(r) = after[l]
  BY Zenon DEF Drained
<1> HIDE DEF after
<1>11. after[0] = r /\ \A n \in Nat : after[n + 1] = NextFrame(after[n])
  BY <1>9
<1>12. l \in Nat
  BY <1>1, <1>3
<1> HIDE DEF l
<1> DEFINE T == {n \in Nat : after[n] \in V /\ Shorter(after[n], n, l)}
<1>13. 0 \in T
  <2>1. Len(r.buf) + 0 <= l
    BY <1>12 DEF l
  <2>2. Shorter(r, 0, l)
    BY <2>1 DEF Shorter
  <2> QED
    BY <1>1, <1>11, <2>2
<1>14. ASSUME NEW n \in Nat, n \in T PROVE n + 1 \in T
  <2> DEFINE v == after[n]
             x == after[n + 1]
  <2>1. v \in V /\ x = NextFrame(v) /\ Shorter(v, n, l)
    BY <1>11, <1>14
  <2>2. x \in V
    BY <1>1, <2>1
  <2>3. v \in Reader /\ Len(v.buf) \in Nat /\ Len(x.buf) \in Nat
    BY <1>3, <2>1, <2>2
  <2> HIDE DEF v, x
  <2>4. Idle(v) => Idle(x)
    BY <2>1, <2>3, NextCases
  <2>5. x.error => Idle(x)
    BY DEF Idle
  <2>6. ASSUME ~Idle(v), ~x.error PROVE Len(x.buf) + (n + 1) <= l
    <3>1. Len(x.buf) < Len(v.buf)
      BY <1>4, <2>1, <2>6
    <3>2. Len(v.buf) + n <= l
      BY <2>1, <2>6 DEF Shorter
    <3> DEFINE p == Len(x.buf)
               q == Len(v.buf)
    <3>3. p \in Nat /\ q \in Nat /\ p < q /\ q + n <= l
      BY <2>3, <3>1, <3>2
    <3> HIDE DEF p, q
    <3>4. p + (n + 1) <= l
      BY ONLY <1>12, <3>3, n \in Nat
    <3> QED
      BY <3>4 DEF p
  <2>7. Shorter(x, n + 1, l)
    BY <2>4, <2>5, <2>6 DEF Shorter
  <2> QED
    BY <2>2, <2>7 DEF x
<1> HIDE DEF T
<1>15. Nat \subseteq T
  BY <1>13, <1>14, SetInduction
<1>16. after[l] \in V /\ (Idle(after[l]) \/ Len(after[l].buf) + l <= l)
  BY <1>12, <1>15 DEF T, Shorter
<1>17. CASE Len(after[l].buf) + l <= l
  <2>1. Len(after[l].buf) = 0
    <3>1. Len(after[l].buf) \in Nat
      BY <1>3, <1>16
    <3> QED
      BY <1>12, <1>17, <3>1
  <2>2. Header > 0 /\ Header \in Nat
    BY BaseFact DEF Header
  <2>3. ~(Len(after[l].buf) >= Header)
    BY <2>1, <2>2
  <2> QED
    BY <1>10, <1>16, <2>3 DEF Idle, TooLarge, Complete, V
<1> QED
  BY <1>10, <1>16, <1>17 DEF V
-----------------------------------------------------------------------------
(* The steps *)

\* Frames written later do not move the reader.
LEMMA ReachedWrite ==
  ASSUME NEW s \in Seq(Frame), NEW t \in Seq(Frame), NEW a \in 0 .. Len(Wire(s)),
         NEW r \in Reached(s, a)
  PROVE  a \in 0 .. Len(Wire(s \o t)) /\ r \in Reached(s \o t, a)
<1> DEFINE u == s \o t
           n == Len(s)
<1>1. u \in Seq(Frame) /\ n \in Nat /\ Len(u) \in Nat /\ n <= Len(u) /\ \A j \in 1 .. n : u[j] = s[j]
  OBVIOUS
<1>2. n = Len(s)
  OBVIOUS
<1> HIDE DEF u, n
<1>3. ASSUME NEW k \in 0 .. n PROVE WireTo(u, k) = WireTo(s, k)
  <2> DEFINE v == SubSeq(u, 1, k)
             w == SubSeq(s, 1, k)
  <2>1. k \in Nat /\ k <= n /\ k <= Len(u) /\ \A j \in 1 .. k : j \in 1 .. n
    BY <1>1
  <2>2. v \in Seq(Frame) /\ Len(v) = k /\ \A j \in 1 .. k : v[j] = u[j]
    BY <1>1, <2>1
  <2>3. w \in Seq(Frame) /\ Len(w) = k /\ \A j \in 1 .. k : w[j] = s[j]
    BY <1>2, <2>1
  <2> HIDE DEF v, w
  <2>4. v = w
    BY <1>1, <2>1, <2>2, <2>3, SeqEqual
  <2> QED
    BY <2>4 DEF WireTo, v, w
<1>4. n \in 0 .. n /\ n \in 0 .. Len(u) /\ Len(u) \in n .. Len(u)
      /\ \A k \in 0 .. n : k \in 0 .. Len(u)
  BY <1>1
<1>5. Wire(s) = WireTo(u, n) /\ Wire(u) = WireTo(u, Len(u)) /\ Wire(s) \in Seq(Byte) /\ Wire(u) \in Seq(Byte)
  <2>1. Wire(s) = WireTo(s, n) /\ Wire(u) = WireTo(u, Len(u))
    BY <1>1, <1>2, WireSteps
  <2>2. WireTo(s, n) \in Seq(Byte)
    BY <1>2, <1>4, WireSteps
  <2>3. WireTo(u, Len(u)) \in Seq(Byte)
    <3>1. Len(u) \in 0 .. Len(u)
      BY <1>1
    <3> QED
      BY <1>1, <3>1, WireSteps
  <2> QED
    BY <1>3, <1>4, <2>1, <2>2, <2>3
<1>6. Len(Wire(s)) <= Len(Wire(u)) /\ \A i \in 1 .. Len(Wire(s)) : Wire(u)[i] = Wire(s)[i]
  BY <1>1, <1>4, <1>5, WireGrows
<1>7. a \in Nat /\ a <= Len(Wire(s)) /\ a <= Len(Wire(u)) /\ a \in 0 .. Len(Wire(u))
  BY <1>5, <1>6
<1>8. PICK k \in 0 .. n : At(r, s, a, k)
  BY <1>2 DEF Reached
<1>9. StartOf(u, k) = StartOf(s, k) /\ StartOf(s, k) \in Nat /\ StartOf(s, k) <= a
  BY <1>2, <1>3, <1>8, Starts DEF StartOf, At
<1>10. k \in Nat /\ k <= n /\ \A j \in 1 .. k : j \in 1 .. n
  BY <1>1
<1>11. LegalTo(u, k) /\ HandedTo(u, k) = HandedTo(s, k)
  <2>1. LegalTo(s, k) /\ \A j \in 1 .. k : u[j] = s[j]
    BY <1>1, <1>8, <1>10 DEF At
  <2>2. [j \in 1 .. k |-> Handed(u[j])] = [j \in 1 .. k |-> Handed(s[j])]
    BY <2>1
  <2> QED
    BY <2>1, <2>2 DEF LegalTo, HandedTo
<1>12. SubSeq(Wire(u), StartOf(s, k) + 1, a) = SubSeq(Wire(s), StartOf(s, k) + 1, a)
  BY <1>5, <1>6, <1>7, <1>9, SameCut
<1>13. k < n => k < Len(u) /\ u[k + 1] = s[k + 1]
  BY <1>1, <1>10
<1>14. At(r, u, a, k)
  BY <1>2, <1>8, <1>9, <1>11, <1>12, <1>13 DEF At
<1> QED
  BY <1>4, <1>7, <1>14 DEF Reached, u

\* More bytes do not move it either; they are appended (FrameReader::append).
LEMMA ReachedBytes ==
  ASSUME NEW s \in Seq(Frame), NEW a \in 0 .. Len(Wire(s)), NEW b \in 0 .. Len(Wire(s)), a <= b,
         NEW r \in Reached(s, a)
  PROVE  /\ r.error => r \in Reached(s, b)
         /\ ~r.error => [buf |-> r.buf \o SubSeq(Wire(s), a + 1, b), error |-> FALSE, got |-> r.got]
                          \in Reached(s, b)
<1> DEFINE w == Wire(s)
<1>1. PICK k \in 0 .. Len(s) : At(r, s, a, k)
  BY DEF Reached
<1> DEFINE e == StartOf(s, k)
<1>2. e \in Nat /\ e <= a /\ w \in Seq(Byte)
  <2>1. Len(s) \in 0 .. Len(s)
    OBVIOUS
  <2> QED
    BY <1>1, <2>1, Starts, WireSteps DEF At
<1>3. a \in Nat /\ b \in Nat /\ a <= b /\ b <= Len(w) /\ e <= b /\ Header \in Nat /\ a <= Len(w)
  BY <1>2, BaseFact DEF Header
<1>4. r \in Reader /\ r.got \in Seq(Legal) /\ r.error \in BOOLEAN
  BY DEF Reached, Reader
<1>5. ASSUME r.error PROVE r \in Reached(s, b)
  <2>1. e + Header <= a
    BY <1>1, <1>5 DEF At
  <2>2. e + Header <= b
    BY <1>2, <1>3, <2>1
  <2>3. At(r, s, b, k)
    BY <1>1, <1>3, <1>5, <2>2 DEF At
  <2> QED
    BY <1>4, <2>3 DEF Reached
<1>6. ASSUME ~r.error
      PROVE  [buf |-> r.buf \o SubSeq(w, a + 1, b), error |-> FALSE, got |-> r.got] \in Reached(s, b)
  <2> DEFINE x == [buf |-> r.buf \o SubSeq(w, a + 1, b), error |-> FALSE, got |-> r.got]
  <2>1. r.buf = SubSeq(w, e + 1, a)
    BY <1>1, <1>6 DEF At
  <2>2. /\ SubSeq(w, e + 1, a) \o SubSeq(w, a + 1, b) = SubSeq(w, e + 1, b)
        /\ SubSeq(w, e + 1, b) \in Seq(Byte)
    <3> HIDE DEF w, e
    <3> QED
      BY <1>2, <1>3, Joined, Cut
  <2>3. x.buf = SubSeq(w, e + 1, b) /\ x.error = FALSE /\ x.got = r.got /\ x \in Reader
    BY <1>4, <2>1, <2>2 DEF Reader
  <2> HIDE DEF x
  <2>4. At(x, s, b, k)
    BY <1>1, <1>3, <2>3 DEF At
  <2>5. x \in Reached(s, b)
    BY <2>3, <2>4 DEF Reached
  <2> QED
    BY <2>5 DEF x
<1> QED
  BY <1>5, <1>6
-----------------------------------------------------------------------------
(* The invariant *)

ReaderNow == [buf |-> buf, error |-> error, got |-> got]

\* The reader has handed on the frames before some point of the stream and holds
\* exactly what has arrived behind it, and that is no frame yet; or it has failed
\* at that point, where the header of a frame that is too large has arrived.
FramingInv ==
  /\ sent \in Seq(Frame) /\ Len(sent) <= MaxSent
  /\ arrived \in 0 .. Len(Stream)
  /\ ReaderNow \in Reached(sent, arrived)
  /\ Idle(ReaderNow)

\* Nothing is written and nothing read at first.
LEMMA FramingInit == Init => FramingInv
<1> SUFFICES ASSUME Init PROVE FramingInv
  OBVIOUS
<1> DEFINE s == <<>>
           r == ReaderNow
<1>1. sent = s /\ arrived = 0 /\ buf = <<>> /\ error = FALSE /\ got = <<>>
  BY DEF Init
<1>2. s \in Seq(Frame) /\ Len(s) = 0
  OBVIOUS
<1>3. Wire(s) \in Seq(Byte) /\ Wire(s) = <<>> /\ WireTo(s, 0) = <<>> /\ StartOf(s, 0) = 0
  <2>1. 0 \in 0 .. 0
    OBVIOUS
  <2> HIDE DEF s
  <2> QED
    BY <1>2, <2>1, WireSteps, Starts
<1>4. r.buf = <<>> /\ r.error = FALSE /\ r.got = <<>> /\ r \in Reader
  <2>1. r = [buf |-> <<>>, error |-> FALSE, got |-> <<>>]
    BY <1>1 DEF ReaderNow
  <2>2. <<>> \in Seq(Byte) /\ <<>> \in Seq(Legal)
    OBVIOUS
  <2> HIDE DEF r
  <2> QED
    BY <2>1, <2>2 DEF Reader
<1> HIDE DEF s, r
<1>5. LegalTo(s, 0)
  BY DEF LegalTo
<1>6. HandedTo(s, 0) = <<>>
  <2>1. 0 \in 0 .. Len(s)
    BY <1>2
  <2> QED
    BY <1>2, <1>5, <2>1, HandedSteps
<1>7. SubSeq(<<>>, 0 + 1, 0) = <<>>
  OBVIOUS
<1>8. At(r, s, 0, 0)
  BY <1>3, <1>4, <1>5, <1>6, <1>7 DEF At
<1>9. r \in Reached(s, 0)
  <2>1. 0 \in 0 .. Len(s)
    BY <1>2
  <2> QED
    BY <1>4, <1>8, <2>1 DEF Reached
<1>10. Idle(r)
  <2>1. Len(<<>>) = 0 /\ Header \in Nat /\ Header > 0
    BY BaseFact DEF Header
  <2>2. ~(Len(r.buf) >= Header)
    BY <1>4, <2>1
  <2> QED
    BY <2>2 DEF Idle, TooLarge, Complete
<1>11. 0 \in 0 .. Len(Wire(s)) /\ Len(s) <= MaxSent
  BY <1>2, <1>3, BaseFact
<1> QED
  BY <1>1, <1>2, <1>9, <1>10, <1>11 DEF FramingInv, Stream, r

\* sendJson, sendBinary and sendJsonAndBinary.
LEMMA WriteKeeps ==
  ASSUME FramingInv, NEW t \in Seq(Frame), Write(t)
  PROVE  FramingInv'
<1>1. sent' = sent \o t /\ Len(sent) + Len(t) <= MaxSent
  BY DEF Write
<1>2. arrived' = arrived /\ ReaderNow' = ReaderNow
  BY DEF Write, ReaderNow
<1>3. sent \in Seq(Frame) /\ arrived \in 0 .. Len(Wire(sent)) /\ ReaderNow \in Reached(sent, arrived)
  BY DEF FramingInv, Stream
<1>4. arrived \in 0 .. Len(Wire(sent \o t)) /\ ReaderNow \in Reached(sent \o t, arrived)
  BY <1>3, ReachedWrite
<1>5. sent \o t \in Seq(Frame) /\ Len(sent \o t) <= MaxSent
  BY <1>1, <1>3
<1>6. Idle(ReaderNow)
  BY DEF FramingInv
<1> DEFINE u == sent \o t
           a == arrived
           r == ReaderNow
<1>7. u \in Seq(Frame) /\ Len(u) <= MaxSent /\ a \in 0 .. Len(Wire(u)) /\ r \in Reached(u, a) /\ Idle(r)
  BY <1>4, <1>5, <1>6
<1>8. sent' = u /\ arrived' = a /\ ReaderNow' = r
  BY <1>1, <1>2
<1> HIDE DEF u, a, r
<1> QED
  BY <1>7, <1>8 DEF FramingInv, Stream

\* PeerLink::onReadyRead.
LEMMA ReadKeeps ==
  ASSUME FramingInv, NEW n \in Nat, OnReadyRead(n)
  PROVE  FramingInv'
<1> DEFINE s == sent
           a == arrived
           b == arrived + n
           w == Wire(s)
           r == ReaderNow
           x == [buf |-> buf \o SubSeq(Stream, arrived + 1, arrived + n), error |-> FALSE, got |-> got]
           y == Drained(x)
<1>1. /\ s \in Seq(Frame) /\ Len(s) <= MaxSent /\ a \in 0 .. Len(w) /\ r \in Reached(s, a)
      /\ Idle(r)
  BY DEF FramingInv, Stream
<1>2. sent' = s /\ arrived' = b /\ b <= Len(w)
  BY DEF OnReadyRead, Stream
<1>3. b \in 0 .. Len(w) /\ a <= b
  <2>1. Len(w) \in Nat
    <3>1. w \in Seq(Byte)
      <4>1. Len(s) \in 0 .. Len(s)
        BY <1>1
      <4> QED
        BY <1>1, <4>1, WireSteps
    <3> QED
      BY <3>1
  <2> QED
    BY <1>1, <1>2, <2>1
<1>4. r.buf = buf /\ r.error = error /\ r.got = got /\ error \in BOOLEAN
  <2>1. r.error \in BOOLEAN
    BY <1>1 DEF Reached, Reader
  <2> QED
    BY <2>1 DEF ReaderNow
<1>5. CASE error
  <2>1. ReaderNow' = r
    BY <1>5 DEF OnReadyRead, ReaderNow
  <2>2. r \in Reached(s, b)
    BY <1>1, <1>3, <1>4, <1>5, ReachedBytes
  <2> HIDE DEF s, b, r
  <2> QED
    BY <1>1, <1>2, <1>3, <2>1, <2>2 DEF FramingInv, Stream
<1>6. CASE ~error
  <2>1. x = [buf |-> r.buf \o SubSeq(w, a + 1, b), error |-> FALSE, got |-> r.got]
    BY <1>4 DEF Stream
  <2>2. x \in Reached(s, b)
    BY <1>1, <1>3, <1>4, <1>6, <2>1, ReachedBytes
  <2>3. y \in Reached(s, b) /\ Idle(y)
    BY <1>1, <1>3, <2>2, DrainedReached
  <2>4. buf' = y.buf /\ error' = y.error /\ got' = y.got
    BY <1>6 DEF OnReadyRead
  <2> HIDE DEF s, b, r, x, y
  <2>5. ReaderNow' = y
    <3>1. y = [buf |-> y.buf, error |-> y.error, got |-> y.got]
      BY <2>3 DEF Reached, Reader
    <3> QED
      BY <2>4, <3>1 DEF ReaderNow
  <2> QED
    BY <1>1, <1>2, <1>3, <2>3, <2>5 DEF FramingInv, Stream
<1> QED
  BY <1>4, <1>5, <1>6

\* The invariant is inductive.
LEMMA FramingStep == FramingInv /\ [Next]_vars => FramingInv'
<1> SUFFICES ASSUME FramingInv, [Next]_vars PROVE FramingInv'
  OBVIOUS
<1>1. ASSUME NEW f \in Frame, Write(<<f>>) PROVE FramingInv'
  <2>1. <<f>> \in Seq(Frame)
    OBVIOUS
  <2> QED
    BY <1>1, <2>1, WriteKeeps
<1>2. ASSUME NEW f \in Frame, NEW g \in Frame, Write(<<f, g>>) PROVE FramingInv'
  <2>1. <<f, g>> \in Seq(Frame)
    OBVIOUS
  <2> QED
    BY <1>2, <2>1, WriteKeeps
<1>3. ASSUME NEW n \in 1 .. Len(Stream) - arrived, OnReadyRead(n) PROVE FramingInv'
  <2>1. n \in Nat
    OBVIOUS
  <2> QED
    BY <1>3, <2>1, ReadKeeps
<1>4. CASE UNCHANGED vars
  BY <1>4 DEF vars, FramingInv, ReaderNow, Stream
<1> QED
  BY <1>1, <1>2, <1>3, <1>4 DEF Next

\* The reader of a connection is always at some frame of the stream
\* (FrameReader::append, FrameReader::next and PeerLink::onReadyRead).
THEOREM FramingCorrect == Spec => []FramingInv
<1> QED
  BY FramingInit, FramingStep, PTL DEF Spec

\* [FramingTypeOK] What is handed on are frames of legal length, whatever has
\* arrived (FrameReader::next and PeerLink::onReadyRead).
THEOREM FramingTypeCorrect == Spec => []FramingTypeOK
<1>1. ASSUME FramingInv PROVE FramingTypeOK
  <2>1. ReaderNow \in Reader
    BY <1>1 DEF FramingInv, Reached
  <2>2. ReaderNow.buf = buf /\ ReaderNow.error = error /\ ReaderNow.got = got
    BY DEF ReaderNow
  <2>3. buf \in Seq(Byte) /\ error \in BOOLEAN /\ got \in Seq(Legal)
    BY <2>1, <2>2 DEF Reader
  <2>4. \A k \in DOMAIN got : got[k] \in Legal
    BY <2>3
  <2> QED
    BY <1>1, <2>3, <2>4 DEF FramingInv, FramingTypeOK, Legal
<1> QED
  BY <1>1, FramingCorrect, PTL

\* Where the reader stands, for the properties.
LEMMA Standing ==
  ASSUME FramingInv
  PROVE  \E k \in 0 .. Len(sent) :
           /\ Acceptable(k) /\ End(k) <= arrived /\ got = HandedTo(sent, k)
           /\ ~error => Len(buf) < Header + MaxFrame
           /\ ~error => \A j \in k + 1 .. Len(sent) : ~(Acceptable(j) /\ End(j) <= arrived)
           /\ error => k < Len(sent) /\ ~Acceptable(k + 1) /\ End(k) + Header <= arrived
           /\ ~error /\ k < Len(sent) /\ End(k) + Header <= arrived => Acceptable(k + 1)
<1> DEFINE s == sent
           a == arrived
           r == ReaderNow
           n == Len(s)
<1>1. s \in Seq(Frame) /\ a \in 0 .. Len(Wire(s)) /\ r \in Reached(s, a) /\ Idle(r)
  BY DEF FramingInv, Stream
<1>2. r.buf = buf /\ r.error = error /\ r.got = got
  BY DEF ReaderNow
<1>3. error \in BOOLEAN /\ buf \in Seq(Byte)
  BY <1>1, <1>2 DEF Reached, Reader
<1>4. PICK k \in 0 .. Len(s) : At(r, s, a, k)
  BY <1>1 DEF Reached
<1>5. \A j \in 0 .. Len(s) : End(j) = StartOf(s, j) /\ StartOf(s, j) \in Nat
  BY <1>1, Starts DEF End, StartOf, WireTo
<1>6. \A j : Acceptable(j) <=> LegalTo(s, j)
  BY DEF Acceptable, LegalTo
<1>7. n \in Nat /\ k \in Nat /\ a \in Nat /\ Header \in Nat /\ MaxFrame \in Nat /\ n = Len(s) /\ k <= n
  <2>1. Len(Wire(s)) \in Nat
    <3>1. Len(s) \in 0 .. Len(s)
      BY <1>1
    <3>2. Wire(s) \in Seq(Byte)
      BY <1>1, <3>1, WireSteps
    <3> QED
      BY <3>2
  <2> QED
    BY <1>1, <2>1, BaseFact DEF Header
<1>8. StartOf(s, k) <= a /\ LegalTo(s, k) /\ got = HandedTo(s, k)
  BY <1>2, <1>4 DEF At
<1> HIDE DEF s, a, r, n
<1>9. ASSUME error PROVE k < n /\ ~LegalTo(s, k + 1) /\ StartOf(s, k) + Header <= a
  <2>1. k < n /\ Len(s[k + 1].payload) > MaxFrame /\ StartOf(s, k) + Header <= a
    BY <1>2, <1>4, <1>7, <1>9 DEF At
  <2>2. k + 1 \in 1 .. k + 1 /\ k \in 0 .. n - 1
    BY <1>7, <2>1
  <2>3. Len(s[k + 1].payload) \in Nat
    BY <1>1, <1>7, <2>2, Starts
  <2>4. ~(Len(s[k + 1].payload) <= MaxFrame)
    BY <1>7, <2>1, <2>3
  <2> QED
    BY <2>1, <2>2, <2>4 DEF LegalTo
<1>10. ASSUME ~error
       PROVE  /\ Len(buf) < Header + MaxFrame
              /\ \A j \in k + 1 .. n : ~(LegalTo(s, j) /\ StartOf(s, j) <= a)
              /\ k < n /\ StartOf(s, k) + Header <= a => LegalTo(s, k + 1)
  <2>1. buf = SubSeq(Wire(s), StartOf(s, k) + 1, a)
    BY <1>2, <1>4, <1>10 DEF At
  <2>2. ~TooLarge(buf) /\ ~Complete(buf)
    BY <1>1, <1>2, <1>10 DEF Idle
  <2>3. /\ buf \in Seq(Byte) /\ Len(buf) = a - StartOf(s, k)
        /\ Len(buf) >= Header =>
             /\ k < n
             /\ TooLarge(buf) <=> Len(s[k + 1].payload) > MaxFrame
             /\ Complete(buf) <=> StartOf(s, k + 1) <= a
    BY <1>1, <1>7, <1>8, <2>1, BufferReads
  <2> DEFINE e == StartOf(s, k)
             d == StartOf(s, k + 1)
             m == Len(s[k + 1].payload)
             l == Len(buf)
             h == Header
  <2>4. e \in Nat /\ l = a - e /\ e <= a
    BY <1>5, <1>7, <1>8, <2>3
  <2>5. ASSUME k < n PROVE m \in Nat /\ d = e + h + m /\ d \in Nat
    <3>1. k \in 0 .. n - 1 /\ k + 1 \in 0 .. n
      BY <1>7, <2>5
    <3> QED
      BY <1>1, <1>7, <3>1, Starts
  <2>6. l >= h => k < n /\ ~(m > MaxFrame) /\ ~(d <= a)
    BY <2>2, <2>3
  <2> HIDE DEF e, d, m, l, h
  <2>7. h \in Nat /\ MaxFrame \in Nat /\ a \in Nat /\ n \in Nat /\ k \in Nat
    BY <1>7 DEF h
  <2>8. l < h + MaxFrame
    <3>1. MaxFrame + h >= h
      BY <2>7
    <3>2. CASE l >= h
      <4>1. m \in Nat /\ d = e + h + m /\ ~(m > MaxFrame) /\ ~(d <= a)
        BY <2>5, <2>6, <3>2
      <4> QED
        BY ONLY <2>4, <2>7, <4>1
    <3>3. CASE ~(l >= h)
      BY ONLY <2>4, <2>7, <3>3
    <3> QED
      BY <3>2, <3>3
  <2>9. ASSUME NEW j \in k + 1 .. n, StartOf(s, j) <= a PROVE FALSE
    <3>1. k < n /\ k + 1 \in 0 .. n /\ j \in 0 .. n
      BY <2>7
    <3>2. d <= StartOf(s, j)
      BY <1>1, <1>7, <3>1, Starts DEF d
    <3>3. StartOf(s, j) \in Nat
      BY <1>5, <1>7, <3>1
    <3>4. m \in Nat /\ d = e + h + m
      BY <2>5, <3>1
    <3>5. d <= a /\ l >= h
      <4> DEFINE q == StartOf(s, j)
      <4>1. q \in Nat /\ q <= a /\ d <= q
        BY <2>9, <3>2, <3>3
      <4> HIDE DEF q
      <4> QED
        BY ONLY <2>4, <2>7, <3>4, <4>1
    <3> QED
      BY <2>6, <3>5
  <2>10. ASSUME k < n, e + h <= a PROVE LegalTo(s, k + 1)
    <3>1. l >= h
      BY ONLY <2>4, <2>7, <2>10
    <3>2. m \in Nat /\ m <= MaxFrame
      BY <2>5, <2>6, <2>7, <2>10, <3>1
    <3>3. \A j \in 1 .. k + 1 : j \in 1 .. k \/ j = k + 1
      BY <2>7
    <3> QED
      BY <1>8, <3>2, <3>3 DEF LegalTo, m
  <2> QED
    BY <2>8, <2>9, <2>10 DEF e, h, l
<1>11. k \in 0 .. Len(sent) /\ \A j \in k + 1 .. n : j \in 0 .. n
  BY <1>7 DEF s
<1>12. \A j \in 0 .. n : End(j) = StartOf(s, j)
  BY <1>5, <1>7
<1>13. k \in 0 .. n
  BY <1>7
<1>14. ~error => \A j \in k + 1 .. n : ~(Acceptable(j) /\ End(j) <= a)
  BY <1>6, <1>10, <1>11, <1>12
<1>15. error => k < n /\ ~Acceptable(k + 1) /\ End(k) + Header <= a
  BY <1>6, <1>9, <1>12, <1>13
<1>16. ~error /\ k < n /\ End(k) + Header <= a => Acceptable(k + 1)
  BY <1>6, <1>10, <1>12, <1>13
<1>17. Acceptable(k) /\ End(k) <= a
  BY <1>6, <1>8, <1>12, <1>13
<1> QED
  BY <1>7, <1>8, <1>10, <1>11, <1>14, <1>15, <1>16, <1>17 DEF s, a, n

\* [WholeFrames] However the stream is cut up, what has been handed on is at any
\* time what has arrived whole, in order and unchanged, up to the first frame that
\* is too large (the loop of PeerLink::onReadyRead over FrameReader::next).
THEOREM FramesAreWhole == Spec => []WholeFrames
<1>1. ASSUME FramingInv PROVE WholeFrames
  <2>1. PICK k \in 0 .. Len(sent) :
          /\ Acceptable(k) /\ End(k) <= arrived /\ got = HandedTo(sent, k)
          /\ ~error => \A j \in k + 1 .. Len(sent) : ~(Acceptable(j) /\ End(j) <= arrived)
          /\ error => ~Acceptable(k + 1)
    BY <1>1, Standing
  <2> DEFINE whole == {j \in 0 .. Len(sent) : End(j) <= arrived /\ Acceptable(j)}
  <2>2. Len(sent) \in Nat
    BY <1>1 DEF FramingInv
  <2>3. k \in whole /\ whole \subseteq Nat
    BY <2>1, <2>2
  <2>4. ASSUME NEW j \in whole PROVE k >= j
    <3> SUFFICES ASSUME j \in k + 1 .. Len(sent) PROVE FALSE
      BY <2>2
    <3>1. Acceptable(j) /\ End(j) <= arrived
      OBVIOUS
    <3>2. Acceptable(k + 1)
      <4>1. \A i \in 1 .. k + 1 : i \in 1 .. j
        BY <2>2
      <4> QED
        BY <3>1, <4>1 DEF Acceptable
    <3> QED
      BY <2>1, <3>1, <3>2
  <2> HIDE DEF whole
  <2>5. Max(whole) = k
    <3>1. \A x \in whole : (\A y \in whole : x >= y) => x = k
      BY <2>3, <2>4
    <3> QED
      BY <2>3, <2>4, <3>1 DEF Max
  <2>6. got = FlattenSeq([j \in 1 .. Max(whole) |-> Handed(sent[j])])
    BY <2>1, <2>5 DEF HandedTo
  <2> QED
    BY <2>6 DEF WholeFrames, whole
<1> QED
  BY <1>1, FramingCorrect, PTL

\* [FailsOnHeader] The reader fails when the header of a frame that is too large
\* has arrived, and only then (FrameReader::next).
THEOREM FailsWithHeader == Spec => []FailsOnHeader
<1>1. ASSUME FramingInv PROVE FailsOnHeader
  <2>1. PICK k \in 0 .. Len(sent) :
          /\ Acceptable(k)
          /\ ~error => \A j \in k + 1 .. Len(sent) : ~(Acceptable(j) /\ End(j) <= arrived)
          /\ error => k < Len(sent) /\ ~Acceptable(k + 1) /\ End(k) + Header <= arrived
          /\ ~error /\ k < Len(sent) /\ End(k) + Header <= arrived => Acceptable(k + 1)
    BY <1>1, Standing
  <2>2. Len(sent) \in Nat /\ error \in BOOLEAN
    BY <1>1 DEF FramingInv, ReaderNow, Reached, Reader
  <2>3. ASSUME error
        PROVE  \E j \in 1 .. Len(sent) :
                 Acceptable(j - 1) /\ ~Acceptable(j) /\ End(j - 1) + Header <= arrived
    <3>1. k + 1 \in 1 .. Len(sent) /\ (k + 1) - 1 = k
      BY <2>1, <2>2, <2>3
    <3> QED
      BY <2>1, <2>3, <3>1
  <2>4. ASSUME ~error, NEW j \in 1 .. Len(sent),
               Acceptable(j - 1), ~Acceptable(j), End(j - 1) + Header <= arrived
        PROVE  FALSE
    <3>1. CASE j <= k
      <4>1. \A i \in 1 .. j : i \in 1 .. k
        BY <2>2, <3>1
      <4> QED
        BY <2>1, <2>4, <4>1 DEF Acceptable
    <3>2. CASE j = k + 1
      <4>1. k < Len(sent) /\ j - 1 = k
        BY <2>2, <3>2
      <4> QED
        BY <2>1, <2>4, <3>2, <4>1
    <3>3. CASE j > k + 1
      <4>1. j - 1 \in k + 1 .. Len(sent) /\ j - 1 \in 0 .. Len(sent)
        BY <2>2, <3>3
      <4>2. End(j - 1) <= arrived
        <5> DEFINE e == End(j - 1)
        <5>1. e \in Nat
          BY <1>1, <4>1, Starts DEF FramingInv, End, StartOf, WireTo
        <5>2. arrived \in Int
          BY <1>1 DEF FramingInv
        <5>3. Header \in Nat
          BY BaseFact DEF Header
        <5> HIDE DEF e
        <5> QED
          BY <2>4, <5>1, <5>2, <5>3 DEF e
      <4> QED
        BY <2>1, <2>4, <4>1, <4>2
    <3> QED
      BY <2>2, <3>1, <3>2, <3>3
  <2> QED
    BY <2>2, <2>3, <2>4 DEF FailsOnHeader
<1> QED
  BY <1>1, FramingCorrect, PTL

\* [BufferBounded] Between two events the buffer holds less than one frame of the
\* largest size (FrameReader::next, kMaxFrameBytes).
THEOREM BufferIsBounded == Spec => []BufferBounded
<1>1. ASSUME FramingInv PROVE BufferBounded
  BY <1>1, Standing DEF BufferBounded
<1> QED
  BY <1>1, FramingCorrect, PTL
=============================================================================
