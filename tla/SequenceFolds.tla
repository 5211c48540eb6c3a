---------------------------- MODULE SequenceFolds -----------------------------
(***************************************************************************)
(* Facts about FoldLeft over a sequence, for the proofs about checksums,   *)
(* averages and the conversion of packets. FoldLeft is a recursive         *)
(* function over the sets of places, so that what it yields is shown by    *)
(* counting up from the first place: an induction over the numbers, which  *)
(* is carried out on a set, the numbers up to which something is true, and *)
(* rests on every set of numbers having a least element.                   *)
(***************************************************************************)
EXTENDS Integers, SequencesExt, SequenceTheorems, WellFoundedInduction, TLAPS

(* A set that has 0, and with a number the next one, has all numbers: the  *)
(* least one it did not have would come after one it has.                  *)
LEMMA SetInduction ==
  ASSUME NEW S, 0 \in S, \A n \in Nat : n \in S => n + 1 \in S
  PROVE  Nat \subseteq S
<1> SUFFICES ASSUME Nat \ S # {} PROVE FALSE
  OBVIOUS
<1> DEFINE T == Nat \ S
           R == OpToRel(<, Nat)
<1>1. IsWellFoundedOn(R, Nat)
  BY NatLessThanWellFounded
<1>2. PICK x \in T : \A y \in T : ~(<<y, x>> \in R)
  <2> HIDE DEF R
  <2>1. T \subseteq Nat /\ T # {}
    OBVIOUS
  <2> HIDE DEF T
  <2> QED BY <1>1, <2>1, WFMin
<1>0. x \in Nat /\ x \notin S
  OBVIOUS
<1>3. \A y \in Nat : y < x => <<y, x>> \in R
  BY <1>0 DEF OpToRel
<1>4. x # 0 /\ x - 1 \in Nat
  BY <1>0
<1>5. <<x - 1, x>> \in R
  <2> HIDE DEF R, T
  <2> QED BY <1>0, <1>3, <1>4
<1>6. x - 1 \in S
  BY <1>2, <1>4, <1>5
<1>7. x - 1 + 1 = x
  BY <1>0
<1> QED BY <1>0, <1>4, <1>6, <1>7

(* The same for the numbers from 0 to n.                                   *)
LEMMA Counting ==
  ASSUME NEW n \in Nat, NEW S, 0 \in S, \A k \in 0 .. n - 1 : k \in S => k + 1 \in S
  PROVE  0 .. n \subseteq S
<1> DEFINE T == {k \in Nat : k <= n => k \in S}
<1>1. 0 \in T
  OBVIOUS
<1>2. \A k \in Nat : k \in T => k + 1 \in T
  OBVIOUS
<1>3. Nat \subseteq T
  <2> HIDE DEF T
  <2> QED BY <1>1, <1>2, SetInduction
<1> QED BY <1>3

(* The places up to n, taken from their end.                               *)
LEMMA MaxOfInterval ==
  ASSUME NEW n \in Nat \ {0}
  PROVE  Max(1 .. n) = n /\ (1 .. n) \ {Max(1 .. n)} = 1 .. n - 1
<1>1. n \in 1 .. n /\ \A y \in 1 .. n : n >= y
  OBVIOUS
<1>2. \A x \in 1 .. n : (\A y \in 1 .. n : x >= y) => x = n
  OBVIOUS
<1>3. Max(1 .. n) = n
  BY <1>1, <1>2 DEF Max
<1> QED BY <1>3

(* Every set of places that is not empty has a last one.                   *)
LEMMA MaxOfSubset ==
  ASSUME NEW n \in Nat, NEW s \in SUBSET (1 .. n), s # {}
  PROVE  Max(s) \in s /\ \A y \in s : Max(s) >= y
<1> DEFINE Q(k) == \A r \in SUBSET (1 .. k) : r # {} => \E x \in r : \A y \in r : x >= y
           T    == {k \in Nat : Q(k)}
<1>1. 0 \in T
  <2>1. \A r \in SUBSET (1 .. 0) : r = {}
    OBVIOUS
  <2> QED BY <2>1
<1>2. ASSUME NEW k \in Nat, Q(k)
      PROVE  Q(k + 1)
  <2> SUFFICES ASSUME NEW r \in SUBSET (1 .. k + 1), r # {}
               PROVE  \E x \in r : \A y \in r : x >= y
    OBVIOUS
  <2>1. CASE k + 1 \in r
    BY <2>1
  <2>2. CASE k + 1 \notin r
    <3>1. r \in SUBSET (1 .. k)
      BY <2>2
    <3> QED BY <3>1, <1>2
  <2> QED BY <2>1, <2>2
<1>3. n \in T
  <2>1. \A k \in Nat : k \in T => k + 1 \in T
    BY <1>2
  <2> HIDE DEF T
  <2> QED BY <1>1, <2>1, SetInduction
<1>4. \E x \in s : \A y \in s : x >= y
  BY <1>3
<1> QED BY <1>4 DEF Max

(* g is the recursive function of a fold of F over the sequence a.         *)
Folds(g, F, base, a) ==
  g = [s \in SUBSET DOMAIN a |-> IF s = {} THEN base ELSE F[<<g[s \ {Max(s)}], a[Max(s)]>>]]

(* There is such a function, over any sequence, for a function F of what   *)
(* was folded so far and the next element.                                 *)
LEMMA FoldExists ==
  ASSUME NEW n \in Nat, NEW S, NEW T, NEW base \in S, NEW F \in [S \X T -> S],
         NEW a \in [1 .. n -> T]
  PROVE  \E g \in [SUBSET (1 .. n) -> S] : Folds(g, F, base, a)
<1> DEFINE E(s, g) == IF s = {} THEN base ELSE F[<<g[s \ {Max(s)}], a[Max(s)]>>]
           Q(k)    == \E g \in [SUBSET (1 .. k) -> S] : \A s \in SUBSET (1 .. k) : g[s] = E(s, g)
           N       == {k \in 0 .. n : Q(k)}
<1>1. Q(0)
  <2>1. SUBSET (1 .. 0) = {{}}
    OBVIOUS
  <2>2. [s \in {{}} |-> base] \in [SUBSET (1 .. 0) -> S]
    BY <2>1
  <2> QED BY <2>1, <2>2
<1>2. ASSUME NEW k \in 0 .. n - 1, Q(k)
      PROVE  Q(k + 1)
  <2>1. PICK g \in [SUBSET (1 .. k) -> S] : \A s \in SUBSET (1 .. k) : g[s] = E(s, g)
    BY <1>2
  <2> DEFINE h == [s \in SUBSET (1 .. k + 1) |->
                     IF k + 1 \in s THEN F[<<g[s \ {k + 1}], a[k + 1]>>] ELSE g[s]]
  <2>2. ASSUME NEW s \in SUBSET (1 .. k + 1), k + 1 \in s
        PROVE  h[s] = E(s, h) /\ h[s] \in S
    <3>1. s \ {k + 1} \in SUBSET (1 .. k)
      OBVIOUS
    <3>2. Max(s) = k + 1
      <4>1. Max(s) \in s /\ \A y \in s : Max(s) >= y
        <5>1. k + 1 \in Nat /\ s # {}
          BY <2>2
        <5> QED BY <5>1, MaxOfSubset
      <4>2. \A x \in 1 .. k + 1 : x >= k + 1 => x = k + 1
        OBVIOUS
      <4> QED BY <2>2, <4>1, <4>2
    <3>3. h[s] = F[<<g[s \ {k + 1}], a[k + 1]>>]
      BY <2>2
    <3>4. h[s \ {k + 1}] = g[s \ {k + 1}]
      BY <3>1
    <3>5. <<g[s \ {k + 1}], a[k + 1]>> \in S \X T
      BY <3>1
    <3> HIDE DEF h
    <3> QED BY <2>2, <3>2, <3>3, <3>4, <3>5
  <2>3. ASSUME NEW s \in SUBSET (1 .. k + 1), k + 1 \notin s
        PROVE  h[s] = E(s, h) /\ h[s] \in S
    <3>0. \A x \in 1 .. k + 1 : x # k + 1 => x \in 1 .. k
      OBVIOUS
    <3>1. s \in SUBSET (1 .. k) /\ s \ {Max(s)} \in SUBSET (1 .. k)
      BY <2>3, <3>0
    <3>2. h[s] = g[s] /\ h[s \ {Max(s)}] = g[s \ {Max(s)}]
      BY <2>3, <3>1
    <3>3. g[s] = E(s, g)
      BY <2>1, <3>1
    <3> HIDE DEF h
    <3> QED BY <3>1, <3>2, <3>3
  <2>4. h \in [SUBSET (1 .. k + 1) -> S]
    <3>1. \A s \in SUBSET (1 .. k + 1) : h[s] \in S
      BY <2>2, <2>3
    <3>2. h = [s \in SUBSET (1 .. k + 1) |-> h[s]]
      OBVIOUS
    <3> HIDE DEF h
    <3> QED BY <3>1, <3>2
  <2>5. \A s \in SUBSET (1 .. k + 1) : h[s] = E(s, h)
    BY <2>2, <2>3
  <2> HIDE DEF h
  <2> QED BY <2>4, <2>5
<1>3. Q(n)
  <2> HIDE DEF Q
  <2>1. 0 \in N
    BY <1>1
  <2>2. \A k \in 0 .. n - 1 : k \in N => k + 1 \in N
    BY <1>2
  <2>3. N \subseteq 0 .. n /\ (n \in N => Q(n))
    OBVIOUS
  <2> HIDE DEF N
  <2>4. 0 .. n \subseteq N
    BY <2>1, <2>2, Counting
  <2> QED BY <2>3, <2>4
<1>4. PICK g \in [SUBSET (1 .. n) -> S] : \A s \in SUBSET (1 .. n) : g[s] = E(s, g)
  BY <1>3
<1>5. DOMAIN a = 1 .. n
  OBVIOUS
<1>6. g = [s \in SUBSET (1 .. n) |-> E(s, g)]
  <2> HIDE DEF E
  <2> QED BY <1>4
<1> QED BY <1>5, <1>6 DEF Folds

(* t has the sums of the first elements of a, from none to all of them.    *)
Sums(t, a) ==
  /\ t \in [0 .. Len(a) -> Int] /\ t[0] = 0
  /\ \A i \in 1 .. Len(a) : t[i] = t[i - 1] + a[i]

(* The fold that adds the elements of a sequence is its last such sum.     *)
LEMMA SumOfSequence ==
  ASSUME NEW a \in Seq(Int)
  PROVE  \E t : Sums(t, a) /\ FoldLeft(LAMBDA s, v : s + v, 0, a) = t[Len(a)]
<1> DEFINE n == Len(a)
           Add == [p \in Int \X Int |-> p[1] + p[2]]
           Eq(f) == f = [s \in SUBSET (1 .. n) |-> IF s = {} THEN 0 ELSE f[s \ {Max(s)}] + a[Max(s)]]
           f == CHOOSE f : Eq(f)
           t == [i \in 0 .. n |-> f[1 .. i]]
<1>0. n \in Nat /\ a \in [1 .. n -> Int] /\ DOMAIN a = 1 .. n
  OBVIOUS
<1>1. PICK g \in [SUBSET (1 .. n) -> Int] : Folds(g, Add, 0, a)
  <2>1. Add \in [Int \X Int -> Int] /\ 0 \in Int
    OBVIOUS
  <2> HIDE DEF Add, n
  <2> QED BY <1>0, <2>1, FoldExists
<1>2. Eq(g)
  <2> DEFINE E(s) == IF s = {} THEN 0 ELSE g[s \ {Max(s)}] + a[Max(s)]
             G(s) == IF s = {} THEN 0 ELSE Add[<<g[s \ {Max(s)}], a[Max(s)]>>]
  <2>1. ASSUME NEW s \in SUBSET (1 .. n)
        PROVE  G(s) = E(s)
    <3>1. s # {} => a[Max(s)] \in Int
      BY <1>0, MaxOfSubset
    <3>2. g[s \ {Max(s)}] \in Int
      BY <1>1
    <3> QED BY <3>1, <3>2
  <2>2. g = [s \in SUBSET (1 .. n) |-> G(s)]
    BY <1>0, <1>1, Zenon DEF Folds
  <2> HIDE DEF E, G
  <2>3. g = [s \in SUBSET (1 .. n) |-> E(s)]
    BY <2>1, <2>2, Zenon
  <2> QED BY <2>3, Zenon DEF E
<1>3. Eq(f)
  <2> HIDE DEF Eq
  <2> QED BY <1>2, Zenon
<1>4. FoldLeft(LAMBDA s, v : s + v, 0, a) = f[1 .. n]
  BY <1>0, Zenon DEF FoldLeft, MapThenFoldSet
<1>5. f[1 .. 0] = 0 /\ \A i \in 1 .. n : f[1 .. i] = f[1 .. i - 1] + a[i]
  <2>0. 1 .. 0 = {}
    OBVIOUS
  <2>1. ASSUME NEW i \in 1 .. n
        PROVE  1 .. i \in SUBSET (1 .. n) /\ 1 .. i # {} /\ (1 .. i) \ {Max(1 .. i)} = 1 .. i - 1 /\ Max(1 .. i) = i
    BY <1>0, MaxOfInterval
  <2> HIDE DEF f
  <2>2. \A s \in SUBSET (1 .. n) : f[s] = IF s = {} THEN 0 ELSE f[s \ {Max(s)}] + a[Max(s)]
    BY <1>3, Zenon
  <2>3. f[1 .. 0] = 0
    BY <2>0, <2>2
  <2> QED BY <2>1, <2>2, <2>3
<1> HIDE DEF f
<1>6. \A i \in 0 .. n : f[1 .. i] \in Int
  <2> DEFINE N == {i \in 0 .. n : f[1 .. i] \in Int}
  <2>1. 0 \in N
    BY <1>0, <1>5
  <2>2. \A k \in 0 .. n - 1 : k \in N => k + 1 \in N
    <3> SUFFICES ASSUME NEW k \in 0 .. n - 1, k \in N PROVE k + 1 \in N
      OBVIOUS
    <3>1. k + 1 \in 1 .. n /\ k + 1 - 1 = k
      BY <1>0
    <3>2. f[1 .. k + 1] = f[1 .. k] + a[k + 1]
      BY <1>5, <3>1
    <3> QED BY <1>0, <3>1, <3>2
  <2>3. N \subseteq 0 .. n /\ \A i \in N : f[1 .. i] \in Int
    OBVIOUS
  <2> HIDE DEF N
  <2> QED BY <1>0, <2>1, <2>2, <2>3, Counting
<1>7. Sums(t, a)
  BY <1>0, <1>5, <1>6 DEF Sums
<1>8. t[n] = f[1 .. n]
  BY <1>0
<1> QED BY <1>4, <1>7, <1>8

SumOf(a) == FoldLeft(LAMBDA s, v : s + v, 0, a)

(* A sum of integers is one.                                               *)
LEMMA SumTyped ==
  ASSUME NEW a \in Seq(Int)
  PROVE  SumOf(a) \in Int /\ \E t : Sums(t, a) /\ SumOf(a) = t[Len(a)]
<1>1. PICK t : Sums(t, a) /\ SumOf(a) = t[Len(a)]
  BY SumOfSequence DEF SumOf
<1>2. t[Len(a)] \in Int
  BY <1>1 DEF Sums
<1> QED BY <1>1, <1>2

(* As far as two sequences agree, their sums do.                           *)
LEMMA SumsAgree ==
  ASSUME NEW a \in Seq(Int), NEW b \in Seq(Int), NEW t, NEW u, Sums(t, a), Sums(u, b),
         NEW n \in 0 .. Len(a), n <= Len(b), \A i \in 1 .. n : a[i] = b[i]
  PROVE  t[n] = u[n]
<1> DEFINE N == {i \in 0 .. n : t[i] = u[i]}
<1>0. n \in Nat /\ Len(a) \in Nat /\ Len(b) \in Nat
  OBVIOUS
<1>1. 0 \in N
  BY <1>0 DEF Sums
<1>2. ASSUME NEW i \in 0 .. n - 1, t[i] = u[i]
      PROVE  t[i + 1] = u[i + 1]
  <2>1. i + 1 \in 1 .. n /\ i + 1 \in 1 .. Len(a) /\ i + 1 \in 1 .. Len(b) /\ i + 1 - 1 = i
    BY <1>0
  <2>2. t[i + 1] = t[i] + a[i + 1] /\ u[i + 1] = u[i] + b[i + 1]
    BY <2>1 DEF Sums
  <2> QED BY <1>2, <2>1, <2>2
<1>3. \A i \in 0 .. n - 1 : i \in N => i + 1 \in N
  BY <1>2
<1>4. 0 .. n \subseteq N
  <2> HIDE DEF N
  <2> QED BY <1>0, <1>1, <1>3, Counting
<1> QED BY <1>0, <1>4

(* What an element at the end does to the sum.                             *)
LEMMA SumOfAppend ==
  ASSUME NEW a \in Seq(Int), NEW x \in Int
  PROVE  SumOf(Append(a, x)) = SumOf(a) + x
<1> DEFINE b == Append(a, x)
<1>1. b \in Seq(Int) /\ Len(b) = Len(a) + 1 /\ b[Len(b)] = x /\ \A i \in 1 .. Len(a) : b[i] = a[i]
  BY AppendProperties
<1>2. PICK t : Sums(t, a) /\ SumOf(a) = t[Len(a)]
  BY SumTyped
<1> HIDE DEF b
<1>3. PICK u : Sums(u, b) /\ SumOf(b) = u[Len(b)]
  BY <1>1, SumTyped
<1>4. Len(a) \in Nat
  OBVIOUS
<1>5. t[Len(a)] = u[Len(a)]
  <2> DEFINE n == Len(a)
  <2>1. n \in 0 .. Len(a) /\ n <= Len(b) /\ \A i \in 1 .. n : a[i] = b[i]
    BY <1>1, <1>4
  <2> HIDE DEF n
  <2>2. t[n] = u[n]
    BY <1>1, <1>2, <1>3, <2>1, SumsAgree
  <2> QED BY <2>2 DEF n
<1>6. u[Len(b)] = u[Len(a)] + x
  <2>1. Len(b) \in 1 .. Len(b) /\ Len(b) - 1 = Len(a)
    BY <1>1, <1>4
  <2> QED BY <1>1, <1>3, <2>1 DEF Sums
<1> QED BY <1>2, <1>3, <1>5, <1>6 DEF b

(* What a change of one element does to the sum: no more than the change,  *)
(* wherever it is.                                                         *)
LEMMA SumOfChanged ==
  ASSUME NEW a \in Seq(Int), NEW b \in Seq(Int), Len(a) = Len(b),
         NEW j \in 1 .. Len(a), \A i \in 1 .. Len(a) : i # j => a[i] = b[i]
  PROVE  SumOf(b) = SumOf(a) + (b[j] - a[j])
<1> DEFINE n == Len(a)
<1>0. n \in Nat
  OBVIOUS
<1>1. PICK t : Sums(t, a) /\ SumOf(a) = t[Len(a)]
  BY SumTyped
<1>2. PICK u : Sums(u, b) /\ SumOf(b) = u[Len(b)]
  BY SumTyped
<1> DEFINE d == b[j] - a[j]
           N == {i \in 0 .. n : u[i] = IF i < j THEN t[i] ELSE t[i] + d}
<1>3. d \in Int /\ \A i \in 0 .. n : t[i] \in Int /\ u[i] \in Int
  <2>1. a[j] \in Int /\ b[j] \in Int
    OBVIOUS
  <2>2. t \in [0 .. n -> Int] /\ u \in [0 .. n -> Int]
    BY <1>1, <1>2 DEF Sums
  <2>3. d \in Int
    BY <2>1
  <2>4. \A i \in 0 .. n : t[i] \in Int /\ u[i] \in Int
    BY <2>2
  <2> QED BY <2>3, <2>4
<1>4. 0 \in N
  BY <1>0, <1>1, <1>2 DEF Sums
<1>5. ASSUME NEW i \in 0 .. n - 1, i \in N
      PROVE  i + 1 \in N
  <2>1. i + 1 \in 1 .. n /\ i + 1 \in 0 .. n /\ i + 1 - 1 = i
    BY <1>0
  <2>2. t[i + 1] = t[i] + a[i + 1] /\ u[i + 1] = u[i] + b[i + 1]
    BY <1>1, <1>2, <2>1 DEF Sums
  <2>3. a[i + 1] \in Int /\ b[i + 1] \in Int /\ t[i] \in Int
    BY <1>3, <2>1
  <2>4. i \in Nat /\ j \in Nat /\ u[i] = IF i < j THEN t[i] ELSE t[i] + d
    BY <1>0, <1>5
  <2>5. CASE i + 1 = j
    <3>1. d = b[i + 1] - a[i + 1] /\ u[i] = t[i] /\ ~(i + 1 < j)
      BY <2>4, <2>5
    <3>2. u[i + 1] = t[i + 1] + d
      <4> HIDE DEF d
      <4> QED BY <2>2, <2>3, <3>1
    <3> QED BY <2>1, <3>1, <3>2
  <2>6. CASE i + 1 # j
    <3>1. a[i + 1] = b[i + 1] /\ (i < j <=> i + 1 < j)
      BY <1>0, <2>1, <2>4, <2>6
    <3>2. u[i + 1] = IF i + 1 < j THEN t[i + 1] ELSE t[i + 1] + d
      <4> HIDE DEF d
      <4> QED BY <1>3, <2>2, <2>3, <2>4, <3>1
    <3> QED BY <2>1, <3>2
  <2> QED BY <2>5, <2>6
<1>6. 0 .. n \subseteq N
  <2>1. \A i \in 0 .. n - 1 : i \in N => i + 1 \in N
    BY <1>5
  <2> HIDE DEF N, n
  <2> QED BY <1>0, <1>4, <2>1, Counting
<1>7. u[n] = t[n] + d
  <2>1. n \in 0 .. n /\ ~(n < j)
    BY <1>0
  <2>2. n \in N
    BY <1>6, <2>1
  <2> QED BY <2>1, <2>2
<1> QED BY <1>1, <1>2, <1>7

(* The sum is at least what its length and a lower bound of its elements   *)
(* allow,                                                                  *)
LEMMA SumAtLeast ==
  ASSUME NEW a \in Seq(Int), NEW lo \in Int, \A i \in 1 .. Len(a) : lo <= a[i]
  PROVE  Len(a) * lo <= SumOf(a)
<1> DEFINE n == Len(a)
<1>0. n \in Nat
  OBVIOUS
<1>1. PICK t : Sums(t, a) /\ SumOf(a) = t[n]
  BY SumTyped
<1> DEFINE N == {i \in 0 .. n : i * lo <= t[i]}
<1>2. 0 \in N
  BY <1>0, <1>1 DEF Sums
<1>3. ASSUME NEW i \in 0 .. n - 1, i \in N
      PROVE  i + 1 \in N
  <2>1. i + 1 \in 1 .. n /\ i + 1 \in 0 .. n /\ i + 1 - 1 = i /\ i \in 0 .. n
    BY <1>0
  <2>2. t[i + 1] = t[i] + a[i + 1] /\ t[i] \in Int
    BY <1>1, <2>1 DEF Sums
  <2>3. a[i + 1] \in Int /\ lo <= a[i + 1]
    BY <2>1
  <2>4. (i + 1) * lo = i * lo + lo
    BY <2>1
  <2>5. i * lo \in Int
    BY <2>1
  <2>6. i * lo <= t[i]
    BY <1>3
  <2> DEFINE l == i * lo
  <2>7. l + lo <= t[i] + a[i + 1]
    <3> HIDE DEF l
    <3> QED BY <2>2, <2>3, <2>5, <2>6 DEF l
  <2> QED BY <2>1, <2>2, <2>4, <2>7
<1>4. 0 .. n \subseteq N
  <2>1. \A i \in 0 .. n - 1 : i \in N => i + 1 \in N
    BY <1>3
  <2> HIDE DEF N, n
  <2> QED BY <1>0, <1>2, <2>1, Counting
<1>5. n \in N
  BY <1>0, <1>4
<1> QED BY <1>1, <1>5

(* at most what an upper bound allows.                                     *)
LEMMA SumAtMost ==
  ASSUME NEW a \in Seq(Int), NEW hi \in Int, \A i \in 1 .. Len(a) : a[i] <= hi
  PROVE  SumOf(a) <= Len(a) * hi
<1> DEFINE n == Len(a)
<1>0. n \in Nat
  OBVIOUS
<1>1. PICK t : Sums(t, a) /\ SumOf(a) = t[n]
  BY SumTyped
<1> DEFINE N == {i \in 0 .. n : t[i] <= i * hi}
<1>2. 0 \in N
  BY <1>0, <1>1 DEF Sums
<1>3. ASSUME NEW i \in 0 .. n - 1, i \in N
      PROVE  i + 1 \in N
  <2>1. i + 1 \in 1 .. n /\ i + 1 \in 0 .. n /\ i + 1 - 1 = i /\ i \in 0 .. n
    BY <1>0
  <2>2. t[i + 1] = t[i] + a[i + 1] /\ t[i] \in Int
    BY <1>1, <2>1 DEF Sums
  <2>3. a[i + 1] \in Int /\ a[i + 1] <= hi
    BY <2>1
  <2>4. (i + 1) * hi = i * hi + hi
    BY <2>1
  <2>5. i * hi \in Int
    BY <2>1
  <2>6. t[i] <= i * hi
    BY <1>3
  <2> DEFINE l == i * hi
  <2>7. t[i] + a[i + 1] <= l + hi
    <3> HIDE DEF l
    <3> QED BY <2>2, <2>3, <2>5, <2>6 DEF l
  <2> QED BY <2>1, <2>2, <2>4, <2>7
<1>4. 0 .. n \subseteq N
  <2>1. \A i \in 0 .. n - 1 : i \in N => i + 1 \in N
    BY <1>3
  <2> HIDE DEF N, n
  <2> QED BY <1>0, <1>2, <2>1, Counting
<1>5. n \in N
  BY <1>0, <1>4
<1> QED BY <1>1, <1>5

(* What a fold keeps: true of its base and of every step.                  *)
LEMMA FoldKeeps ==
  ASSUME NEW n \in Nat, NEW S, NEW f, f[1 .. 0] \in S,
         \A i \in 1 .. n : f[1 .. i - 1] \in S => f[1 .. i] \in S
  PROVE  \A i \in 0 .. n : f[1 .. i] \in S
<1> DEFINE N == {i \in 0 .. n : f[1 .. i] \in S}
<1>1. 0 \in N
  OBVIOUS
<1>2. ASSUME NEW k \in 0 .. n - 1, k \in N PROVE k + 1 \in N
  <2>1. k + 1 \in 1 .. n /\ k + 1 - 1 = k /\ k + 1 \in 0 .. n
    OBVIOUS
  <2>2. f[1 .. k] \in S
    BY <1>2
  <2>3. f[1 .. k + 1 - 1] \in S => f[1 .. k + 1] \in S
    BY <2>1
  <2> QED BY <2>1, <2>2, <2>3
<1>3. N \subseteq 0 .. n /\ \A i \in N : f[1 .. i] \in S
  OBVIOUS
<1>4. \A k \in 0 .. n - 1 : k \in N => k + 1 \in N
  BY <1>2
<1> HIDE DEF N
<1>5. 0 .. n \subseteq N
  BY <1>1, <1>4, Counting
<1> QED BY <1>3, <1>5

(* The places of a fold, one after the other.                              *)
LEMMA FoldPlaces ==
  ASSUME NEW n \in Nat
  PROVE  /\ 1 .. 0 = {} /\ 1 .. 0 \in SUBSET (1 .. n)
         /\ \A i \in 1 .. n : /\ 1 .. i \in SUBSET (1 .. n) /\ 1 .. i # {}
                             /\ Max(1 .. i) = i /\ (1 .. i) \ {Max(1 .. i)} = 1 .. i - 1
<1>1. ASSUME NEW i \in 1 .. n
      PROVE  /\ 1 .. i \in SUBSET (1 .. n) /\ 1 .. i # {}
             /\ Max(1 .. i) = i /\ (1 .. i) \ {Max(1 .. i)} = 1 .. i - 1
  BY MaxOfInterval
<1>2. 1 .. 0 = {} /\ 1 .. 0 \in SUBSET (1 .. n)
  OBVIOUS
<1> QED BY <1>1, <1>2

(* A sum of natural numbers is one.                                        *)
LEMMA SumNat ==
  ASSUME NEW a \in Seq(Nat)
  PROVE  SumOf(a) \in Nat
<1> DEFINE n == Len(a)
<1>0. n \in Nat /\ a \in Seq(Int)
  OBVIOUS
<1>1. PICK t : Sums(t, a) /\ SumOf(a) = t[n]
  BY <1>0, SumTyped
<1> DEFINE N == {i \in 0 .. n : t[i] \in Nat}
<1>2. 0 \in N
  BY <1>0, <1>1 DEF Sums
<1>3. ASSUME NEW i \in 0 .. n - 1, i \in N
      PROVE  i + 1 \in N
  <2>1. i + 1 \in 1 .. n /\ i + 1 \in 0 .. n /\ i + 1 - 1 = i
    BY <1>0
  <2>2. t[i + 1] = t[i] + a[i + 1]
    BY <1>1, <2>1 DEF Sums
  <2>3. a[i + 1] \in Nat /\ t[i] \in Nat
    BY <1>3, <2>1
  <2> QED BY <2>1, <2>2, <2>3
<1>4. 0 .. n \subseteq N
  <2>1. \A i \in 0 .. n - 1 : i \in N => i + 1 \in N
    BY <1>3
  <2> HIDE DEF N, n
  <2> QED BY <1>0, <1>2, <2>1, Counting
<1>5. n \in N
  BY <1>0, <1>4
<1> QED BY <1>1, <1>5

===============================================================================
