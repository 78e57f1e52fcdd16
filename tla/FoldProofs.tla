------------------------------- MODULE FoldProofs -------------------------------
(***************************************************************************)
(* Lemmas for proofs about data: induction over the natural numbers, what  *)
(* a fold over a sequence computes, one element after the other, powers of *)
(* two and quotients.                                                      *)
(*                                                                         *)
(* They are stated with sets and functions, so that a proof can cite them. *)
(***************************************************************************)
EXTENDS Integers, Sequences, FiniteSets, SequencesExt,
        FiniteSetTheorems, WellFoundedInduction, TLAPS

\* A set of natural numbers that is not empty has a least one: of the initial
\* segments up to its members, one contains no other.
LEMMA LeastNat ==
  ASSUME NEW T, T \subseteq Nat, T # {}
  PROVE  \E m \in T : \A n \in T : m <= n
<1> DEFINE F == {0 .. n : n \in T}
<1>1. F \subseteq FiniteSubsetsOf(Nat) /\ F # {}
  <2> SUFFICES ASSUME NEW n \in T
               PROVE  0 .. n \in SUBSET Nat /\ IsFiniteSet(0 .. n)
    BY DEF FiniteSubsetsOf
  <2>1. n \in Int
    OBVIOUS
  <2> QED
    BY <2>1, FS_Interval
<1>2. PICK X \in F : \A Y \in F : ~(<<Y, X>> \in StrictSubsetOrdering(Nat))
  <2>1. IsWellFoundedOn(StrictSubsetOrdering(Nat), FiniteSubsetsOf(Nat))
    BY FS_StrictSubsetOrderingWellFounded
  <2> HIDE DEF F
  <2> QED
    BY <1>1, <2>1, WFMin
<1>3. PICK m \in T : X = 0 .. m
  OBVIOUS
<1>4. ASSUME NEW n \in T, n < m
      PROVE  FALSE
  <2>1. 0 .. n \subseteq 0 .. m /\ 0 .. n \in SUBSET Nat /\ 0 .. m \in SUBSET Nat
    BY <1>4
  <2>2. m \in 0 .. m /\ m \notin 0 .. n
    BY <1>4
  <2>3. <<0 .. n, 0 .. m>> \in StrictSubsetOrdering(Nat)
    BY <2>1, <2>2 DEF StrictSubsetOrdering
  <2> QED
    BY <1>2, <1>3, <2>3
<1> QED
  BY <1>4

\* Induction: a set with zero, and the successor of each of its natural numbers,
\* has all of them.
LEMMA NatSetInduction ==
  ASSUME NEW S, 0 \in S, \A n \in Nat : n \in S => n + 1 \in S
  PROVE  Nat \subseteq S
<1> SUFFICES ASSUME Nat \ S # {}
             PROVE  FALSE
  OBVIOUS
<1>1. PICK m \in Nat \ S : \A n \in Nat \ S : m <= n
  BY LeastNat
<1>2. m # 0 /\ m - 1 \in Nat
  OBVIOUS
<1>3. m - 1 \in S
  BY <1>1, <1>2
<1> QED
  BY <1>2, <1>3

\* Induction up to a bound.
LEMMA UpTo ==
  ASSUME NEW n \in Nat, NEW S, 0 \in S, \A k \in 1 .. n : k - 1 \in S => k \in S
  PROVE  \A k \in 0 .. n : k \in S
<1> DEFINE T == {k \in Nat : k <= n => k \in S}
<1>1. 0 \in T
  OBVIOUS
<1>2. ASSUME NEW k \in Nat, k \in T
      PROVE  k + 1 \in T
  <2> SUFFICES ASSUME k + 1 <= n
               PROVE  k + 1 \in S
    OBVIOUS
  <2>1. k \in S /\ k + 1 \in 1 .. n /\ (k + 1) - 1 = k
    BY <1>2
  <2> QED
    BY <2>1
<1> HIDE DEF T
<1>3. Nat \subseteq T
  BY <1>1, <1>2, NatSetInduction
<1> QED
  BY <1>3 DEF T

\* The elements of a sequence.
LEMMA ElementOf ==
  ASSUME NEW S, NEW s \in Seq(S), NEW k \in 1 .. Len(s)
  PROVE  s[k] \in S
OBVIOUS

\* The largest of the first k numbers.
LEMMA MaxOfFirst ==
  ASSUME NEW k \in Nat, NEW s \in SUBSET (1 .. k + 1), k + 1 \in s
  PROVE  Max(s) = k + 1 /\ s \ {Max(s)} \in SUBSET (1 .. k)
<1>1. k + 1 \in s /\ \A y \in s : k + 1 >= y
  OBVIOUS
<1>2. \A x \in s : (\A y \in s : x >= y) => x = k + 1
  OBVIOUS
<1>3. Max(s) = k + 1
  BY <1>1, <1>2 DEF Max
<1> QED
  BY <1>3

\* A set of some of the first n numbers has a largest one.
LEMMA MaxOfSome ==
  ASSUME NEW n \in Nat, NEW s \in SUBSET (1 .. n), s # {}
  PROVE  Max(s) \in s /\ \A y \in s : Max(s) >= y
<1> DEFINE T == {n - y : y \in s}
<1>1. T \subseteq Nat /\ T # {}
  <2>1. \A y \in s : n - y \in Nat
    OBVIOUS
  <2> QED
    BY <2>1
<1>2. PICK t \in T : \A u \in T : t <= u
  <2> HIDE DEF T
  <2> QED
    BY <1>1, LeastNat
<1>3. PICK x \in s : t = n - x
  BY <1>2
<1>4. \A y \in s : x >= y
  <2> SUFFICES ASSUME NEW y \in s
               PROVE  x >= y
    OBVIOUS
  <2>1. n - y \in T
    OBVIOUS
  <2>2. n - x <= n - y
    BY <1>2, <1>3, <2>1
  <2> QED
    BY <2>2
<1> QED
  BY <1>4 DEF Max

\* A fold over n elements, for every set of their indices: it takes the one with
\* the largest index last, with the step g.
IsFold(it, A, base, n, g) ==
  /\ it \in [SUBSET (1 .. n) -> A]
  /\ \A s \in SUBSET (1 .. n) :
       it[s] = IF s = {} THEN base ELSE g[it[s \ {Max(s)}], Max(s)]

\* There is such a function: one more element adds the sets with its index to
\* those without it.
LEMMA FoldExists ==
  ASSUME NEW A, NEW base \in A, NEW n \in Nat, NEW g \in [A \X (1 .. n) -> A]
  PROVE  \E it : IsFold(it, A, base, n, g)
<1> DEFINE Folds(m) ==
             {it \in [SUBSET (1 .. m) -> A] :
                \A s \in SUBSET (1 .. m) :
                  it[s] = IF s = {} THEN base ELSE g[it[s \ {Max(s)}], Max(s)]}
           S == {m \in Nat : m <= n => Folds(m) # {}}
<1>1. 0 \in S
  <2> DEFINE it == [s \in SUBSET (1 .. 0) |-> base]
  <2>1. \A s \in SUBSET (1 .. 0) : s = {}
    OBVIOUS
  <2>2. it \in [SUBSET (1 .. 0) -> A]
    OBVIOUS
  <2>3. \A s \in SUBSET (1 .. 0) : it[s] = IF s = {} THEN base ELSE g[it[s \ {Max(s)}], Max(s)]
    BY <2>1
  <2>4. it \in Folds(0)
    <3> HIDE DEF it
    <3> QED
      BY <2>2, <2>3
  <2> HIDE DEF Folds
  <2> QED
    BY <2>4
<1>2. ASSUME NEW m \in Nat, m \in S, m + 1 <= n
      PROVE  m + 1 \in S
  <2>1. PICK it \in [SUBSET (1 .. m) -> A] :
          \A s \in SUBSET (1 .. m) :
            it[s] = IF s = {} THEN base ELSE g[it[s \ {Max(s)}], Max(s)]
    <3> HIDE DEF Folds
    <3>1. Folds(m) # {}
      BY <1>2
    <3>2. PICK it \in Folds(m) : TRUE
      BY <3>1
    <3> QED
      BY <3>2, Zenon DEF Folds
  <2> DEFINE more == [s \in SUBSET (1 .. m + 1) |->
                        IF m + 1 \in s THEN g[it[s \ {m + 1}], m + 1] ELSE it[s]]
  <2>2. ASSUME NEW s \in SUBSET (1 .. m + 1)
        PROVE  /\ more[s] \in A
               /\ more[s] = IF s = {} THEN base ELSE g[more[s \ {Max(s)}], Max(s)]
    <3>1. CASE m + 1 \in s
      <4>1. Max(s) = m + 1 /\ s \ {m + 1} \in SUBSET (1 .. m)
        BY <3>1, MaxOfFirst
      <4>2. m + 1 \notin s \ {m + 1} /\ s \ {m + 1} \in SUBSET (1 .. m + 1)
        OBVIOUS
      <4>3. more[s \ {m + 1}] = it[s \ {m + 1}] /\ more[s] = g[it[s \ {m + 1}], m + 1]
        BY <3>1, <4>2
      <4>4. it[s \ {m + 1}] \in A /\ m + 1 \in 1 .. n
        <5> HIDE DEF Folds, S, more
        <5>1. it[s \ {m + 1}] \in A
          BY <4>1
        <5> QED
          BY <1>2, <5>1
      <4>5. g[it[s \ {m + 1}], m + 1] \in A
        BY <4>4
      <4> HIDE DEF more
      <4> QED
        BY <3>1, <4>1, <4>3, <4>5
    <3>2. CASE m + 1 \notin s
      <4>1. s \in SUBSET (1 .. m) /\ more[s] = it[s]
        BY <3>2
      <4>2. CASE s = {}
        BY <4>1, <4>2, <2>1
      <4>3. CASE s # {}
        <5>1. it[s] = g[it[s \ {Max(s)}], Max(s)] /\ it[s] \in A
          BY <2>1, <4>1, <4>3
        <5>2. /\ s \ {Max(s)} \in SUBSET (1 .. m + 1) /\ m + 1 \notin s \ {Max(s)}
          BY <3>2
        <5>3. more[s \ {Max(s)}] = it[s \ {Max(s)}]
          BY <5>2
        <5> HIDE DEF more
        <5> QED
          BY <4>1, <4>3, <5>1, <5>3
      <4> QED
        BY <4>2, <4>3
    <3> QED
      BY <3>1, <3>2
  <2>3. more \in [SUBSET (1 .. m + 1) -> A]
    BY <2>2
  <2>4. more \in Folds(m + 1)
    <3> HIDE DEF more
    <3> QED
      BY <2>2, <2>3
  <2> HIDE DEF Folds, more
  <2> QED
    BY <2>4
<1>3. \A m \in Nat : m \in S => m + 1 \in S
  <2> HIDE DEF Folds
  <2> SUFFICES ASSUME NEW m \in Nat, m \in S, ~(m + 1 <= n)
               PROVE  m + 1 \in S
    BY <1>2
  <2> QED
    OBVIOUS
<1>4. n \in S
  <2> HIDE DEF S
  <2> QED
    BY <1>1, <1>3, NatSetInduction
<1>5. PICK it \in Folds(n) : TRUE
  <2> HIDE DEF Folds
  <2> QED
    BY <1>4
<1> QED
  BY <1>5, Zenon DEF IsFold

\* The same as an equation, with what comes of a set that is not empty.
FoldsUp(it, A, base, n, g) ==
  /\ it = [s \in SUBSET (1 .. n) |-> IF s = {} THEN base ELSE g[it[s \ {Max(s)}], Max(s)]]
  /\ \A s \in SUBSET (1 .. n) : s # {} => Max(s) \in 1 .. n /\ it[s \ {Max(s)}] \in A

\* There is such a function, too.
LEMMA FoldFor ==
  ASSUME NEW A, NEW base \in A, NEW n \in Nat, NEW g \in [A \X (1 .. n) -> A]
  PROVE  \E it : FoldsUp(it, A, base, n, g)
<1>1. PICK it : IsFold(it, A, base, n, g)
  BY FoldExists
<1>2. it \in [SUBSET (1 .. n) -> A]
  BY <1>1 DEF IsFold
<1>3. it = [s \in SUBSET (1 .. n) |-> IF s = {} THEN base ELSE g[it[s \ {Max(s)}], Max(s)]]
  BY <1>1, <1>2, Zenon DEF IsFold
<1>4. ASSUME NEW s \in SUBSET (1 .. n), s # {}
      PROVE  Max(s) \in 1 .. n /\ it[s \ {Max(s)}] \in A
  <2>1. Max(s) \in s
    BY <1>4, MaxOfSome
  <2>2. s \ {Max(s)} \in SUBSET (1 .. n)
    OBVIOUS
  <2> QED
    BY <1>2, <2>1, <2>2
<1> QED
  BY <1>3, <1>4 DEF FoldsUp

\* The first k of n numbers, the largest of them, and the others.
LEMMA FirstOnes ==
  ASSUME NEW n \in Nat, NEW k \in 1 .. n
  PROVE  /\ 1 .. k \in SUBSET (1 .. n) /\ 1 .. k # {}
         /\ Max(1 .. k) = k /\ (1 .. k) \ {k} = 1 .. k - 1
<1> DEFINE m == k - 1
<1>1. m \in Nat /\ m + 1 = k /\ m + 1 \in 1 .. m + 1
  OBVIOUS
<1> HIDE DEF m
<1>2. Max(1 .. m + 1) = m + 1
  BY <1>1, MaxOfFirst
<1>3. k \in 1 .. k /\ 1 .. k \in SUBSET (1 .. n) /\ (1 .. k) \ {k} = 1 .. k - 1
  OBVIOUS
<1> QED
  BY <1>1, <1>2, <1>3

-----------------------------------------------------------------------------
(* Powers of two, quotients and bits *)

\* The next power of two is twice as large: half of the subsets of n + 1 numbers
\* have the last one.
LEMMA PowerOfTwo ==
  ASSUME NEW n \in Nat
  PROVE  2 ^ n \in Nat /\ 2 ^ n > 0 /\ 2 ^ (n + 1) = 2 ^ n + 2 ^ n
<1> DEFINE S == SUBSET (1 .. n)
           T == {s \cup {n + 1} : s \in S}
<1>1. /\ IsFiniteSet(1 .. n) /\ Cardinality(1 .. n) = n
      /\ IsFiniteSet(1 .. n + 1) /\ Cardinality(1 .. n + 1) = n + 1
  BY FS_Interval
<1>2. /\ IsFiniteSet(S) /\ Cardinality(S) = 2 ^ n
      /\ Cardinality(SUBSET (1 .. n + 1)) = 2 ^ (n + 1)
  <2> HIDE DEF T
  <2> QED
    BY <1>1, FS_SUBSET
<1>3. IsFiniteSet(T) /\ Cardinality(T) = 2 ^ n
  <2> DEFINE f == [s \in S |-> s \cup {n + 1}]
  <2>1. \A s \in S : n + 1 \notin s
    OBVIOUS
  <2>2. f \in [S -> T] /\ \A t \in T : \E s \in S : f[s] = t
    OBVIOUS
  <2>3. \A s, t \in S : f[s] = f[t] => s = t
    <3> SUFFICES ASSUME NEW s \in S, NEW t \in S, s \cup {n + 1} = t \cup {n + 1}
                 PROVE  s = t
      OBVIOUS
    <3>1. s = (s \cup {n + 1}) \ {n + 1} /\ t = (t \cup {n + 1}) \ {n + 1}
      BY <2>1
    <3> HIDE DEF S, T, f
    <3> QED
      BY <3>1, Zenon
  <2>4. f \in Bijection(S, T)
    <3> HIDE DEF S, T, f
    <3> QED
      BY <2>2, <2>3 DEF Bijection, Injection, Surjection, IsInjective
  <2>5. ExistsBijection(S, T)
    BY <2>4 DEF ExistsBijection
  <2> HIDE DEF S, T, f
  <2> QED
    BY <1>2, <2>5, FS_Bijection
<1>4. SUBSET (1 .. n + 1) = S \cup T /\ S \cap T = {}
  <2>0. (1 .. n + 1) \ {n + 1} = 1 .. n /\ n + 1 \in 1 .. n + 1 /\ n + 1 \notin 1 .. n
    OBVIOUS
  <2>1. ASSUME NEW s \in SUBSET (1 .. n + 1)
        PROVE  s \in S \cup T
    <3>1. CASE n + 1 \in s
      <4>1. s \ {n + 1} \in S
        BY <2>0
      <4>2. s = (s \ {n + 1}) \cup {n + 1}
        BY <3>1
      <4> QED
        BY <4>1, <4>2
    <3>2. CASE n + 1 \notin s
      BY <3>2
    <3> QED
      BY <3>1, <3>2
  <2>2. S \subseteq SUBSET (1 .. n + 1) /\ T \subseteq SUBSET (1 .. n + 1)
    BY <2>0, Zenon
  <2>3. S \cap T = {}
    BY <2>0
  <2> QED
    BY <2>1, <2>2, <2>3
<1>5. Cardinality(S) \in Nat /\ Cardinality({}) = 0
  <2> HIDE DEF S, T
  <2> QED
    BY <1>2, FS_CardinalityType, FS_EmptySet
<1>6. Cardinality(S \cup T) = Cardinality(S) + Cardinality(T)
  <2> HIDE DEF S, T
  <2>1. Cardinality(S \cup T) = Cardinality(S) + Cardinality(T) - 0
    BY <1>2, <1>3, <1>4, <1>5, FS_Union
  <2> QED
    BY <1>2, <1>3, <1>5, <2>1
<1>7. Cardinality(S) # 0
  <2>1. {} \in S
    OBVIOUS
  <2> HIDE DEF S, T
  <2> QED
    BY <1>2, <2>1, FS_EmptySet
<1> HIDE DEF S, T
<1>8. Cardinality(SUBSET (1 .. n + 1)) = Cardinality(S \cup T)
  BY <1>4
<1> QED
  BY <1>2, <1>3, <1>5, <1>6, <1>7, <1>8

\* A quotient and a remainder, and there are no others.
LEMMA Division ==
  ASSUME NEW a \in Int, NEW d \in Nat, d > 0
  PROVE  /\ a \div d \in Int /\ a % d \in 0 .. d - 1 /\ a = (d * (a \div d)) + (a % d)
         /\ \A q, r \in Int : 0 <= r /\ r < d /\ a = d * q + r => q = a \div d /\ r = a % d
<1>1. a \div d \in Int /\ a % d \in 0 .. d - 1 /\ a = (d * (a \div d)) + (a % d)
  OBVIOUS
<1>2. ASSUME NEW q \in Int, NEW r \in Int, NEW s \in Int, NEW t \in Int,
             0 <= r, r < d, 0 <= t, t < d, d * q + r = d * s + t
      PROVE  q = s /\ r = t
  <2>1. d * (q - s) = t - r
    BY <1>2
  <2>2. ~(q - s >= 1)
    <3> SUFFICES ASSUME q - s >= 1
                 PROVE  FALSE
      OBVIOUS
    <3>1. d * (q - s) >= d * 1
      OBVIOUS
    <3> QED
      BY <1>2, <2>1, <3>1
  <2>3. ~(s - q >= 1)
    <3> SUFFICES ASSUME s - q >= 1
                 PROVE  FALSE
      OBVIOUS
    <3>1. d * (s - q) >= d * 1
      OBVIOUS
    <3>2. d * (s - q) = r - t
      BY <1>2
    <3> QED
      BY <1>2, <3>1, <3>2
  <2>4. q = s
    BY <2>2, <2>3
  <2> QED
    BY <1>2, <2>4
<1> QED
  BY <1>1, <1>2

\* Adding the same to two numbers below d leaves them apart, modulo d.
LEMMA AddedApart ==
  ASSUME NEW d \in Nat, d > 0, NEW a \in 0 .. d - 1, NEW b \in 0 .. d - 1, NEW c \in Int,
         (a + c) % d = (b + c) % d
  PROVE  a = b
<1> DEFINE q == (a + c) \div d
           s == (b + c) \div d
<1>1. q \in Int /\ s \in Int /\ (a + c) = d * q + ((a + c) % d) /\ (b + c) = d * s + ((b + c) % d)
  BY Division
<1>2. (a + c) % d \in Int
  BY Division
<1> HIDE DEF q, s
<1>3. a - b = d * (q - s)
  BY <1>1, <1>2
<1>4. ~(q - s >= 1)
  <2> SUFFICES ASSUME q - s >= 1
               PROVE  FALSE
    OBVIOUS
  <2>1. d * (q - s) >= d * 1
    BY <1>1
  <2> QED
    BY <1>3, <2>1
<1>5. ~(s - q >= 1)
  <2> SUFFICES ASSUME s - q >= 1
               PROVE  FALSE
    OBVIOUS
  <2>1. d * (s - q) >= d * 1
    BY <1>1
  <2>2. b - a = d * (s - q)
    BY <1>1, <1>3
  <2> QED
    BY <2>1, <2>2
<1>6. q = s
  BY <1>1, <1>4, <1>5
<1> QED
  BY <1>1, <1>3, <1>6

\* Dividing twice.
LEMMA DivideTwice ==
  ASSUME NEW a \in Int, NEW d \in Nat, d > 0
  PROVE  (a \div d) \div 2 = a \div (d + d)
<1> DEFINE q == a \div d
           r == a % d
<1>1. q \in Int /\ r \in 0 .. d - 1 /\ a = d * q + r
  BY Division
<1> HIDE DEF q, r
<1>2. q \div 2 \in Int /\ q % 2 \in 0 .. 1 /\ q = (2 * (q \div 2)) + (q % 2)
  BY <1>1, Division
<1>3. PICK s \in Int, t \in 0 .. 1 : s = q \div 2 /\ q = 2 * s + t
  BY <1>2
<1>4. a = (d + d) * s + (d * t + r)
  <2>1. d * q = (d + d) * s + d * t
    BY <1>3
  <2> QED
    BY <1>1, <1>3, <2>1
<1>5. 0 <= d * t + r /\ d * t + r < d + d /\ d * t + r \in Int
  <2>1. d * t = 0 \/ d * t = d
    BY <1>3
  <2> QED
    BY <1>1, <2>1
<1>6. s = a \div (d + d)
  <2>1. d + d \in Nat /\ d + d > 0
    OBVIOUS
  <2> HIDE DEF q
  <2> QED
    BY <1>3, <1>4, <1>5, <2>1, Division
<1> QED
  BY <1>3, <1>6 DEF q

\* The same multiples are of the same number.
LEMMA SameFactor ==
  ASSUME NEW d \in Nat, d > 0, NEW a \in Int, NEW b \in Int, a * d = b * d
  PROVE  a = b
<1>1. d * a + 0 = d * b + 0
  OBVIOUS
<1> QED
  BY <1>1

\* A sequence with one element changed.
LEMMA OneChanged ==
  ASSUME NEW s \in Seq(Int), NEW p \in 1 .. Len(s), NEW v \in Int
  PROVE  LET t == [s EXCEPT ![p] = v]
         IN /\ t \in Seq(Int) /\ Len(t) = Len(s) /\ t[p] = v
            /\ \A j \in 1 .. Len(s) : j # p => t[j] = s[j]
OBVIOUS

================================================================================
