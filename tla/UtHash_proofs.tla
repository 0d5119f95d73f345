--------------------------- MODULE UtHash_proofs ---------------------------
(***************************************************************************)
(* Proofs about p2/C/uthash.h for any items, keys and hash values, any     *)
(* number of initial buckets, any threshold and any number of expansions.  *)
(***************************************************************************)
EXTENDS UtHash, FiniteSetTheorems, SequenceTheorems, WellFoundedInduction, TLAPS

(***************************************************************************)
(* Numbers.                                                                *)
(***************************************************************************)
LEMMA LeastOne ==
    ASSUME NEW T \in SUBSET Nat, T # {}
    PROVE  \E n \in T : \A m \in T : n <= m
<1>1. PICK n \in T : \A m \in T : ~(<<m, n>> \in OpToRel(<, Nat))
  BY NatLessThanWellFounded, WFMin
<1>2. ASSUME NEW m \in T PROVE n <= m
  <2>1. n \in Nat /\ m \in Nat
    OBVIOUS
  <2>2. ~(m < n)
    BY <1>1, <2>1 DEF OpToRel
  <2> QED
    BY <2>1, <2>2
<1> QED
  BY <1>2

LEMMA Induction ==
    ASSUME NEW P \in SUBSET Nat, 0 \in P, \A n \in P : n + 1 \in P
    PROVE  P = Nat
<1> SUFFICES ASSUME Nat \ P # {} PROVE FALSE
  OBVIOUS
<1>1. PICK n \in Nat \ P : \A m \in Nat \ P : n <= m
  BY LeastOne
<1>2. n # 0 /\ n - 1 \in Nat /\ ~(n <= n - 1) /\ (n - 1) + 1 = n
  OBVIOUS
<1>3. n - 1 \in P
  BY <1>1, <1>2
<1> QED
  BY <1>1, <1>2, <1>3

(* Quotient and remainder are the only ones.                               *)
LEMMA Division ==
    ASSUME NEW d \in Nat, d > 0, NEW q \in Nat, NEW r \in 0 .. d - 1
    PROVE  (d * q + r) % d = r
<1> DEFINE a == d * q + r
           q1 == a \div d
           r1 == a % d
<1>1. a \in Nat /\ q1 \in Nat /\ r1 \in 0 .. d - 1 /\ a = d * q1 + r1
  OBVIOUS
<1>2. d * q + r = d * q1 + r1
  BY <1>1
<1> HIDE DEF a, q1, r1
<1>3. q = q1
  <2>1. CASE q < q1
    <3>1. q + 1 <= q1
      BY <1>1, <2>1
    <3>2. d * (q + 1) <= d * q1
      BY <1>1, <3>1
    <3>3. d * (q + 1) = d * q + d
      OBVIOUS
    <3> QED
      BY <1>1, <1>2, <3>2, <3>3
  <2>2. CASE q1 < q
    <3>1. q1 + 1 <= q
      BY <1>1, <2>2
    <3>2. d * (q1 + 1) <= d * q
      BY <1>1, <3>1
    <3>3. d * (q1 + 1) = d * q1 + d
      BY <1>1
    <3> QED
      BY <1>1, <1>2, <3>2, <3>3
  <2> QED
    BY <1>1, <2>1, <2>2
<1>4. r = r1
  BY <1>1, <1>2, <1>3
<1> QED
  BY <1>4 DEF r1, a

(* The bucket in the doubled table decides the one in the old table.       *)
LEMMA OldBucket ==
    ASSUME NEW h \in Nat, NEW d \in Nat, d > 0
    PROVE  (h % (2 * d)) % d = h % d
<1> DEFINE q == h \div (2 * d)
           s == h % (2 * d)
           p == s \div d
           r == s % d
<1>1. q \in Nat /\ s \in Nat /\ h = (2 * d) * q + s
  OBVIOUS
<1> HIDE DEF q, s
<1>2. p \in Nat /\ r \in 0 .. d - 1 /\ s = d * p + r
  BY <1>1
<1> HIDE DEF p, r
<1>3. h = d * (2 * q + p) + r /\ 2 * q + p \in Nat
  BY <1>1, <1>2
<1>4. h % d = r
  <2> DEFINE k == 2 * q + p
  <2>1. k \in Nat /\ h = d * k + r
    BY <1>3
  <2> HIDE DEF k
  <2> QED
    BY <1>2, <2>1, Division
<1> QED
  BY <1>4 DEF r, s

(* PowerOfTwo is what its recursion says.                                  *)
LEMMA PowerOfTwoDoubles ==
    /\ PowerOfTwo[0] = 1
    /\ \A n \in Nat : PowerOfTwo[n + 1] = 2 * PowerOfTwo[n]
    /\ \A n \in Nat : PowerOfTwo[n] \in Nat \ {0}
<1> DEFINE IsPower(w, m) == w = [n \in 0 .. m |-> IF n = 0 THEN 1 ELSE 2 * w[n - 1]]
           P == {m \in Nat : \E w : IsPower(w, m)}
<1>1. 0 \in P
  <2> DEFINE w == [n \in 0 .. 0 |-> 1]
  <2>1. \A n \in 0 .. 0 : n = 0
    OBVIOUS
  <2>2. w = [n \in 0 .. 0 |-> IF n = 0 THEN 1 ELSE 2 * w[n - 1]]
    BY <2>1, Zenon
  <2> HIDE DEF w
  <2> QED
    BY <2>2
<1>2. ASSUME NEW m \in P PROVE m + 1 \in P
  <2>1. PICK w : w = [n \in 0 .. m |-> IF n = 0 THEN 1 ELSE 2 * w[n - 1]]
    OBVIOUS
  <2> DEFINE v == [n \in 0 .. m + 1 |-> IF n = m + 1 THEN 2 * w[m] ELSE w[n]]
  <2>2. ASSUME NEW n \in 0 .. m + 1
        PROVE  v[n] = IF n = 0 THEN 1 ELSE 2 * v[n - 1]
    <3>0. m \in Nat
      OBVIOUS
    <3>1. CASE n = m + 1
      <4>1. n # 0 /\ n - 1 = m /\ m \in 0 .. m + 1 /\ m # m + 1
        BY <3>0, <3>1
      <4>2. v[n] = 2 * w[m] /\ v[m] = w[m]
        BY <3>1, <4>1
      <4> QED
        BY <4>1, <4>2, Zenon
    <3>2. CASE n # m + 1
      <4>1. n \in 0 .. m /\ (n # 0 => n - 1 \in 0 .. m + 1 /\ n - 1 # m + 1)
        BY <3>0, <3>2
      <4>2. v[n] = w[n] /\ (n # 0 => v[n - 1] = w[n - 1])
        BY <3>2, <4>1
      <4>3. w[n] = IF n = 0 THEN 1 ELSE 2 * w[n - 1]
        BY <2>1, <4>1, Zenon
      <4> QED
        BY <4>2, <4>3, Zenon
    <3> QED
      BY <3>1, <3>2
  <2>3. v = [n \in 0 .. m + 1 |-> v[n]]
    OBVIOUS
  <2> HIDE DEF v
  <2>4. IsPower(v, m + 1)
    BY <2>2, <2>3, Zenon
  <2> HIDE DEF IsPower
  <2> QED
    BY <2>4
<1>3. P = Nat
  <2> HIDE DEF P
  <2>1. P \in SUBSET Nat
    BY DEF P
  <2> QED
    BY <1>1, <1>2, <2>1, Induction
<1> DEFINE upto == [m \in Nat |-> CHOOSE w : IsPower(w, m)]
           power == [m \in Nat |-> upto[m][m]]
<1>4. ASSUME NEW m \in Nat
      PROVE  upto[m] = [n \in 0 .. m |-> IF n = 0 THEN 1 ELSE 2 * upto[m][n - 1]]
  <2> HIDE DEF IsPower
  <2>1. \E w : IsPower(w, m)
    BY <1>3
  <2>2. IsPower(upto[m], m)
    BY <2>1
  <2> HIDE DEF upto
  <2> QED
    BY <2>2 DEF IsPower
<1> HIDE DEF upto
<1>5. ASSUME NEW m \in Nat
      PROVE  \A n \in 0 .. m : upto[m + 1][n] = upto[m][n]
  <2> DEFINE Q == {n \in Nat : n <= m => upto[m + 1][n] = upto[m][n]}
  <2>1. ASSUME NEW k \in Nat, NEW n \in 0 .. k
        PROVE  upto[k][n] = IF n = 0 THEN 1 ELSE 2 * upto[k][n - 1]
    BY <1>4, Zenon
  <2>2. 0 \in Q
    BY <2>1
  <2>3. ASSUME NEW n \in Q PROVE n + 1 \in Q
    <3> SUFFICES ASSUME n + 1 <= m PROVE upto[m + 1][n + 1] = upto[m][n + 1]
      OBVIOUS
    <3>1. n + 1 \in 0 .. m /\ n + 1 \in 0 .. m + 1 /\ n + 1 # 0 /\ (n + 1) - 1 = n
          /\ m + 1 \in Nat
      OBVIOUS
    <3>2. upto[m + 1][n + 1] = 2 * upto[m + 1][n] /\ upto[m][n + 1] = 2 * upto[m][n]
      BY <2>1, <3>1
    <3> QED
      BY <3>1, <3>2
  <2>4. Q = Nat
    <3> HIDE DEF Q
    <3>1. Q \in SUBSET Nat
      BY DEF Q
    <3> QED
      BY <2>2, <2>3, <3>1, Induction
  <2> QED
    BY <2>4
<1>6. ASSUME NEW n \in Nat
      PROVE  power[n] = IF n = 0 THEN 1 ELSE 2 * power[n - 1]
  <2>1. upto[n][n] = IF n = 0 THEN 1 ELSE 2 * upto[n][n - 1]
    <3>1. n \in 0 .. n
      OBVIOUS
    <3> QED
      BY <1>4, <3>1, Zenon
  <2>2. n # 0 => upto[n][n - 1] = upto[n - 1][n - 1]
    <3> SUFFICES ASSUME n # 0 PROVE upto[n][n - 1] = upto[n - 1][n - 1]
      OBVIOUS
    <3>1. n - 1 \in Nat /\ n - 1 \in 0 .. n - 1 /\ (n - 1) + 1 = n
      OBVIOUS
    <3> QED
      BY <1>5, <3>1
  <2>3. n # 0 => power[n - 1] = upto[n - 1][n - 1]
    OBVIOUS
  <2> QED
    BY <2>1, <2>2, <2>3
<1>7. power = [n \in Nat |-> power[n]]
  OBVIOUS
<1> HIDE DEF power
<1>8. power = [n \in Nat |-> IF n = 0 THEN 1 ELSE 2 * power[n - 1]]
  BY <1>6, <1>7, Zenon
<1>9. PowerOfTwo = [n \in Nat |-> IF n = 0 THEN 1 ELSE 2 * PowerOfTwo[n - 1]]
  BY <1>8, Zenon DEF PowerOfTwo
<1>10. ASSUME NEW n \in Nat
       PROVE  PowerOfTwo[n] = IF n = 0 THEN 1 ELSE 2 * PowerOfTwo[n - 1]
  BY <1>9, Zenon
<1>11. PowerOfTwo[0] = 1
  BY <1>10
<1>12. ASSUME NEW n \in Nat PROVE PowerOfTwo[n + 1] = 2 * PowerOfTwo[n]
  <2>1. n + 1 \in Nat /\ n + 1 # 0 /\ (n + 1) - 1 = n
    OBVIOUS
  <2> QED
    BY <1>10, <2>1
<1>13. {n \in Nat : PowerOfTwo[n] \in Nat \ {0}} = Nat
  <2> DEFINE T == {n \in Nat : PowerOfTwo[n] \in Nat \ {0}}
  <2>1. 0 \in T /\ \A n \in T : n + 1 \in T
    BY <1>11, <1>12
  <2> HIDE DEF T
  <2>2. T \in SUBSET Nat
    BY DEF T
  <2>3. T = Nat
    BY <2>1, <2>2, Induction
  <2> QED
    BY <2>3 DEF T
<1> QED
  BY <1>11, <1>12, <1>13
-----------------------------------------------------------------------------
(***************************************************************************)
(* Sums over finite sets, as the community modules fold them.              *)
(***************************************************************************)
(* What holds of a set if it holds of every set with one element less      *)
(* holds of every finite set.                                              *)
LEMMA SubsetInduction ==
    ASSUME NEW U, IsFiniteSet(U), NEW F \in SUBSET (SUBSET U),
           \A T \in SUBSET U : (\A x \in T : T \ {x} \in F) => T \in F
    PROVE  F = SUBSET U
<1> SUFFICES ASSUME (SUBSET U) \ F # {} PROVE FALSE
  OBVIOUS
<1> DEFINE sizes == {Cardinality(T) : T \in (SUBSET U) \ F}
<1>1. \A T \in SUBSET U : IsFiniteSet(T) /\ Cardinality(T) \in Nat
  BY FS_Subset, FS_CardinalityType
<1>2. sizes \in SUBSET Nat /\ sizes # {}
  BY <1>1
<1>3. PICK n \in sizes : \A m \in sizes : n <= m
  <2> HIDE DEF sizes
  <2> QED
    BY <1>2, LeastOne
<1>4. PICK T \in (SUBSET U) \ F : Cardinality(T) = n
  OBVIOUS
<1>5. ASSUME NEW x \in T PROVE T \ {x} \in F
  <2>1. Cardinality(T \ {x}) = n - 1 /\ n \in Nat
    BY <1>1, <1>4, FS_RemoveElement
  <2>2. T \ {x} \notin F => n - 1 \in sizes
    BY <2>1
  <2> HIDE DEF sizes
  <2> QED
    BY <1>3, <2>1, <2>2
<1> QED
  BY <1>4, <1>5

Chosen(s) == CHOOSE x \in s : TRUE

Folded(iter, f, s) ==
    IF s = {} THEN 0 ELSE f[Chosen(s)] + iter[s \ {Chosen(s)}]

SumExists(f, S) == \E iter : iter = [s \in SUBSET S |-> Folded(iter, f, s)]

LEMMA SumsExist ==
    ASSUME NEW f, NEW S, IsFiniteSet(S)
    PROVE  SumExists(f, S)
<1> DEFINE Small(n) == {s \in SUBSET S : Cardinality(s) <= n}
           P == {n \in Nat : \E w : w = [s \in Small(n) |-> Folded(w, f, s)]}
<1>1. \A s \in SUBSET S : IsFiniteSet(s) /\ Cardinality(s) \in Nat
  BY FS_Subset, FS_CardinalityType
<1>2. 0 \in P
  <2> DEFINE w == [s \in Small(0) |-> 0]
  <2>1. \A s \in Small(0) : s = {}
    BY <1>1, FS_EmptySet
  <2>2. w = [s \in Small(0) |-> Folded(w, f, s)]
    BY <2>1, Zenon DEF Folded
  <2> HIDE DEF w, Small
  <2> QED
    BY <2>2
<1>3. ASSUME NEW n \in P PROVE n + 1 \in P
  <2>0. n \in Nat
    OBVIOUS
  <2>1. PICK w : w = [s \in Small(n) |-> Folded(w, f, s)]
    OBVIOUS
  <2> DEFINE v == [s \in Small(n + 1) |-> Folded(w, f, s)]
  <2>2. \A s \in Small(n) : s \in Small(n + 1) /\ w[s] = Folded(w, f, s)
    <3>1. \A s \in Small(n) : s \in Small(n + 1)
      BY <1>1, <2>0
    <3> HIDE DEF Small
    <3> QED
      BY <2>1, <3>1, Zenon
  <2>3. \A s \in Small(n + 1) : s # {} => s \ {Chosen(s)} \in Small(n)
    <3> SUFFICES ASSUME NEW s \in Small(n + 1), s # {}
                 PROVE  s \ {Chosen(s)} \in Small(n)
      OBVIOUS
    <3>1. Chosen(s) \in s
      BY DEF Chosen
    <3>2. Cardinality(s \ {Chosen(s)}) = Cardinality(s) - 1
      BY <1>1, <3>1, FS_RemoveElement
    <3> QED
      BY <1>1, <2>0, <3>2
  <2> HIDE DEF Small
  <2>4. \A s \in Small(n) : v[s] = w[s]
    BY <2>2, Zenon
  <2> HIDE DEF v
  <2>5. \A s \in Small(n + 1) : Folded(w, f, s) = Folded(v, f, s)
    BY <2>3, <2>4, Zenon DEF Folded
  <2>6. v = [s \in Small(n + 1) |-> Folded(v, f, s)]
    BY <2>5, Zenon DEF v
  <2> QED
    BY <2>0, <2>6
<1>4. P = Nat
  <2> HIDE DEF P
  <2>1. P \in SUBSET Nat
    BY DEF P
  <2> QED
    BY <1>2, <1>3, <2>1, Induction
<1>5. Cardinality(S) \in Nat /\ Small(Cardinality(S)) = SUBSET S
  BY <1>1, FS_CardinalityType, FS_Subset
<1>6. \E w : w = [s \in SUBSET S |-> Folded(w, f, s)]
  <2> DEFINE n == Cardinality(S)
             D == Small(n)
  <2>1. \E w : w = [s \in D |-> Folded(w, f, s)]
    BY <1>4, <1>5
  <2>2. D = SUBSET S
    BY <1>5
  <2> HIDE DEF D
  <2> QED
    BY <2>1, <2>2, Zenon
<1> QED
  BY <1>6 DEF SumExists

LEMMA SumIsFolded ==
    ASSUME NEW f, NEW S, IsFiniteSet(S)
    PROVE  \E iter : /\ iter = [s \in SUBSET S |-> Folded(iter, f, s)]
                     /\ SumFunctionOnSet(f, S) = iter[S]
<1> DEFINE sum == CHOOSE iter : iter = [s \in SUBSET S |->
                        IF s = {} THEN 0
                        ELSE LET x == CHOOSE x \in s : TRUE
                             IN  f[x] + iter[s \ {x}]]
<1>1. SumFunctionOnSet(f, S) = sum[S]
  BY Zenon DEF SumFunctionOnSet, FoldFunctionOnSet, MapThenFoldSet
<1>2. \E iter : iter = [s \in SUBSET S |->
                        IF s = {} THEN 0
                        ELSE LET x == CHOOSE x \in s : TRUE
                             IN  f[x] + iter[s \ {x}]]
  <2>1. PICK iter : iter = [s \in SUBSET S |-> Folded(iter, f, s)]
    BY SumsExist DEF SumExists
  <2> QED
    BY <2>1, Zenon DEF Folded, Chosen
<1>3. sum = [s \in SUBSET S |-> Folded(sum, f, s)]
  BY <1>2, Zenon DEF Folded, Chosen
<1> QED
  BY <1>1, <1>3, Zenon

(* One element after the other.                                            *)
LEMMA SumUnfolds ==
    ASSUME NEW f, NEW S, IsFiniteSet(S)
    PROVE  SumFunctionOnSet(f, S) =
            IF S = {} THEN 0
            ELSE f[Chosen(S)] + SumFunctionOnSet(f, S \ {Chosen(S)})
<1>1. PICK v : /\ v = [s \in SUBSET S |-> Folded(v, f, s)]
               /\ SumFunctionOnSet(f, S) = v[S]
  BY SumIsFolded
<1>2. \A s \in SUBSET S : v[s] = Folded(v, f, s)
  BY <1>1, Zenon
<1>3. ASSUME S # {}
      PROVE  v[S \ {Chosen(S)}] = SumFunctionOnSet(f, S \ {Chosen(S)})
  <2> DEFINE T == S \ {Chosen(S)}
  <2>1. IsFiniteSet(T) /\ T \in SUBSET S
    BY FS_Subset
  <2> HIDE DEF T
  <2>2. PICK w : /\ w = [s \in SUBSET T |-> Folded(w, f, s)]
                 /\ SumFunctionOnSet(f, T) = w[T]
    BY <2>1, SumIsFolded
  <2>3. \A s \in SUBSET T : w[s] = Folded(w, f, s)
    BY <2>2, Zenon
  <2> DEFINE F == {s \in SUBSET T : v[s] = w[s]}
  <2>4. ASSUME NEW s \in SUBSET T, \A x \in s : s \ {x} \in F
        PROVE  s \in F
    <3>1. CASE s = {}
      BY <1>2, <2>1, <2>3, <3>1 DEF Folded
    <3>2. CASE s # {}
      <4>1. Chosen(s) \in s
        BY <3>2 DEF Chosen
      <4>2. v[s \ {Chosen(s)}] = w[s \ {Chosen(s)}]
        BY <2>4, <4>1
      <4>3. s \in SUBSET S
        BY <2>1
      <4>4. v[s] = Folded(v, f, s) /\ w[s] = Folded(w, f, s)
        BY <1>2, <2>3, <4>3, Zenon
      <4> QED
        BY <4>2, <4>4, Zenon DEF Folded
    <3> QED
      BY <3>1, <3>2
  <2>5. F = SUBSET T
    <3> HIDE DEF F
    <3>1. F \in SUBSET (SUBSET T)
      BY DEF F
    <3> QED
      BY <2>1, <2>4, <3>1, SubsetInduction, Zenon
  <2>6. T \in F
    BY <2>5
  <2> QED
    BY <2>2, <2>6 DEF T
<1>4. v[S] = Folded(v, f, S)
  <2>1. S \in SUBSET S
    OBVIOUS
  <2> QED
    BY <1>2, <2>1, Zenon
<1> QED
  BY <1>1, <1>3, <1>4, Zenon DEF Folded

LEMMA SumIsNat ==
    ASSUME NEW U, IsFiniteSet(U), NEW f \in [U -> Nat]
    PROVE  \A T \in SUBSET U : SumFunctionOnSet(f, T) \in Nat
<1> DEFINE F == {T \in SUBSET U : SumFunctionOnSet(f, T) \in Nat}
<1>1. ASSUME NEW T \in SUBSET U, \A x \in T : T \ {x} \in F
      PROVE  T \in F
  <2>1. IsFiniteSet(T)
    BY FS_Subset
  <2>2. CASE T = {}
    <3>1. SumFunctionOnSet(f, T) = 0
      BY <2>1, <2>2, SumUnfolds
    <3> QED
      BY <3>1
  <2>3. CASE T # {}
    <3>1. Chosen(T) \in T
      BY <2>3 DEF Chosen
    <3>2. SumFunctionOnSet(f, T \ {Chosen(T)}) \in Nat /\ f[Chosen(T)] \in Nat
      BY <1>1, <3>1
    <3>3. SumFunctionOnSet(f, T) = f[Chosen(T)] + SumFunctionOnSet(f, T \ {Chosen(T)})
      BY <2>1, <2>3, SumUnfolds
    <3> QED
      BY <3>2, <3>3
  <2> QED
    BY <2>2, <2>3
<1>2. F = SUBSET U
  <2> HIDE DEF F
  <2>1. F \in SUBSET (SUBSET U)
    BY DEF F
  <2> QED
    BY <1>1, <2>1, SubsetInduction, Zenon
<1> QED
  BY <1>2

(* In any order.                                                           *)
LEMMA SumRemove ==
    ASSUME NEW U, IsFiniteSet(U), NEW f \in [U -> Nat]
    PROVE  \A T \in SUBSET U : \A y \in T :
                SumFunctionOnSet(f, T) = f[y] + SumFunctionOnSet(f, T \ {y})
<1> DEFINE Sum(T) == SumFunctionOnSet(f, T)
           F == {T \in SUBSET U : \A y \in T : Sum(T) = f[y] + Sum(T \ {y})}
<1>0. \A T \in SUBSET U : Sum(T) \in Nat /\ IsFiniteSet(T)
  BY SumIsNat, FS_Subset
<1>1. ASSUME NEW T \in SUBSET U, \A x \in T : T \ {x} \in F
      PROVE  T \in F
  <2> SUFFICES ASSUME NEW y \in T PROVE Sum(T) = f[y] + Sum(T \ {y})
    OBVIOUS
  <2> DEFINE x == Chosen(T)
  <2>1. x \in T
    BY DEF Chosen
  <2>2. Sum(T) = f[x] + Sum(T \ {x})
    BY <1>0, SumUnfolds
  <2> HIDE DEF x
  <2>3. CASE y = x
    BY <2>2, <2>3
  <2>4. CASE y # x
    <3>1. Sum(T \ {x}) = f[y] + Sum((T \ {x}) \ {y})
      BY <1>1, <2>1, <2>4
    <3>2. Sum(T \ {y}) = f[x] + Sum((T \ {y}) \ {x})
      BY <1>1, <2>1, <2>4
    <3>3. (T \ {x}) \ {y} = (T \ {y}) \ {x}
      OBVIOUS
    <3> DEFINE rest == Sum((T \ {x}) \ {y})
    <3>4. rest \in Nat /\ f[x] \in Nat /\ f[y] \in Nat
      <4>1. (T \ {x}) \ {y} \in SUBSET U
        OBVIOUS
      <4> QED
        BY <1>0, <2>1, <4>1
    <3>5. Sum((T \ {y}) \ {x}) = rest
      BY <3>3
    <3> HIDE DEF Sum, rest
    <3>6. Sum(T) = f[x] + (f[y] + rest) /\ Sum(T \ {y}) = f[x] + rest
      BY <2>2, <3>1, <3>2, <3>5 DEF rest
    <3> QED
      BY <3>4, <3>6
  <2> QED
    BY <2>3, <2>4
<1>2. F = SUBSET U
  <2> HIDE DEF F
  <2>1. F \in SUBSET (SUBSET U)
    BY DEF F
  <2> QED
    BY <1>1, <2>1, SubsetInduction, Zenon
<1> QED
  BY <1>2

(* Term by term.                                                           *)
LEMMA SumCompare ==
    ASSUME NEW U, IsFiniteSet(U), NEW f \in [U -> Nat], NEW g \in [U -> Nat],
           NEW a \in Nat, NEW b \in Nat, NEW c \in Nat,
           \A x \in U : a * f[x] <= b * g[x] + c
    PROVE  \A T \in SUBSET U :
                a * SumFunctionOnSet(f, T)
                    <= b * SumFunctionOnSet(g, T) + c * Cardinality(T)
<1> DEFINE F == {T \in SUBSET U : a * SumFunctionOnSet(f, T)
                    <= b * SumFunctionOnSet(g, T) + c * Cardinality(T)}
<1>0. \A T \in SUBSET U : /\ SumFunctionOnSet(f, T) \in Nat
                          /\ SumFunctionOnSet(g, T) \in Nat
                          /\ IsFiniteSet(T) /\ Cardinality(T) \in Nat
  BY SumIsNat, FS_Subset, FS_CardinalityType
<1>1. ASSUME NEW T \in SUBSET U, \A x \in T : T \ {x} \in F
      PROVE  T \in F
  <2>1. CASE T = {}
    <3>1. SumFunctionOnSet(f, T) = 0 /\ SumFunctionOnSet(g, T) = 0 /\ Cardinality(T) = 0
      BY <1>0, <2>1, SumUnfolds, FS_EmptySet
    <3> QED
      BY <3>1
  <2>2. CASE T # {}
    <3>1. PICK x \in T : TRUE
      BY <2>2
    <3> DEFINE R == T \ {x}
               p == SumFunctionOnSet(f, R)
               q == SumFunctionOnSet(g, R)
               n == Cardinality(R)
               k == f[x]
               l == g[x]
    <3>2. SumFunctionOnSet(f, T) = k + p /\ SumFunctionOnSet(g, T) = l + q
      BY SumRemove
    <3>3. Cardinality(T) = n + 1
      BY <1>0, FS_RemoveElement
    <3>4. a * p <= b * q + c * n
      BY <1>1
    <3>5. p \in Nat /\ q \in Nat /\ n \in Nat /\ k \in Nat /\ l \in Nat
      BY <1>0
    <3>6. a * k <= b * l + c
      OBVIOUS
    <3> HIDE DEF p, q, n, k, l, R
    <3>7. a * (k + p) = a * k + a * p /\ b * (l + q) = b * l + b * q /\ c * (n + 1) = c * n + c
      BY <3>5
    <3>8. a * (k + p) <= b * (l + q) + c * (n + 1)
      BY <3>4, <3>5, <3>6, <3>7
    <3> QED
      BY <3>2, <3>3, <3>8
  <2> QED
    BY <2>1, <2>2
<1>2. F = SUBSET U
  <2> HIDE DEF F
  <2>1. F \in SUBSET (SUBSET U)
    BY DEF F
  <2> QED
    BY <1>1, <2>1, SubsetInduction, Zenon
<1> QED
  BY <1>2

LEMMA SumStrict ==
    ASSUME NEW U, IsFiniteSet(U), NEW f \in [U -> Nat], NEW g \in [U -> Nat],
           NEW b \in Nat, NEW c \in Nat,
           \A x \in U : f[x] <= b * g[x] + c,
           NEW y \in U, f[y] < b * g[y] + c
    PROVE  SumFunctionOnSet(f, U) < b * SumFunctionOnSet(g, U) + c * Cardinality(U)
<1> DEFINE R == U \ {y}
           p == SumFunctionOnSet(f, R)
           q == SumFunctionOnSet(g, R)
           n == Cardinality(R)
           k == f[y]
           l == g[y]
<1>1. SumFunctionOnSet(f, U) = k + p /\ SumFunctionOnSet(g, U) = l + q
  <2>1. U \in SUBSET U
    OBVIOUS
  <2>2. SumFunctionOnSet(f, U) = f[y] + SumFunctionOnSet(f, U \ {y})
    BY <2>1, SumRemove
  <2>3. SumFunctionOnSet(g, U) = g[y] + SumFunctionOnSet(g, U \ {y})
    BY <2>1, SumRemove
  <2> QED
    BY <2>2, <2>3
<1>2. Cardinality(U) = n + 1 /\ n \in Nat
  <2>1. IsFiniteSet(R) /\ Cardinality(U) \in Nat
    BY FS_Subset, FS_CardinalityType
  <2>2. n = Cardinality(U) - 1
    BY FS_RemoveElement
  <2>3. n \in Nat
    BY <2>1, FS_CardinalityType
  <2> HIDE DEF n
  <2> QED
    BY <2>1, <2>2, <2>3
<1>3. p \in Nat /\ q \in Nat /\ k \in Nat /\ l \in Nat
  BY SumIsNat
<1>4. 1 * p <= b * q + c * n
  <2>1. \A x \in U : 1 * f[x] <= b * g[x] + c
    OBVIOUS
  <2>2. R \in SUBSET U
    OBVIOUS
  <2> QED
    BY <2>1, <2>2, SumCompare
<1>5. k < b * l + c
  OBVIOUS
<1> HIDE DEF R, p, q, n, k, l
<1>6. b * (l + q) = b * l + b * q /\ c * (n + 1) = c * n + c
  BY <1>2, <1>3
<1>7. k + p < b * (l + q) + c * (n + 1)
  BY <1>2, <1>3, <1>4, <1>5, <1>6
<1> QED
  BY <1>1, <1>2, <1>7

(* The sizes of the parts of a set add up to its size.                     *)
LEMMA SumOfParts ==
    ASSUME NEW S, IsFiniteSet(S), NEW U, IsFiniteSet(U), NEW part \in [S -> U],
           NEW f \in [U -> Nat], \A b \in U : f[b] = Cardinality({i \in S : part[i] = b})
    PROVE  SumFunctionOnSet(f, U) = Cardinality(S)
<1> DEFINE In(T) == {i \in S : part[i] \in T}
           F == {T \in SUBSET U : SumFunctionOnSet(f, T) = Cardinality(In(T))}
<1>1. ASSUME NEW T \in SUBSET U, \A x \in T : T \ {x} \in F
      PROVE  T \in F
  <2>0. IsFiniteSet(T)
    BY FS_Subset
  <2>1. CASE T = {}
    <3>1. In(T) = {}
      BY <2>1
    <3>2. Cardinality(In(T)) = 0
      BY <3>1, FS_EmptySet
    <3> QED
      BY <2>0, <2>1, <3>2, SumUnfolds
  <2>2. CASE T # {}
    <3>1. PICK x \in T : TRUE
      BY <2>2
    <3> DEFINE R == In(T \ {x})
               Q == {i \in S : part[i] = x}
    <3>2. In(T) = R \cup Q /\ R \cap Q = {}
      OBVIOUS
    <3>3. IsFiniteSet(R) /\ IsFiniteSet(Q)
      BY FS_Subset
    <3>4. f[x] = Cardinality(Q)
      OBVIOUS
    <3>5. SumFunctionOnSet(f, T \ {x}) = Cardinality(R)
      BY <1>1
    <3>6. SumFunctionOnSet(f, T) = f[x] + SumFunctionOnSet(f, T \ {x})
      BY SumRemove
    <3> HIDE DEF R, Q, In
    <3>7. Cardinality(R \cup Q) = Cardinality(R) + Cardinality(Q)
      <4>1. Cardinality(R \cup Q) =
                Cardinality(R) + Cardinality(Q) - Cardinality(R \cap Q)
        BY <3>3, FS_Union
      <4>2. Cardinality(R \cap Q) = 0
        BY <3>2, FS_EmptySet
      <4>3. Cardinality(R) \in Nat /\ Cardinality(Q) \in Nat
        BY <3>3, FS_CardinalityType
      <4> QED
        BY <4>1, <4>2, <4>3
    <3>8. Cardinality(R) \in Nat /\ Cardinality(Q) \in Nat
      BY <3>3, FS_CardinalityType
    <3>9. SumFunctionOnSet(f, T) = Cardinality(In(T))
      BY <3>2, <3>4, <3>5, <3>6, <3>7, <3>8
    <3> QED
      BY <3>9
  <2> QED
    BY <2>1, <2>2
<1>2. F = SUBSET U
  <2> HIDE DEF F
  <2>1. F \in SUBSET (SUBSET U)
    BY DEF F
  <2> QED
    BY <1>1, <2>1, SubsetInduction, Zenon
<1>3. U \in F
  BY <1>2
<1>4. In(U) = S
  OBVIOUS
<1> QED
  BY <1>3, <1>4
-----------------------------------------------------------------------------
(***************************************************************************)
(* Lists without repetitions.                                              *)
(***************************************************************************)
Differ(s) == \A m \in 1 .. Len(s) : \A n \in 1 .. Len(s) : s[m] = s[n] => m = n

Lists(s, S) ==
    /\ s \in Seq(S)
    /\ \A x \in S : \E n \in 1 .. Len(s) : s[n] = x
    /\ Differ(s)

LEMMA ListsCount ==
    ASSUME NEW s, NEW S, Lists(s, S)
    PROVE  ToSet(s) = S /\ IsFiniteSet(S) /\ Len(s) = Cardinality(S)
<1> DEFINE N == 1 .. Len(s)
<1>1. s \in Seq(S) /\ Len(s) \in Nat /\ DOMAIN s = N /\ s \in [N -> S]
  BY DEF Lists
<1>2. ToSet(s) = S
  BY <1>1 DEF Lists, ToSet
<1>3. IsFiniteSet(N) /\ Cardinality(N) = Len(s)
  BY <1>1, FS_Interval
<1>4. s \in Injection(N, S) /\ s \in Surjection(N, S)
  BY <1>1 DEF Lists, Differ, Injection, IsInjective, Surjection
<1>5. ExistsBijection(N, S)
  BY <1>4 DEF ExistsBijection, Bijection
<1> QED
  BY <1>2, <1>3, <1>5, FS_Bijection

LEMMA ListsOnce ==
    ASSUME NEW S, NEW s \in Seq(S), Differ(s)
    PROVE  Lists(s, ToSet(s))
<1>1. s \in Seq(ToSet(s))
  <2>1. \A n \in 1 .. Len(s) : s[n] \in ToSet(s)
    BY DEF ToSet
  <2>2. Len(s) \in Nat /\ s = [n \in 1 .. Len(s) |-> s[n]]
    OBVIOUS
  <2> HIDE DEF ToSet
  <2>3. s \in [1 .. Len(s) -> ToSet(s)]
    BY <2>1, <2>2
  <2> QED
    BY <2>2, <2>3
<1>2. \A x \in ToSet(s) : \E n \in 1 .. Len(s) : s[n] = x
  BY DEF ToSet
<1> QED
  BY <1>1, <1>2 DEF Lists

LEMMA ListsAppend ==
    ASSUME NEW s, NEW S, Lists(s, S), NEW x, x \notin S
    PROVE  /\ Lists(Append(s, x), S \cup {x})
           /\ Len(Append(s, x)) = Len(s) + 1
           /\ Append(s, x)[Len(s) + 1] = x
           /\ \A n \in 1 .. Len(s) : Append(s, x)[n] = s[n]
<1> DEFINE t == Append(s, x)
<1>1. s \in Seq(S) /\ s \in Seq(S \cup {x})
  BY DEF Lists
<1>2. /\ t \in Seq(S \cup {x}) /\ Len(t) = Len(s) + 1 /\ t[Len(s) + 1] = x
      /\ \A n \in 1 .. Len(s) : t[n] = s[n] /\ s[n] \in S
  BY <1>1
<1>3. \A y \in S \cup {x} : \E n \in 1 .. Len(t) : t[n] = y
  BY <1>1, <1>2 DEF Lists
<1>4. Differ(t)
  BY <1>1, <1>2 DEF Lists, Differ
<1> QED
  BY <1>2, <1>3, <1>4 DEF Lists

LEMMA Prepended ==
    ASSUME NEW S, NEW e \in S, NEW q \in Seq(S)
    PROVE  /\ <<e>> \o q \in Seq(S)
           /\ Len(<<e>> \o q) = Len(q) + 1
           /\ (<<e>> \o q)[1] = e
           /\ \A n \in 1 .. Len(q) : (<<e>> \o q)[n + 1] = q[n]
<1>1. <<e>> \in Seq(S) /\ Len(<<e>>) = 1 /\ <<e>>[1] = e
  OBVIOUS
<1>2. /\ <<e>> \o q \in Seq(S)
      /\ Len(<<e>> \o q) = Len(<<e>>) + Len(q)
      /\ \A i \in 1 .. Len(<<e>>) + Len(q) :
            (<<e>> \o q)[i] = IF i <= Len(<<e>>) THEN <<e>>[i] ELSE q[i - Len(<<e>>)]
  BY <1>1, ConcatProperties
<1>3. Len(q) \in Nat
  OBVIOUS
<1>4. (<<e>> \o q)[1] = e
  BY <1>1, <1>2, <1>3
<1>5. ASSUME NEW n \in 1 .. Len(q)
      PROVE  (<<e>> \o q)[n + 1] = q[n]
  <2>1. n + 1 \in 1 .. 1 + Len(q) /\ ~(n + 1 <= 1) /\ (n + 1) - 1 = n
    BY <1>3
  <2> QED
    BY <1>1, <1>2, <2>1
<1> QED
  BY <1>1, <1>2, <1>3, <1>4, <1>5

LEMMA ListsPrepend ==
    ASSUME NEW s, NEW S, Lists(s, S), NEW x, x \notin S
    PROVE  /\ Lists(<<x>> \o s, S \cup {x})
           /\ Len(<<x>> \o s) = Len(s) + 1
           /\ (<<x>> \o s)[1] = x
           /\ \A n \in 1 .. Len(s) : (<<x>> \o s)[n + 1] = s[n]
<1> DEFINE t == <<x>> \o s
<1>1. s \in Seq(S) /\ s \in Seq(S \cup {x}) /\ x \in S \cup {x} /\ Len(s) \in Nat
  BY DEF Lists
<1>2. /\ t \in Seq(S \cup {x}) /\ Len(t) = Len(s) + 1 /\ t[1] = x
      /\ \A n \in 1 .. Len(s) : t[n + 1] = s[n]
  BY <1>1, Prepended
<1> HIDE DEF t
<1>3. \A n \in 1 .. Len(t) : n # 1 => n - 1 \in 1 .. Len(s) /\ t[n] = s[n - 1] /\ t[n] \in S
  <2> SUFFICES ASSUME NEW n \in 1 .. Len(t), n # 1
               PROVE  n - 1 \in 1 .. Len(s) /\ t[n] = s[n - 1] /\ t[n] \in S
    OBVIOUS
  <2>1. n - 1 \in 1 .. Len(s) /\ (n - 1) + 1 = n
    BY <1>1, <1>2
  <2>2. t[n] = s[n - 1]
    BY <1>2, <2>1
  <2> QED
    BY <1>1, <2>1, <2>2
<1>4. ASSUME NEW y \in S \cup {x} PROVE \E n \in 1 .. Len(t) : t[n] = y
  <2>1. CASE y = x
    BY <1>1, <1>2, <2>1
  <2>2. CASE y # x
    <3>1. PICK n \in 1 .. Len(s) : s[n] = y
      BY <2>2 DEF Lists
    <3>2. n + 1 \in 1 .. Len(t) /\ t[n + 1] = y
      BY <1>1, <1>2, <3>1
    <3> QED
      BY <3>2
  <2> QED
    BY <2>1, <2>2
<1>5. Differ(t)
  <2> SUFFICES ASSUME NEW m \in 1 .. Len(t), NEW n \in 1 .. Len(t), t[m] = t[n]
               PROVE  m = n
    BY DEF Differ
  <2>1. m = 1 <=> n = 1
    BY <1>2, <1>3
  <2>2. CASE m # 1
    <3>1. /\ m - 1 \in 1 .. Len(s) /\ n - 1 \in 1 .. Len(s)
          /\ s[m - 1] = s[n - 1]
      BY <1>3, <2>1, <2>2
    <3>2. m - 1 = n - 1
      BY <3>1 DEF Lists, Differ
    <3>3. m \in Int /\ n \in Int
      OBVIOUS
    <3> QED
      BY <3>2, <3>3
  <2> QED
    BY <2>1, <2>2
<1> QED
  BY <1>2, <1>4, <1>5 DEF Lists, t

(* The list without an entry: the others stay in order.                    *)
Without(s, k, r) ==
    /\ Len(r) = Len(s) - 1
    /\ \A m \in 1 .. Len(s) - 1 : r[m] = IF m < k THEN s[m] ELSE s[m + 1]

LEMMA ListsRemove ==
    ASSUME NEW s, NEW S, Lists(s, S), NEW x \in S
    PROVE  /\ Lists(RemoveFirst(s, x), S \ {x})
           /\ \E k \in 1 .. Len(s) : s[k] = x /\ Without(s, k, RemoveFirst(s, x))
<1> DEFINE r == RemoveFirst(s, x)
<1>1. s \in Seq(S) /\ Len(s) \in Nat
  BY DEF Lists
<1>2. PICK k \in 1 .. Len(s) : s[k] = x
  BY DEF Lists
<1>3. \A n \in 1 .. Len(s) : s[n] = x <=> n = k
  BY <1>2 DEF Lists, Differ
<1>4. r = SubSeq(s, 1, k - 1) \o SubSeq(s, k + 1, Len(s))
  <2> DEFINE I == {n \in 1 .. Len(s) : s[n] = x}
  <2>1. I = {k}
    BY <1>3
  <2>2. SelectInSeq(s, LAMBDA v : v = x) = IF I # {} THEN Min(I) ELSE 0
    BY Zenon DEF SelectInSeq
  <2>3. Min({k}) = k
    <3>1. k <= k
      OBVIOUS
    <3> QED
      BY <3>1, Zenon DEF Min
  <2>4. SelectInSeq(s, LAMBDA v : v = x) = k
    BY <2>1, <2>2, <2>3
  <2> QED
    BY <1>2, <2>4, Zenon DEF RemoveFirst, RemoveAt
<1> DEFINE a == SubSeq(s, 1, k - 1)
           c == SubSeq(s, k + 1, Len(s))
<1>5. /\ a \in Seq(S) /\ Len(a) = k - 1
      /\ \A n \in 1 .. k - 1 : a[n] = s[n]
  BY <1>1
<1>6. /\ c \in Seq(S) /\ Len(c) = Len(s) - k
      /\ \A n \in 1 .. Len(s) - k : c[n] = s[n + k]
  BY <1>1
<1>7. r = a \o c
  BY <1>4
<1> HIDE DEF a, c, r
<1>8. /\ r \in Seq(S) /\ Len(r) = Len(a) + Len(c)
      /\ \A n \in 1 .. Len(a) + Len(c) :
            r[n] = IF n <= Len(a) THEN a[n] ELSE c[n - Len(a)]
  BY <1>5, <1>6, <1>7, ConcatProperties
<1>9. Len(r) = Len(s) - 1
  BY <1>1, <1>5, <1>6, <1>8
<1>10. ASSUME NEW m \in 1 .. Len(s) - 1
      PROVE  r[m] = IF m < k THEN s[m] ELSE s[m + 1]
  <2>1. CASE m < k
    <3>1. m \in 1 .. k - 1 /\ m \in 1 .. Len(a) + Len(c) /\ m <= Len(a)
      BY <1>1, <1>5, <1>6, <2>1
    <3> QED
      BY <1>5, <1>8, <2>1, <3>1
  <2>2. CASE ~(m < k)
    <3>1. /\ m \in 1 .. Len(a) + Len(c) /\ ~(m <= Len(a))
          /\ m - Len(a) \in 1 .. Len(s) - k /\ (m - Len(a)) + k = m + 1
      BY <1>1, <1>5, <1>6, <2>2
    <3> QED
      BY <1>6, <1>8, <2>2, <3>1
  <2> QED
    BY <2>1, <2>2
<1>11. Without(s, k, r)
  BY <1>9, <1>10 DEF Without
<1> DEFINE from(m) == IF m < k THEN m ELSE m + 1
<1>12. \A m \in 1 .. Len(r) : from(m) \in 1 .. Len(s) /\ from(m) # k /\ r[m] = s[from(m)]
  BY <1>1, <1>9, <1>10
<1>13. \A m \in 1 .. Len(r) : \A n \in 1 .. Len(r) : from(m) = from(n) => m = n
  BY <1>1, <1>9
<1>14. \A n \in 1 .. Len(s) : n # k => \E m \in 1 .. Len(r) : from(m) = n
  <2> SUFFICES ASSUME NEW n \in 1 .. Len(s), n # k
               PROVE  \E m \in 1 .. Len(r) : from(m) = n
    OBVIOUS
  <2>1. CASE n < k
    BY <1>1, <1>9, <2>1
  <2>2. CASE ~(n < k)
    <3>1. n - 1 \in 1 .. Len(r) /\ from(n - 1) = n
      BY <1>1, <1>9, <2>2
    <3> QED
      BY <3>1
  <2> QED
    BY <2>1, <2>2
<1> HIDE DEF from
<1>15. \A m \in 1 .. Len(r) : r[m] \in S \ {x}
  BY <1>1, <1>3, <1>12
<1>16. r \in Seq(S \ {x})
  <2>1. Len(r) \in Nat /\ r = [m \in 1 .. Len(r) |-> r[m]]
    BY <1>8
  <2>2. r \in [1 .. Len(r) -> S \ {x}]
    BY <1>15, <2>1
  <2> QED
    BY <2>1, <2>2
<1>17. \A y \in S \ {x} : \E m \in 1 .. Len(r) : r[m] = y
  <2> SUFFICES ASSUME NEW y \in S \ {x} PROVE \E m \in 1 .. Len(r) : r[m] = y
    OBVIOUS
  <2>1. PICK n \in 1 .. Len(s) : s[n] = y
    BY DEF Lists
  <2>2. PICK m \in 1 .. Len(r) : from(m) = n
    BY <1>3, <1>14, <2>1
  <2> QED
    BY <1>12, <2>1, <2>2
<1>18. Differ(r)
  <2> SUFFICES ASSUME NEW m \in 1 .. Len(r), NEW n \in 1 .. Len(r), r[m] = r[n]
               PROVE  m = n
    BY DEF Differ
  <2>1. s[from(m)] = s[from(n)] /\ from(m) \in 1 .. Len(s) /\ from(n) \in 1 .. Len(s)
    BY <1>12
  <2>2. from(m) = from(n)
    BY <2>1 DEF Lists, Differ
  <2> QED
    BY <1>13, <2>2
<1>19. Lists(r, S \ {x})
  BY <1>16, <1>17, <1>18 DEF Lists
<1> QED
  BY <1>2, <1>11, <1>19 DEF r

LEMMA MinIs ==
    ASSUME NEW S \in SUBSET Nat, S # {}
    PROVE  Min(S) \in S /\ \A y \in S : Min(S) <= y
BY LeastOne DEF Min
-----------------------------------------------------------------------------
(***************************************************************************)
(* What an expansion makes of an old chain.                                *)
(***************************************************************************)
Mover(old, K, moved, n) ==
    IF n = 0 THEN <<>>
    ELSE IF old[n] \in K THEN <<old[n]>> \o moved[n - 1] ELSE moved[n - 1]

MovesUpto(old, K, moved, m) == moved = [n \in 0 .. m |-> Mover(old, K, moved, n)]

LEMMA MoverExists ==
    ASSUME NEW old, NEW K
    PROVE  \A m \in Nat : \E moved : MovesUpto(old, K, moved, m)
<1> DEFINE P == {m \in Nat : \E moved : MovesUpto(old, K, moved, m)}
<1>1. 0 \in P
  <2> DEFINE w == [n \in 0 .. 0 |-> <<>>]
  <2>1. \A n \in 0 .. 0 : n = 0
    OBVIOUS
  <2>2. w = [n \in 0 .. 0 |-> Mover(old, K, w, n)]
    BY <2>1, Zenon DEF Mover
  <2> HIDE DEF w
  <2> QED
    BY <2>2 DEF MovesUpto
<1>2. ASSUME NEW m \in P PROVE m + 1 \in P
  <2>1. PICK w : MovesUpto(old, K, w, m)
    OBVIOUS
  <2> DEFINE v == [n \in 0 .. m + 1 |-> Mover(old, K, w, n)]
  <2>2. ASSUME NEW n \in 0 .. m PROVE v[n] = w[n]
    <3>1. n \in 0 .. m + 1
      OBVIOUS
    <3>2. v[n] = Mover(old, K, w, n)
      BY <3>1
    <3>3. w[n] = Mover(old, K, w, n)
      BY <2>1, Zenon DEF MovesUpto
    <3> QED
      BY <3>2, <3>3
  <2>3. \A n \in 0 .. m + 1 : n # 0 => n - 1 \in 0 .. m
    OBVIOUS
  <2>4. v = [n \in 0 .. m + 1 |-> Mover(old, K, w, n)]
    OBVIOUS
  <2> HIDE DEF v
  <2>5. \A n \in 0 .. m + 1 : Mover(old, K, w, n) = Mover(old, K, v, n)
    BY <2>2, <2>3, Zenon DEF Mover
  <2>6. v = [n \in 0 .. m + 1 |-> Mover(old, K, v, n)]
    BY <2>4, <2>5, Zenon
  <2>7. MovesUpto(old, K, v, m + 1)
    BY <2>6 DEF MovesUpto
  <2> QED
    BY <2>7
<1>3. P = Nat
  <2> HIDE DEF P
  <2>1. P \in SUBSET Nat
    BY DEF P
  <2> QED
    BY <1>1, <1>2, <2>1, Induction
<1> QED
  BY <1>3

LEMMA MoverLists ==
    ASSUME NEW old, NEW S, Lists(old, S), NEW K,
           NEW moved, MovesUpto(old, K, moved, Len(old))
    PROVE  Lists(moved[Len(old)], S \cap K)
<1> DEFINE First(n) == {old[m] : m \in 1 .. n} \cap K
           P == {n \in Nat : n <= Len(old) => Lists(moved[n], First(n))}
<1>0. old \in Seq(S) /\ Len(old) \in Nat
  BY DEF Lists
<1>1. \A n \in 0 .. Len(old) : moved[n] = Mover(old, K, moved, n)
  BY Zenon DEF MovesUpto
<1>2. 0 \in P
  <2>1. moved[0] = <<>>
    <3>1. 0 \in 0 .. Len(old)
      BY <1>0
    <3>2. moved[0] = Mover(old, K, moved, 0)
      BY <1>1, <3>1
    <3> QED
      BY <3>2 DEF Mover
  <2>2. First(0) = {}
    OBVIOUS
  <2>3. Lists(<<>>, {})
    BY DEF Lists, Differ
  <2> QED
    BY <2>1, <2>2, <2>3
<1>3. ASSUME NEW n \in P PROVE n + 1 \in P
  <2> SUFFICES ASSUME n + 1 <= Len(old) PROVE Lists(moved[n + 1], First(n + 1))
    OBVIOUS
  <2>1. n + 1 \in 0 .. Len(old) /\ n + 1 # 0 /\ (n + 1) - 1 = n /\ n \in Nat
        /\ n <= Len(old) /\ n + 1 \in 1 .. Len(old)
    BY <1>0
  <2>2. moved[n + 1] = IF old[n + 1] \in K THEN <<old[n + 1]>> \o moved[n] ELSE moved[n]
    <3> DEFINE k == n + 1
    <3>1. k \in 0 .. Len(old) /\ k # 0 /\ k - 1 = n
      BY <2>1
    <3> HIDE DEF k
    <3>2. moved[k] = IF old[k] \in K THEN <<old[k]>> \o moved[n] ELSE moved[n]
      BY <1>1, <3>1, Zenon DEF Mover
    <3> QED
      BY <3>2 DEF k
  <2>3. Lists(moved[n], First(n))
    BY <2>1
  <2>4. 1 .. n + 1 = (1 .. n) \cup {n + 1}
    BY <2>1
  <2>5. {old[m] : m \in 1 .. n + 1} = {old[m] : m \in 1 .. n} \cup {old[n + 1]}
    BY <2>4
  <2>6. old[n + 1] \notin {old[m] : m \in 1 .. n}
    BY <1>0, <2>1 DEF Lists, Differ
  <2>7. CASE old[n + 1] \in K
    <3>1. First(n + 1) = First(n) \cup {old[n + 1]} /\ old[n + 1] \notin First(n)
      BY <2>5, <2>6, <2>7
    <3> HIDE DEF First
    <3>2. Lists(<<old[n + 1]>> \o moved[n], First(n) \cup {old[n + 1]})
      BY <2>3, <3>1, ListsPrepend
    <3> QED
      BY <2>2, <2>7, <3>1, <3>2
  <2>8. CASE old[n + 1] \notin K
    <3>1. First(n + 1) = First(n)
      BY <2>5, <2>8
    <3> QED
      BY <2>2, <2>3, <2>8, <3>1
  <2> QED
    BY <2>7, <2>8
<1>4. P = Nat
  <2> HIDE DEF P
  <2>1. P \in SUBSET Nat
    BY DEF P
  <2> QED
    BY <1>2, <1>3, <2>1, Induction
<1>5. Lists(moved[Len(old)], First(Len(old)))
  <2> HIDE DEF First
  <2>1. \A n \in Nat : n <= Len(old) => Lists(moved[n], First(n))
    BY <1>4
  <2> QED
    BY <1>0, <2>1
<1>6. First(Len(old)) = S \cap K
  BY <1>0 DEF Lists
<1> QED
  BY <1>5, <1>6

At(nb, b) == {i \in Item : HASH_TO_BKT(hashv[key[i]], nb) = b}

LEMMA RehashedLists ==
    ASSUME NEW t, NEW b, NEW S \in SUBSET Item,
           Lists(t.buckets[b % t.num_buckets].chain, S)
    PROVE  Lists(Rehashed(t, b), S \cap At(2 * t.num_buckets, b))
<1> DEFINE old == t.buckets[b % t.num_buckets].chain
           K == At(2 * t.num_buckets, b)
           Goes(n) == HASH_TO_BKT(hashv[key[old[n]]], 2 * t.num_buckets) = b
           Body(moved, n) == IF n = 0 THEN <<>>
                             ELSE IF Goes(n) THEN <<old[n]>> \o moved[n - 1]
                             ELSE moved[n - 1]
           chosen == CHOOSE moved : moved = [n \in 0 .. Len(old) |-> Body(moved, n)]
<1>1. Rehashed(t, b) = chosen[Len(old)]
  BY Zenon DEF Rehashed
<1>2. old \in Seq(S) /\ Len(old) \in Nat
  BY DEF Lists
<1>3. \A n \in 0 .. Len(old) : n # 0 => old[n] \in Item
  BY <1>2
<1>4. \A n \in 0 .. Len(old) : n # 0 => (old[n] \in K <=> Goes(n))
  BY <1>3 DEF At
<1> HIDE DEF K, Goes, old
<1>5. \A moved : \A n \in 0 .. Len(old) : Body(moved, n) = Mover(old, K, moved, n)
  BY <1>4, Zenon DEF Mover
<1>6. \E moved : moved = [n \in 0 .. Len(old) |-> Body(moved, n)]
  <2>1. PICK moved : moved = [n \in 0 .. Len(old) |-> Mover(old, K, moved, n)]
    BY <1>2, MoverExists DEF MovesUpto
  <2>2. moved = [n \in 0 .. Len(old) |-> Body(moved, n)]
    BY <1>5, <2>1, Zenon
  <2> QED
    BY <2>2
<1> HIDE DEF Body
<1>7. chosen = [n \in 0 .. Len(old) |-> Body(chosen, n)]
  BY <1>6, Zenon
<1> HIDE DEF chosen
<1>8. MovesUpto(old, K, chosen, Len(old))
  BY <1>5, <1>7, Zenon DEF MovesUpto
<1>9. Lists(old, S)
  BY DEF old
<1>10. Lists(chosen[Len(old)], S \cap K)
  BY <1>8, <1>9, MoverLists
<1> QED
  BY <1>1, <1>10, Zenon DEF K
-----------------------------------------------------------------------------
(***************************************************************************)
(* The invariant.  Every item of the table is on the chain of its hash,    *)
(* once, and counted.  Chains are kept within their bound only together:   *)
(* the multipliers of all buckets add up to no more than there are         *)
(* buckets, so that an expansion never finds an average chain that is      *)
(* longer than the threshold.                                              *)
(***************************************************************************)
Bucket == [chain : Seq(Item), count : Nat, expand_mult : Nat]

BucketArray == UNION {[0 .. n - 1 -> Bucket] : n \in Nat}

Tables ==
    [order : Seq(Item), buckets : BucketArray, num_buckets : Nat \ {0},
     log2_num_buckets : Nat, num_items : Nat, ineff_expands : Nat,
     noexpand : {0, 1}]

BucketNumbers(t) == 0 .. t.num_buckets - 1

Placed(t) ==
    /\ t \in Tables
    /\ t.buckets \in [BucketNumbers(t) -> Bucket]
    /\ t.num_buckets = PowerOfTwo[t.log2_num_buckets]
    /\ t.num_buckets >= HASH_INITIAL_NUM_BUCKETS
    /\ Differ(t.order)
    /\ t.num_items = Len(t.order)
    /\ \A b \in BucketNumbers(t) :
        /\ Lists(t.buckets[b].chain, ToSet(t.order) \cap At(t.num_buckets, b))
        /\ t.buckets[b].count = Len(t.buckets[b].chain)

Within(bucket) ==
    /\ bucket.count <= (bucket.expand_mult + 1) * HASH_BKT_CAPACITY_THRESH
    /\ bucket.expand_mult > 0 =>
        bucket.count < (bucket.expand_mult + 1) * HASH_BKT_CAPACITY_THRESH

Multipliers(t) ==
    SumFunctionOnSet([b \in BucketNumbers(t) |-> t.buckets[b].expand_mult],
                     BucketNumbers(t))

Bounded(t) ==
    /\ \A b \in BucketNumbers(t) : Within(t.buckets[b])
    /\ Multipliers(t) <= t.num_buckets

Ahead(chain, order) ==
    \A m \in 1 .. Len(chain) : \A n \in 1 .. Len(chain) :
        \A p \in 1 .. Len(order) : \A q \in 1 .. Len(order) :
            m < n /\ chain[m] = order[p] /\ chain[n] = order[q] => q < p

NewestFirst(t) == \A b \in BucketNumbers(t) : Ahead(t.buckets[b].chain, t.order)

IsTable(t) ==
    /\ Placed(t)
    /\ t.noexpand = 0 => Bounded(t)
    /\ t.num_buckets = HASH_INITIAL_NUM_BUCKETS => NewestFirst(t)

Good(h) == h # NoTable => IsTable(h) /\ h.order # <<>>

Inv == conf \in Configurations /\ Good(head)

LEMMA Sizes ==
    ASSUME conf \in Configurations
    PROVE  /\ HASH_BKT_CAPACITY_THRESH \in Nat \ {0}
           /\ HASH_INITIAL_NUM_BUCKETS_LOG2 \in Nat
           /\ HASH_INITIAL_NUM_BUCKETS \in Nat \ {0}
           /\ \A i \in Item : hashv[key[i]] \in Nat
<1>1. /\ conf.thresh \in Nat \ {0} /\ conf.log2 \in Nat
      /\ DOMAIN conf.hashv = {conf.key[i] : i \in Item}
      /\ conf.hashv \in [DOMAIN conf.hashv -> Nat]
  BY ConfigurationsAssumption
<1>2. \A i \in Item : conf.key[i] \in DOMAIN conf.hashv
  BY <1>1
<1>3. \A k \in DOMAIN conf.hashv : conf.hashv[k] \in Nat
  BY <1>1
<1> QED
  BY <1>1, <1>2, <1>3, PowerOfTwoDoubles
  DEF HASH_BKT_CAPACITY_THRESH, HASH_INITIAL_NUM_BUCKETS,
      HASH_INITIAL_NUM_BUCKETS_LOG2, hashv, key

LEMMA BucketOfItem ==
    ASSUME conf \in Configurations, NEW t, Placed(t), NEW i \in Item
    PROVE  /\ BucketOf(i, t) \in BucketNumbers(t)
           /\ i \in At(t.num_buckets, BucketOf(i, t))
<1>1. t.num_buckets \in Nat \ {0} /\ hashv[key[i]] \in Nat
  BY Sizes DEF Placed, Tables
<1>2. hashv[key[i]] % t.num_buckets \in 0 .. t.num_buckets - 1
  BY <1>1
<1> QED
  BY <1>2 DEF BucketOf, HASH_TO_BKT, BucketNumbers, At

LEMMA ArrayIs ==
    ASSUME NEW n \in Nat, NEW a \in [0 .. n - 1 -> Bucket]
    PROVE  a \in BucketArray
BY DEF BucketArray

(* A sum all of whose terms are zero.                                      *)
LEMMA SumOfZeros ==
    ASSUME NEW U, IsFiniteSet(U), NEW f \in [U -> Nat], \A x \in U : f[x] = 0
    PROVE  SumFunctionOnSet(f, U) = 0
<1>1. \A x \in U : 1 * f[x] <= 0 * f[x] + 0
  OBVIOUS
<1>2. U \in SUBSET U
  OBVIOUS
<1>3. 1 * SumFunctionOnSet(f, U) <= 0 * SumFunctionOnSet(f, U) + 0 * Cardinality(U)
  BY <1>1, <1>2, SumCompare
<1>4. SumFunctionOnSet(f, U) \in Nat /\ Cardinality(U) \in Nat
  BY <1>2, SumIsNat, FS_CardinalityType
<1> QED
  BY <1>3, <1>4

LEMMA NewTable ==
    ASSUME conf \in Configurations
    PROVE  IsTable(HASH_MAKE_TABLE) /\ HASH_MAKE_TABLE.order = <<>>
<1> DEFINE t == HASH_MAKE_TABLE
           n == HASH_INITIAL_NUM_BUCKETS
<1>1. n \in Nat \ {0} /\ HASH_BKT_CAPACITY_THRESH \in Nat \ {0}
      /\ n = PowerOfTwo[HASH_INITIAL_NUM_BUCKETS_LOG2]
      /\ HASH_INITIAL_NUM_BUCKETS_LOG2 \in Nat
  BY Sizes DEF HASH_INITIAL_NUM_BUCKETS
<1> DEFINE a == [b \in 0 .. n - 1 |-> EmptyBucket]
<1>2. /\ t.order = <<>> /\ t.buckets = a /\ t.num_buckets = n /\ t.num_items = 0
      /\ t.log2_num_buckets = HASH_INITIAL_NUM_BUCKETS_LOG2
      /\ t.ineff_expands = 0 /\ t.noexpand = 0
  BY DEF HASH_MAKE_TABLE
<1>3. EmptyBucket \in Bucket
  BY DEF EmptyBucket, Bucket
<1>4. a \in [0 .. n - 1 -> Bucket]
  BY <1>3
<1>5. t \in Tables
  <2>1. a \in BucketArray
    BY <1>1, <1>4, ArrayIs
  <2> HIDE DEF a
  <2> QED
    BY <1>1, <2>1 DEF Tables, HASH_MAKE_TABLE, a
<1>6. \A b \in 0 .. n - 1 : /\ t.buckets[b].chain = <<>> /\ t.buckets[b].count = 0
                            /\ t.buckets[b].expand_mult = 0
  BY <1>2 DEF EmptyBucket
<1> HIDE DEF a, t, n
<1>7. Placed(t)
  <2>1. ToSet(<<>>) = {}
    BY DEF ToSet
  <2>2. Lists(<<>>, {}) /\ Differ(<<>>) /\ Len(<<>>) = 0
    BY DEF Lists, Differ
  <2>3. n >= n
    BY <1>1
  <2> QED
    BY <1>1, <1>2, <1>4, <1>5, <1>6, <2>1, <2>2, <2>3 DEF Placed, BucketNumbers, n
<1>8. Bounded(t)
  <2>1. \A b \in BucketNumbers(t) : Within(t.buckets[b])
    BY <1>1, <1>2, <1>6 DEF BucketNumbers, Within
  <2>2. Multipliers(t) = 0
    <3> DEFINE U == BucketNumbers(t)
               f == [b \in U |-> t.buckets[b].expand_mult]
    <3>1. IsFiniteSet(U)
      BY <1>1, <1>2, FS_Interval DEF BucketNumbers
    <3>2. \A b \in U : f[b] = 0
      BY <1>2, <1>6 DEF BucketNumbers
    <3>3. f \in [U -> Nat]
      BY <1>2, <1>6 DEF BucketNumbers
    <3> HIDE DEF f, U
    <3>4. SumFunctionOnSet(f, U) = 0
      BY <3>1, <3>2, <3>3, SumOfZeros
    <3> QED
      BY <3>4 DEF Multipliers, f, U
  <2> QED
    BY <1>1, <1>2, <2>1, <2>2 DEF Bounded
<1>9. NewestFirst(t)
  BY <1>2, <1>6 DEF NewestFirst, Ahead, BucketNumbers
<1> QED
  BY <1>2, <1>7, <1>8, <1>9 DEF IsTable, t
-----------------------------------------------------------------------------
(***************************************************************************)
(* An item added to the list of all items and to its chain.                *)
(***************************************************************************)
WithItem(t, i) ==
    LET b == BucketOf(i, t)
        u == [t EXCEPT !.order = Append(@, i), !.num_items = @ + 1]
    IN  [u EXCEPT !.buckets[b].chain = <<i>> \o @, !.buckets[b].count = @ + 1]

LEMMA WithItemIs ==
    ASSUME conf \in Configurations, NEW t, Placed(t),
           NEW i \in Item, i \notin ToSet(t.order)
    PROVE  LET b == BucketOf(i, t)
               r == WithItem(t, i)
           IN  /\ r \in Tables
               /\ r.buckets \in [BucketNumbers(t) -> Bucket]
               /\ \A c \in BucketNumbers(t) : c # b => r.buckets[c] = t.buckets[c]
               /\ r.buckets[b].chain = <<i>> \o t.buckets[b].chain
               /\ r.buckets[b].count = t.buckets[b].count + 1
               /\ r.buckets[b].expand_mult = t.buckets[b].expand_mult
               /\ r.order = Append(t.order, i) /\ r.num_items = t.num_items + 1
               /\ r.num_buckets = t.num_buckets
               /\ r.log2_num_buckets = t.log2_num_buckets
               /\ r.ineff_expands = t.ineff_expands /\ r.noexpand = t.noexpand
<1> DEFINE b == BucketOf(i, t)
           q == t.buckets[b]
           c == <<i>> \o q.chain
           new == [chain |-> c, count |-> q.count + 1, expand_mult |-> q.expand_mult]
           a == [t.buckets EXCEPT ![b] = new]
           o == Append(t.order, i)
           u == [t EXCEPT !.order = Append(@, i), !.num_items = @ + 1]
<1>1. b \in BucketNumbers(t)
  BY BucketOfItem
<1>2. /\ t \in Tables /\ t.buckets \in [BucketNumbers(t) -> Bucket]
      /\ t.num_buckets \in Nat \ {0} /\ t.order \in Seq(Item) /\ t.num_items \in Nat
  BY DEF Placed, Tables
<1> HIDE DEF b
<1>3. q \in Bucket /\ q.chain \in Seq(Item) /\ q.count \in Nat /\ q.expand_mult \in Nat
  BY <1>1, <1>2 DEF Bucket
<1>4. c \in Seq(Item)
  BY <1>3, Prepended
<1> HIDE DEF c
<1>5. new \in Bucket
  BY <1>3, <1>4 DEF Bucket
<1>6. [u.buckets EXCEPT ![b].chain = <<i>> \o @, ![b].count = @ + 1] = a
  <2>1. u.buckets = t.buckets
    BY <1>2 DEF Tables
  <2> HIDE DEF u, q, new
  <2> DEFINE y == [q EXCEPT !.chain = <<i>> \o @]
             x == [t.buckets EXCEPT ![b] = y]
  <2>2. /\ y = [chain |-> c, count |-> q.count, expand_mult |-> q.expand_mult]
        /\ y \in Bucket
    <3>1. y = [q EXCEPT !.chain = c]
      BY DEF c
    <3>2. [q EXCEPT !.chain = c] =
            [chain |-> c, count |-> q.count, expand_mult |-> q.expand_mult]
      BY <1>3 DEF Bucket
    <3> QED
      BY <1>3, <1>4, <3>1, <3>2 DEF Bucket
  <2> HIDE DEF y
  <2>3. [y EXCEPT !.count = @ + 1] = new
    BY <2>2 DEF new
  <2>4. x \in [BucketNumbers(t) -> Bucket] /\ x[b] = y
    BY <1>1, <1>2, <2>2
  <2>5. [x EXCEPT ![b] = new] = a
    BY <1>1, <1>2, <2>2
  <2>6. [u.buckets EXCEPT ![b].chain = <<i>> \o @] = x
    BY <2>1 DEF y, q
  <2> HIDE DEF x, a
  <2>7. [x EXCEPT ![b].count = @ + 1] = a
    BY <2>3, <2>4, <2>5
  <2> QED
    BY <2>6, <2>7
<1>7. WithItem(t, i) = [t EXCEPT !.order = o, !.num_items = @ + 1, !.buckets = a]
  <2>1. WithItem(t, i) =
            [u EXCEPT !.buckets[b].chain = <<i>> \o @, !.buckets[b].count = @ + 1]
    BY DEF WithItem, b
  <2>2. u = [t EXCEPT !.order = o, !.num_items = @ + 1]
    BY <1>2 DEF Tables
  <2> HIDE DEF o, a, new, q
  <2>3. u \in [DOMAIN t -> {u[x] : x \in DOMAIN t}] /\ "buckets" \in DOMAIN t
    BY <1>2 DEF Tables
  <2>4. WithItem(t, i) = [u EXCEPT !.buckets = a]
    BY <1>6, <2>1, <2>3
  <2> HIDE DEF u
  <2> QED
    BY <1>2, <2>2, <2>4 DEF Tables
<1>8. a \in [BucketNumbers(t) -> Bucket] /\ a[b] = new
      /\ \A d \in BucketNumbers(t) : d # b => a[d] = t.buckets[d]
  BY <1>1, <1>2, <1>5
<1>9. a \in BucketArray
  BY <1>2, <1>8, ArrayIs DEF BucketNumbers
<1>10. o \in Seq(Item)
  BY <1>2
<1> HIDE DEF a, o, u, q
<1>11. WithItem(t, i) =
            [order |-> o, buckets |-> a, num_buckets |-> t.num_buckets,
             log2_num_buckets |-> t.log2_num_buckets,
             num_items |-> t.num_items + 1,
             ineff_expands |-> t.ineff_expands, noexpand |-> t.noexpand]
  BY <1>2, <1>7 DEF Tables
<1>12. /\ WithItem(t, i) \in Tables
       /\ WithItem(t, i).buckets = a /\ WithItem(t, i).order = o
       /\ WithItem(t, i).num_items = t.num_items + 1
       /\ WithItem(t, i).num_buckets = t.num_buckets
       /\ WithItem(t, i).log2_num_buckets = t.log2_num_buckets
       /\ WithItem(t, i).ineff_expands = t.ineff_expands
       /\ WithItem(t, i).noexpand = t.noexpand
  BY <1>2, <1>9, <1>10, <1>11 DEF Tables
<1>13. /\ a[b].chain = <<i>> \o t.buckets[b].chain
       /\ a[b].count = t.buckets[b].count + 1
       /\ a[b].expand_mult = t.buckets[b].expand_mult
  BY <1>8 DEF c, q
<1> QED
  BY <1>8, <1>12, <1>13 DEF b, o
LEMMA WithItemPlaced ==
    ASSUME conf \in Configurations, NEW t, Placed(t),
           NEW i \in Item, i \notin ToSet(t.order)
    PROVE  /\ Placed(WithItem(t, i))
           /\ ToSet(WithItem(t, i).order) = ToSet(t.order) \cup {i}
           /\ WithItem(t, i).order # <<>>
           /\ NewestFirst(t) => NewestFirst(WithItem(t, i))
<1> DEFINE r == WithItem(t, i)
           b == BucketOf(i, t)
           S == ToSet(t.order)
           N == BucketNumbers(t)
<1>1. /\ r \in Tables
      /\ r.buckets \in [N -> Bucket]
      /\ \A c \in N : c # b => r.buckets[c] = t.buckets[c]
      /\ r.buckets[b].chain = <<i>> \o t.buckets[b].chain
      /\ r.buckets[b].count = t.buckets[b].count + 1
      /\ r.order = Append(t.order, i) /\ r.num_items = t.num_items + 1
      /\ r.num_buckets = t.num_buckets /\ r.log2_num_buckets = t.log2_num_buckets
  BY WithItemIs
<1>2. b \in N /\ i \in At(t.num_buckets, b) /\ BucketNumbers(r) = N
  BY <1>1, BucketOfItem DEF BucketNumbers
<1>3. \A c \in N : c # b => i \notin At(t.num_buckets, c)
  BY DEF At, BucketOf
<1>4. t.order \in Seq(Item) /\ Differ(t.order) /\ t.num_items = Len(t.order)
  BY DEF Placed, Tables
<1>5. Lists(t.order, S)
  BY <1>4, ListsOnce
<1>6. /\ Lists(r.order, S \cup {i})
      /\ Len(r.order) = Len(t.order) + 1 /\ r.order[Len(t.order) + 1] = i
      /\ \A n \in 1 .. Len(t.order) : r.order[n] = t.order[n]
  BY <1>1, <1>5, ListsAppend
<1> HIDE DEF r, b, N
<1>7. ToSet(r.order) = S \cup {i}
  BY <1>6, ListsCount
<1>8. r.order # <<>>
  BY <1>4, <1>6
<1>9. ASSUME NEW c \in N
      PROVE  /\ Lists(r.buckets[c].chain, ToSet(r.order) \cap At(t.num_buckets, c))
             /\ r.buckets[c].count = Len(r.buckets[c].chain)
  <2>1. /\ Lists(t.buckets[c].chain, S \cap At(t.num_buckets, c))
        /\ t.buckets[c].count = Len(t.buckets[c].chain)
    BY DEF Placed, N
  <2>2. CASE c = b
    <3>1. (S \cup {i}) \cap At(t.num_buckets, c) = (S \cap At(t.num_buckets, c)) \cup {i}
      BY <1>2, <2>2
    <3>2. i \notin S \cap At(t.num_buckets, c)
      OBVIOUS
    <3>3. /\ Lists(<<i>> \o t.buckets[c].chain, (S \cap At(t.num_buckets, c)) \cup {i})
          /\ Len(<<i>> \o t.buckets[c].chain) = Len(t.buckets[c].chain) + 1
      BY <2>1, <3>2, ListsPrepend
    <3> HIDE DEF S
    <3> QED
      BY <1>1, <1>7, <2>1, <2>2, <3>1, <3>3
  <2>3. CASE c # b
    <3>1. (S \cup {i}) \cap At(t.num_buckets, c) = S \cap At(t.num_buckets, c)
      BY <1>3, <2>3
    <3> HIDE DEF S
    <3> QED
      BY <1>1, <1>7, <2>1, <2>3, <3>1
  <2> QED
    BY <2>2, <2>3
<1>10. Placed(r)
  <2>1. t.num_buckets = PowerOfTwo[t.log2_num_buckets]
        /\ t.num_buckets >= HASH_INITIAL_NUM_BUCKETS
    BY DEF Placed
  <2>2. Differ(r.order)
    BY <1>6 DEF Lists
  <2> QED
    BY <1>1, <1>2, <1>4, <1>6, <1>9, <2>1, <2>2 DEF Placed
<1>11. ASSUME NewestFirst(t) PROVE NewestFirst(r)
  <2> SUFFICES ASSUME NEW c \in N PROVE Ahead(r.buckets[c].chain, r.order)
    BY <1>2 DEF NewestFirst
  <2>1. /\ Lists(t.buckets[c].chain, S \cap At(t.num_buckets, c))
        /\ Ahead(t.buckets[c].chain, t.order)
    BY <1>11 DEF Placed, NewestFirst, N
  <2> DEFINE old == t.buckets[c].chain
             new == r.buckets[c].chain
  <2>2. old \in Seq(S) /\ Len(old) \in Nat /\ Len(t.order) \in Nat
        /\ \A n \in 1 .. Len(old) : old[n] \in S
    BY <1>4, <2>1 DEF Lists
  <2>3. \A p \in 1 .. Len(r.order) : r.order[p] = i <=> p = Len(t.order) + 1
    BY <1>4, <1>6 DEF Lists, Differ
  <2>4. \A p \in 1 .. Len(r.order) : p # Len(t.order) + 1 =>
            p \in 1 .. Len(t.order) /\ r.order[p] = t.order[p]
    BY <1>6, <2>2
  <2>5. CASE c = b
    <3>1. /\ Len(new) = Len(old) + 1 /\ new[1] = i
          /\ \A n \in 1 .. Len(old) : new[n + 1] = old[n]
      <4>1. i \notin S \cap At(t.num_buckets, c)
        OBVIOUS
      <4>2. /\ Len(<<i>> \o old) = Len(old) + 1 /\ (<<i>> \o old)[1] = i
            /\ \A n \in 1 .. Len(old) : (<<i>> \o old)[n + 1] = old[n]
        <5> DEFINE Q == S \cap At(t.num_buckets, c)
        <5>1. Lists(old, Q) /\ i \notin Q
          BY <2>1, <4>1
        <5> HIDE DEF Q, old
        <5> QED
          BY <5>1, ListsPrepend
      <4>3. new = <<i>> \o old
        BY <1>1, <2>5
      <4> HIDE DEF new, old
      <4> QED
        BY <4>2, <4>3
    <3> HIDE DEF old, new, S
    <3> SUFFICES ASSUME NEW m \in 1 .. Len(new), NEW n \in 1 .. Len(new), m < n,
                        NEW p \in 1 .. Len(r.order), NEW q \in 1 .. Len(r.order),
                        new[m] = r.order[p], new[n] = r.order[q]
                 PROVE  q < p
      BY DEF Ahead, new
    <3>2. n - 1 \in 1 .. Len(old) /\ (n - 1) + 1 = n
      BY <2>2, <3>1
    <3>3. new[n] = old[n - 1] /\ old[n - 1] \in S
      BY <2>2, <3>1, <3>2
    <3>4. q # Len(t.order) + 1
      <4>1. i \notin S
        BY DEF S
      <4> QED
        BY <2>3, <3>3, <4>1
    <3>5. q \in 1 .. Len(t.order) /\ r.order[q] = t.order[q]
      BY <2>4, <3>4
    <3>6. CASE m = 1
      <4>1. p = Len(t.order) + 1
        BY <2>3, <3>1, <3>6
      <4> QED
        BY <2>2, <3>5, <4>1
    <3>7. CASE m # 1
      <4>1. m - 1 \in 1 .. Len(old) /\ (m - 1) + 1 = m /\ m - 1 < n - 1
        BY <2>2, <3>1, <3>7
      <4>2. new[m] = old[m - 1] /\ old[m - 1] \in S
        BY <2>2, <3>1, <4>1
      <4>3. p # Len(t.order) + 1
        <5>1. i \notin S
          BY DEF S
        <5> QED
          BY <2>3, <4>2, <5>1
      <4>4. p \in 1 .. Len(t.order) /\ r.order[p] = t.order[p]
        BY <2>4, <4>3
      <4>5. old[m - 1] = t.order[p] /\ old[n - 1] = t.order[q]
        BY <3>3, <3>5, <4>2, <4>4
      <4>6. Ahead(old, t.order)
        BY <2>1 DEF old
      <4> QED
        BY <3>2, <3>5, <4>1, <4>4, <4>5, <4>6 DEF Ahead
    <3> QED
      BY <3>6, <3>7
  <2>6. CASE c # b
    <3>1. new = old
      BY <1>1, <2>6
    <3> HIDE DEF new, old, S
    <3> SUFFICES ASSUME NEW m \in 1 .. Len(old), NEW n \in 1 .. Len(old), m < n,
                        NEW p \in 1 .. Len(r.order), NEW q \in 1 .. Len(r.order),
                        old[m] = r.order[p], old[n] = r.order[q]
                 PROVE  q < p
      BY <3>1 DEF Ahead, new
    <3>2. i \notin S
      BY DEF S
    <3>3. p # Len(t.order) + 1 /\ q # Len(t.order) + 1
      BY <2>2, <2>3, <3>2
    <3>4. /\ p \in 1 .. Len(t.order) /\ r.order[p] = t.order[p]
          /\ q \in 1 .. Len(t.order) /\ r.order[q] = t.order[q]
      BY <2>4, <3>3
    <3>5. Ahead(old, t.order)
      BY <2>1 DEF old
    <3> QED
      BY <3>4, <3>5 DEF Ahead
  <2> QED
    BY <2>5, <2>6
<1> QED
  BY <1>7, <1>8, <1>10, <1>11 DEF r
-----------------------------------------------------------------------------
(***************************************************************************)
(* The counts.                                                             *)
(***************************************************************************)
Counts(t) == [b \in BucketNumbers(t) |-> t.buckets[b].count]

LEMMA CountsAddUp ==
    ASSUME conf \in Configurations, NEW t, Placed(t)
    PROVE  /\ IsFiniteSet(BucketNumbers(t))
           /\ Cardinality(BucketNumbers(t)) = t.num_buckets
           /\ Counts(t) \in [BucketNumbers(t) -> Nat]
           /\ IsFiniteSet(ToSet(t.order))
           /\ t.num_items = Cardinality(ToSet(t.order))
           /\ SumFunctionOnSet(Counts(t), BucketNumbers(t)) = t.num_items
<1> DEFINE S == ToSet(t.order)
           U == BucketNumbers(t)
           part == [i \in S |-> BucketOf(i, t)]
<1>1. t.num_buckets \in Nat /\ t.buckets \in [U -> Bucket] /\ t.order \in Seq(Item)
  BY DEF Placed, Tables
<1>2. IsFiniteSet(U) /\ Cardinality(U) = t.num_buckets
  <2> DEFINE n == t.num_buckets
  <2>1. n \in Nat \ {0} /\ U = 0 .. n - 1
    BY DEF BucketNumbers, Placed, Tables
  <2> HIDE DEF n, U
  <2>2. IsFiniteSet(0 .. n - 1) /\ Cardinality(0 .. n - 1) = (n - 1) - 0 + 1
    BY <2>1, FS_Interval
  <2>3. (n - 1) - 0 + 1 = n
    BY <2>1
  <2> QED
    BY <2>1, <2>2, <2>3 DEF n
<1>3. Counts(t) \in [U -> Nat]
  BY <1>1 DEF Counts, Bucket
<1>4. Lists(t.order, S)
  BY <1>1, ListsOnce DEF Placed
<1>5. IsFiniteSet(S) /\ t.num_items = Cardinality(S)
  BY <1>4, ListsCount DEF Placed
<1>6. S \in SUBSET Item
  BY <1>1 DEF ToSet
<1> HIDE DEF S
<1>7. part \in [S -> U]
  BY <1>6, BucketOfItem
<1>8. ASSUME NEW b \in U
      PROVE  Counts(t)[b] = Cardinality({i \in S : part[i] = b})
  <2>1. {i \in S : part[i] = b} = S \cap At(t.num_buckets, b)
    BY <1>6 DEF At, BucketOf
  <2>2. /\ Lists(t.buckets[b].chain, S \cap At(t.num_buckets, b))
        /\ t.buckets[b].count = Len(t.buckets[b].chain)
    BY DEF Placed, S
  <2>3. Counts(t)[b] = t.buckets[b].count
    BY DEF Counts
  <2> HIDE DEF part, U
  <2> QED
    BY <2>1, <2>2, <2>3, ListsCount
<1> HIDE DEF part, U
<1>9. SumFunctionOnSet(Counts(t), U) = Cardinality(S)
  BY <1>2, <1>3, <1>5, <1>7, <1>8, SumOfParts
<1> QED
  BY <1>2, <1>3, <1>5, <1>9 DEF S, U

(* A table within its bounds that takes one more item has, on average over *)
(* twice the buckets, chains no longer than the threshold.                 *)
LEMMA RoomLeft ==
    ASSUME conf \in Configurations, NEW t, Placed(t), Bounded(t)
    PROVE  t.num_items + 1 <= (2 * t.num_buckets) * HASH_BKT_CAPACITY_THRESH
<1> DEFINE U == BucketNumbers(t)
           f == Counts(t)
           g == [b \in U |-> t.buckets[b].expand_mult]
           c == HASH_BKT_CAPACITY_THRESH
           n == t.num_buckets
           items == t.num_items
           mults == SumFunctionOnSet(g, U)
<1>1. /\ IsFiniteSet(U) /\ Cardinality(U) = n /\ f \in [U -> Nat]
      /\ SumFunctionOnSet(f, U) = items
  BY CountsAddUp
<1>2. c \in Nat \ {0} /\ n \in Nat \ {0} /\ t.buckets \in [U -> Bucket]
  BY Sizes DEF Placed, Tables
<1>3. g \in [U -> Nat]
  BY <1>2 DEF Bucket
<1>4. mults <= n
  BY DEF Bounded, Multipliers
<1>5. U \in SUBSET U
  OBVIOUS
<1>6. mults \in Nat /\ items \in Nat
  <2> HIDE DEF g, f, U
  <2> QED
    BY <1>1, <1>3, <1>5, SumIsNat
<1>7. \A x \in U : /\ f[x] <= c * g[x] + c
                   /\ g[x] > 0 => f[x] < c * g[x] + c
  <2> SUFFICES ASSUME NEW x \in U
               PROVE  /\ f[x] <= c * g[x] + c
                      /\ g[x] > 0 => f[x] < c * g[x] + c
    OBVIOUS
  <2>1. Within(t.buckets[x])
    BY DEF Bounded
  <2>2. f[x] = t.buckets[x].count /\ g[x] = t.buckets[x].expand_mult
    BY DEF Counts
  <2>3. f[x] \in Nat /\ g[x] \in Nat
    BY <1>1, <1>3
  <2> DEFINE k == f[x]
             m == g[x]
  <2>4. k <= (m + 1) * c /\ (m > 0 => k < (m + 1) * c)
    BY <2>1, <2>2 DEF Within
  <2>5. k \in Nat /\ m \in Nat
    BY <2>3
  <2> HIDE DEF k, m, c
  <2>6. (m + 1) * c = c * m + c
    BY <1>2, <2>5
  <2>7. k <= c * m + c /\ (m > 0 => k < c * m + c)
    BY <2>4, <2>6
  <2> QED
    BY <2>7 DEF k, m
<1> HIDE DEF U, f, g, c, n, items
<1>8. CASE \E y \in U : g[y] > 0
  <2>1. PICK y \in U : g[y] > 0
    BY <1>8
  <2>2. \A x \in U : f[x] <= c * g[x] + c
    BY <1>7
  <2>3. f[y] < c * g[y] + c
    BY <1>7, <2>1
  <2>4. SumFunctionOnSet(f, U) < c * mults + c * Cardinality(U)
    BY <1>1, <1>2, <1>3, <2>2, <2>3, SumStrict
  <2>5. items < c * mults + c * n
    BY <1>1, <2>4
  <2> HIDE DEF mults
  <2>6. c * mults <= c * n
    BY <1>2, <1>4, <1>6
  <2>7. (2 * n) * c = c * n + c * n
    BY <1>2
  <2>8. c * mults \in Nat /\ c * n \in Nat
    BY <1>2, <1>6
  <2>9. items + 1 <= (2 * n) * c
    BY <1>6, <2>5, <2>6, <2>7, <2>8
  <2> QED
    BY <2>9 DEF items, n, c
<1>9. CASE \A y \in U : ~(g[y] > 0)
  <2>1. \A x \in U : g[x] = 0
    BY <1>3, <1>9
  <2>2. \A x \in U : 1 * f[x] <= 0 * g[x] + c
    BY <1>1, <1>2, <1>7, <2>1
  <2>3. 1 * SumFunctionOnSet(f, U) <= 0 * mults + c * Cardinality(U)
    BY <1>1, <1>2, <1>3, <1>5, <2>2, SumCompare
  <2> HIDE DEF mults
  <2>4. items <= c * n
    BY <1>1, <1>2, <1>6, <2>3
  <2>5. (2 * n) * c = c * n + c * n /\ 1 <= c * n /\ c * n \in Nat
    BY <1>2
  <2>6. items + 1 <= (2 * n) * c
    BY <1>6, <2>4, <2>5
  <2> QED
    BY <2>6 DEF items, n, c
<1> QED
  BY <1>8, <1>9
(* No bucket outgrows its bound that is not found overfull.                *)
LEMMA WithItemBounded ==
    ASSUME conf \in Configurations, NEW t, Placed(t), Bounded(t),
           NEW i \in Item, i \notin ToSet(t.order),
           ~Overfull(WithItem(t, i), BucketOf(i, t))
    PROVE  Bounded(WithItem(t, i))
<1> DEFINE r == WithItem(t, i)
           b == BucketOf(i, t)
           N == BucketNumbers(t)
<1>1. /\ r.buckets \in [N -> Bucket]
      /\ \A c \in N : c # b => r.buckets[c] = t.buckets[c]
      /\ r.buckets[b].expand_mult = t.buckets[b].expand_mult
      /\ r.num_buckets = t.num_buckets
  BY WithItemIs
<1>2. BucketNumbers(r) = N
  BY <1>1 DEF BucketNumbers
<1>3. Within(r.buckets[b])
  <2> DEFINE k == r.buckets[b].count
             m == r.buckets[b].expand_mult
             c == HASH_BKT_CAPACITY_THRESH
  <2>1. ~(k >= (m + 1) * c)
    BY DEF Overfull
  <2>2. k \in Nat /\ m \in Nat /\ c \in Nat \ {0}
    BY <1>1, BucketOfItem, Sizes DEF Bucket
  <2> HIDE DEF k, m, c
  <2>3. (m + 1) * c \in Nat
    BY <2>2
  <2>4. k < (m + 1) * c
    BY <2>1, <2>2, <2>3
  <2>5. k <= (m + 1) * c
    BY <2>2, <2>3, <2>4
  <2> QED
    BY <2>4, <2>5 DEF Within, k, m, c
<1>4. \A c \in N : Within(r.buckets[c])
  <2> HIDE DEF r, b, N
  <2>1. \A c \in N : Within(t.buckets[c])
    BY DEF Bounded, N
  <2> QED
    BY <1>1, <1>3, <2>1
<1>5. Multipliers(r) = Multipliers(t)
  <2> HIDE DEF r, b
  <2>1. \A c \in N : r.buckets[c].expand_mult = t.buckets[c].expand_mult
    BY <1>1
  <2>2. [c \in N |-> r.buckets[c].expand_mult] = [c \in N |-> t.buckets[c].expand_mult]
    BY <2>1
  <2> HIDE DEF N
  <2>3. Multipliers(r) = SumFunctionOnSet([c \in N |-> r.buckets[c].expand_mult], N)
    BY <1>2 DEF Multipliers
  <2>4. Multipliers(t) = SumFunctionOnSet([c \in N |-> t.buckets[c].expand_mult], N)
    BY DEF Multipliers, N
  <2> QED
    BY <2>2, <2>3, <2>4
<1>6. Multipliers(t) <= t.num_buckets
  BY DEF Bounded
<1> HIDE DEF r, b, N
<1>7. Bounded(r)
  BY <1>1, <1>2, <1>4, <1>5, <1>6 DEF Bounded
<1> QED
  BY <1>7 DEF r
-----------------------------------------------------------------------------
(***************************************************************************)
(* An expansion.                                                           *)
(***************************************************************************)
(* The rounded-up average: no more than any bound on the average, and      *)
(* enough for all items.                                                   *)
LEMMA IdealChain ==
    ASSUME NEW t, Placed(t), t.num_items > 0
    PROVE  /\ ideal_chain_maxlen(t) \in Nat \ {0}
           /\ t.num_items <= ideal_chain_maxlen(t) * (2 * t.num_buckets)
           /\ \A c \in Nat : t.num_items <= (2 * t.num_buckets) * c
                                => ideal_chain_maxlen(t) <= c
<1> DEFINE a == t.num_items
           d == 2 * t.num_buckets
           q == a \div d
           m == a % d
           up == IF m # 0 THEN 1 ELSE 0
<1>1. a \in Nat \ {0} /\ d \in Nat \ {0}
  BY DEF Placed, Tables
<1>2. PowerOfTwo[t.log2_num_buckets + 1] = d
  BY PowerOfTwoDoubles DEF Placed, Tables
<1>3. ideal_chain_maxlen(t) = q + up
  BY <1>2 DEF ideal_chain_maxlen
<1> HIDE DEF a, d
<1>4. q \in Nat /\ m \in 0 .. d - 1 /\ a = d * q + m
  BY <1>1
<1> HIDE DEF q, m
<1>5. up \in 0 .. 1 /\ (up = 0 => m = 0) /\ (up = 1 => m > 0)
  BY <1>4
<1> HIDE DEF up
<1>6. (q + up) * d = d * q + up * d
  BY <1>1, <1>4, <1>5
<1>7. a <= (q + up) * d
  <2>1. m <= up * d
    BY <1>1, <1>4, <1>5
  <2>2. d * q \in Nat /\ up * d \in Nat
    BY <1>1, <1>4, <1>5
  <2> QED
    BY <1>4, <1>6, <2>1, <2>2
<1>8. q + up \in Nat \ {0}
  <2>1. q + up # 0
    <3> SUFFICES ASSUME q = 0, up = 0 PROVE FALSE
      BY <1>4, <1>5
    <3> QED
      BY <1>1, <1>4, <1>5
  <2> QED
    BY <1>4, <1>5, <2>1
<1>9. ASSUME NEW c \in Nat, a <= d * c PROVE q + up <= c
  <2>1. CASE up = 0
    <3>1. ~(c < q)
      <4> SUFFICES ASSUME c + 1 <= q PROVE FALSE
        BY <1>4
      <4>1. d * (c + 1) <= d * q
        BY <1>1, <1>4
      <4>2. d * (c + 1) = d * c + d /\ d * c \in Nat /\ d * q \in Nat
        BY <1>1, <1>4
      <4> QED
        BY <1>1, <1>4, <1>9, <4>1, <4>2
    <3> QED
      BY <1>4, <2>1, <3>1
  <2>2. CASE up = 1
    <3>1. ~(c <= q)
      <4> SUFFICES ASSUME c <= q PROVE FALSE
        OBVIOUS
      <4>1. d * c <= d * q
        BY <1>1, <1>4
      <4>2. d * c \in Nat /\ d * q \in Nat
        BY <1>1, <1>4
      <4> QED
        BY <1>1, <1>4, <1>5, <1>9, <2>2, <4>1, <4>2
    <3> QED
      BY <1>4, <2>2, <3>1
  <2> QED
    BY <1>5, <2>1, <2>2
<1> QED
  BY <1>3, <1>7, <1>8, <1>9 DEF a, d

(* The multiplier of a new bucket.                                         *)
LEMMA NewBucketIs ==
    ASSUME NEW chain \in Seq(Item), NEW ideal \in Nat \ {0}
    PROVE  LET k == NewBucket(chain, ideal)
           IN  /\ k \in Bucket
               /\ k.chain = chain /\ k.count = Len(chain)
               /\ ideal * k.expand_mult <= k.count
               /\ \A c \in Nat : ideal <= c =>
                    /\ k.count <= (k.expand_mult + 1) * c
                    /\ k.expand_mult > 0 => k.count < (k.expand_mult + 1) * c
<1> DEFINE k == NewBucket(chain, ideal)
           n == Len(chain)
           m == IF n > ideal THEN n \div ideal ELSE 0
<1>0. k = [chain |-> chain, count |-> n, expand_mult |-> m]
  BY DEF NewBucket
<1>1. n \in Nat /\ m = IF n > ideal THEN n \div ideal ELSE 0
  OBVIOUS
<1> HIDE DEF k, n, m
<1>2. n \div ideal \in Nat /\ ideal * (n \div ideal) <= n
      /\ n < ideal * (n \div ideal) + ideal
  <2> DEFINE q == n \div ideal
             r == n % ideal
  <2>1. q \in Nat /\ r \in 0 .. ideal - 1 /\ n = ideal * q + r
    BY <1>1
  <2> HIDE DEF q, r
  <2>2. ideal * q \in Nat
    BY <2>1
  <2>3. q \in Nat /\ ideal * q <= n /\ n < ideal * q + ideal
    BY <1>1, <2>1, <2>2
  <2> QED
    BY <2>3 DEF q
<1>3. m \in Nat /\ ideal * m <= n /\ (m > 0 => n < ideal * m + ideal)
      /\ n <= ideal * m + ideal
  <2>1. CASE n > ideal
    <3>1. m = n \div ideal
      BY <1>1, <2>1
    <3>2. m \in Nat /\ ideal * m <= n /\ n < ideal * m + ideal
      BY <1>2, <3>1
    <3>3. ideal * m \in Nat
      BY <3>2
    <3> QED
      BY <1>1, <3>2, <3>3
  <2>2. CASE ~(n > ideal)
    <3>1. m = 0 /\ n <= ideal /\ ideal * 0 = 0
      BY <1>1, <2>2
    <3> QED
      BY <1>1, <3>1
  <2> QED
    BY <2>1, <2>2
<1>4. ASSUME NEW c \in Nat, ideal <= c
      PROVE  n <= (m + 1) * c /\ (m > 0 => n < (m + 1) * c)
  <2>1. (m + 1) * c = m * c + c /\ (m + 1) * ideal = ideal * m + ideal
    BY <1>3
  <2>2. (m + 1) * ideal <= (m + 1) * c
    BY <1>3, <1>4
  <2>3. (m + 1) * ideal \in Nat /\ (m + 1) * c \in Nat
    BY <1>3
  <2> QED
    BY <1>1, <1>3, <2>1, <2>2, <2>3
<1>5. k \in Bucket
  BY <1>0, <1>1, <1>3 DEF Bucket
<1>6. k.chain = chain /\ k.count = n /\ k.expand_mult = m
  BY <1>0
<1> QED
  BY <1>3, <1>4, <1>5, <1>6 DEF k, n
LEMMA ExpandIs ==
    ASSUME conf \in Configurations, NEW t, Placed(t), t.num_items > 0
    PROVE  LET r == HASH_EXPAND_BUCKETS(t)
           IN  /\ r \in Tables
               /\ r.order = t.order /\ r.num_items = t.num_items
               /\ r.num_buckets = 2 * t.num_buckets
               /\ r.log2_num_buckets = t.log2_num_buckets + 1
               /\ r.noexpand = 0 => t.noexpand = 0
               /\ r.buckets \in [0 .. 2 * t.num_buckets - 1 -> Bucket]
               /\ \A b \in 0 .. 2 * t.num_buckets - 1 :
                    /\ Lists(Rehashed(t, b),
                             ToSet(t.order) \cap At(2 * t.num_buckets, b))
                    /\ r.buckets[b] =
                            NewBucket(Rehashed(t, b), ideal_chain_maxlen(t))
<1> DEFINE r == HASH_EXPAND_BUCKETS(t)
           n == 2 * t.num_buckets
           ideal == ideal_chain_maxlen(t)
           new == [b \in 0 .. n - 1 |-> NewBucket(Rehashed(t, b), ideal)]
           S == ToSet(t.order)
<1>1. /\ t \in Tables /\ t.num_buckets \in Nat \ {0} /\ t.ineff_expands \in Nat
      /\ t.log2_num_buckets \in Nat /\ t.noexpand \in {0, 1} /\ n \in Nat
      /\ t.order \in Seq(Item)
  BY DEF Placed, Tables
<1>2. ideal \in Nat \ {0}
  BY IdealChain
<1>3. ASSUME NEW b \in 0 .. n - 1
      PROVE  Lists(Rehashed(t, b), S \cap At(n, b))
  <2> DEFINE c == b % t.num_buckets
  <2>1. c \in BucketNumbers(t)
    BY <1>1 DEF BucketNumbers
  <2> HIDE DEF c
  <2>2. Lists(t.buckets[c].chain, S \cap At(t.num_buckets, c))
    BY <2>1 DEF Placed
  <2> DEFINE Q == S \cap At(t.num_buckets, c)
  <2>3. Q \in SUBSET Item
    BY DEF At
  <2>4. Lists(Rehashed(t, b), Q \cap At(n, b))
    <3> HIDE DEF Q
    <3>1. Lists(t.buckets[b % t.num_buckets].chain, Q)
      BY <2>2 DEF Q, c
    <3> QED
      BY <2>3, <3>1, RehashedLists
  <2>5. At(n, b) \subseteq At(t.num_buckets, c)
    <3> SUFFICES ASSUME NEW i \in Item, HASH_TO_BKT(hashv[key[i]], n) = b
                 PROVE  HASH_TO_BKT(hashv[key[i]], t.num_buckets) = c
      BY DEF At
    <3> DEFINE h == hashv[key[i]]
               d == t.num_buckets
    <3>1. h \in Nat /\ d \in Nat /\ d > 0
      BY <1>1, Sizes
    <3> HIDE DEF h, d
    <3>2. (h % (2 * d)) % d = h % d
      BY <3>1, OldBucket
    <3>3. h % (2 * d) = b
      BY DEF HASH_TO_BKT, h, d
    <3>4. c = b % d
      BY DEF c, d
    <3>5. h % d = c
      BY <3>2, <3>3, <3>4
    <3> QED
      BY <3>5 DEF HASH_TO_BKT, h, d
  <2>6. Q \cap At(n, b) = S \cap At(n, b)
    BY <2>5
  <2> HIDE DEF Q, S, n
  <2> QED
    BY <2>4, <2>6
<1>4. S \in SUBSET Item
  BY <1>1 DEF ToSet
<1> HIDE DEF n, S, ideal
<1>5. ASSUME NEW b \in 0 .. n - 1
      PROVE  Rehashed(t, b) \in Seq(Item)
  <2>1. Rehashed(t, b) \in Seq(S \cap At(n, b))
    BY <1>3 DEF Lists
  <2> QED
    BY <1>4, <2>1
<1>6. \A b \in 0 .. n - 1 : NewBucket(Rehashed(t, b), ideal) \in Bucket
  BY <1>2, <1>5, NewBucketIs
<1>7. new \in [0 .. n - 1 -> Bucket]
  BY <1>6
<1>8. new \in BucketArray
  <2> HIDE DEF new
  <2> QED
    BY <1>1, <1>7, ArrayIs
<1> DEFINE sum == SumFunction([b \in DOMAIN new |-> Max({0, new[b].count - ideal})])
           ineff == IF sum > t.num_items \div 2 THEN t.ineff_expands + 1 ELSE 0
           no == IF ineff > 1 THEN 1 ELSE t.noexpand
<1>9. r = [t EXCEPT !.buckets = new, !.num_buckets = 2 * @,
                    !.log2_num_buckets = @ + 1, !.ineff_expands = ineff,
                    !.noexpand = no]
  BY <1>1, Zenon DEF HASH_EXPAND_BUCKETS, Tables, n, ideal
<1> HIDE DEF r, new, sum
<1>10. ineff \in Nat
  BY <1>1
<1> HIDE DEF ineff
<1>11. no \in {0, 1} /\ (no = 0 => t.noexpand = 0)
  BY <1>1
<1> HIDE DEF no
<1>12. r = [order |-> t.order, buckets |-> new, num_buckets |-> n,
            log2_num_buckets |-> t.log2_num_buckets + 1,
            num_items |-> t.num_items, ineff_expands |-> ineff, noexpand |-> no]
  BY <1>1, <1>9 DEF Tables, n
<1>13. n \in Nat \ {0} /\ t.num_items \in Nat
  BY <1>1 DEF n, Tables
<1>14. r \in Tables
  BY <1>1, <1>8, <1>10, <1>11, <1>12, <1>13 DEF Tables
<1>15. /\ r.order = t.order /\ r.buckets = new /\ r.num_buckets = n
       /\ r.log2_num_buckets = t.log2_num_buckets + 1
       /\ r.num_items = t.num_items /\ r.noexpand = no
  BY <1>12
<1>16. \A b \in 0 .. n - 1 : new[b] = NewBucket(Rehashed(t, b), ideal)
  BY DEF new
<1> QED
  BY <1>3, <1>7, <1>11, <1>14, <1>15, <1>16 DEF r, n, S, ideal
LEMMA ExpandPlaced ==
    ASSUME conf \in Configurations, NEW t, Placed(t), t.num_items > 0
    PROVE  /\ Placed(HASH_EXPAND_BUCKETS(t))
           /\ HASH_EXPAND_BUCKETS(t).num_buckets # HASH_INITIAL_NUM_BUCKETS
<1> DEFINE r == HASH_EXPAND_BUCKETS(t)
           n == 2 * t.num_buckets
           ideal == ideal_chain_maxlen(t)
           S == ToSet(t.order)
<1>1. /\ r \in Tables
      /\ r.order = t.order /\ r.num_items = t.num_items
      /\ r.num_buckets = n
      /\ r.log2_num_buckets = t.log2_num_buckets + 1
      /\ r.buckets \in [0 .. n - 1 -> Bucket]
      /\ \A b \in 0 .. n - 1 :
            /\ Lists(Rehashed(t, b), S \cap At(n, b))
            /\ r.buckets[b] = NewBucket(Rehashed(t, b), ideal)
  BY ExpandIs
<1>2. t.num_buckets \in Nat \ {0} /\ t.log2_num_buckets \in Nat
      /\ t.num_buckets >= HASH_INITIAL_NUM_BUCKETS
  BY DEF Placed, Tables
<1>3. n >= HASH_INITIAL_NUM_BUCKETS /\ n # HASH_INITIAL_NUM_BUCKETS
  BY <1>2, Sizes
<1>4. n = PowerOfTwo[t.log2_num_buckets + 1]
  BY <1>2, PowerOfTwoDoubles DEF Placed
<1>5. S \in SUBSET Item
  BY DEF ToSet, Placed, Tables
<1>6. ideal \in Nat \ {0}
  BY IdealChain
<1> HIDE DEF r, n, ideal, S
<1>7. ASSUME NEW b \in 0 .. n - 1
      PROVE  /\ Lists(r.buckets[b].chain, S \cap At(n, b))
             /\ r.buckets[b].count = Len(r.buckets[b].chain)
  <2> DEFINE c == Rehashed(t, b)
  <2>1. Lists(c, S \cap At(n, b)) /\ r.buckets[b] = NewBucket(c, ideal)
    BY <1>1
  <2> HIDE DEF c
  <2>2. c \in Seq(Item)
    BY <1>5, <2>1 DEF Lists
  <2>3. NewBucket(c, ideal).chain = c /\ NewBucket(c, ideal).count = Len(c)
    BY <1>6, <2>2, NewBucketIs
  <2> QED
    BY <2>1, <2>3
<1>8. Differ(t.order) /\ t.num_items = Len(t.order)
  BY DEF Placed
<1>9. BucketNumbers(r) = 0 .. n - 1
  BY <1>1 DEF BucketNumbers
<1>10. Placed(r)
  <2>1. ToSet(r.order) = S
    BY <1>1 DEF S
  <2> QED
    BY <1>1, <1>3, <1>4, <1>7, <1>8, <1>9, <2>1 DEF Placed
<1> QED
  BY <1>1, <1>3, <1>10 DEF r

LEMMA ExpandBounded ==
    ASSUME conf \in Configurations, NEW t, Placed(t), t.num_items > 0,
           t.num_items <= (2 * t.num_buckets) * HASH_BKT_CAPACITY_THRESH
    PROVE  Bounded(HASH_EXPAND_BUCKETS(t))
<1> DEFINE r == HASH_EXPAND_BUCKETS(t)
           n == 2 * t.num_buckets
           ideal == ideal_chain_maxlen(t)
           c == HASH_BKT_CAPACITY_THRESH
           U == BucketNumbers(r)
           f == Counts(r)
           g == [b \in U |-> r.buckets[b].expand_mult]
           mults == SumFunctionOnSet(g, U)
           items == t.num_items
<1>1. Placed(r)
  BY ExpandPlaced
<1>2. /\ r.num_items = items /\ r.num_buckets = n
      /\ r.buckets \in [0 .. n - 1 -> Bucket]
      /\ \A b \in 0 .. n - 1 :
            /\ Lists(Rehashed(t, b), ToSet(t.order) \cap At(n, b))
            /\ r.buckets[b] = NewBucket(Rehashed(t, b), ideal)
  BY ExpandIs
<1>3. /\ ideal \in Nat \ {0} /\ items <= ideal * n /\ c \in Nat \ {0}
      /\ ideal <= c
  BY IdealChain, Sizes
<1>4. n \in Nat \ {0} /\ items \in Nat
  BY DEF Placed, Tables
<1>5. /\ IsFiniteSet(U) /\ Cardinality(U) = n /\ f \in [U -> Nat]
      /\ SumFunctionOnSet(f, U) = items
  <2> HIDE DEF r
  <2> QED
    BY <1>1, <1>2, CountsAddUp
<1>6. U = 0 .. n - 1
  BY <1>2 DEF BucketNumbers
<1>7. ASSUME NEW b \in U
      PROVE  /\ Within(r.buckets[b])
             /\ ideal * r.buckets[b].expand_mult <= r.buckets[b].count
  <2> DEFINE chain == Rehashed(t, b)
  <2>1. Lists(chain, ToSet(t.order) \cap At(n, b)) /\ r.buckets[b] = NewBucket(chain, ideal)
    BY <1>2, <1>6
  <2> HIDE DEF chain, r, n, ideal, c
  <2>2. chain \in Seq(Item)
    BY <2>1 DEF Lists, At
  <2>3. LET k == NewBucket(chain, ideal)
        IN  /\ ideal * k.expand_mult <= k.count
            /\ k.count <= (k.expand_mult + 1) * c
            /\ k.expand_mult > 0 => k.count < (k.expand_mult + 1) * c
    BY <1>3, <2>2, NewBucketIs
  <2> QED
    BY <2>1, <2>3 DEF Within, c
<1>8. g \in [U -> Nat]
  BY <1>2, <1>6 DEF Bucket
<1>9. \A b \in U : ideal * g[b] <= 1 * f[b] + 0
  <2> SUFFICES ASSUME NEW b \in U PROVE ideal * g[b] <= 1 * f[b] + 0
    OBVIOUS
  <2>1. g[b] = r.buckets[b].expand_mult /\ f[b] = r.buckets[b].count
    BY DEF Counts
  <2>2. f[b] \in Nat
    BY <1>5
  <2> HIDE DEF f, g, r, ideal, U
  <2> QED
    BY <1>7, <2>1, <2>2
<1>10. mults <= n
  <2> HIDE DEF U, f, g, n, ideal, items
  <2>1. U \in SUBSET U
    OBVIOUS
  <2>2. mults \in Nat
    BY <1>5, <1>8, <2>1, SumIsNat
  <2>3. ideal * mults <= 1 * items + 0 * n
    BY <1>3, <1>5, <1>8, <1>9, <2>1, SumCompare
  <2> HIDE DEF mults
  <2>4. ideal * mults <= ideal * n
    <3>1. 1 * items + 0 * n = items
      BY <1>4
    <3>2. ideal * mults \in Nat /\ ideal * n \in Nat
      BY <1>3, <1>4, <2>2
    <3> QED
      BY <1>3, <1>4, <2>3, <3>1, <3>2
  <2>5. ~(n + 1 <= mults)
    <3> SUFFICES ASSUME n + 1 <= mults PROVE FALSE
      OBVIOUS
    <3>1. ideal * (n + 1) <= ideal * mults
      BY <1>3, <1>4, <2>2
    <3>2. ideal * (n + 1) = ideal * n + ideal /\ ideal * n \in Nat
          /\ ideal * mults \in Nat
      BY <1>3, <1>4, <2>2
    <3> QED
      BY <1>3, <2>4, <3>1, <3>2
  <2> QED
    BY <1>4, <2>2, <2>5
<1>11. Bounded(r)
  <2>1. Multipliers(r) = mults
    BY DEF Multipliers
  <2> HIDE DEF r, mults, n
  <2> QED
    BY <1>2, <1>7, <1>10, <2>1 DEF Bounded
<1> QED
  BY <1>11
-----------------------------------------------------------------------------
(***************************************************************************)
(* The operations.                                                         *)
(***************************************************************************)
LEMMA AddKeeps ==
    ASSUME conf \in Configurations, NEW t, IsTable(t),
           NEW i \in Item, i \notin ToSet(t.order)
    PROVE  LET r == HASH_ADD_TO_BKT([t EXCEPT !.order = Append(@, i),
                                              !.num_items = @ + 1],
                                    BucketOf(i, t), i)
           IN  /\ IsTable(r) /\ r.order # <<>>
               /\ ToSet(r.order) = ToSet(t.order) \cup {i}
<1> DEFINE b == BucketOf(i, t)
           u == [t EXCEPT !.order = Append(@, i), !.num_items = @ + 1]
           w == WithItem(t, i)
           r == HASH_ADD_TO_BKT(u, b, i)
<1>1. Placed(t) /\ (t.noexpand = 0 => Bounded(t))
      /\ (t.num_buckets = HASH_INITIAL_NUM_BUCKETS => NewestFirst(t))
  BY DEF IsTable
<1>2. /\ Placed(w) /\ ToSet(w.order) = ToSet(t.order) \cup {i}
      /\ w.order # <<>> /\ (NewestFirst(t) => NewestFirst(w))
  BY <1>1, WithItemPlaced
<1>3. /\ w.num_items = t.num_items + 1 /\ w.num_buckets = t.num_buckets
      /\ w.noexpand = t.noexpand
  BY <1>1, WithItemIs
<1>4. t.num_items \in Nat /\ t.noexpand \in {0, 1} /\ t \in Tables
  BY <1>1 DEF Placed, Tables
<1>5. u.noexpand = t.noexpand
  BY <1>4 DEF Tables
<1>6. r = IF Overfull(w, b) /\ t.noexpand # 1 THEN HASH_EXPAND_BUCKETS(w) ELSE w
  <2>1. w = [u EXCEPT !.buckets[b].chain = <<i>> \o @, !.buckets[b].count = @ + 1]
    BY DEF WithItem
  <2>2. r = IF Overfull(w, b) /\ u.noexpand # 1 THEN HASH_EXPAND_BUCKETS(w) ELSE w
    <3> HIDE DEF u, b, w
    <3> QED
      BY <2>1 DEF HASH_ADD_TO_BKT
  <2> HIDE DEF u, b, w, r
  <2> QED
    BY <1>5, <2>2
<1>7. CASE Overfull(w, b) /\ t.noexpand # 1
  <2>1. t.noexpand = 0
    BY <1>4, <1>7
  <2>2. t.num_items + 1 <= (2 * t.num_buckets) * HASH_BKT_CAPACITY_THRESH
    BY <1>1, <2>1, RoomLeft
  <2> DEFINE x == HASH_EXPAND_BUCKETS(w)
  <2>3. r = x
    BY <1>6, <1>7
  <2> HIDE DEF w, r
  <2>4. w.num_items > 0
        /\ w.num_items <= (2 * w.num_buckets) * HASH_BKT_CAPACITY_THRESH
    BY <1>3, <1>4, <2>2
  <2>5. Placed(x) /\ x.num_buckets # HASH_INITIAL_NUM_BUCKETS
    BY <1>2, <2>4, ExpandPlaced
  <2>6. Bounded(x)
    BY <1>2, <2>4, ExpandBounded
  <2>7. x.order = w.order
    BY <1>2, <2>4, ExpandIs
  <2> HIDE DEF x
  <2>8. IsTable(x)
    BY <2>5, <2>6 DEF IsTable
  <2> QED
    BY <1>2, <2>3, <2>7, <2>8 DEF r, b, u
<1>8. CASE ~(Overfull(w, b) /\ t.noexpand # 1)
  <2>1. r = w
    BY <1>6, <1>8
  <2>2. w.noexpand = 0 => Bounded(w)
    <3> SUFFICES ASSUME t.noexpand = 0 PROVE Bounded(w)
      BY <1>3
    <3>1. ~Overfull(w, b)
      BY <1>8
    <3> QED
      BY <1>1, <3>1, WithItemBounded
  <2> HIDE DEF w, r
  <2>3. IsTable(w)
    BY <1>1, <1>2, <1>3, <2>2 DEF IsTable
  <2> QED
    BY <1>2, <2>1, <2>3 DEF r, b, u
<1> QED
  BY <1>7, <1>8
LEMMA AddKeyptrKeeps ==
    ASSUME conf \in Configurations, NEW h, Good(h),
           NEW i \in Item, i \notin ToSet(h.order)
    PROVE  /\ Good(HASH_ADD_KEYPTR(h, i))
           /\ ToSet(HASH_ADD_KEYPTR(h, i).order) = ToSet(h.order) \cup {i}
           /\ HASH_ADD_KEYPTR(h, i).order # <<>>
<1> DEFINE t == IF h = NoTable THEN HASH_MAKE_TABLE ELSE h
           r == HASH_ADD_KEYPTR(h, i)
<1>1. IsTable(t) /\ t.order = h.order
  <2>1. CASE h = NoTable
    BY <2>1, NewTable DEF NoTable
  <2>2. CASE h # NoTable
    BY <2>2 DEF Good
  <2> QED
    BY <2>1, <2>2
<1>2. r = HASH_ADD_TO_BKT([t EXCEPT !.order = Append(@, i), !.num_items = @ + 1],
                          BucketOf(i, t), i)
  BY Zenon DEF HASH_ADD_KEYPTR
<1> HIDE DEF t, r
<1>3. i \notin ToSet(t.order)
  BY <1>1
<1>4. IsTable(r) /\ r.order # <<>> /\ ToSet(r.order) = ToSet(t.order) \cup {i}
  BY <1>1, <1>2, <1>3, AddKeeps
<1>5. Good(r)
  BY <1>4 DEF Good
<1> QED
  BY <1>1, <1>4, <1>5 DEF r

LEMMA AheadInShorterOrder ==
    ASSUME NEW c \in Seq(Item), NEW o \in Seq(Item), Ahead(c, o),
           NEW k \in 1 .. Len(o), NEW o2 \in Seq(Item), Without(o, k, o2)
    PROVE  Ahead(c, o2)
<1> SUFFICES ASSUME NEW m \in 1 .. Len(c), NEW n \in 1 .. Len(c), m < n,
                    NEW p \in 1 .. Len(o2), NEW q \in 1 .. Len(o2),
                    c[m] = o2[p], c[n] = o2[q]
             PROVE  q < p
  BY DEF Ahead
<1> DEFINE from(x) == IF x < k THEN x ELSE x + 1
<1>1. Len(o) \in Nat /\ Len(o2) = Len(o) - 1
  BY DEF Without
<1>2. \A x \in 1 .. Len(o2) : from(x) \in 1 .. Len(o) /\ o2[x] = o[from(x)]
  BY <1>1 DEF Without
<1>3. from(q) < from(p) => q < p
  BY <1>1
<1> HIDE DEF from
<1>4. from(q) < from(p)
  BY <1>2 DEF Ahead
<1> QED
  BY <1>3, <1>4

LEMMA AheadInShorterChain ==
    ASSUME NEW c \in Seq(Item), NEW o \in Seq(Item), Ahead(c, o),
           NEW k \in 1 .. Len(c), NEW c2 \in Seq(Item), Without(c, k, c2)
    PROVE  Ahead(c2, o)
<1> SUFFICES ASSUME NEW m \in 1 .. Len(c2), NEW n \in 1 .. Len(c2), m < n,
                    NEW p \in 1 .. Len(o), NEW q \in 1 .. Len(o),
                    c2[m] = o[p], c2[n] = o[q]
             PROVE  q < p
  BY DEF Ahead
<1> DEFINE from(x) == IF x < k THEN x ELSE x + 1
<1>1. Len(c) \in Nat /\ Len(c2) = Len(c) - 1
  BY DEF Without
<1>2. \A x \in 1 .. Len(c2) : from(x) \in 1 .. Len(c) /\ c2[x] = c[from(x)]
  BY <1>1 DEF Without
<1>3. from(m) < from(n)
  BY <1>1
<1> HIDE DEF from
<1> QED
  BY <1>2, <1>3 DEF Ahead

(* A deletion from a table that keeps other items.                         *)
LEMMA DeleteIs ==
    ASSUME conf \in Configurations, NEW t, Placed(t), t # NoTable,
           NEW i \in ToSet(t.order), t.order # <<i>>
    PROVE  LET r == HASH_DELETE(t, i)
               b == BucketOf(i, t)
           IN  /\ b \in BucketNumbers(t) /\ i \in At(t.num_buckets, b)
               /\ r \in Tables
               /\ r.order = RemoveFirst(t.order, i) /\ r.num_items = t.num_items - 1
               /\ r.num_buckets = t.num_buckets
               /\ r.log2_num_buckets = t.log2_num_buckets
               /\ r.noexpand = t.noexpand
               /\ r.buckets \in [BucketNumbers(t) -> Bucket]
               /\ \A c \in BucketNumbers(t) : c # b => r.buckets[c] = t.buckets[c]
               /\ r.buckets[b].chain = RemoveFirst(t.buckets[b].chain, i)
               /\ r.buckets[b].count = t.buckets[b].count - 1
               /\ r.buckets[b].expand_mult = t.buckets[b].expand_mult
<1> DEFINE r == HASH_DELETE(t, i)
           b == BucketOf(i, t)
           S == ToSet(t.order)
           q == t.buckets[b]
           new == [chain |-> RemoveFirst(q.chain, i), count |-> q.count - 1,
                   expand_mult |-> q.expand_mult]
           a == [t.buckets EXCEPT ![b] = new]
           o == RemoveFirst(t.order, i)
<1>1. /\ t \in Tables /\ t.buckets \in [BucketNumbers(t) -> Bucket]
      /\ t.num_buckets \in Nat \ {0} /\ t.order \in Seq(Item)
      /\ Differ(t.order) /\ t.num_items = Len(t.order)
  BY DEF Placed, Tables
<1>2. S \in SUBSET Item
  BY <1>1 DEF ToSet
<1>3. i \in Item /\ i \in S
  BY <1>2
<1>4. b \in BucketNumbers(t) /\ i \in At(t.num_buckets, b)
  BY <1>3, BucketOfItem
<1>5. Lists(t.order, S)
  BY <1>1, ListsOnce
<1> HIDE DEF b, S
<1>6. /\ Lists(q.chain, S \cap At(t.num_buckets, b)) /\ q.count = Len(q.chain)
      /\ q \in Bucket
  BY <1>1, <1>4 DEF Placed, S
<1> HIDE DEF q
<1>7. Lists(o, S \ {i}) /\ Len(t.order) > 0
  <2>1. Lists(o, S \ {i})
    BY <1>3, <1>5, ListsRemove
  <2>2. Len(t.order) # 0
    BY <1>3, <1>5 DEF Lists
  <2> QED
    BY <1>1, <2>1, <2>2
<1>8. /\ RemoveFirst(q.chain, i) \in Seq(Item) /\ Len(q.chain) > 0
  <2> DEFINE Q == S \cap At(t.num_buckets, b)
  <2>1. i \in Q /\ Q \in SUBSET Item
    BY <1>2, <1>3, <1>4
  <2>2. Lists(q.chain, Q)
    BY <1>6
  <2> HIDE DEF Q
  <2>3. Lists(RemoveFirst(q.chain, i), Q \ {i})
    BY <2>1, <2>2, ListsRemove
  <2>4. RemoveFirst(q.chain, i) \in Seq(Q \ {i})
    BY <2>3 DEF Lists
  <2>5. RemoveFirst(q.chain, i) \in Seq(Item)
    <3> DEFINE z == RemoveFirst(q.chain, i)
    <3>1. z \in Seq(Q \ {i})
      BY <2>4
    <3> HIDE DEF z
    <3>2. z \in Seq(Item)
      BY <2>1, <3>1
    <3> QED
      BY <3>2 DEF z
  <2>6. q.chain \in Seq(Q) /\ \E n \in 1 .. Len(q.chain) : q.chain[n] = i
    BY <2>1, <2>2 DEF Lists
  <2>7. Len(q.chain) > 0
    BY <2>6
  <2> QED
    BY <2>5, <2>7
<1>9. o \in Seq(Item)
  <2>1. o \in Seq(S \ {i})
    BY <1>7 DEF Lists
  <2> HIDE DEF o
  <2> QED
    BY <1>2, <2>1
<1> DEFINE chain == RemoveFirst(q.chain, i)
<1>10. new \in Bucket
  <2>1. q.count \in Nat /\ q.count > 0 /\ q.expand_mult \in Nat
    BY <1>6, <1>8 DEF Bucket
  <2>2. q.count - 1 \in Nat
    BY <2>1
  <2>3. chain \in Seq(Item)
    BY <1>8
  <2> HIDE DEF chain
  <2>4. new = [chain |-> chain, count |-> q.count - 1, expand_mult |-> q.expand_mult]
    BY DEF chain
  <2> HIDE DEF new
  <2> QED
    BY <2>1, <2>2, <2>3, <2>4 DEF Bucket
<1>11. HASH_DEL_IN_BKT(q, i) = new
  <2> HIDE DEF chain
  <2>1. HASH_DEL_IN_BKT(q, i) = [q EXCEPT !.chain = chain, !.count = @ - 1]
    BY Zenon DEF HASH_DEL_IN_BKT, chain
  <2>2. [q EXCEPT !.chain = chain, !.count = @ - 1] =
            [chain |-> chain, count |-> q.count - 1, expand_mult |-> q.expand_mult]
    <3> DEFINE y == [q EXCEPT !.chain = chain]
    <3>1. y = [chain |-> chain, count |-> q.count, expand_mult |-> q.expand_mult]
      BY <1>6 DEF Bucket
    <3>2. [q EXCEPT !.chain = chain, !.count = @ - 1] = [y EXCEPT !.count = @ - 1]
      BY Zenon
    <3> HIDE DEF y
    <3> QED
      BY <3>1, <3>2
  <2> QED
    BY <2>1, <2>2 DEF chain
<1> HIDE DEF new, chain, o
<1>12. r = [t EXCEPT !.order = o, !.buckets[b] = new, !.num_items = @ - 1]
  BY <1>11, Zenon DEF HASH_DELETE, b, q, o
<1>13. a \in [BucketNumbers(t) -> Bucket] /\ a[b] = new
       /\ \A c \in BucketNumbers(t) : c # b => a[c] = t.buckets[c]
  BY <1>1, <1>4, <1>10
<1>14. a \in BucketArray
  BY <1>1, <1>13, ArrayIs DEF BucketNumbers
<1>15. r = [order |-> o, buckets |-> a, num_buckets |-> t.num_buckets,
            log2_num_buckets |-> t.log2_num_buckets,
            num_items |-> t.num_items - 1,
            ineff_expands |-> t.ineff_expands, noexpand |-> t.noexpand]
  <2> HIDE DEF r
  <2> QED
    BY <1>1, <1>12 DEF Tables
<1> HIDE DEF a, r
<1>16. t.num_items - 1 \in Nat
  BY <1>1, <1>7
<1>17. r \in Tables
  BY <1>1, <1>9, <1>14, <1>15, <1>16 DEF Tables
<1>18. /\ r.order = o /\ r.num_items = t.num_items - 1 /\ r.buckets = a
       /\ r.num_buckets = t.num_buckets /\ r.log2_num_buckets = t.log2_num_buckets
       /\ r.noexpand = t.noexpand
  BY <1>15
<1>19. /\ a[b].chain = RemoveFirst(t.buckets[b].chain, i)
       /\ a[b].count = t.buckets[b].count - 1
       /\ a[b].expand_mult = t.buckets[b].expand_mult
  BY <1>13 DEF new, q
<1> QED
  BY <1>4, <1>13, <1>17, <1>18, <1>19 DEF r, b, o
LEMMA DeleteKeeps ==
    ASSUME conf \in Configurations, NEW h, Good(h), NEW i \in ToSet(h.order)
    PROVE  /\ Good(HASH_DELETE(h, i))
           /\ ToSet(HASH_DELETE(h, i).order) = ToSet(h.order) \ {i}
<1>1. ToSet(<<>>) = {}
  BY DEF ToSet
<1>2. h # NoTable
  BY <1>1 DEF NoTable
<1>3. IsTable(h) /\ Placed(h)
  BY <1>2 DEF Good, IsTable
<1>4. CASE h.order = <<i>>
  <2>1. HASH_DELETE(h, i) = NoTable
    BY <1>4 DEF HASH_DELETE
  <2>2. ToSet(<<i>>) = {i}
    BY DEF ToSet
  <2> QED
    BY <1>1, <1>4, <2>1, <2>2 DEF Good, NoTable
<1>5. CASE h.order # <<i>>
  <2> DEFINE r == HASH_DELETE(h, i)
             b == BucketOf(i, h)
             S == ToSet(h.order)
             N == BucketNumbers(h)
  <2>1. /\ b \in N /\ i \in At(h.num_buckets, b)
        /\ r \in Tables
        /\ r.order = RemoveFirst(h.order, i) /\ r.num_items = h.num_items - 1
        /\ r.num_buckets = h.num_buckets
        /\ r.log2_num_buckets = h.log2_num_buckets
        /\ r.noexpand = h.noexpand
        /\ r.buckets \in [N -> Bucket]
        /\ \A c \in N : c # b => r.buckets[c] = h.buckets[c]
        /\ r.buckets[b].chain = RemoveFirst(h.buckets[b].chain, i)
        /\ r.buckets[b].count = h.buckets[b].count - 1
        /\ r.buckets[b].expand_mult = h.buckets[b].expand_mult
    BY <1>2, <1>3, <1>5, DeleteIs
  <2>2. /\ h.order \in Seq(Item) /\ Differ(h.order) /\ h.num_items = Len(h.order)
        /\ h.num_buckets = PowerOfTwo[h.log2_num_buckets]
        /\ h.num_buckets >= HASH_INITIAL_NUM_BUCKETS
        /\ h.buckets \in [N -> Bucket]
    BY <1>3 DEF Placed, Tables
  <2>3. Lists(h.order, S)
    BY <2>2, ListsOnce
  <2>4. \A c \in N : c # b => i \notin At(h.num_buckets, c)
    BY DEF At, BucketOf
  <2>5. BucketNumbers(r) = N
    BY <2>1 DEF BucketNumbers
  <2>6. i \in S
    OBVIOUS
  <2> HIDE DEF r, b, S, N
  <2>7. /\ Lists(r.order, S \ {i})
        /\ \E k \in 1 .. Len(h.order) : h.order[k] = i /\ Without(h.order, k, r.order)
    BY <2>1, <2>3, <2>6, ListsRemove
  <2>8. ToSet(r.order) = S \ {i} /\ Len(r.order) = Len(h.order) - 1
    BY <2>7, ListsCount DEF Without
  <2>9. r.order # <<>>
    <3> SUFFICES ASSUME r.order = <<>> PROVE FALSE
      OBVIOUS
    <3>1. Len(h.order) = 1
      BY <2>2, <2>8
    <3>2. h.order[1] = i
      BY <2>7, <3>1
    <3>3. h.order = <<i>>
      BY <2>2, <3>1, <3>2
    <3> QED
      BY <1>5, <3>3
  <2>10. ASSUME NEW c \in N
        PROVE  /\ Lists(r.buckets[c].chain, ToSet(r.order) \cap At(h.num_buckets, c))
               /\ r.buckets[c].count = Len(r.buckets[c].chain)
               /\ \/ r.buckets[c].chain = h.buckets[c].chain
                  \/ \E k \in 1 .. Len(h.buckets[c].chain) :
                        Without(h.buckets[c].chain, k, r.buckets[c].chain)
    <3> DEFINE Q == S \cap At(h.num_buckets, c)
               old == h.buckets[c].chain
    <3>1. Lists(old, Q) /\ h.buckets[c].count = Len(old)
      BY <1>3 DEF Placed, S, N
    <3>2. CASE c = b
      <4>1. i \in Q /\ (S \ {i}) \cap At(h.num_buckets, c) = Q \ {i}
        BY <2>1, <2>6, <3>2
      <4>2. r.buckets[c].chain = RemoveFirst(old, i)
            /\ r.buckets[c].count = h.buckets[c].count - 1
        BY <2>1, <3>2
      <4> HIDE DEF Q, old
      <4>3. /\ Lists(RemoveFirst(old, i), Q \ {i})
            /\ \E k \in 1 .. Len(old) : Without(old, k, RemoveFirst(old, i))
        BY <3>1, <4>1, ListsRemove
      <4>4. Len(RemoveFirst(old, i)) = Len(old) - 1
        BY <4>3 DEF Without
      <4> QED
        BY <2>8, <3>1, <4>1, <4>2, <4>3, <4>4 DEF old
    <3>3. CASE c # b
      <4>1. (S \ {i}) \cap At(h.num_buckets, c) = Q
        BY <2>4, <3>3
      <4>2. r.buckets[c] = h.buckets[c]
        BY <2>1, <3>3
      <4> HIDE DEF Q
      <4> QED
        BY <2>8, <3>1, <4>1, <4>2
    <3> QED
      BY <3>2, <3>3
  <2>11. Placed(r)
    <3>1. Differ(r.order)
      BY <2>7 DEF Lists
    <3>2. r.num_items = Len(r.order)
      BY <2>1, <2>2, <2>8
    <3>3. /\ r.buckets \in [BucketNumbers(r) -> Bucket]
          /\ r.num_buckets = PowerOfTwo[r.log2_num_buckets]
          /\ r.num_buckets >= HASH_INITIAL_NUM_BUCKETS
      BY <2>1, <2>2, <2>5
    <3>4. \A c \in BucketNumbers(r) :
            /\ Lists(r.buckets[c].chain, ToSet(r.order) \cap At(r.num_buckets, c))
            /\ r.buckets[c].count = Len(r.buckets[c].chain)
      BY <2>1, <2>5, <2>10
    <3> QED
      BY <2>1, <3>1, <3>2, <3>3, <3>4 DEF Placed
  <2>12. ASSUME Bounded(h) PROVE Bounded(r)
    <3>1. \A c \in N : Within(h.buckets[c])
      BY <2>12 DEF Bounded, N
    <3>2. Within(r.buckets[b])
      <4> DEFINE k == h.buckets[b].count
                 m == h.buckets[b].expand_mult
                 d == HASH_BKT_CAPACITY_THRESH
      <4>1. k \in Nat /\ m \in Nat /\ d \in Nat
        BY <2>1, <2>2, Sizes DEF Bucket
      <4>2. k <= (m + 1) * d /\ (m > 0 => k < (m + 1) * d)
        BY <2>1, <3>1 DEF Within
      <4>3. r.buckets[b].count = k - 1 /\ r.buckets[b].expand_mult = m
        BY <2>1
      <4> HIDE DEF k, m, d
      <4>4. (m + 1) * d \in Nat
        BY <4>1
      <4>5. k - 1 <= (m + 1) * d /\ (m > 0 => k - 1 < (m + 1) * d)
        BY <4>1, <4>2, <4>4
      <4> QED
        BY <4>3, <4>5 DEF Within, d
    <3>3. \A c \in N : Within(r.buckets[c])
      BY <2>1, <3>1, <3>2
    <3>4. \A c \in N : r.buckets[c].expand_mult = h.buckets[c].expand_mult
      BY <2>1
    <3>5. [c \in N |-> r.buckets[c].expand_mult] = [c \in N |-> h.buckets[c].expand_mult]
      BY <3>4
    <3>6. Multipliers(r) = SumFunctionOnSet([c \in N |-> r.buckets[c].expand_mult], N)
      BY <2>5 DEF Multipliers
    <3>7. Multipliers(h) = SumFunctionOnSet([c \in N |-> h.buckets[c].expand_mult], N)
      BY DEF Multipliers, N
    <3>8. Multipliers(r) = Multipliers(h)
      BY <3>5, <3>6, <3>7
    <3>9. Multipliers(h) <= h.num_buckets
      BY <2>12 DEF Bounded
    <3> QED
      BY <2>1, <2>5, <3>3, <3>8, <3>9 DEF Bounded
  <2>13. ASSUME NewestFirst(h) PROVE NewestFirst(r)
    <3> SUFFICES ASSUME NEW c \in N PROVE Ahead(r.buckets[c].chain, r.order)
      BY <2>5 DEF NewestFirst
    <3> DEFINE old == h.buckets[c].chain
               new == r.buckets[c].chain
    <3>1. Ahead(old, h.order)
      BY <2>13 DEF NewestFirst, N
    <3>2. old \in Seq(Item) /\ new \in Seq(Item) /\ r.order \in Seq(Item)
      BY <2>1, <2>2 DEF Bucket, Tables
    <3>3. new = old \/ \E k \in 1 .. Len(old) : Without(old, k, new)
      BY <2>10
    <3> HIDE DEF old, new
    <3>4. Ahead(new, h.order)
      BY <2>2, <3>1, <3>2, <3>3, AheadInShorterChain
    <3>5. Ahead(new, r.order)
      BY <2>2, <2>7, <3>2, <3>4, AheadInShorterOrder
    <3> QED
      BY <3>5 DEF new
  <2>14. IsTable(r)
    <3>1. h.noexpand = 0 => Bounded(h)
      BY <1>3 DEF IsTable
    <3>2. h.num_buckets = HASH_INITIAL_NUM_BUCKETS => NewestFirst(h)
      BY <1>3 DEF IsTable
    <3> QED
      BY <2>1, <2>11, <2>12, <2>13, <3>1, <3>2 DEF IsTable
  <2> QED
    BY <2>8, <2>9, <2>14 DEF Good, r, S
<1> QED
  BY <1>4, <1>5

(* A search finds the first item of the key on the chain on which all of   *)
(* them are.                                                               *)
LEMMA FindIs ==
    ASSUME conf \in Configurations, NEW t, Placed(t), t # NoTable,
           NEW k \in DOMAIN hashv
    PROVE  \E b \in BucketNumbers(t) :
             LET c == t.buckets[b].chain
             IN  /\ \A i \in ToSet(t.order) : key[i] = k => i \in ToSet(c)
                 /\ ToSet(c) \subseteq ToSet(t.order)
                 /\ \/ /\ HASH_FIND(t, k) = NoItem
                       /\ \A m \in DOMAIN c : key[c[m]] # k
                    \/ \E n \in DOMAIN c :
                          /\ HASH_FIND(t, k) = c[n] /\ key[c[n]] = k
                          /\ \A m \in DOMAIN c : key[c[m]] = k => n <= m
<1> DEFINE b == HASH_TO_BKT(hashv[k], t.num_buckets)
           c == t.buckets[b].chain
           hits == {n \in DOMAIN c : key[c[n]] = k}
<1>1. t.num_buckets \in Nat \ {0} /\ t.buckets \in [BucketNumbers(t) -> Bucket]
      /\ t.order \in Seq(Item)
  BY DEF Placed, Tables
<1>2. hashv[k] \in Nat
  BY ConfigurationsAssumption DEF hashv
<1>3. b \in BucketNumbers(t)
  BY <1>1, <1>2 DEF HASH_TO_BKT, BucketNumbers
<1>4. Lists(c, ToSet(t.order) \cap At(t.num_buckets, b))
  BY <1>3 DEF Placed
<1>5. ToSet(c) = ToSet(t.order) \cap At(t.num_buckets, b)
  <2> HIDE DEF c
  <2> QED
    BY <1>4, ListsCount
<1>6. \A i \in ToSet(t.order) : key[i] = k => i \in ToSet(c)
  <2>1. ToSet(t.order) \subseteq Item
    BY <1>1 DEF ToSet
  <2> HIDE DEF c
  <2> QED
    BY <1>5, <2>1 DEF At
<1>7. HASH_FIND(t, k) = IF hits = {} THEN NoItem ELSE c[Min(hits)]
  BY Zenon DEF HASH_FIND, HASH_FIND_IN_BKT
<1>8. c \in Seq(Item)
  BY <1>1, <1>3 DEF Bucket
<1> HIDE DEF c, b
<1>9. CASE hits = {}
  BY <1>3, <1>5, <1>6, <1>7, <1>9 DEF c
<1>10. CASE hits # {}
  <2>1. hits \in SUBSET Nat
    BY <1>8
  <2> DEFINE n == Min(hits)
  <2>2. n \in hits /\ \A m \in hits : n <= m
    <3> HIDE DEF hits
    <3> QED
      BY <1>10, <2>1, MinIs
  <2>3. HASH_FIND(t, k) = c[n]
    BY <1>7, <1>10
  <2> HIDE DEF n
  <2> QED
    BY <1>3, <1>5, <1>6, <2>2, <2>3 DEF c
<1> QED
  BY <1>9, <1>10

LEMMA FindYields ==
    ASSUME conf \in Configurations, NEW h, Good(h), NEW k \in DOMAIN hashv
    PROVE  LET M == {i \in ToSet(h.order) : key[i] = k}
           IN  IF M = {} THEN HASH_FIND(h, k) = NoItem ELSE HASH_FIND(h, k) \in M
<1>1. CASE h = NoTable
  <2>1. ToSet(h.order) = {}
    BY <1>1 DEF NoTable, ToSet
  <2>2. HASH_FIND(h, k) = NoItem
    BY <1>1 DEF HASH_FIND
  <2> QED
    BY <2>1, <2>2
<1>2. CASE h # NoTable
  <2> DEFINE S == ToSet(h.order)
             f == HASH_FIND(h, k)
  <2>1. Placed(h)
    BY <1>2 DEF Good, IsTable
  <2>2. PICK b \in BucketNumbers(h) :
             LET c == h.buckets[b].chain
             IN  /\ \A i \in S : key[i] = k => i \in ToSet(c)
                 /\ ToSet(c) \subseteq S
                 /\ \/ /\ f = NoItem
                       /\ \A m \in DOMAIN c : key[c[m]] # k
                    \/ \E n \in DOMAIN c :
                          /\ f = c[n] /\ key[c[n]] = k
                          /\ \A m \in DOMAIN c : key[c[m]] = k => n <= m
    BY <1>2, <2>1, FindIs
  <2> HIDE DEF S, f
  <2>3. IF {i \in S : key[i] = k} = {} THEN f = NoItem ELSE f \in {i \in S : key[i] = k}
    <3> DEFINE c == h.buckets[b].chain
    <3>1. \A m \in DOMAIN c : c[m] \in ToSet(c)
      BY DEF ToSet
    <3>2. \A i \in ToSet(c) : \E m \in DOMAIN c : i = c[m]
      BY DEF ToSet
    <3> HIDE DEF c
    <3>3. /\ \A i \in S : key[i] = k => i \in ToSet(c)
          /\ ToSet(c) \subseteq S
          /\ \/ /\ f = NoItem
                /\ \A m \in DOMAIN c : key[c[m]] # k
             \/ \E n \in DOMAIN c : f = c[n] /\ key[c[n]] = k
      BY <2>2 DEF c
    <3> QED
      BY <3>1, <3>2, <3>3
  <2> QED
    BY <2>3 DEF S, f
<1> QED
  BY <1>1, <1>2
LEMMA ReplaceKeeps ==
    ASSUME conf \in Configurations, NEW h, Good(h),
           NEW i \in Item, i \notin ToSet(h.order)
    PROVE  /\ Good(HASH_REPLACE(h, i))
           /\ ToSet(HASH_REPLACE(h, i).order) =
                (ToSet(h.order) \ {HASH_FIND(h, key[i])}) \cup {i}
<1> DEFINE f == HASH_FIND(h, key[i])
           S == ToSet(h.order)
           h2 == IF f = NoItem THEN h ELSE HASH_DELETE(h, f)
<1>1. key[i] \in DOMAIN hashv
  BY ConfigurationsAssumption DEF key, hashv
<1>2. IF {j \in S : key[j] = key[i]} = {} THEN f = NoItem
      ELSE f \in {j \in S : key[j] = key[i]}
  BY <1>1, FindYields
<1>3. S \in SUBSET Item
  <2>1. CASE h = NoTable
    BY <2>1 DEF NoTable, ToSet
  <2>2. CASE h # NoTable
    <3>1. h.order \in Seq(Item)
      BY <2>2 DEF Good, IsTable, Placed, Tables
    <3> QED
      BY <3>1 DEF ToSet
  <2> QED
    BY <2>1, <2>2
<1>4. HASH_REPLACE(h, i) = HASH_ADD_KEYPTR(h2, i)
  BY Zenon DEF HASH_REPLACE
<1>5. Good(h2) /\ ToSet(h2.order) = S \ {f}
  <2> HIDE DEF f
  <2>1. CASE f = NoItem
    <3>1. S \ {f} = S
      BY <1>3, <2>1, NoItemAssumption
    <3> QED
      BY <2>1, <3>1
  <2>2. CASE f # NoItem
    <3>1. f \in S
      BY <1>2, <2>2
    <3>2. h2 = HASH_DELETE(h, f)
      BY <2>2
    <3> HIDE DEF h2
    <3> QED
      BY <3>1, <3>2, DeleteKeeps
  <2> QED
    BY <2>1, <2>2
<1> HIDE DEF f, h2, S
<1>6. i \notin ToSet(h2.order)
  BY <1>5 DEF S
<1>7. /\ Good(HASH_ADD_KEYPTR(h2, i))
      /\ ToSet(HASH_ADD_KEYPTR(h2, i).order) = ToSet(h2.order) \cup {i}
  BY <1>5, <1>6, AddKeyptrKeeps
<1> QED
  BY <1>4, <1>5, <1>7 DEF f, S
-----------------------------------------------------------------------------
(***************************************************************************)
(* The specification.                                                      *)
(***************************************************************************)
(* The configuration never changes.                                        *)
LEMMA GoodNext ==
    ASSUME conf' = conf, Good(head')
    PROVE  Good(head)'
BY DEF Good, IsTable, Placed, Bounded, Within, Multipliers, NewestFirst,
       BucketNumbers, At, HASH_TO_BKT, hashv, key, HASH_BKT_CAPACITY_THRESH,
       HASH_INITIAL_NUM_BUCKETS, HASH_INITIAL_NUM_BUCKETS_LOG2
LEMMA Initially == Init => Inv
BY DEF Init, Inv, Good

(* Every step leaves a table that is one, of the items it should hold.     *)
LEMMA StepIs ==
    ASSUME Inv, NEW i \in Item
    PROVE  /\ Add(i) => Good(head') /\ ToSet(head'.order) = Stored \cup {i}
           /\ Delete(i) => Good(head') /\ ToSet(head'.order) = Stored \ {i}
           /\ Replace(i) =>
                /\ Good(head')
                /\ ToSet(head'.order) = (Stored \ {HASH_FIND(head, key[i])}) \cup {i}
<1>1. conf \in Configurations /\ Good(head) /\ Stored = ToSet(head.order)
  BY DEF Inv, Stored
<1>2. ASSUME Add(i)
      PROVE  Good(head') /\ ToSet(head'.order) = Stored \cup {i}
  <2>1. head' = HASH_ADD_KEYPTR(head, i) /\ i \notin ToSet(head.order)
    BY <1>1, <1>2 DEF Add
  <2> QED
    BY <1>1, <2>1, AddKeyptrKeeps
<1>3. ASSUME Delete(i)
      PROVE  Good(head') /\ ToSet(head'.order) = Stored \ {i}
  <2>1. head' = HASH_DELETE(head, i) /\ i \in ToSet(head.order)
    BY <1>1, <1>3 DEF Delete
  <2> QED
    BY <1>1, <2>1, DeleteKeeps
<1>4. ASSUME Replace(i)
      PROVE  /\ Good(head')
             /\ ToSet(head'.order) = (Stored \ {HASH_FIND(head, key[i])}) \cup {i}
  <2>1. head' = HASH_REPLACE(head, i) /\ i \notin ToSet(head.order)
    BY <1>1, <1>4 DEF Replace
  <2> QED
    BY <1>1, <2>1, ReplaceKeeps
<1> QED
  BY <1>2, <1>3, <1>4

LEMMA StepKeepsInv == Inv /\ [Next]_vars => Inv'
<1> SUFFICES ASSUME Inv, [Next]_vars PROVE Inv'
  OBVIOUS
<1>0. conf \in Configurations /\ Good(head)
  BY DEF Inv
<1>1. ASSUME NEW i \in Item, Add(i) PROVE Good(head') /\ conf' = conf
  BY <1>1, StepIs DEF Add
<1>2. ASSUME NEW i \in Item, Delete(i) PROVE Good(head') /\ conf' = conf
  BY <1>2, StepIs DEF Delete
<1>3. ASSUME NEW i \in Item, Replace(i) PROVE Good(head') /\ conf' = conf
  BY <1>3, StepIs DEF Replace
<1>4. ASSUME NEW k \in DOMAIN hashv, Find(k) PROVE Good(head') /\ conf' = conf
  BY <1>0, <1>4 DEF Find
<1>5. ASSUME HASH_CLEAR PROVE Good(head') /\ conf' = conf
  BY <1>5 DEF HASH_CLEAR, Good
<1>6. ASSUME UNCHANGED vars PROVE Good(head') /\ conf' = conf
  BY <1>0, <1>6 DEF vars
<1>7. Good(head') /\ conf' = conf
  BY <1>1, <1>2, <1>3, <1>4, <1>5, <1>6 DEF Next
<1>8. Good(head)'
  BY <1>7, GoodNext
<1> QED
  BY <1>0, <1>7, <1>8 DEF Inv

LEMMA Invariance == Spec => []Inv
<1>1. Init => Inv
  BY Initially
<1>2. Inv /\ [Next]_vars => Inv'
  BY StepKeepsInv
<1> QED
  BY <1>1, <1>2, PTL DEF Spec

LEMMA InvImpliesFsck == Inv => Fsck
<1> SUFFICES ASSUME Inv, head # NoTable PROVE Fsck
  BY DEF Fsck
<1>1. conf \in Configurations /\ Placed(head) /\ head.order # <<>>
  BY DEF Inv, Good, IsTable
<1>2. /\ head.num_buckets = PowerOfTwo[head.log2_num_buckets]
      /\ head.buckets \in [BucketNumbers(head) -> Bucket]
      /\ head.order \in Seq(Item) /\ head.num_items = Len(head.order)
  BY <1>1 DEF Placed, Tables
<1>3. DOMAIN head.buckets = BucketNumbers(head)
  BY <1>2
<1>4. ASSUME NEW b \in BucketNumbers(head)
      PROVE  /\ head.buckets[b].count = Len(head.buckets[b].chain)
             /\ head.buckets[b].count = Cardinality(ChainItems(b))
             /\ ChainItems(b) = {i \in Stored : BucketOf(i, head) = b}
  <2> DEFINE c == head.buckets[b].chain
             Q == Stored \cap At(head.num_buckets, b)
  <2>1. Lists(c, Q) /\ head.buckets[b].count = Len(c)
    BY <1>1 DEF Placed, Stored
  <2>2. Q = {i \in Stored : BucketOf(i, head) = b}
    <3>1. Stored \in SUBSET Item
      BY <1>2 DEF Stored, ToSet
    <3> QED
      BY <3>1 DEF At, BucketOf
  <2> HIDE DEF Q
  <2>3. ToSet(c) = Q /\ Len(c) = Cardinality(Q)
    <3> HIDE DEF c
    <3> QED
      BY <2>1, ListsCount
  <2> QED
    BY <2>1, <2>2, <2>3 DEF ChainItems
<1>5. SumFunction([b \in DOMAIN head.buckets |-> head.buckets[b].count])
        = head.num_items
  <2> DEFINE f == Counts(head)
  <2>1. SumFunctionOnSet(f, BucketNumbers(head)) = head.num_items
        /\ f \in [BucketNumbers(head) -> Nat]
    BY <1>1, CountsAddUp
  <2>2. [b \in DOMAIN head.buckets |-> head.buckets[b].count] = f
    BY <1>3 DEF Counts
  <2> HIDE DEF f
  <2>3. DOMAIN f = BucketNumbers(head)
    BY <2>1
  <2> QED
    BY <2>1, <2>2, <2>3, Zenon DEF SumFunction
<1>6. head.num_items = Cardinality(Stored)
  BY <1>1, CountsAddUp DEF Stored
<1>7. head.num_items > 0
  BY <1>1, <1>2
<1> QED
  BY <1>2, <1>3, <1>4, <1>5, <1>6, <1>7 DEF Fsck, BucketNumbers

LEMMA InvImpliesNewest == Inv => NewestUntilExpanded
<1> SUFFICES ASSUME Inv, head # NoTable,
                    head.num_buckets = HASH_INITIAL_NUM_BUCKETS,
                    NEW k \in DOMAIN hashv,
                    NEW added, added = {n \in DOMAIN head.order : key[head.order[n]] = k}
             PROVE  HASH_FIND(head, k) = IF added = {} THEN NoItem
                                         ELSE head.order[Max(added)]
  BY DEF NewestUntilExpanded
<1> DEFINE o == head.order
           f == HASH_FIND(head, k)
<1>1. conf \in Configurations /\ Placed(head) /\ NewestFirst(head)
  BY DEF Inv, Good, IsTable
<1>2. o \in Seq(Item) /\ Differ(o) /\ head.buckets \in [BucketNumbers(head) -> Bucket]
  BY <1>1 DEF Placed, Tables
<1>3. PICK b \in BucketNumbers(head) :
         LET c == head.buckets[b].chain
         IN  /\ \A i \in ToSet(o) : key[i] = k => i \in ToSet(c)
             /\ ToSet(c) \subseteq ToSet(o)
             /\ \/ /\ f = NoItem
                   /\ \A m \in DOMAIN c : key[c[m]] # k
                \/ \E n \in DOMAIN c :
                      /\ f = c[n] /\ key[c[n]] = k
                      /\ \A m \in DOMAIN c : key[c[m]] = k => n <= m
  BY <1>1, FindIs
<1> DEFINE c == head.buckets[b].chain
<1>4. c \in Seq(Item) /\ Ahead(c, o)
  BY <1>1, <1>2 DEF Bucket, NewestFirst
<1> HIDE DEF c, f, o
<1>5. /\ DOMAIN o = 1 .. Len(o) /\ DOMAIN c = 1 .. Len(c)
      /\ added = {p \in 1 .. Len(o) : key[o[p]] = k}
  BY <1>2, <1>4 DEF o
<1>6. \A p \in added : \E m \in 1 .. Len(c) : c[m] = o[p] /\ key[c[m]] = k
  <2> SUFFICES ASSUME NEW p \in added
               PROVE  \E m \in 1 .. Len(c) : c[m] = o[p] /\ key[c[m]] = k
    OBVIOUS
  <2>1. o[p] \in ToSet(o) /\ key[o[p]] = k
    BY <1>5 DEF ToSet
  <2>2. o[p] \in ToSet(c)
    BY <1>3, <2>1 DEF c
  <2> QED
    BY <1>5, <2>1, <2>2 DEF ToSet
<1>7. CASE f = NoItem /\ \A m \in DOMAIN c : key[c[m]] # k
  <2>1. added = {}
    BY <1>5, <1>6, <1>7
  <2> QED
    BY <1>7, <2>1 DEF f
<1>8. CASE \E n \in DOMAIN c : /\ f = c[n] /\ key[c[n]] = k
                               /\ \A m \in DOMAIN c : key[c[m]] = k => n <= m
  <2>1. PICK n \in 1 .. Len(c) : /\ f = c[n] /\ key[c[n]] = k
                                 /\ \A m \in 1 .. Len(c) : key[c[m]] = k => n <= m
    BY <1>5, <1>8
  <2>2. PICK p \in 1 .. Len(o) : o[p] = c[n]
    <3>1. c[n] \in ToSet(c)
      BY <1>5 DEF ToSet
    <3>2. c[n] \in ToSet(o)
      BY <1>3, <3>1 DEF c
    <3> QED
      BY <1>5, <3>2 DEF ToSet
  <2>3. p \in added /\ added \in SUBSET Nat
    BY <1>5, <2>1, <2>2
  <2>4. ASSUME NEW q \in added PROVE p >= q
    <3>1. PICK m \in 1 .. Len(c) : c[m] = o[q] /\ key[c[m]] = k
      BY <1>6
    <3>2. q \in 1 .. Len(o) /\ n <= m
      BY <1>5, <2>1, <3>1
    <3>3. CASE n = m
      <4>1. p = q
        BY <1>2, <2>2, <3>1, <3>2, <3>3 DEF Differ, o
      <4> QED
        BY <4>1
    <3>4. CASE n # m
      <4>1. n < m
        BY <3>2, <3>4
      <4>2. q < p
        BY <1>4, <2>2, <3>1, <3>2, <4>1 DEF Ahead
      <4> QED
        BY <3>2, <4>2
    <3> QED
      BY <3>3, <3>4
  <2>5. Max(added) = p
    <3>1. \A x \in added : (\A y \in added : x >= y) => x = p
      <4> SUFFICES ASSUME NEW x \in added, \A y \in added : x >= y PROVE x = p
        OBVIOUS
      <4>1. x >= p /\ p >= x /\ x \in Nat /\ p \in Nat
        BY <2>3, <2>4
      <4> QED
        BY <4>1
    <3> QED
      BY <2>3, <2>4, <3>1, Zenon DEF Max
  <2> QED
    BY <2>1, <2>2, <2>3, <2>5 DEF f, o
<1> QED
  BY <1>3, <1>7, <1>8 DEF c

LEMMA InvImpliesBounded == Inv => ChainsBounded
<1> SUFFICES ASSUME Inv, head # NoTable, head.noexpand = 0,
                    NEW b \in DOMAIN head.buckets
             PROVE  head.buckets[b].count <=
                        (head.buckets[b].expand_mult + 1) * HASH_BKT_CAPACITY_THRESH
  BY DEF ChainsBounded
<1>1. Placed(head) /\ Bounded(head)
  BY DEF Inv, Good, IsTable
<1>2. b \in BucketNumbers(head)
  BY <1>1 DEF Placed
<1> QED
  BY <1>1, <1>2 DEF Bounded, Within

LEMMA StepRefines ==
    Inv /\ [Next]_vars => [Abs!AbsNext]_<<key, Stored, out>>
<1> SUFFICES ASSUME Inv, Next PROVE Abs!AbsNext \/ UNCHANGED <<key, Stored, out>>
  BY DEF vars, key, Stored
<1>0. conf \in Configurations /\ Good(head) /\ Stored = ToSet(head.order)
      /\ Stored' = ToSet(head'.order)
  BY DEF Inv, Stored
<1>1. \A i \in Item : key[i] \in DOMAIN hashv
  BY <1>0, ConfigurationsAssumption DEF key, hashv
<1>2. ASSUME NEW k \in DOMAIN hashv PROVE HASH_FIND(head, k) \in Abs!Finds(k)
  BY <1>0, FindYields DEF Abs!Finds, Abs!Matches
<1>3. ASSUME NEW i \in Item, Add(i) PROVE Abs!AbsAdd(i) /\ key' = key
  <2>1. Stored' = Stored \cup {i}
    BY <1>0, <1>3, StepIs
  <2> QED
    BY <1>3, <2>1 DEF Add, Abs!AbsAdd, key
<1>4. ASSUME NEW i \in Item, Delete(i) PROVE Abs!AbsDelete(i) /\ key' = key
  <2>1. Stored' = Stored \ {i}
    BY <1>0, <1>4, StepIs
  <2> QED
    BY <1>4, <2>1 DEF Delete, Abs!AbsDelete, key
<1>5. ASSUME NEW i \in Item, Replace(i) PROVE Abs!AbsReplace(i) /\ key' = key
  <2>1. Stored' = (Stored \ {HASH_FIND(head, key[i])}) \cup {i}
    BY <1>0, <1>5, StepIs
  <2>2. out' = HASH_FIND(head, key[i]) /\ i \notin Stored /\ key' = key
    BY <1>5 DEF Replace, key
  <2>3. out' \in Abs!Finds(key[i])
    BY <1>1, <1>2, <2>2
  <2> QED
    BY <2>1, <2>2, <2>3 DEF Abs!AbsReplace
<1>6. ASSUME NEW k \in DOMAIN hashv, Find(k) PROVE Abs!AbsFind(k) /\ key' = key
  <2>1. Stored' = Stored /\ key' = key /\ out' = HASH_FIND(head, k)
    BY <1>0, <1>6 DEF Find, key
  <2> QED
    BY <1>2, <2>1 DEF Abs!AbsFind
<1>7. ASSUME HASH_CLEAR PROVE Abs!AbsClear /\ key' = key
  <2>1. Stored' = {}
    BY <1>0, <1>7 DEF HASH_CLEAR, NoTable, ToSet
  <2> QED
    BY <1>7, <2>1 DEF HASH_CLEAR, Abs!AbsClear, key
<1>8. DOMAIN hashv = {key[i] : i \in Item}
  BY <1>0, ConfigurationsAssumption DEF key, hashv
<1> QED
  BY <1>3, <1>4, <1>5, <1>6, <1>7, <1>8 DEF Next, Abs!AbsNext

(* The integrity check of the header never fails: after any calls, in a    *)
(* table of any size, every item is on the chain of its hash, once, and    *)
(* the counts of the buckets and of the table are right.                   *)
THEOREM TableIntact == Spec => []Fsck
<1>1. Inv => Fsck
  BY InvImpliesFsck
<1> QED
  BY <1>1, Invariance, PTL

(* Until the first expansion a search yields the latest of the items of    *)
(* its key, so a name a scope declares twice means its second declaration. *)
THEOREM LatestFound == Spec => []NewestUntilExpanded
<1>1. Inv => NewestUntilExpanded
  BY InvImpliesNewest
<1> QED
  BY <1>1, Invariance, PTL

(* No chain outgrows its bucket's multiple of the threshold while the      *)
(* table may still expand.                                                 *)
THEOREM NoLongChain == Spec => []ChainsBounded
<1>1. Inv => ChainsBounded
  BY InvImpliesBounded
<1> QED
  BY <1>1, Invariance, PTL

(* Every addition, deletion, replacement and search is what a user of a    *)
(* table expects of it, whatever becomes of its buckets.                   *)
THEOREM ImplementsTable == Spec => Refines
<1>1. Init => Abs!AbsInit
  BY DEF Init, Abs!AbsInit, Stored, NoTable, ToSet
<1>2. Inv /\ [Next]_vars => [Abs!AbsNext]_<<key, Stored, out>>
  BY StepRefines
<1> QED
  BY <1>1, <1>2, Invariance, PTL DEF Spec, Refines, Abs!AbsSpec
=============================================================================
