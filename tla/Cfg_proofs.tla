----------------------------- MODULE Cfg_proofs -----------------------------
(***************************************************************************)
(* Proofs about the graphs of Cfg, and about the two modules built on      *)
(* them: the loops a C client writes over projects/lib/analysis's cfg.cpp  *)
(* and loop.cpp, for any functions; and the code that                      *)
(* tutorial/3/C++/expr.y makes of a text of any length and nesting.        *)
(***************************************************************************)
EXTENDS CfgWalks, ExprCodegen, FiniteSetTheorems, SequenceTheorems,
        WellFoundedInduction, TLAPS

(* Among some numbers there is a least one.                                *)
LEMMA LeastOne ==
    ASSUME NEW T \in SUBSET Nat, T # {}
    PROVE  \E n \in T : \A m \in T : n <= m
<1>1. PICK n \in T : \A m \in T : ~(<<m, n>> \in OpToRel(<, Nat))
  BY NatLessThanWellFounded, WFMin
<1>2. \A m \in T : n <= m
  <2> SUFFICES ASSUME NEW m \in T PROVE n <= m
    OBVIOUS
  <2>1. n \in Nat /\ m \in Nat
    OBVIOUS
  <2>2. ~(m < n)
    BY <1>1, <2>1 DEF OpToRel
  <2> QED
    BY <2>1, <2>2
<1> QED
  BY <1>2

(* A set of numbers that has 0 and with each number the next one.          *)
LEMMA Induction ==
    ASSUME NEW P \in SUBSET Nat, 0 \in P, \A n \in P : n + 1 \in P
    PROVE  P = Nat
<1> SUFFICES ASSUME Nat \ P # {} PROVE FALSE
  OBVIOUS
<1>1. PICK n \in Nat \ P : \A m \in Nat \ P : n <= m
  BY LeastOne
<1>2. n # 0 /\ n - 1 \in Nat /\ ~(n <= n - 1) /\ (n - 1) + 1 = n
  OBVIOUS
<1>3. n - 1 \in P
  BY <1>1, <1>2
<1> QED
  BY <1>1, <1>2, <1>3
-----------------------------------------------------------------------------
(***************************************************************************)
(* Reachable is the least set that has from and is closed under edges,     *)
(* within nodes.                                                           *)
(***************************************************************************)
ClosedIn(X, nodes, edges) ==
    \A a \in X, b \in nodes : <<a, b>> \in edges => b \in X

Further(X, nodes, edges) == X \cup {b \in nodes : \E a \in X : <<a, b>> \in edges}

(* What is within n edges of from, for n up to m.                          *)
IsWithin(w, m, nodes, edges, from) ==
    w = [n \in 0 .. m |-> IF n = 0 THEN from \cap nodes
                          ELSE Further(w[n - 1], nodes, edges)]

LEMMA WithinExists ==
    ASSUME NEW nodes, NEW edges, NEW from
    PROVE  \A m \in Nat : \E w : IsWithin(w, m, nodes, edges, from)
<1> DEFINE P == {m \in Nat : \E w : IsWithin(w, m, nodes, edges, from)}
<1>1. 0 \in P
  <2> DEFINE w == [n \in 0 .. 0 |-> from \cap nodes]
  <2>1. w = [n \in 0 .. 0 |-> IF n = 0 THEN from \cap nodes
                              ELSE Further(w[n - 1], nodes, edges)]
    <3>1. \A n \in 0 .. 0 : n = 0
      OBVIOUS
    <3> QED
      BY <3>1, Zenon
  <2> HIDE DEF w
  <2> QED
    BY <2>1 DEF IsWithin
<1>2. ASSUME NEW m \in P
      PROVE  m + 1 \in P
  <2>1. PICK w : w = [n \in 0 .. m |-> IF n = 0 THEN from \cap nodes
                                       ELSE Further(w[n - 1], nodes, edges)]
    BY DEF IsWithin
  <2> DEFINE v == [n \in 0 .. m + 1 |-> IF n = m + 1 THEN Further(w[m], nodes, edges)
                                        ELSE w[n]]
  <2>2. \A n \in 0 .. m + 1 : v[n] = IF n = 0 THEN from \cap nodes
                                     ELSE Further(v[n - 1], nodes, edges)
    <3> SUFFICES ASSUME NEW n \in 0 .. m + 1
                 PROVE  v[n] = IF n = 0 THEN from \cap nodes
                               ELSE Further(v[n - 1], nodes, edges)
      OBVIOUS
    <3>0. m \in Nat
      OBVIOUS
    <3>1. CASE n = m + 1
      <4>1. n # 0 /\ n - 1 = m /\ m \in 0 .. m + 1 /\ m # m + 1
        BY <3>0, <3>1
      <4>2. v[n] = Further(w[m], nodes, edges)
        BY <3>1
      <4>3. v[m] = w[m]
        BY <4>1
      <4> QED
        BY <4>1, <4>2, <4>3, Zenon
    <3>2. CASE n # m + 1
      <4>1. n \in 0 .. m /\ (n # 0 => n - 1 \in 0 .. m + 1 /\ n - 1 # m + 1)
        BY <3>0, <3>2
      <4>2. v[n] = w[n] /\ (n # 0 => v[n - 1] = w[n - 1])
        BY <3>2, <4>1
      <4>3. w[n] = IF n = 0 THEN from \cap nodes ELSE Further(w[n - 1], nodes, edges)
        BY <2>1, <4>1, Zenon
      <4> QED
        BY <4>2, <4>3, Zenon
    <3> QED
      BY <3>1, <3>2
  <2>3. v = [n \in 0 .. m + 1 |-> v[n]]
    OBVIOUS
  <2> HIDE DEF v
  <2>4. v = [n \in 0 .. m + 1 |-> IF n = 0 THEN from \cap nodes
                                  ELSE Further(v[n - 1], nodes, edges)]
    BY <2>2, <2>3, Zenon
  <2> QED
    BY <2>4 DEF IsWithin
<1>3. P = Nat
  <2> HIDE DEF P
  <2>1. P \in SUBSET Nat
    BY DEF P
  <2> QED
    BY <1>1, <1>2, <2>1, Induction
<1> QED
  BY <1>3

LEMMA ReachableIsWithin ==
    ASSUME NEW nodes, NEW edges, NEW from, Cardinality(nodes) \in Nat
    PROVE  \E w : /\ IsWithin(w, Cardinality(nodes), nodes, edges, from)
                 /\ Reachable(nodes, edges, from) = w[Cardinality(nodes)]
<1> DEFINE C == Cardinality(nodes)
           within == CHOOSE w : w = [n \in 0 .. C |->
                IF n = 0
                THEN from \cap nodes
                ELSE LET before == w[n - 1]
                     IN  before \cup {b \in nodes : \E a \in before : <<a, b>> \in edges}]
<1>1. Reachable(nodes, edges, from) = within[C]
  BY Zenon DEF Reachable
<1>2. \E w : w = [n \in 0 .. C |->
                IF n = 0
                THEN from \cap nodes
                ELSE LET before == w[n - 1]
                     IN  before \cup {b \in nodes : \E a \in before : <<a, b>> \in edges}]
  <2>1. PICK w : IsWithin(w, C, nodes, edges, from)
    BY WithinExists, Zenon
  <2> QED
    BY <2>1, Zenon DEF IsWithin, Further
<1>3. IsWithin(within, C, nodes, edges, from)
  BY <1>2, Zenon DEF IsWithin, Further
<1> QED
  BY <1>1, <1>3, Zenon

(* Each number of edges reaches one more block, until nothing is reached   *)
(* that was not.                                                           *)
LEMMA WithinGrows ==
    ASSUME NEW nodes, NEW edges, NEW from, IsFiniteSet(nodes),
           NEW w, IsWithin(w, Cardinality(nodes), nodes, edges, from),
           NEW X, from \cap nodes \subseteq X, ClosedIn(X, nodes, edges)
    PROVE  \A n \in 0 .. Cardinality(nodes) :
                /\ w[n] \subseteq nodes
                /\ from \cap nodes \subseteq w[n]
                /\ w[n] \subseteq X
                /\ ClosedIn(w[n], nodes, edges) \/ Cardinality(w[n]) >= n
<1> DEFINE C == Cardinality(nodes)
           Good(n) == /\ w[n] \subseteq nodes
                      /\ from \cap nodes \subseteq w[n]
                      /\ w[n] \subseteq X
                      /\ ClosedIn(w[n], nodes, edges) \/ Cardinality(w[n]) >= n
           P == {n \in Nat : n <= C => Good(n)}
<1>1. C \in Nat
  BY FS_CardinalityType
<1>2. \A n \in 0 .. C : w[n] = IF n = 0 THEN from \cap nodes
                               ELSE Further(w[n - 1], nodes, edges)
  <2>1. w = [n \in 0 .. C |-> IF n = 0 THEN from \cap nodes
                               ELSE Further(w[n - 1], nodes, edges)]
    BY Zenon DEF IsWithin
  <2> QED
    BY <2>1, Zenon
<1>3. 0 \in P
  <2>1. w[0] = from \cap nodes
    BY <1>1, <1>2
  <2>2. IsFiniteSet(w[0])
    BY <2>1, FS_Subset
  <2>3. Cardinality(w[0]) >= 0
    BY <2>2, FS_CardinalityType
  <2> QED
    BY <2>1, <2>3
<1>4. ASSUME NEW n \in P PROVE n + 1 \in P
  <2> SUFFICES ASSUME n + 1 <= C PROVE Good(n + 1)
    OBVIOUS
  <2>1. Good(n)
    BY <1>1
  <2> DEFINE now == w[n]
             then == w[n + 1]
  <2>2. then = Further(now, nodes, edges)
    <3>1. n + 1 \in 0 .. C /\ n + 1 # 0 /\ (n + 1) - 1 = n
      BY <1>1
    <3> QED
      BY <3>1, <1>2
  <2>3. /\ then \subseteq nodes
        /\ from \cap nodes \subseteq then
        /\ then \subseteq X
        /\ now \subseteq then
    BY <2>1, <2>2 DEF Further, ClosedIn
  <2>4. ClosedIn(then, nodes, edges) \/ Cardinality(then) >= n + 1
    <3>1. CASE ClosedIn(now, nodes, edges)
      <4>1. then = now
        BY <2>2, <3>1 DEF Further, ClosedIn
      <4> QED
        BY <3>1, <4>1, Zenon
    <3>2. CASE ~ClosedIn(now, nodes, edges)
      <4>1. then # now
        BY <2>2, <3>2 DEF Further, ClosedIn
      <4>2. IsFiniteSet(then) /\ IsFiniteSet(now)
        BY <2>1, <2>3, FS_Subset
      <4>3. Cardinality(now) <= Cardinality(then)
            /\ Cardinality(now) # Cardinality(then)
        <5>1. now \in SUBSET then
          BY <2>3
        <5> QED
          BY <4>1, <4>2, <5>1, FS_Subset, Zenon
      <4>4. Cardinality(now) \in Nat /\ Cardinality(then) \in Nat
        BY <4>2, FS_CardinalityType
      <4>5. Cardinality(now) >= n
        BY <2>1, <3>2
      <4> DEFINE c == Cardinality(now)
                 d == Cardinality(then)
      <4> HIDE DEF c, d, now, then
      <4>6. c <= d /\ c # d /\ c \in Nat /\ d \in Nat /\ c >= n
        BY <4>3, <4>4, <4>5 DEF c, d
      <4>7. d >= n + 1
        BY <4>6
      <4> QED
        BY <4>7 DEF d
    <3> QED
      BY <3>1, <3>2
  <2> QED
    BY <2>3, <2>4
<1>5. P = Nat
  <2> HIDE DEF P
  <2>1. P \in SUBSET Nat
    BY DEF P
  <2> QED
    BY <1>3, <1>4, <2>1, Induction
<1>6. \A n \in 0 .. C : Good(n)
  <2> HIDE DEF Good
  <2> QED
    BY <1>1, <1>5
<1> QED
  BY <1>6

LEMMA ReachableLeast ==
    ASSUME NEW nodes, NEW edges, NEW from, IsFiniteSet(nodes)
    PROVE  LET R == Reachable(nodes, edges, from)
           IN  /\ R \subseteq nodes
               /\ from \cap nodes \subseteq R
               /\ ClosedIn(R, nodes, edges)
               /\ \A X : from \cap nodes \subseteq X /\ ClosedIn(X, nodes, edges)
                        => R \subseteq X
<1> DEFINE C == Cardinality(nodes)
           R == Reachable(nodes, edges, from)
<1>1. C \in Nat /\ C \in 0 .. C
  BY FS_CardinalityType
<1>2. PICK w : IsWithin(w, C, nodes, edges, from) /\ R = w[C]
  BY <1>1, ReachableIsWithin
<1>3. ASSUME NEW X, from \cap nodes \subseteq X, ClosedIn(X, nodes, edges)
      PROVE  /\ R \subseteq nodes
             /\ from \cap nodes \subseteq R
             /\ R \subseteq X
             /\ ClosedIn(R, nodes, edges) \/ Cardinality(R) >= C
  <2>1. \A n \in 0 .. C : /\ w[n] \subseteq nodes
                          /\ from \cap nodes \subseteq w[n]
                          /\ w[n] \subseteq X
                          /\ ClosedIn(w[n], nodes, edges) \/ Cardinality(w[n]) >= n
    BY <1>2, <1>3, WithinGrows, Zenon
  <2> HIDE DEF R, C
  <2> QED
    BY <1>1, <1>2, <2>1, Zenon
<1>4. from \cap nodes \subseteq nodes /\ ClosedIn(nodes, nodes, edges)
  BY DEF ClosedIn
<1>5. R \subseteq nodes /\ from \cap nodes \subseteq R
  BY <1>3, <1>4
<1>6. ClosedIn(R, nodes, edges)
  <2>1. CASE Cardinality(R) >= C
    <3>1. Cardinality(R) = C
      BY <1>1, <1>5, <2>1, FS_Subset, FS_CardinalityType
    <3>2. R = nodes
      BY <1>5, <3>1, FS_Subset
    <3> QED
      BY <3>2, <1>4
  <2> QED
    BY <2>1, <1>3, <1>4
<1> HIDE DEF R
<1>7. \A X : from \cap nodes \subseteq X /\ ClosedIn(X, nodes, edges) => R \subseteq X
  BY <1>3
<1> QED
  BY <1>5, <1>6, <1>7 DEF R
-----------------------------------------------------------------------------
(***************************************************************************)
(* The graphs of functions: edges, live blocks, and the blocks reached     *)
(* without passing h, which are those that h does not dominate.            *)
(***************************************************************************)
LEMMA EdgeEnds ==
    ASSUME NEW f \in Graphs, NEW a, NEW b
    PROVE  /\ <<a, b>> \in Edges(f) => a \in DOMAIN f /\ b \in DOMAIN f \ {Entry}
           /\ <<b, a>> \in Reversed(Edges(f)) <=> <<a, b>> \in Edges(f)
<1>1. \A e \in Edges(f) : e = <<e[1], e[2]>> /\ e[1] \in DOMAIN f
  <2> SUFFICES ASSUME NEW e \in Edges(f) PROVE e = <<e[1], e[2]>> /\ e[1] \in DOMAIN f
    OBVIOUS
  <2>1. PICK c \in DOMAIN f : e \in {<<c, f[c][n]>> : n \in DOMAIN f[c]}
    BY DEF Edges
  <2>2. PICK n \in DOMAIN f[c] : e = <<c, f[c][n]>>
    BY <2>1
  <2> QED
    BY <2>2
<1>2. \A e \in Edges(f) : e[2] \in DOMAIN f \ {Entry}
  BY GraphsAssumption DEF IsCfg
<1>3. <<a, b>> \in Edges(f) => a \in DOMAIN f /\ b \in DOMAIN f \ {Entry}
  BY <1>1, <1>2
<1>4. <<b, a>> \in Reversed(Edges(f)) <=> <<a, b>> \in Edges(f)
  BY <1>1 DEF Reversed
<1> QED
  BY <1>3, <1>4

LEMMA LiveClosed ==
    ASSUME NEW f \in Graphs
    PROVE  /\ LiveBlocks(f) \subseteq DOMAIN f
           /\ IsFiniteSet(LiveBlocks(f))
           /\ Entry \in LiveBlocks(f)
           /\ \A a \in LiveBlocks(f) : \A b : <<a, b>> \in Edges(f) => b \in LiveBlocks(f)
           /\ \A X : /\ Entry \in X
                     /\ \A a \in X : \A b : <<a, b>> \in Edges(f) => b \in X
                    => LiveBlocks(f) \subseteq X
<1> DEFINE N == DOMAIN f
           E == Edges(f)
           V == LiveBlocks(f)
<1>1. IsFiniteSet(N) /\ Entry \in N
  BY GraphsAssumption DEF IsCfg
<1>2. /\ V \subseteq N
      /\ {Entry} \cap N \subseteq V
      /\ ClosedIn(V, N, E)
      /\ \A X : {Entry} \cap N \subseteq X /\ ClosedIn(X, N, E) => V \subseteq X
  BY <1>1, ReachableLeast DEF LiveBlocks
<1> HIDE DEF V, E
<1>3. \A a, b : <<a, b>> \in E => b \in N
  BY EdgeEnds DEF E
<1>4. IsFiniteSet(V) /\ Entry \in V
  BY <1>1, <1>2, FS_Subset
<1>5. \A a \in V : \A b : <<a, b>> \in E => b \in V
  BY <1>2, <1>3 DEF ClosedIn
<1>6. \A X : /\ Entry \in X
             /\ \A a \in X : \A b : <<a, b>> \in E => b \in X
            => V \subseteq X
  <2> TAKE X
  <2> HAVE /\ Entry \in X
           /\ \A a \in X : \A b : <<a, b>> \in E => b \in X
  <2> QED
    BY <1>2 DEF ClosedIn
<1> QED
  BY <1>2, <1>4, <1>5, <1>6, Zenon DEF V, E

Avoiding(f, h) == Reachable(DOMAIN f \ {h}, Edges(f), {Entry})

LEMMA AvoidingClosed ==
    ASSUME NEW f \in Graphs, NEW h, h # Entry
    PROVE  LET A == Avoiding(f, h)
           IN  /\ A \subseteq LiveBlocks(f)
               /\ h \notin A
               /\ Entry \in A
               /\ \A a \in A : \A b : <<a, b>> \in Edges(f) /\ b # h => b \in A
<1> DEFINE N == DOMAIN f \ {h}
           E == Edges(f)
           V == LiveBlocks(f)
           A == Avoiding(f, h)
<1>1. IsFiniteSet(N) /\ Entry \in N
  BY GraphsAssumption, FS_Subset DEF IsCfg
<1>2. /\ A \subseteq N
      /\ {Entry} \cap N \subseteq A
      /\ ClosedIn(A, N, E)
      /\ \A X : {Entry} \cap N \subseteq X /\ ClosedIn(X, N, E) => A \subseteq X
  BY <1>1, ReachableLeast DEF Avoiding
<1> HIDE DEF A, E, V
<1>3. \A a, b : <<a, b>> \in E => b \in DOMAIN f
  BY EdgeEnds DEF E
<1>4. Entry \in V /\ \A a \in V : \A b : <<a, b>> \in E => b \in V
  BY LiveClosed DEF V, E
<1>5. A \subseteq V
  BY <1>2, <1>4 DEF ClosedIn
<1>6. h \notin A /\ Entry \in A
  BY <1>1, <1>2
<1>7. \A a \in A : \A b : <<a, b>> \in E /\ b # h => b \in A
  BY <1>2, <1>3 DEF ClosedIn
<1> QED
  BY <1>5, <1>6, <1>7 DEF A, E, V
-----------------------------------------------------------------------------
(***************************************************************************)
(* Natural loops.  The body of a loop is what leads to a latch without     *)
(* passing the header, and the header dominates it.                        *)
(***************************************************************************)
Body(f, h) == Reachable(LiveBlocks(f) \ {h}, Reversed(Edges(f)), Latches(f, h))

(* What the proofs about loops use of the loop of h.                       *)
IsLoop(f, h) ==
    /\ h \in LiveBlocks(f) /\ h # Entry
    /\ LoopBlocks(f, h) = {h} \cup Body(f, h)
    /\ Body(f, h) \subseteq LiveBlocks(f) \ {h}
    /\ Body(f, h) \cap Avoiding(f, h) = {}
    /\ \A a \in Body(f, h), b \in LiveBlocks(f) \ {h} :
            <<b, a>> \in Edges(f) => b \in Body(f, h)
    /\ \A X : /\ \A l \in Body(f, h) : <<l, h>> \in Edges(f) => l \in X
              /\ \A a \in X, b \in Body(f, h) : <<b, a>> \in Edges(f) => b \in X
             => Body(f, h) \subseteq X

LEMMA HeaderHasLoop ==
    ASSUME NEW f \in Graphs, NEW h \in Headers(f)
    PROVE  IsLoop(f, h)
<1> DEFINE N == LiveBlocks(f) \ {h}
           E == Edges(f)
           V == LiveBlocks(f)
           A == Avoiding(f, h)
           B == Body(f, h)
           T == Latches(f, h)
           R == Reversed(Edges(f))
<1>1. h \in V /\ T # {}
  BY DEF Headers
<1>2. \A l \in T : l \in V /\ <<l, h>> \in E /\ (l = h \/ l \notin A)
  BY DEF Latches, Dominates, Avoiding
<1>3. h # Entry
  BY <1>1, <1>2, EdgeEnds
<1>4. IsFiniteSet(N)
  BY LiveClosed, FS_Subset
<1>5. /\ B \subseteq N
      /\ T \cap N \subseteq B
      /\ ClosedIn(B, N, R)
      /\ \A X : T \cap N \subseteq X /\ ClosedIn(X, N, R) => B \subseteq X
  BY <1>4, ReachableLeast DEF Body
<1>6. \A a, b : <<b, a>> \in R <=> <<a, b>> \in E
  BY EdgeEnds
<1>7. LoopBlocks(f, h) = {h} \cup B
  BY DEF LoopBlocks, Body
<1>8. h \notin A /\ \A a \in A : \A b : <<a, b>> \in E /\ b # h => b \in A
  BY <1>3, AvoidingClosed
<1> HIDE DEF A, B, E, R, T, V
<1>9. B \cap A = {}
  <2> DEFINE X == N \ A
  <2>1. T \cap N \subseteq X
    BY <1>2
  <2>2. ClosedIn(X, N, R)
    BY <1>6, <1>8 DEF ClosedIn
  <2> QED
    BY <1>5, <2>1, <2>2
<1>10. \A a \in B, b \in N : <<b, a>> \in E => b \in B
  BY <1>5, <1>6 DEF ClosedIn
<1>11. \A X : /\ \A l \in B : <<l, h>> \in E => l \in X
              /\ \A a \in X, b \in B : <<b, a>> \in E => b \in X
             => B \subseteq X
  <2> TAKE X
  <2> HAVE /\ \A l \in B : <<l, h>> \in E => l \in X
           /\ \A a \in X, b \in B : <<b, a>> \in E => b \in X
  <2> DEFINE Y == X \cap B
  <2>1. T \cap N \subseteq Y
    BY <1>2, <1>5
  <2>2. ClosedIn(Y, N, R)
    BY <1>6, <1>10 DEF ClosedIn
  <2> QED
    BY <1>5, <2>1, <2>2
<1> QED
  BY <1>1, <1>3, <1>5, <1>7, <1>9, <1>10, <1>11, Zenon DEF IsLoop, A, B, E, V

(* Of two headers one that the other's paths avoid is not dominated by it: *)
(* not both dominate each other.                                           *)
LEMMA DominanceAntisymmetric ==
    ASSUME NEW f \in Graphs, NEW h \in LiveBlocks(f), NEW k \in LiveBlocks(f),
           h # k, h # Entry, k # Entry, k \notin Avoiding(f, h)
    PROVE  h \in Avoiding(f, k)
<1> DEFINE A == Avoiding(f, h)
           B == Avoiding(f, k)
           E == Edges(f)
           V == LiveBlocks(f)
<1>1. /\ h \notin A /\ Entry \in A
      /\ \A a \in A : \A b : <<a, b>> \in E /\ b # h => b \in A
  BY AvoidingClosed
<1>2. /\ k \notin B /\ Entry \in B
      /\ \A a \in B : \A b : <<a, b>> \in E /\ b # k => b \in B
  BY AvoidingClosed
<1>3. \A X : /\ Entry \in X
             /\ \A a \in X : \A b : <<a, b>> \in E => b \in X
            => V \subseteq X
  BY LiveClosed, Zenon
<1> HIDE DEF A, B, E, V
<1> SUFFICES ASSUME h \notin B PROVE FALSE
  BY Zenon DEF B
<1>4. k \notin A
  BY DEF A
<1> DEFINE X == A \cap B
<1>5. \A a \in X : \A b : <<a, b>> \in E => b \in X
  BY <1>1, <1>2, <1>4
<1>6. V \subseteq X
  <2>1. Entry \in X
    BY <1>1, <1>2
  <2> HIDE DEF X
  <2> QED
    BY <1>3, <1>5, <2>1, Zenon
<1> QED
  BY <1>1, <1>6 DEF V

(* If two loops share a block, one of the headers dominates the other.     *)
LEMMA SharedBlock ==
    ASSUME NEW f \in Graphs, NEW h, NEW k, h # k, IsLoop(f, h), IsLoop(f, k),
           LoopBlocks(f, h) \cap LoopBlocks(f, k) # {}
    PROVE  k \notin Avoiding(f, h) \/ h \notin Avoiding(f, k)
<1> DEFINE A == Avoiding(f, h)
           B == Avoiding(f, k)
           E == Edges(f)
           V == LiveBlocks(f)
<1>1. /\ Entry \in A
      /\ \A a \in A : \A b : <<a, b>> \in E /\ b # h => b \in A
  BY AvoidingClosed DEF IsLoop
<1>2. /\ Entry \in B
      /\ \A a \in B : \A b : <<a, b>> \in E /\ b # k => b \in B
  BY AvoidingClosed DEF IsLoop
<1>3. \A X : /\ Entry \in X
             /\ \A a \in X : \A b : <<a, b>> \in E => b \in X
            => V \subseteq X
  BY LiveClosed, Zenon
<1>4. PICK b \in LoopBlocks(f, h) : b \in LoopBlocks(f, k)
  OBVIOUS
<1>5. /\ b \in V
      /\ b = h \/ b \notin A
      /\ b = k \/ b \notin B
  BY <1>4 DEF IsLoop
<1> HIDE DEF A, B, E, V
<1> SUFFICES ASSUME k \in A, h \in B PROVE FALSE
  BY Zenon DEF A, B
<1> DEFINE X == A \cup B
<1>6. \A a \in X : \A c : <<a, c>> \in E => c \in X
  BY <1>1, <1>2
<1>7. V \subseteq X
  <2>1. Entry \in X
    BY <1>1
  <2> HIDE DEF X
  <2> QED
    BY <1>3, <1>6, <2>1, Zenon
<1>8. h \notin A /\ k \notin B
  BY AvoidingClosed DEF IsLoop, A, B
<1> QED
  BY <1>5, <1>7, <1>8

(* If they share one and the header of the first dominates the header of   *)
(* the second, the second loop lies in the body of the first.              *)
LEMMA LoopInside ==
    ASSUME NEW f \in Graphs, NEW h, NEW k, h # k, IsLoop(f, h), IsLoop(f, k),
           LoopBlocks(f, h) \cap LoopBlocks(f, k) # {}, k \notin Avoiding(f, h)
    PROVE  /\ LoopBlocks(f, k) \subseteq LoopBlocks(f, h)
           /\ h \notin LoopBlocks(f, k)
<1> DEFINE A == Avoiding(f, k)
           E == Edges(f)
           V == LiveBlocks(f)
           Bh == Body(f, h)
           Bk == Body(f, k)
<1>1. /\ h \in V /\ h # Entry /\ k \in V /\ k # Entry
      /\ Bh \subseteq V \ {h} /\ Bk \subseteq V \ {k}
      /\ Bk \cap A = {}
      /\ LoopBlocks(f, h) = {h} \cup Bh /\ LoopBlocks(f, k) = {k} \cup Bk
      /\ \A a \in Bh, b \in V \ {h} : <<b, a>> \in E => b \in Bh
  BY DEF IsLoop
<1>2. \A X : /\ \A l \in Bk : <<l, k>> \in E => l \in X
             /\ \A a \in X, b \in Bk : <<b, a>> \in E => b \in X
            => Bk \subseteq X
  BY Zenon DEF IsLoop
<1>3. h \in A
  BY <1>1, DominanceAntisymmetric
<1>4. /\ k \notin A /\ Entry \in A
      /\ \A a \in A : \A b : <<a, b>> \in E /\ b # k => b \in A
  BY <1>1, AvoidingClosed
<1>5. /\ \A a \in V : \A b : <<a, b>> \in E => b \in V
      /\ \A X : /\ Entry \in X
                /\ \A a \in X : \A b : <<a, b>> \in E => b \in X
               => V \subseteq X
  BY LiveClosed, Zenon
<1>6. PICK c \in LoopBlocks(f, h) : c \in LoopBlocks(f, k)
  OBVIOUS
<1>7. c \in {h} \cup Bh /\ c \in {k} \cup Bk
  BY <1>1, <1>6
<1> HIDE DEF A, E, V, Bh, Bk
<1>8. k \in Bh
  <2> SUFFICES ASSUME k \notin Bh PROVE FALSE
    OBVIOUS
  <2> DEFINE X == A \cup (V \ ({h} \cup Bh))
  <2>1. Entry \in X
    BY <1>4
  <2>2. ASSUME NEW a \in X, NEW b, <<a, b>> \in E PROVE b \in X
    <3>1. CASE a \in A
      BY <1>1, <1>4, <2>2, <3>1
    <3>2. CASE a \in V \ ({h} \cup Bh)
      BY <1>1, <1>3, <1>5, <2>2, <3>2
    <3> QED
      BY <3>1, <3>2
  <2>3. V \subseteq X
    <3> HIDE DEF X
    <3> QED
      BY <1>5, <2>1, <2>2, Zenon
  <2>4. c \in V /\ c # k /\ c \in Bk
    BY <1>1, <1>7
  <2> QED
    BY <1>1, <1>7, <2>3, <2>4
<1>9. Bk \subseteq Bh
  <2>1. \A l \in Bk : <<l, k>> \in E => l \in Bh
    BY <1>1, <1>3, <1>8
  <2>2. \A a \in Bh, b \in Bk : <<b, a>> \in E => b \in Bh
    BY <1>1, <1>3
  <2> QED
    BY <1>2, <2>1, <2>2, Zenon
<1>10. h \notin Bk
  BY <1>1, <1>3
<1> QED
  BY <1>1, <1>8, <1>9, <1>10

(* Two loops are disjoint or one lies in the other and lacks its header.   *)
LEMMA LoopsNest ==
    ASSUME NEW f \in Graphs, NEW h \in Headers(f), NEW k \in Headers(f), h # k,
           LoopBlocks(f, h) \cap LoopBlocks(f, k) # {}
    PROVE  \/ /\ LoopBlocks(f, k) \subseteq LoopBlocks(f, h)
              /\ h \notin LoopBlocks(f, k)
           \/ /\ LoopBlocks(f, h) \subseteq LoopBlocks(f, k)
              /\ k \notin LoopBlocks(f, h)
<1>1. IsLoop(f, h) /\ IsLoop(f, k)
  BY HeaderHasLoop
<1>2. k \notin Avoiding(f, h) \/ h \notin Avoiding(f, k)
  BY <1>1, SharedBlock
<1>3. CASE k \notin Avoiding(f, h)
  BY <1>1, <1>3, LoopInside
<1>4. CASE h \notin Avoiding(f, k)
  BY <1>1, <1>4, LoopInside
<1> QED
  BY <1>2, <1>3, <1>4

LEMMA LoopOfHeader ==
    ASSUME NEW f \in Graphs
    PROVE  /\ Headers(f) \subseteq LiveBlocks(f) /\ IsFiniteSet(Headers(f))
           /\ \A h \in Headers(f) : /\ h \in LoopBlocks(f, h)
                                    /\ LoopBlocks(f, h) \subseteq LiveBlocks(f)
<1>1. Headers(f) \subseteq LiveBlocks(f)
  BY DEF Headers
<1>2. \A h \in Headers(f) : IsLoop(f, h)
  BY HeaderHasLoop
<1> QED
  BY <1>1, <1>2, LiveClosed, FS_Subset DEF IsLoop

(* The headers with LoopDepth 1 are those that no other loop contains.     *)
LEMMA DepthOfBlock ==
    ASSUME NEW f \in Graphs, NEW b
    PROVE  /\ LoopDepth(f, b) > 0 <=> \E h \in Headers(f) : b \in LoopBlocks(f, h)
           /\ b \in Headers(f) =>
                (LoopDepth(f, b) = 1
                    <=> \A h \in Headers(f) : b \in LoopBlocks(f, h) => h = b)
<1> DEFINE around == {h \in Headers(f) : b \in LoopBlocks(f, h)}
<1>1. IsFiniteSet(around) /\ LoopDepth(f, b) = Cardinality(around)
  BY LoopOfHeader, FS_Subset DEF LoopDepth
<1>2. Cardinality(around) \in Nat /\ (Cardinality(around) = 0 <=> around = {})
  BY <1>1, FS_CardinalityType, FS_EmptySet
<1>3. Cardinality(around) = 1 <=> \E h : around = {h}
  BY <1>1, FS_Singleton
<1>4. b \in Headers(f) => b \in around
  BY LoopOfHeader
<1>5. LoopDepth(f, b) > 0 <=> around # {}
  BY <1>1, <1>2
<1>6. b \in Headers(f) => (LoopDepth(f, b) = 1 <=> \A h \in around : h = b)
  <2> SUFFICES ASSUME b \in around
               PROVE  (\E h : around = {h}) <=> \A h \in around : h = b
    BY <1>1, <1>3, <1>4
  <2> HIDE DEF around
  <2> QED
    OBVIOUS
<1> QED
  BY <1>5, <1>6

Outermost(f) == {h \in Headers(f) : LoopDepth(f, h) = 1}

(* A block in a loop is in one outermost loop, and in no second one.       *)
LEMMA OneOutermost ==
    ASSUME NEW f \in Graphs
    PROVE  /\ \A b : LoopDepth(f, b) > 0
                <=> \E h \in Outermost(f) : b \in LoopBlocks(f, h)
           /\ \A h, k \in Outermost(f) :
                h # k => LoopBlocks(f, h) \cap LoopBlocks(f, k) = {}
<1> DEFINE V == LiveBlocks(f)
           Size(h) == Cardinality(V \ LoopBlocks(f, h))
<1>1. ASSUME NEW b, NEW k \in Headers(f), b \in LoopBlocks(f, k)
      PROVE  \E h \in Outermost(f) : b \in LoopBlocks(f, h)
  <2> DEFINE around == {h \in Headers(f) : b \in LoopBlocks(f, h)}
             T == {Size(h) : h \in around}
  <2>1. \A h \in Headers(f) : IsFiniteSet(V \ LoopBlocks(f, h)) /\ Size(h) \in Nat
    BY LiveClosed, FS_Subset, FS_CardinalityType
  <2>2. T \in SUBSET Nat /\ T # {}
    BY <1>1, <2>1
  <2>3. PICK n \in T : \A m \in T : n <= m
    <3> HIDE DEF T
    <3> QED
      BY <2>2, LeastOne
  <2>4. PICK h \in around : \A j \in around : Size(h) <= Size(j)
    BY <2>3
  <2>5. \A j \in Headers(f) : h \in LoopBlocks(f, j) => j = h
    <3> SUFFICES ASSUME NEW j \in Headers(f), h \in LoopBlocks(f, j), j # h
                 PROVE  FALSE
      OBVIOUS
    <3>1. h \in LoopBlocks(f, h) /\ j \in LoopBlocks(f, j) /\ LoopBlocks(f, j) \subseteq V
      BY LoopOfHeader
    <3>2. LoopBlocks(f, h) \subseteq LoopBlocks(f, j) /\ j \notin LoopBlocks(f, h)
      BY <3>1, LoopsNest
    <3>3. j \in around
      BY <3>2
    <3> DEFINE P == V \ LoopBlocks(f, h)
               Q == V \ LoopBlocks(f, j)
    <3>4. Q \in SUBSET P /\ j \in P /\ j \notin Q
      BY <3>1, <3>2
    <3>5. IsFiniteSet(P) /\ Cardinality(P) <= Cardinality(Q)
      BY <2>1, <2>4, <3>3
    <3> HIDE DEF P, Q
    <3>6. Cardinality(P) \in Nat /\ Cardinality(Q) \in Nat
      BY <3>4, <3>5, FS_Subset, FS_CardinalityType
    <3>7. Cardinality(Q) <= Cardinality(P) /\ Cardinality(Q) # Cardinality(P)
      BY <3>4, <3>5, FS_Subset, Zenon
    <3> QED
      BY <3>5, <3>6, <3>7
  <2>6. h \in Outermost(f)
    BY <2>5, DepthOfBlock DEF Outermost
  <2> QED
    BY <2>6
<1>2. \A b : LoopDepth(f, b) > 0
            <=> \E h \in Outermost(f) : b \in LoopBlocks(f, h)
  BY <1>1, DepthOfBlock DEF Outermost
<1>3. ASSUME NEW h \in Outermost(f), NEW k \in Outermost(f), h # k
      PROVE  LoopBlocks(f, h) \cap LoopBlocks(f, k) = {}
  <2>1. /\ h \in Headers(f) /\ \A j \in Headers(f) : h \in LoopBlocks(f, j) => j = h
        /\ k \in Headers(f) /\ \A j \in Headers(f) : k \in LoopBlocks(f, j) => j = k
    BY DepthOfBlock DEF Outermost
  <2>2. h \in LoopBlocks(f, h) /\ k \in LoopBlocks(f, k)
    BY <2>1, LoopOfHeader
  <2> QED
    BY <1>3, <2>1, <2>2, LoopsNest
<1> QED
  BY <1>2, <1>3
-----------------------------------------------------------------------------
(***************************************************************************)
(* What the interfaces deliver.                                            *)
(***************************************************************************)
(* The library's list of a finite set has every member, and none twice.    *)
LEMMA ListOfSet ==
    ASSUME NEW S, IsFiniteSet(S)
    PROVE  /\ SetToSeq(S) \in Seq(S)
           /\ Len(SetToSeq(S)) = Cardinality(S)
           /\ ToSet(SetToSeq(S)) = S
           /\ \A m, n \in 1 .. Len(SetToSeq(S)) :
                SetToSeq(S)[m] = SetToSeq(S)[n] => m = n
<1>1. Cardinality(S) \in Nat /\ ExistsBijection(1 .. Cardinality(S), S)
  BY FS_CardinalityType
<1>2. PICK f \in [1 .. Cardinality(S) -> S] : IsInjective(f)
  BY <1>1 DEF ExistsBijection, Bijection, Injection
<1>3. /\ SetToSeq(S) \in [1 .. Cardinality(S) -> S]
      /\ IsInjective(SetToSeq(S))
  BY <1>2 DEF SetToSeq
<1>4. SetToSeq(S) \in Injection(1 .. Cardinality(S), S)
  BY <1>3 DEF Injection, IsInjective
<1>5. Cardinality(1 .. Cardinality(S)) = Cardinality(S)
  BY <1>1, FS_Interval
<1>6. SetToSeq(S) \in Surjection(1 .. Cardinality(S), S)
  BY <1>4, <1>5, FS_Injection
<1> DEFINE list == SetToSeq(S)
<1>7. /\ list \in [1 .. Cardinality(S) -> S]
      /\ \A m, n \in 1 .. Cardinality(S) : list[m] = list[n] => m = n
      /\ \A c \in S : \E n \in 1 .. Cardinality(S) : list[n] = c
  BY <1>3, <1>6 DEF IsInjective, Surjection
<1> HIDE DEF list
<1>8. list \in Seq(S) /\ Len(list) = Cardinality(S)
  BY <1>1, <1>7
<1>9. ToSet(list) = S
  BY <1>7, <1>8 DEF ToSet
<1> QED
  BY <1>7, <1>8, <1>9 DEF list

IsInfo(info) ==
    LET blocks == DOMAIN info.succs
    IN  /\ NoBlock \notin blocks
        /\ info.succs \in [blocks -> Seq(blocks)]
        /\ info.preds \in [blocks -> Seq(blocks)]
        /\ info.loops \in Seq(blocks)
        /\ \A m, n \in 1 .. Len(info.loops) :
                info.loops[m] = info.loops[n] => m = n
        /\ \A h \in ToSet(info.loops) : /\ info.blocks[h] \subseteq blocks
                                        /\ info.exits[h] \subseteq blocks
        /\ \A h, k \in ToSet(info.loops) :
                h # k => info.blocks[h] \cap info.blocks[k] = {}
        /\ info.looping = UNION {info.blocks[h] : h \in ToSet(info.loops)}

LEMMA PredsAreBlocks ==
    ASSUME NEW f \in Graphs, NEW b
    PROVE  Preds(f, b) \in Seq(DOMAIN f)
<1> DEFINE out == [a \in DOMAIN f |-> {<<a, n>> : n \in DOMAIN f[a]}]
           outgoing == UNION {{<<a, n>> : n \in DOMAIN f[a]} : a \in DOMAIN f}
           edges == {e \in outgoing : f[e[1]][e[2]] = b}
           into == SetToSeq(edges)
<1>1. f \in [DOMAIN f -> Seq(DOMAIN f)] /\ IsFiniteSet(DOMAIN f)
  BY GraphsAssumption
<1>2. ASSUME NEW a \in DOMAIN f PROVE IsFiniteSet(out[a])
  <2> DEFINE T == {<<a, n>> : n \in DOMAIN f[a]}
             N == 1 .. Len(f[a])
             arm == [p \in T |-> p[2]]
  <2>1. f[a] \in Seq(DOMAIN f)
    BY <1>1
  <2>2. DOMAIN f[a] = N /\ Len(f[a]) \in Nat
    BY <2>1
  <2>3. arm \in [T -> N]
    BY <2>2
  <2>4. \A p, q \in T : arm[p] = arm[q] => p = q
    OBVIOUS
  <2>5. IsFiniteSet(N)
    BY <2>2, FS_Interval
  <2> HIDE DEF arm, N, T
  <2>6. arm \in Injection(T, N)
    BY <2>3, <2>4 DEF Injection, IsInjective
  <2>7. IsFiniteSet(T)
    BY <2>5, <2>6, FS_Injection
  <2> QED
    BY <2>7 DEF T
<1>3. IsFiniteSet(outgoing)
  <2> DEFINE T == {out[a] : a \in DOMAIN f}
  <2> HIDE DEF out
  <2>1. out \in [DOMAIN f -> T] /\ \A t \in T : \E a \in DOMAIN f : out[a] = t
    BY DEF out
  <2>2. \A t \in T : IsFiniteSet(t)
    BY <1>2, <2>1
  <2> HIDE DEF T
  <2>3. out \in Surjection(DOMAIN f, T)
    BY <2>1 DEF Surjection
  <2>4. IsFiniteSet(T)
    BY <1>1, <2>3, FS_Surjection
  <2>5. IsFiniteSet(UNION T)
    BY <2>2, <2>4, FS_UNION
  <2>6. outgoing = UNION T
    BY DEF T, out
  <2> QED
    BY <2>5, <2>6
<1>4. IsFiniteSet(edges)
  BY <1>3, FS_Subset
<1>5. \A e \in edges : e[1] \in DOMAIN f
  OBVIOUS
<1>6. Preds(f, b) = [k \in DOMAIN into |-> into[k][1]]
  BY Zenon DEF Preds
<1> HIDE DEF edges
<1>7. into \in Seq(edges)
  BY <1>4, ListOfSet
<1> HIDE DEF into
<1>8. DOMAIN into = 1 .. Len(into) /\ \A k \in DOMAIN into : into[k][1] \in DOMAIN f
  BY <1>5, <1>7
<1>9. [k \in DOMAIN into |-> into[k][1]] \in Seq(DOMAIN f)
  BY <1>7, <1>8
<1> QED
  BY <1>6, <1>9

(* What LLVMCreateLoopInfoRef fills.                                       *)
LEMMA InfoOfGraph ==
    ASSUME NEW f \in Graphs
    PROVE  IsInfo(LLVMCreateLoopInfoRef(f))
<1> DEFINE info == LLVMCreateLoopInfoRef(f)
           D == DOMAIN f
<1>1. /\ info.succs = f
      /\ info.preds = [b \in D |-> Preds(f, b)]
      /\ info.loops = OutermostLoops(f)
      /\ info.blocks = [h \in Headers(f) |-> LoopBlocks(f, h)]
      /\ info.exits = [h \in Headers(f) |-> ExitBlocks(f, h)]
      /\ info.looping = {b \in D : LoopDepth(f, b) > 0}
  BY DEF LLVMCreateLoopInfoRef
<1> HIDE DEF info
<1>2. NoBlock \notin D /\ f \in [D -> Seq(D)]
  BY GraphsAssumption
<1>3. info.preds \in [D -> Seq(D)]
  BY <1>1, PredsAreBlocks
<1>4. /\ Outermost(f) \subseteq Headers(f) /\ IsFiniteSet(Outermost(f))
      /\ Headers(f) \subseteq D
  BY LoopOfHeader, LiveClosed, FS_Subset DEF Outermost
<1>5. /\ info.loops \in Seq(Outermost(f))
      /\ ToSet(info.loops) = Outermost(f)
      /\ \A m, n \in 1 .. Len(info.loops) : info.loops[m] = info.loops[n] => m = n
  <2>1. info.loops = SetToSeq(Outermost(f))
    BY <1>1, Zenon DEF OutermostLoops, Outermost
  <2> QED
    BY <1>4, <2>1, ListOfSet
<1>6. \A h \in Outermost(f) : /\ info.blocks[h] = LoopBlocks(f, h)
                              /\ info.exits[h] = ExitBlocks(f, h)
  BY <1>1, <1>4
<1>7. \A h \in Headers(f) : LoopBlocks(f, h) \subseteq D /\ ExitBlocks(f, h) \subseteq D
  BY LoopOfHeader, LiveClosed DEF ExitBlocks
<1>8. info.loops \in Seq(D)
  BY <1>4, <1>5
<1>9. \A h, k \in Outermost(f) : h # k => info.blocks[h] \cap info.blocks[k] = {}
  BY <1>6, OneOutermost
<1>10. info.looping = UNION {info.blocks[h] : h \in Outermost(f)}
  <2>1. \A b : LoopDepth(f, b) > 0 <=> \E h \in Outermost(f) : b \in info.blocks[h]
    BY <1>6, OneOutermost
  <2>2. \A h \in Outermost(f) : info.blocks[h] \subseteq D
    BY <1>4, <1>6, <1>7
  <2> QED
    BY <1>1, <2>1, <2>2
<1>11. \A h \in Outermost(f) : info.blocks[h] \subseteq D /\ info.exits[h] \subseteq D
  BY <1>4, <1>6, <1>7
<1> QED
  BY <1>1, <1>2, <1>3, <1>5, <1>8, <1>9, <1>10, <1>11 DEF IsInfo, info
-----------------------------------------------------------------------------
(***************************************************************************)
(* The search by value.                                                    *)
(***************************************************************************)
FirstsDiffer(list, n) == \A l, m \in 1 .. n : list[l] = list[m] => l = m

(* Of an element that occurs but once among the first the search finds the *)
(* successor.                                                              *)
LEMMA NextIsNext ==
    ASSUME NEW S, NEW list \in Seq(S), NEW j \in Nat, NEW n \in 1 .. j,
           j <= Len(list), FirstsDiffer(list, j)
    PROVE  NextOf(list, list[n]) = IF n < Len(list) THEN list[n + 1] ELSE NoBlock
<1>1. CASE n < Len(list)
  <2>1. n \in 1 .. Len(list) - 1
    BY <1>1
  <2>2. \A m \in 1 .. n - 1 : list[m] # list[n]
    BY DEF FirstsDiffer
  <2> DEFINE found == CHOOSE k \in 1 .. Len(list) - 1 :
                list[k] = list[n] /\ \A m \in 1 .. k - 1 : list[m] # list[n]
  <2>3. NextOf(list, list[n]) = list[1 + found]
    BY <2>1, Zenon DEF NextOf
  <2>4. /\ found \in 1 .. Len(list) - 1 /\ list[found] = list[n]
        /\ \A m \in 1 .. found - 1 : list[m] # list[n]
    BY <2>1, <2>2
  <2> HIDE DEF found
  <2>5. found = n
    BY <2>1, <2>2, <2>4
  <2> QED
    BY <1>1, <2>3, <2>5
<1>2. CASE n = Len(list)
  <2>1. ~ \E m \in 1 .. Len(list) - 1 : list[m] = list[n]
    BY <1>2 DEF FirstsDiffer
  <2> QED
    BY <1>2, <2>1 DEF NextOf
<1> QED
  BY <1>1, <1>2

(* Where a list repeats itself first.                                      *)
FirstRepeat(list, n) ==
    /\ n \in 2 .. Len(list)
    /\ FirstsDiffer(list, n - 1)
    /\ \E m \in 1 .. n - 1 : list[m] = list[n]

LEMMA RepeatExists ==
    ASSUME NEW S, NEW list \in Seq(S), ~FirstsDiffer(list, Len(list))
    PROVE  \E n : FirstRepeat(list, n)
<1> DEFINE T == {n \in 1 .. Len(list) : \E m \in 1 .. n - 1 : list[m] = list[n]}
<1>1. PICK l, m \in 1 .. Len(list) : list[l] = list[m] /\ l # m
  BY DEF FirstsDiffer
<1>2. T \in SUBSET Nat
  OBVIOUS
<1>3. T # {}
  <2>1. CASE l < m
    BY <1>1, <2>1
  <2>2. CASE m < l
    BY <1>1, <2>2
  <2> QED
    BY <1>1, <2>1, <2>2
<1>4. PICK n \in T : \A k \in T : n <= k
  <2> HIDE DEF T
  <2> QED
    BY <1>2, <1>3, LeastOne
<1>5. FirstsDiffer(list, n - 1)
  <2> SUFFICES ASSUME NEW i \in 1 .. n - 1, NEW k \in 1 .. n - 1,
                      list[i] = list[k], i # k
               PROVE  FALSE
    BY DEF FirstsDiffer
  <2>1. CASE i < k
    <3>1. k \in T
      BY <2>1
    <3> QED
      BY <1>4, <3>1
  <2>2. CASE k < i
    <3>1. i \in T
      BY <2>2
    <3> QED
      BY <1>4, <3>1
  <2> QED
    BY <2>1, <2>2
<1> QED
  BY <1>4, <1>5 DEF FirstRepeat
-----------------------------------------------------------------------------
(***************************************************************************)
(* What has been given to the client, as a list without repetitions.       *)
(***************************************************************************)
Lists(s, S) ==
    /\ s \in Seq(S)
    /\ \A x \in S : \E n \in 1 .. Len(s) : s[n] = x
    /\ FirstsDiffer(s, Len(s))

LEMMA ListsEmpty == Lists(<<>>, {})
BY DEF Lists, FirstsDiffer

LEMMA ListsAppend ==
    ASSUME NEW s, NEW S, Lists(s, S), NEW x, x \notin S
    PROVE  Lists(Append(s, x), S \cup {x})
<1> DEFINE t == Append(s, x)
<1>1. s \in Seq(S) /\ s \in Seq(S \cup {x})
  BY DEF Lists
<1>2. /\ t \in Seq(S \cup {x}) /\ Len(t) = Len(s) + 1 /\ t[Len(s) + 1] = x
      /\ \A n \in 1 .. Len(s) : t[n] = s[n] /\ s[n] \in S
  BY <1>1
<1>3. \A y \in S \cup {x} : \E n \in 1 .. Len(t) : t[n] = y
  BY <1>1, <1>2 DEF Lists
<1>4. FirstsDiffer(t, Len(t))
  BY <1>1, <1>2 DEF Lists, FirstsDiffer
<1> QED
  BY <1>2, <1>3, <1>4 DEF Lists

LEMMA ListsCount ==
    ASSUME NEW s, NEW S, Lists(s, S)
    PROVE  ToSet(s) = S /\ IsFiniteSet(S) /\ Len(s) = Cardinality(S)
<1> DEFINE N == 1 .. Len(s)
<1>1. s \in Seq(S) /\ Len(s) \in Nat /\ DOMAIN s = N /\ s \in [N -> S]
  BY DEF Lists
<1>2. ToSet(s) = S
  BY <1>1 DEF Lists, ToSet
<1>3. IsFiniteSet(N) /\ Cardinality(N) = Len(s)
  BY <1>1, FS_Interval
<1>4. s \in Injection(N, S) /\ s \in Surjection(N, S)
  BY <1>1 DEF Lists, FirstsDiffer, Injection, IsInjective, Surjection
<1>5. ExistsBijection(N, S)
  BY <1>4 DEF ExistsBijection, Bijection
<1> QED
  BY <1>2, <1>3, <1>5, FS_Bijection
-----------------------------------------------------------------------------
(***************************************************************************)
(* The invariant.  A client that keeps only a value is where it would be   *)
(* had it kept the position: at the entry behind those it was given, if no *)
(* entry repeats; ahead of the first repetition for ever, if one does.     *)
(***************************************************************************)
Types ==
    /\ pc \in {"turn", "drain", "done"}
    /\ kind \in {"successors", "predecessors", "blocks", "exits"}
    /\ IsInfo(g)
    /\ OverEdges => block \in DOMAIN g.succs /\ pc # "drain"

EdgesInOrder ==
    OverEdges /\ ~Repeats =>
        /\ seen \in Seq(DOMAIN g.succs) /\ Len(seen) <= Len(List)
        /\ \A n \in 1 .. Len(seen) : seen[n] = List[n]
        /\ cur = IF Len(seen) < Len(List) THEN List[Len(seen) + 1] ELSE NoBlock
        /\ pc = "done" => cur = NoBlock

BeforeRepeat(x, list) ==
    \E n : FirstRepeat(list, n) /\ \E j \in 1 .. n - 1 : x = list[j]

EdgesForEver ==
    OverEdges /\ Repeats => pc = "turn" /\ BeforeRepeat(cur, List)

Of(h, B) == {<<h, b>> : b \in B}

Inside(k, info) == IF k = "blocks" THEN info.blocks ELSE info.exits

(* The blocks or exits of the first n loops.                               *)
Upto(n, k, info) ==
    UNION {Of(info.loops[m], Inside(k, info)[info.loops[m]]) : m \in 1 .. n}

(* n loops are done with.                                                  *)
LoopsDone(n) ==
    /\ n \in 0 .. Len(g.loops)
    /\ cur = IF n < Len(g.loops) THEN g.loops[n + 1] ELSE NoBlock
    /\ pc # "drain" => Lists(seen, Upto(n, kind, g))
    /\ pc = "drain" =>
        /\ n < Len(g.loops)
        /\ worklist \subseteq Inside(kind, g)[cur]
        /\ Lists(seen, Upto(n, kind, g) \cup Of(cur, Inside(kind, g)[cur] \ worklist))
    /\ pc = "done" => n = Len(g.loops)

LoopsInOrder == ~OverEdges => \E n : LoopsDone(n)

Inv == Types /\ EdgesInOrder /\ EdgesForEver /\ LoopsInOrder

LEMMA ListIsOfBlocks ==
    ASSUME Types
    PROVE  /\ OverEdges => List \in Seq(DOMAIN g.succs)
           /\ ~OverEdges => List = g.loops
           /\ List \in Seq(DOMAIN g.succs)
           /\ NoBlock \notin DOMAIN g.succs
           /\ Repeats <=> ~FirstsDiffer(List, Len(List))
           /\ First = FirstOf(List)
           /\ Following = NextOf(List, cur)
<1>1. CASE kind = "successors"
  <2>1. List = g.succs[block]
    BY <1>1 DEF List
  <2>2. First = FirstOf(List) /\ Following = NextOf(List, cur)
    BY <1>1, <2>1 DEF First, Following, LLVMGetFirstSuccessor, LLVMGetNextSuccessor
  <2>3. List \in Seq(DOMAIN g.succs) /\ NoBlock \notin DOMAIN g.succs
    BY <1>1, <2>1 DEF Types, IsInfo, OverEdges
  <2>4. Repeats <=> ~FirstsDiffer(List, Len(List))
    BY <2>3 DEF Repeats, FirstsDiffer
  <2> QED
    BY <1>1, <2>1, <2>2, <2>3, <2>4 DEF OverEdges
<1>2. CASE kind = "predecessors"
  <2>1. List = g.preds[block]
    BY <1>2 DEF List
  <2>2. First = FirstOf(List) /\ Following = NextOf(List, cur)
    BY <1>2, <2>1 DEF First, Following, LLVMGetFirstPredecessor, LLVMGetNextPredecessor
  <2>3. List \in Seq(DOMAIN g.succs) /\ NoBlock \notin DOMAIN g.succs
    BY <1>2, <2>1 DEF Types, IsInfo, OverEdges
  <2>4. Repeats <=> ~FirstsDiffer(List, Len(List))
    BY <2>3 DEF Repeats, FirstsDiffer
  <2> QED
    BY <1>2, <2>1, <2>2, <2>3, <2>4 DEF OverEdges
<1>3. CASE kind \notin {"successors", "predecessors"}
  <2>1. List = g.loops
    BY <1>3 DEF List
  <2>2. First = FirstOf(List) /\ Following = NextOf(List, cur)
    BY <1>3, <2>1 DEF First, Following, LLVMGetFirstLoop, LLVMGetNextLoop
  <2>3. List \in Seq(DOMAIN g.succs) /\ NoBlock \notin DOMAIN g.succs
    BY <1>3, <2>1 DEF Types, IsInfo
  <2>4. Repeats <=> ~FirstsDiffer(List, Len(List))
    BY <2>3 DEF Repeats, FirstsDiffer
  <2> QED
    BY <1>3, <2>1, <2>2, <2>3, <2>4 DEF OverEdges
<1> QED
  BY <1>1, <1>2, <1>3

LEMMA InitInv == Init => Inv
<1> SUFFICES ASSUME Init PROVE Inv
  OBVIOUS
<1>1. Types
  <2>1. PICK f \in Graphs : g = LLVMCreateLoopInfoRef(f)
    BY DEF Init
  <2>2. IsInfo(g)
    BY <2>1, InfoOfGraph
  <2> QED
    BY <2>2 DEF Types, Init
<1>2. /\ List \in Seq(DOMAIN g.succs)
      /\ cur = IF 0 < Len(List) THEN List[1] ELSE NoBlock
      /\ ~OverEdges => List = g.loops
      /\ Repeats <=> ~FirstsDiffer(List, Len(List))
      /\ seen = <<>> /\ pc = "turn"
  BY <1>1, ListIsOfBlocks DEF Init, FirstOf
<1>3. EdgesInOrder
  BY <1>2 DEF EdgesInOrder
<1>4. EdgesForEver
  <2> SUFFICES ASSUME OverEdges, Repeats PROVE BeforeRepeat(cur, List)
    BY <1>2 DEF EdgesForEver
  <2>1. PICK n : FirstRepeat(List, n)
    BY <1>2, RepeatExists
  <2>2. n \in 2 .. Len(List) /\ 1 \in 1 .. n - 1 /\ cur = List[1]
    BY <1>2, <2>1 DEF FirstRepeat
  <2> QED
    BY <2>1, <2>2 DEF BeforeRepeat
<1>5. LoopsInOrder
  <2> SUFFICES ASSUME ~OverEdges PROVE LoopsDone(0)
    BY DEF LoopsInOrder
  <2>1. Upto(0, kind, g) = {}
    BY DEF Upto
  <2>2. Lists(seen, Upto(0, kind, g))
    BY <1>2, <2>1, ListsEmpty, Zenon
  <2> QED
    BY <1>2, <2>2 DEF LoopsDone
<1> QED
  BY <1>1, <1>3, <1>4, <1>5 DEF Inv

(* Nothing but a turn touches a walk over edges.                           *)
LEMMA NextEdgeKeeps == Inv /\ NextEdge => Inv'
<1> SUFFICES ASSUME Inv, NextEdge PROVE Inv'
  OBVIOUS
<1>1. Types /\ EdgesInOrder /\ EdgesForEver
  BY DEF Inv
<1>2. /\ OverEdges /\ pc = "turn" /\ cur # NoBlock
      /\ UNCHANGED <<pc, g, kind, block, worklist>>
      /\ seen' = Given(cur) /\ cur' = Following
  BY DEF NextEdge
<1>3. /\ List \in Seq(DOMAIN g.succs)
      /\ NoBlock \notin DOMAIN g.succs
      /\ Repeats <=> ~FirstsDiffer(List, Len(List))
      /\ cur' = NextOf(List, cur)
  BY <1>1, <1>2, ListIsOfBlocks
<1>4. OverEdges' <=> OverEdges
  BY <1>2 DEF OverEdges
<1>5. List' = List
  BY <1>2 DEF List
<1>6. Repeats' <=> Repeats
  BY <1>5 DEF Repeats
<1>7. Types'
  BY <1>1, <1>2, <1>4 DEF Types
<1>8. EdgesInOrder'
  <2> SUFFICES ASSUME ~Repeats PROVE EdgesInOrder'
    BY <1>6 DEF EdgesInOrder
  <2>1. /\ seen \in Seq(DOMAIN g.succs) /\ Len(seen) <= Len(List)
        /\ \A n \in 1 .. Len(seen) : seen[n] = List[n]
        /\ cur = IF Len(seen) < Len(List) THEN List[Len(seen) + 1] ELSE NoBlock
    BY <1>1, <1>2 DEF EdgesInOrder
  <2>2. Len(seen) < Len(List) /\ cur = List[Len(seen) + 1]
    BY <1>2, <2>1
  <2>3. seen' = Append(seen, cur)
    BY <1>2, <2>1, <2>2 DEF Given
  <2> DEFINE n == Len(seen) + 1
  <2>4. n \in 1 .. Len(List) /\ List[n] \in DOMAIN g.succs
    BY <1>3, <2>1, <2>2
  <2>5. /\ seen' \in Seq(DOMAIN g.succs) /\ Len(seen') = n
        /\ \A m \in 1 .. n : seen'[m] = List[m]
    <3> DEFINE list == List
               last == cur
               next == seen'
    <3> HIDE DEF list, last, next
    <3>1. /\ seen \in Seq(DOMAIN g.succs) /\ last \in DOMAIN g.succs
          /\ \A m \in 1 .. Len(seen) : seen[m] = list[m]
          /\ last = list[n] /\ next = Append(seen, last)
      BY <2>1, <2>2, <2>3, <2>4 DEF list, last, next
    <3>2. /\ next \in Seq(DOMAIN g.succs) /\ Len(next) = n
          /\ \A m \in 1 .. n : next[m] = list[m]
      <4> DEFINE given == seen
                 k == Len(given)
      <4> HIDE DEF given
      <4>1. /\ given \in Seq(DOMAIN g.succs) /\ last \in DOMAIN g.succs
            /\ next = Append(given, last) /\ k \in Nat
        BY <3>1 DEF given
      <4>2. /\ next \in Seq(DOMAIN g.succs) /\ Len(next) = k + 1
            /\ next[k + 1] = last /\ \A m \in 1 .. k : next[m] = given[m]
        BY <4>1
      <4>3. list[k + 1] = last /\ \A m \in 1 .. k : given[m] = list[m]
        BY <3>1 DEF given
      <4>4. \A m \in 1 .. k + 1 : next[m] = list[m]
        BY <4>1, <4>2, <4>3
      <4> QED
        BY <4>2, <4>4 DEF given
    <3> QED
      BY <3>2 DEF list, next
  <2>6. cur' = IF n < Len(List) THEN List[n + 1] ELSE NoBlock
    <3> DEFINE list == List
    <3>1. list \in Seq(DOMAIN g.succs) /\ FirstsDiffer(list, Len(list))
          /\ n \in 1 .. Len(list) /\ Len(list) \in Nat
      BY <1>3, <2>4
    <3>2. cur' = NextOf(list, list[n])
      BY <1>3, <2>2
    <3> HIDE DEF list, n
    <3>3. NextOf(list, list[n]) = IF n < Len(list) THEN list[n + 1] ELSE NoBlock
      BY <3>1, NextIsNext
    <3> QED
      BY <3>2, <3>3 DEF list
  <2> HIDE DEF n
  <2> QED
    BY <1>2, <1>4, <1>5, <2>4, <2>5, <2>6 DEF EdgesInOrder
<1>9. EdgesForEver'
  <2> SUFFICES ASSUME Repeats PROVE BeforeRepeat(cur', List)
    BY <1>2, <1>5, <1>6 DEF EdgesForEver, BeforeRepeat
  <2>1. PICK n : FirstRepeat(List, n) /\ \E j \in 1 .. n - 1 : cur = List[j]
    BY <1>1, <1>2 DEF EdgesForEver, BeforeRepeat
  <2>2. PICK j \in 1 .. n - 1 : cur = List[j]
    BY <2>1
  <2> DEFINE list == List
  <2>3. /\ n \in 2 .. Len(list) /\ FirstsDiffer(list, n - 1)
        /\ list \in Seq(DOMAIN g.succs)
    BY <1>3, <2>1 DEF FirstRepeat
  <2>4. PICK m \in 1 .. n - 1 : list[m] = list[n]
    BY <2>1 DEF FirstRepeat
  <2>5. cur' = NextOf(list, list[j])
    BY <1>3, <2>2
  <2> HIDE DEF list
  <2>6. n - 1 \in Nat /\ n - 1 <= Len(list) /\ j < Len(list)
    BY <2>3
  <2>7. cur' = list[j + 1]
    BY <2>3, <2>5, <2>6, NextIsNext
  <2>8. \E k \in 1 .. n - 1 : cur' = list[k]
    <3>1. CASE j = n - 1
      <4>1. j + 1 = n
        BY <2>3, <3>1
      <4> QED
        BY <2>4, <2>7, <4>1
    <3>2. CASE j # n - 1
      BY <2>3, <2>7, <3>2
    <3> QED
      BY <3>1, <3>2
  <2> QED
    BY <2>1, <2>8 DEF BeforeRepeat, list
<1>10. LoopsInOrder'
  BY <1>2, <1>4 DEF LoopsInOrder
<1> QED
  BY <1>7, <1>8, <1>9, <1>10 DEF Inv

(* Steps of a client that walks over loops.                                *)
LEMMA LoopStep ==
    ASSUME Inv, ~OverEdges, UNCHANGED <<g, kind, block>>,
           pc' \in {"turn", "drain", "done"}, NEW n, LoopsDone(n)'
    PROVE  Inv'
<1>1. ~OverEdges'
  BY DEF OverEdges
<1>2. Types'
  BY <1>1 DEF Inv, Types
<1>3. EdgesInOrder' /\ EdgesForEver'
  BY <1>1 DEF EdgesInOrder, EdgesForEver
<1>4. LoopsInOrder'
  BY DEF LoopsInOrder
<1> QED
  BY <1>2, <1>3, <1>4 DEF Inv

LEMMA EnterLoopKeeps == Inv /\ EnterLoop => Inv'
<1> SUFFICES ASSUME Inv, EnterLoop PROVE Inv'
  OBVIOUS
<1>1. /\ ~OverEdges /\ pc = "turn" /\ cur # NoBlock
      /\ worklist' = Fill /\ pc' = "drain"
      /\ UNCHANGED <<g, kind, block, cur, seen>>
  BY DEF EnterLoop
<1>2. PICK n : LoopsDone(n)
  BY <1>1 DEF Inv, LoopsInOrder
<1>3. /\ n \in 0 .. Len(g.loops)
      /\ cur = IF n < Len(g.loops) THEN g.loops[n + 1] ELSE NoBlock
      /\ Lists(seen, Upto(n, kind, g))
  BY <1>1, <1>2 DEF LoopsDone
<1>4. Fill = Inside(kind, g)[cur]
  BY DEF Fill, Inside, LLVMGetBlocksInLoop, LLVMGetExitBlocks,
         worklist_insert_all, worklist_create
<1>5. Of(cur, Inside(kind, g)[cur] \ worklist') = {}
  BY <1>1, <1>4 DEF Of
<1>6. Lists(seen, Upto(n, kind, g) \cup Of(cur, Inside(kind, g)[cur] \ worklist'))
  BY <1>3, <1>5, Zenon
<1>7. LoopsDone(n)'
  BY <1>1, <1>3, <1>4, <1>6 DEF LoopsDone
<1> QED
  BY <1>1, <1>7, LoopStep

(* A loop that is being drained is not one of those done with.             *)
LEMMA CurrentIsNew ==
    ASSUME Types, NEW n \in 0 .. Len(g.loops) - 1, NEW b
    PROVE  /\ g.loops[n + 1] \in ToSet(g.loops)
           /\ <<g.loops[n + 1], b>> \notin Upto(n, kind, g)
           /\ Upto(n + 1, kind, g) =
                Upto(n, kind, g) \cup Of(g.loops[n + 1], Inside(kind, g)[g.loops[n + 1]])
<1> DEFINE loops == g.loops
           inside == Inside(kind, g)
<1>1. /\ loops \in Seq(DOMAIN g.succs)
      /\ \A l, m \in 1 .. Len(loops) : loops[l] = loops[m] => l = m
  BY DEF Types, IsInfo
<1>2. loops[n + 1] \in ToSet(loops)
  BY <1>1 DEF ToSet
<1>3. \A m \in 1 .. n : loops[m] # loops[n + 1]
  BY <1>1
<1>4. \A m : Upto(m, kind, g) = UNION {Of(loops[l], inside[loops[l]]) : l \in 1 .. m}
  BY DEF Upto
<1> HIDE DEF loops, inside
<1>5. <<loops[n + 1], b>> \notin Upto(n, kind, g)
  BY <1>3, <1>4 DEF Of
<1>6. 1 .. n + 1 = (1 .. n) \cup {n + 1}
  OBVIOUS
<1>7. Upto(n + 1, kind, g) = Upto(n, kind, g) \cup Of(loops[n + 1], inside[loops[n + 1]])
  BY <1>4, <1>6
<1> QED
  BY <1>2, <1>5, <1>7 DEF loops, inside

LEMMA PopBlockKeeps == Inv /\ PopBlock => Inv'
<1> SUFFICES ASSUME Inv, PopBlock PROVE Inv'
  OBVIOUS
<1>1. /\ pc = "drain" /\ worklist # {}
      /\ UNCHANGED <<pc, g, kind, block, cur>>
  BY DEF PopBlock, worklist_empty
<1>2. PICK v \in worklist : worklist' = worklist \ {v} /\ seen' = Given(<<cur, v>>)
  BY <1>1 DEF PopBlock, worklist_empty, worklist_pop
<1>3. ~OverEdges /\ Types
  BY <1>1 DEF Inv, Types
<1>4. seen' = Append(seen, <<cur, v>>)
  BY <1>2, <1>3 DEF Given
<1>5. PICK n : LoopsDone(n)
  BY <1>3 DEF Inv, LoopsInOrder
<1> DEFINE B == Inside(kind, g)[cur]
           done == Upto(n, kind, g)
<1>6. /\ n \in 0 .. Len(g.loops) /\ n < Len(g.loops)
      /\ cur = g.loops[n + 1]
      /\ worklist \subseteq B
      /\ Lists(seen, done \cup Of(cur, B \ worklist))
  BY <1>1, <1>5 DEF LoopsDone
<1>7. <<cur, v>> \notin done
  BY <1>3, <1>6, CurrentIsNew
<1> HIDE DEF B, done
<1>8. <<cur, v>> \notin done \cup Of(cur, B \ worklist)
  BY <1>7 DEF Of
<1>9. (done \cup Of(cur, B \ worklist)) \cup {<<cur, v>>} = done \cup Of(cur, B \ worklist')
  BY <1>2, <1>6 DEF Of
<1>10. Lists(seen', done \cup Of(cur, B \ worklist'))
  BY <1>4, <1>6, <1>8, <1>9, ListsAppend, Zenon
<1>11. LoopsDone(n)'
  BY <1>1, <1>2, <1>6, <1>10 DEF LoopsDone, B, done
<1> QED
  BY <1>1, <1>3, <1>11, LoopStep

LEMMA NextLoopKeeps == Inv /\ NextLoop => Inv'
<1> SUFFICES ASSUME Inv, NextLoop PROVE Inv'
  OBVIOUS
<1>1. /\ pc = "drain" /\ worklist = {}
      /\ cur' = Following /\ pc' = "turn"
      /\ UNCHANGED <<g, kind, block, worklist, seen>>
  BY DEF NextLoop, worklist_empty
<1>2. ~OverEdges /\ Types
  BY <1>1 DEF Inv, Types
<1>3. PICK n : LoopsDone(n)
  BY <1>2 DEF Inv, LoopsInOrder
<1>4. /\ n \in 0 .. Len(g.loops) /\ n < Len(g.loops)
      /\ cur = g.loops[n + 1]
      /\ Lists(seen, Upto(n, kind, g) \cup Of(cur, Inside(kind, g)[cur] \ worklist))
  BY <1>1, <1>3 DEF LoopsDone
<1>5. /\ g.loops \in Seq(DOMAIN g.succs) /\ FirstsDiffer(g.loops, Len(g.loops))
      /\ cur' = NextOf(g.loops, cur)
  <2>1. List = g.loops /\ Following = NextOf(List, cur)
    BY <1>2, ListIsOfBlocks
  <2>2. cur' = NextOf(g.loops, cur)
    BY <1>1, <2>1, Zenon
  <2> QED
    BY <1>2, <2>2 DEF Types, IsInfo, FirstsDiffer
<1>6. Upto(n + 1, kind, g) = Upto(n, kind, g) \cup Of(cur, Inside(kind, g)[cur])
  <2>1. n \in 0 .. Len(g.loops) - 1
    BY <1>4
  <2> QED
    BY <1>2, <1>4, <2>1, CurrentIsNew
<1>7. Inside(kind, g)[cur] \ worklist = Inside(kind, g)[cur]
  BY <1>1
<1>8. Lists(seen, Upto(n + 1, kind, g))
  BY <1>4, <1>6, <1>7, Zenon
<1>9. cur' = IF n + 1 < Len(g.loops) THEN g.loops[(n + 1) + 1] ELSE NoBlock
  <2> DEFINE list == g.loops
             m == n + 1
  <2>1. m \in 1 .. Len(list) /\ Len(list) \in Nat
    BY <1>4, <1>5
  <2>2. list \in Seq(DOMAIN g.succs) /\ FirstsDiffer(list, Len(list))
        /\ cur' = NextOf(list, list[m])
    BY <1>4, <1>5
  <2> HIDE DEF list, m
  <2>3. cur' = IF m < Len(list) THEN list[m + 1] ELSE NoBlock
    BY <2>1, <2>2, NextIsNext
  <2> QED
    BY <2>3 DEF list, m
<1>10. n + 1 \in 0 .. Len(g.loops)
  BY <1>4
<1>11. LoopsDone(n + 1)'
  BY <1>1, <1>8, <1>9, <1>10 DEF LoopsDone
<1> QED
  BY <1>1, <1>2, <1>11, LoopStep

LEMMA FinishKeeps == Inv /\ Finish => Inv'
<1> SUFFICES ASSUME Inv, Finish PROVE Inv'
  OBVIOUS
<1>1. /\ pc = "turn" /\ cur = NoBlock /\ pc' = "done"
      /\ UNCHANGED <<g, kind, block, cur, worklist, seen>>
  BY DEF Finish
<1>2. Types /\ EdgesInOrder /\ EdgesForEver /\ LoopsInOrder
  BY DEF Inv
<1>3. /\ List \in Seq(DOMAIN g.succs) /\ NoBlock \notin DOMAIN g.succs
  BY <1>2, ListIsOfBlocks
<1>4. CASE OverEdges
  <2>1. OverEdges' /\ List' = List /\ (Repeats' <=> Repeats)
    BY <1>1, <1>4 DEF OverEdges, List, Repeats
  <2>2. ~Repeats
    <3> SUFFICES ASSUME Repeats PROVE FALSE
      OBVIOUS
    <3>1. PICK n : FirstRepeat(List, n) /\ \E j \in 1 .. n - 1 : cur = List[j]
      BY <1>2, <1>4 DEF EdgesForEver, BeforeRepeat
    <3>2. PICK j \in 1 .. n - 1 : cur = List[j]
      BY <3>1
    <3>3. n \in 2 .. Len(List)
      BY <3>1 DEF FirstRepeat
    <3> DEFINE list == List
    <3> HIDE DEF list
    <3>4. list \in Seq(DOMAIN g.succs) /\ n \in 2 .. Len(list) /\ cur = list[j]
      BY <1>3, <3>2, <3>3 DEF list
    <3>5. list[j] \in DOMAIN g.succs
      BY <3>4
    <3> QED
      BY <1>1, <1>3, <3>4, <3>5
  <2>3. Types'
    BY <1>1, <1>2, <1>4, <2>1 DEF Types
  <2>4. EdgesInOrder' /\ EdgesForEver' /\ LoopsInOrder'
    BY <1>1, <1>2, <1>4, <2>1, <2>2 DEF EdgesInOrder, EdgesForEver, LoopsInOrder
  <2> QED
    BY <2>3, <2>4 DEF Inv
<1>5. CASE ~OverEdges
  <2>1. PICK n : LoopsDone(n)
    BY <1>2, <1>5 DEF LoopsInOrder
  <2>2. /\ n \in 0 .. Len(g.loops)
        /\ cur = IF n < Len(g.loops) THEN g.loops[n + 1] ELSE NoBlock
        /\ Lists(seen, Upto(n, kind, g))
    BY <1>1, <2>1 DEF LoopsDone
  <2>3. g.loops \in Seq(DOMAIN g.succs)
    BY <1>2 DEF Types, IsInfo
  <2>4. n = Len(g.loops)
    BY <1>1, <1>3, <2>2, <2>3
  <2>5. LoopsDone(n)'
    BY <1>1, <2>2, <2>4 DEF LoopsDone
  <2> QED
    BY <1>1, <1>5, <2>5, LoopStep
<1> QED
  BY <1>4, <1>5

LEMMA StepKeepsInv == Inv /\ [Next]_vars => Inv'
<1> SUFFICES ASSUME Inv, [Next]_vars PROVE Inv'
  OBVIOUS
<1>1. CASE NextEdge
  BY <1>1, NextEdgeKeeps
<1>2. CASE EnterLoop
  BY <1>2, EnterLoopKeeps
<1>3. CASE PopBlock
  BY <1>3, PopBlockKeeps
<1>4. CASE NextLoop
  BY <1>4, NextLoopKeeps
<1>5. CASE Finish
  BY <1>5, FinishKeeps
<1>6. CASE UNCHANGED vars
  <2>1. UNCHANGED <<pc, g, kind, block, cur, worklist, seen>>
    BY <1>6 DEF vars
  <2>2. OverEdges' <=> OverEdges
    BY <2>1 DEF OverEdges
  <2>3. List' = List /\ (Repeats' <=> Repeats)
    BY <2>1 DEF List, Repeats
  <2> QED
    BY <2>1, <2>2, <2>3
       DEF Inv, Types, EdgesInOrder, EdgesForEver, LoopsInOrder, LoopsDone
<1> QED
  BY <1>1, <1>2, <1>3, <1>4, <1>5, <1>6 DEF Next, Done
-----------------------------------------------------------------------------
(* As many blocks are in some loop as there are pairs of an outermost loop *)
(* and a block of it.                                                      *)
LEMMA BlocksOfLoops ==
    ASSUME IsInfo(g), kind = "blocks", IsFiniteSet(Pairs)
    PROVE  /\ {p[2] : p \in Pairs} = g.looping
           /\ Cardinality(Pairs) = Cardinality(g.looping)
<1> DEFINE loops == ToSet(g.loops)
           inner == [p \in Pairs |-> p[2]]
<1>1. Pairs = UNION {{<<h, b>> : b \in g.blocks[h]} : h \in loops}
  BY DEF Pairs
<1>2. /\ \A h, k \in loops : h # k => g.blocks[h] \cap g.blocks[k] = {}
      /\ g.looping = UNION {g.blocks[h] : h \in loops}
  BY DEF IsInfo
<1> HIDE DEF loops
<1>3. \A p : p \in Pairs <=> \E h \in loops : \E b \in g.blocks[h] : p = <<h, b>>
  BY <1>1
<1>4. \A b : b \in g.looping <=> \E h \in loops : b \in g.blocks[h]
  BY <1>2
<1>5. \A p \in Pairs : p[2] \in g.looping
  BY <1>3, <1>4
<1>6. ASSUME NEW b \in g.looping PROVE \E p \in Pairs : p[2] = b
  <2>1. PICK h \in loops : b \in g.blocks[h]
    BY <1>4
  <2>2. <<h, b>> \in Pairs /\ <<h, b>>[2] = b
    BY <1>3, <2>1
  <2> QED
    BY <2>2, Zenon
<1>7. \A p, q \in Pairs : p[2] = q[2] => p = q
  <2> SUFFICES ASSUME NEW p \in Pairs, NEW q \in Pairs, p[2] = q[2] PROVE p = q
    OBVIOUS
  <2>1. PICK h \in loops : \E b \in g.blocks[h] : p = <<h, b>>
    BY <1>3
  <2>2. PICK k \in loops : \E b \in g.blocks[k] : q = <<k, b>>
    BY <1>3
  <2>3. p = <<h, p[2]>> /\ p[2] \in g.blocks[h] /\ q = <<k, q[2]>> /\ q[2] \in g.blocks[k]
    BY <2>1, <2>2
  <2>4. h = k
    BY <1>2, <2>3
  <2> QED
    BY <2>3, <2>4
<1>8. inner \in [Pairs -> g.looping] /\ \A p \in Pairs : inner[p] = p[2]
  BY <1>5
<1> HIDE DEF inner
<1>9. inner \in Injection(Pairs, g.looping) /\ inner \in Surjection(Pairs, g.looping)
  BY <1>6, <1>7, <1>8 DEF Injection, IsInjective, Surjection
<1>10. ExistsBijection(Pairs, g.looping)
  BY <1>9 DEF ExistsBijection, Bijection
<1>11. Cardinality(Pairs) = Cardinality(g.looping)
  BY <1>10, FS_Bijection
<1> QED
  BY <1>5, <1>6, <1>11

LEMMA AllLoopsArePairs ==
    ASSUME IsInfo(g)
    PROVE  Upto(Len(g.loops), kind, g) = Pairs
<1> DEFINE loops == g.loops
           inside == Inside(kind, g)
<1>1. loops \in Seq(DOMAIN g.succs)
  BY DEF IsInfo
<1>2. Upto(Len(loops), kind, g)
        = UNION {{<<loops[m], b>> : b \in inside[loops[m]]} : m \in 1 .. Len(loops)}
  BY DEF Upto, Of
<1>3. Pairs = UNION {{<<h, b>> : b \in inside[h]} : h \in ToSet(loops)}
  BY DEF Pairs, Inside
<1> HIDE DEF loops, inside
<1>4. ToSet(loops) = {loops[m] : m \in 1 .. Len(loops)}
  BY <1>1 DEF ToSet
<1>5. Upto(Len(loops), kind, g) = Pairs
  BY <1>2, <1>3, <1>4
<1> QED
  BY <1>5 DEF loops

LEMMA InvImpliesWalkComplete == Inv => WalkComplete
<1> SUFFICES ASSUME Inv, pc = "done" PROVE WalkComplete
  BY DEF WalkComplete
<1>1. Types /\ EdgesInOrder /\ EdgesForEver /\ LoopsInOrder
  BY DEF Inv
<1>2. List \in Seq(DOMAIN g.succs) /\ NoBlock \notin DOMAIN g.succs
  BY <1>1, ListIsOfBlocks
<1>3. CASE OverEdges
  <2>1. /\ seen \in Seq(DOMAIN g.succs) /\ Len(seen) <= Len(List)
        /\ \A n \in 1 .. Len(seen) : seen[n] = List[n]
        /\ cur = IF Len(seen) < Len(List) THEN List[Len(seen) + 1] ELSE NoBlock
        /\ cur = NoBlock
    BY <1>1, <1>3 DEF EdgesInOrder, EdgesForEver
  <2> DEFINE list == List
  <2> HIDE DEF list
  <2>2. /\ list \in Seq(DOMAIN g.succs) /\ Len(seen) <= Len(list)
        /\ \A n \in 1 .. Len(seen) : seen[n] = list[n]
        /\ NoBlock = IF Len(seen) < Len(list) THEN list[Len(seen) + 1] ELSE NoBlock
    BY <1>2, <2>1 DEF list
  <2>3. Len(seen) = Len(list)
    BY <1>2, <2>1, <2>2
  <2>4. seen = list
    BY <2>1, <2>2, <2>3
  <2>5. kind = "predecessors" =>
            /\ Len(seen) = LLVMCountPredecessors(block)
            /\ LLVMSinglePredecessor(block) <=> cur = NoBlock /\ Len(seen) = 1
    BY <2>1, <2>4 DEF list, List, LLVMCountPredecessors, LLVMSinglePredecessor
  <2> QED
    BY <1>3, <2>4, <2>5 DEF WalkComplete, OverEdges, list
<1>4. CASE ~OverEdges
  <2>1. Lists(seen, Upto(Len(g.loops), kind, g))
    BY <1>1, <1>4 DEF LoopsInOrder, LoopsDone
  <2>2. IsInfo(g)
    BY <1>1 DEF Types
  <2>3. Lists(seen, Pairs)
    BY <2>1, <2>2, AllLoopsArePairs, Zenon
  <2>4. ToSet(seen) = Pairs /\ IsFiniteSet(Pairs) /\ Len(seen) = Cardinality(Pairs)
    BY <2>3, ListsCount
  <2>5. kind = "blocks" => /\ {p[2] : p \in ToSet(seen)} = g.looping
                           /\ Len(seen) = Cardinality(g.looping)
    BY <2>2, <2>4, BlocksOfLoops
  <2> QED
    BY <1>4, <2>4, <2>5 DEF WalkComplete, OverEdges
<1> QED
  BY <1>3, <1>4

(* A client of cfg.cpp or loop.cpp that writes the loop its header asks    *)
(* for is, when the loop ends, given every successor or predecessor, in    *)
(* order; or every block of every loop once and every exit of each         *)
(* outermost loop once: whatever the functions are.                        *)
THEOREM WholeWalk == Spec => []WalkComplete
<1>1. Spec => []Inv
  BY InitInv, StepKeepsInv, PTL DEF Spec
<1> QED
  BY <1>1, InvImpliesWalkComplete, PTL

(* A walk over edges with a repeated block does not come to its end, for   *)
(* any function: the one half of EndsUnlessRepeated that is a safety       *)
(* property.                                                               *)
THEOREM NoEndIfRepeated == Spec => [](OverEdges /\ Repeats => pc # "done")
<1>1. Spec => []Inv
  BY InitInv, StepKeepsInv, PTL DEF Spec
<1>2. Inv => (OverEdges /\ Repeats => pc # "done")
  BY DEF Inv, EdgesForEver
<1> QED
  BY <1>1, <1>2, PTL
-----------------------------------------------------------------------------
(***************************************************************************)
(* Dominance among the blocks of nested if statements.  nest gives each    *)
(* block the joins of the if statements around it, and says with the       *)
(* numbers of the blocks, which are given as they are made, which of two   *)
(* blocks comes first in the text and is around, or beside, the other.     *)
(***************************************************************************)
Above(nest, a, b) == a <= b /\ nest[a] \subseteq nest[b] /\ a \notin nest[b]

(* No block between the two goes with a: it was made while a waited for    *)
(* its turn, or is still waiting itself.                                   *)
NoneBetween(nest, a, t) ==
    \A c \in DOMAIN nest : a < c /\ c < t => a \in nest[c] \/ c \in nest[a]

(* The branches: to the join of the innermost if statement, into a body,   *)
(* past it.                                                                *)
Leaves(nest, a, b) == b \in nest[a] /\ nest[a] = nest[b] \cup {b}

Enters(nest, a, b) ==
    a < b /\ nest[b] = nest[a] \cup {b + 1} /\ NoneBetween(nest, a, b)

Passes(nest, a, b) ==
    a < b - 1 /\ nest[b] = nest[a] /\ NoneBetween(nest, a, b - 1)
             /\ b - 1 \in DOMAIN nest /\ b \in nest[b - 1]

Nested(nest) ==
    /\ 1 \in DOMAIN nest /\ nest[1] = {}
    /\ \A b \in DOMAIN nest : \A j \in nest[b] : j \in DOMAIN nest /\ j <= b + 1 /\ j # b

NestedGraph(graph, nest) ==
    /\ \E N \in Nat : DOMAIN graph = 1 .. N
    /\ DOMAIN nest = DOMAIN graph
    /\ Nested(nest)
    /\ \A a, b \in DOMAIN graph :
            <<a, b>> \in Edges(graph) =>
                Leaves(nest, a, b) \/ Enters(nest, a, b) \/ Passes(nest, a, b)
    /\ \A b \in DOMAIN graph \ {1} : \E a \in DOMAIN graph :
            <<a, b>> \in Edges(graph) /\ (Enters(nest, a, b) \/ Passes(nest, a, b))

(* Backward along a branch: what is above its end is above its start.      *)
LEMMA BackAlongEdge ==
    ASSUME NEW nest, NEW N \in Nat, DOMAIN nest = 1 .. N, Nested(nest),
           NEW h \in DOMAIN nest, NEW a \in DOMAIN nest, NEW b \in DOMAIN nest \ {h},
           Leaves(nest, a, b) \/ Enters(nest, a, b) \/ Passes(nest, a, b),
           Above(nest, h, b)
    PROVE  Above(nest, h, a)
<1>1. /\ a \in Nat /\ b \in Nat /\ h \in Nat /\ h < b
      /\ nest[h] \subseteq nest[b] /\ h \notin nest[b]
    BY DEF Above
<1>2. /\ \A j \in nest[a] : j \in Nat /\ j <= a + 1 /\ j # a
      /\ \A j \in nest[h] : j \in Nat /\ j <= h + 1 /\ j # h
    BY DEF Nested
<1>3. CASE Leaves(nest, a, b)
  <2>1. b \in nest[a] /\ nest[a] = nest[b] \cup {b}
    BY <1>3 DEF Leaves
  <2>2. h <= a
    BY <1>1, <1>2, <2>1
  <2> QED
    BY <1>1, <2>1, <2>2 DEF Above
<1>4. CASE Enters(nest, a, b)
  <2>1. a < b /\ nest[b] = nest[a] \cup {b + 1} /\ NoneBetween(nest, a, b)
    BY <1>4 DEF Enters
  <2>2. b + 1 \notin nest[h]
    BY <1>1, <1>2
  <2>3. nest[h] \subseteq nest[a] /\ h \notin nest[a]
    BY <1>1, <2>1, <2>2
  <2>4. a < h => a \in nest[h] \/ h \in nest[a]
    BY <1>1, <2>1 DEF NoneBetween
  <2>5. a \notin nest[a]
    BY <1>2
  <2>6. h <= a
    BY <1>1, <2>3, <2>4, <2>5
  <2> QED
    BY <2>3, <2>6 DEF Above
<1>5. CASE Passes(nest, a, b)
  <2>1. /\ a < b - 1 /\ nest[b] = nest[a] /\ NoneBetween(nest, a, b - 1)
        /\ b \in nest[b - 1]
    BY <1>5 DEF Passes
  <2>2. nest[h] \subseteq nest[a] /\ h \notin nest[a] /\ a \notin nest[a]
    BY <1>1, <1>2, <2>1
  <2>3. b \notin nest[a]
    BY <1>1, <1>2, <2>1
  <2>4. h # b - 1
    BY <2>1, <2>2, <2>3
  <2>5. h < b - 1
    BY <1>1, <2>4
  <2>6. a < h => a \in nest[h] \/ h \in nest[a]
    BY <1>1, <2>1, <2>5 DEF NoneBetween
  <2>7. h <= a
    BY <1>1, <2>2, <2>6
  <2> QED
    BY <2>2, <2>7 DEF Above
<1> QED
    BY <1>3, <1>4, <1>5

(* Forward along the branch that made b: what is above a is above b.       *)
LEMMA AlongMakingEdge ==
    ASSUME NEW nest, NEW N \in Nat, DOMAIN nest = 1 .. N, Nested(nest),
           NEW h \in DOMAIN nest, NEW a \in DOMAIN nest, NEW b \in DOMAIN nest,
           Enters(nest, a, b) \/ Passes(nest, a, b)
    PROVE  a < b /\ (Above(nest, h, a) => Above(nest, h, b))
<1>1. a \in Nat /\ b \in Nat /\ h \in Nat
    OBVIOUS
<1>2. a < b /\ (nest[b] = nest[a] \/ nest[b] = nest[a] \cup {b + 1})
    BY <1>1 DEF Enters, Passes
<1>3. h <= a => h # b + 1
    BY <1>1, <1>2
<1> QED
    BY <1>1, <1>2, <1>3 DEF Above

(* One block dominates another just if it is above it.                     *)
LEMMA DominatesIsAbove ==
    ASSUME NEW graph, NEW nest, NestedGraph(graph, nest),
           NEW h \in DOMAIN graph, NEW c \in DOMAIN graph
    PROVE  Dominates(graph, h, c) <=> Above(nest, h, c)
<1>1. PICK N \in Nat : DOMAIN graph = 1 .. N
    BY DEF NestedGraph
<1>2. DOMAIN nest = 1 .. N /\ Nested(nest) /\ 1 \in 1 .. N /\ DOMAIN nest = DOMAIN graph
    BY <1>1 DEF NestedGraph, Nested
<1> DEFINE E == Edges(graph)
           V == DOMAIN graph
           X == {b \in V : ~Above(nest, h, b)}
           R == Reachable(V \ {h}, E, {Entry})
           L == Reachable(V, E, {Entry})
<1>3. \A b \in V : b \in Nat /\ b \notin nest[b]
    BY <1>1, <1>2 DEF Nested
<1>4. Above(nest, h, h)
    BY <1>3 DEF Above
<1>5. IsFiniteSet(V) /\ IsFiniteSet(V \ {h})
    BY <1>1, FS_Interval, FS_Subset
<1>6. \A b \in V \ {1} : \E a \in V :
        <<a, b>> \in E /\ a < b /\ (Above(nest, h, a) => Above(nest, h, b))
  <2> SUFFICES ASSUME NEW b \in V \ {1}
               PROVE  \E a \in V : <<a, b>> \in E /\ a < b
                                   /\ (Above(nest, h, a) => Above(nest, h, b))
    OBVIOUS
  <2>1. PICK a \in V : <<a, b>> \in E /\ (Enters(nest, a, b) \/ Passes(nest, a, b))
    BY DEF NestedGraph
  <2>2. a < b /\ (Above(nest, h, a) => Above(nest, h, b))
    BY <1>2, <2>1, AlongMakingEdge
  <2> QED
    BY <2>1, <2>2
<1>7. /\ R \subseteq V \ {h}
      /\ {Entry} \cap (V \ {h}) \subseteq R
      /\ ClosedIn(R, V \ {h}, E)
      /\ \A Y : {Entry} \cap (V \ {h}) \subseteq Y /\ ClosedIn(Y, V \ {h}, E) => R \subseteq Y
    BY <1>5, ReachableLeast
<1>8. /\ {Entry} \cap V \subseteq L
      /\ ClosedIn(L, V, E)
    BY <1>5, ReachableLeast
<1> HIDE DEF R, L, E
<1>9. R \subseteq X
  <2>1. ClosedIn(X, V \ {h}, E)
    <3> SUFFICES ASSUME NEW a \in X, NEW b \in V \ {h}, <<a, b>> \in E, Above(nest, h, b)
                 PROVE  FALSE
      BY DEF ClosedIn
    <3>1. Leaves(nest, a, b) \/ Enters(nest, a, b) \/ Passes(nest, a, b)
      BY DEF NestedGraph, E
    <3>2. Above(nest, h, a)
      BY <1>2, <3>1, BackAlongEdge
    <3> QED
      BY <3>2
  <2>2. {Entry} \cap (V \ {h}) \subseteq X
    BY <1>1, <1>2, EntryAssumption DEF Above
  <2> HIDE DEF X
  <2> QED
    BY <1>7, <2>1, <2>2
<1>10. X \subseteq R
  <2> SUFFICES ASSUME X \ R # {} PROVE FALSE
    OBVIOUS
  <2>1. PICK b \in X \ R : \A d \in X \ R : b <= d
    <3>1. X \ R \subseteq Nat
      BY <1>1
    <3> HIDE DEF X
    <3> QED
      BY <3>1, LeastOne
  <2>2. b # h /\ b \in V
    BY <1>4
  <2>3. b # 1
    BY <1>7, <2>1, <2>2, EntryAssumption
  <2>4. PICK a \in V : <<a, b>> \in E /\ a < b /\ (Above(nest, h, a) => Above(nest, h, b))
    BY <1>6, <2>2, <2>3
  <2>5. a \in X
    BY <2>4
  <2>6. a \in R
    BY <1>1, <2>1, <2>2, <2>4, <2>5
  <2> QED
    BY <1>7, <2>1, <2>2, <2>4, <2>6 DEF ClosedIn
<1>11. V \subseteq L
  <2> SUFFICES ASSUME V \ L # {} PROVE FALSE
    OBVIOUS
  <2>1. PICK b \in V \ L : \A d \in V \ L : b <= d
    <3>1. V \ L \subseteq Nat
      BY <1>1
    <3> QED
      BY <3>1, LeastOne
  <2>2. b # 1
    BY <1>8, <2>1, EntryAssumption
  <2>3. PICK a \in V : <<a, b>> \in E /\ a < b
    BY <1>6, <2>2
  <2>4. a \in L
    BY <1>1, <2>1, <2>3
  <2> QED
    BY <1>8, <2>1, <2>3, <2>4 DEF ClosedIn
<1>12. Dominates(graph, h, c) <=> h = c \/ c \notin L \/ (h \in L /\ c \notin R)
    BY DEF Dominates, LiveBlocks, L, R, E
<1> QED
    BY <1>4, <1>9, <1>10, <1>11, <1>12
-----------------------------------------------------------------------------
IsSeq(s) == s \in Seq({s[n] : n \in DOMAIN s})

(* t is s with x behind it.                                                *)
IsAppended(t, s, x) ==
    /\ IsSeq(t) /\ Len(t) = Len(s) + 1
    /\ t[Len(s) + 1] = x
    /\ \A n \in 1 .. Len(s) : t[n] = s[n]

(* The domain of a sequence.                                               *)
LEMMA SeqFacts ==
    ASSUME NEW s, IsSeq(s)
    PROVE  /\ Len(s) \in Nat /\ DOMAIN s = 1 .. Len(s)
           /\ s = <<>> <=> Len(s) = 0
BY DEF IsSeq

(* A sequence over some set is a sequence.                                 *)
LEMMA SeqOver ==
    ASSUME NEW S, NEW s \in Seq(S)
    PROVE  IsSeq(s)
<1>1. Len(s) \in Nat /\ DOMAIN s = 1 .. Len(s) /\ s = [n \in 1 .. Len(s) |-> s[n]]
    OBVIOUS
<1>2. s \in [1 .. Len(s) -> {s[n] : n \in DOMAIN s}]
    BY <1>1
<1> QED
    BY <1>1, <1>2, IsASeq DEF IsSeq

(* What Append does.                                                       *)
LEMMA Appended ==
    ASSUME NEW s, IsSeq(s), NEW x
    PROVE  IsAppended(Append(s, x), s, x)
<1> DEFINE S == {s[n] : n \in DOMAIN s} \cup {x}
<1>1. s \in Seq(S)
    BY SeqMonotonic DEF IsSeq
<1>2. x \in S
    OBVIOUS
<1> HIDE DEF S
<1>3. /\ Append(s, x) \in Seq(S)
      /\ Len(Append(s, x)) = Len(s) + 1
      /\ \A i \in 1 .. Len(s) : Append(s, x)[i] = s[i]
      /\ Append(s, x)[Len(s) + 1] = x
    BY <1>1, <1>2, AppendProperties
<1>4. IsSeq(Append(s, x))
    BY <1>3, SeqOver, Zenon
<1> QED
    BY <1>3, <1>4, Zenon DEF IsAppended

(* \o with one element is Append.                                          *)
LEMMA ConcatOne ==
    ASSUME NEW s, IsSeq(s), NEW x
    PROVE  s \o <<x>> = Append(s, x)
<1> DEFINE S == {s[n] : n \in DOMAIN s} \cup {x}
<1>1. s \in Seq(S)
    BY SeqMonotonic DEF IsSeq
<1>2. x \in S
    OBVIOUS
<1> HIDE DEF S
<1> QED
    BY <1>1, <1>2, AppendIsConcat

(* \o with two elements is Append twice.                                   *)
LEMMA ConcatTwo ==
    ASSUME NEW s, IsSeq(s), NEW x, NEW y
    PROVE  s \o <<x, y>> = Append(Append(s, x), y)
<1> DEFINE S == {s[n] : n \in DOMAIN s} \cup {x, y}
<1>1. s \in Seq(S)
    BY SeqMonotonic DEF IsSeq
<1>2. x \in S /\ y \in S
    OBVIOUS
<1> HIDE DEF S
<1>3. <<x, y>> = <<x>> \o <<y>>
  <2>1. <<x, y>> \in Seq(S) /\ <<x>> \in Seq(S) /\ <<y>> \in Seq(S)
    BY <1>2
  <2> DEFINE z == <<x>> \o <<y>>
  <2>2. /\ z \in Seq(S) /\ Len(z) = Len(<<x>>) + Len(<<y>>)
        /\ \A i \in 1 .. Len(<<x>>) + Len(<<y>>) :
                z[i] = IF i <= Len(<<x>>) THEN <<x>>[i] ELSE <<y>>[i - Len(<<x>>)]
    BY <2>1, ConcatProperties
  <2>3. Len(z) = 2 /\ z[1] = x /\ z[2] = y
    BY <2>2
  <2> HIDE DEF z
  <2>4. <<x, y>> = z
    BY <2>1, <2>2, <2>3, SeqEqual
  <2> QED
    BY <2>4 DEF z
<1>4. Append(s, x) = s \o <<x>> /\ Append(s, x) \in Seq(S)
    BY <1>1, <1>2, AppendIsConcat, AppendProperties
<1>5. Append(Append(s, x), y) = Append(s, x) \o <<y>>
    BY <1>2, <1>4, AppendIsConcat
<1>6. <<x>> \in Seq(S) /\ <<y>> \in Seq(S)
    BY <1>2
<1>7. s \o (<<x>> \o <<y>>) = (s \o <<x>>) \o <<y>>
    BY <1>1, <1>6, ConcatAssociative
<1> QED
    BY <1>3, <1>4, <1>5, <1>7

(* What Front and Last are.                                                *)
LEMMA FrontLast ==
    ASSUME NEW s, IsSeq(s), s # <<>>
    PROVE  /\ Len(s) \in Nat /\ Len(s) >= 1
           /\ IsSeq(Front(s)) /\ Len(Front(s)) = Len(s) - 1
           /\ \A n \in 1 .. Len(s) - 1 : Front(s)[n] = s[n]
           /\ Last(s) = s[Len(s)]
<1> DEFINE S == {s[n] : n \in DOMAIN s}
<1>1. s \in Seq(S)
    BY DEF IsSeq
<1>2. Len(s) \in Nat /\ Len(s) >= 1
    BY <1>1, EmptySeq
<1> HIDE DEF S
<1>3. 1 \in 1 .. Len(s) + 1 /\ Len(s) - 1 \in 0 .. Len(s) /\ Len(s) - 1 \in Nat
    BY <1>2
<1>4. Front(s) = SubSeq(s, 1, Len(s) - 1)
    BY DEF Front
<1> DEFINE t == SubSeq(s, 1, Len(s) - 1)
           L == Len(s) - 1
<1>5. t \in Seq(S) /\ Len(t) = L /\ \A n \in 1 .. L : t[n] = s[n]
  <2>1. L \in Int /\ 1 \in Int /\ \A i \in 1 .. L : s[i] \in S
    BY <1>1, <1>2
  <2>2. /\ t \in Seq(S) /\ Len(t) = IF 1 <= L THEN L - 1 + 1 ELSE 0
        /\ \A i \in 1 .. L - 1 + 1 : t[i] = s[1 + i - 1]
    BY <2>1, SubSeqProperties
  <2>3. L \in Nat
    BY <1>2
  <2> HIDE DEF t, L
  <2>4. (IF 1 <= L THEN L - 1 + 1 ELSE 0) = L
    BY <2>3
  <2>5. \A i \in 1 .. L : 1 + i - 1 = i /\ i \in 1 .. L - 1 + 1
    BY <2>3
  <2>6. ASSUME NEW i \in 1 .. L PROVE t[i] = s[i]
    <3>1. 1 + i - 1 = i /\ i \in 1 .. L - 1 + 1
      BY <2>5
    <3>2. t[i] = s[1 + i - 1]
      BY <2>2, <3>1
    <3> QED
      BY <3>1, <3>2
  <2> QED
    BY <2>2, <2>4, <2>6
<1>6. IsSeq(t)
    BY <1>5, SeqOver
<1> QED
    BY <1>2, <1>4, <1>5, <1>6 DEF Last
-----------------------------------------------------------------------------
(***************************************************************************)
(* The blocks of the code so far.  A block is unfinished as long as it is  *)
(* written or waits for the end of a body.                                 *)
(***************************************************************************)
Unfinished == IF status = "parsing" THEN {at} \cup Ifs ELSE {}

(* What is below the last two, and these two.                              *)
LEMMA FrontLastTwo ==
    ASSUME NEW s, IsSeq(s), Len(s) >= 2
    PROVE  /\ IsSeq(Front(Front(s))) /\ Len(Front(Front(s))) = Len(s) - 2
           /\ \A n \in 1 .. Len(s) - 2 : Front(Front(s))[n] = s[n]
           /\ Last(Front(s)) = s[Len(s) - 1] /\ Last(s) = s[Len(s)]
<1> DEFINE f == Front(s)
<1>1. Len(s) \in Nat /\ s # <<>>
    BY SeqFacts
<1>2. /\ IsSeq(f) /\ Len(f) = Len(s) - 1
      /\ \A n \in 1 .. Len(s) - 1 : f[n] = s[n]
      /\ Last(s) = s[Len(s)]
    BY <1>1, FrontLast
<1> HIDE DEF f
<1>3. f # <<>>
    BY <1>1, <1>2, SeqFacts
<1>4. /\ IsSeq(Front(f)) /\ Len(Front(f)) = Len(f) - 1
      /\ \A n \in 1 .. Len(f) - 1 : Front(f)[n] = f[n]
      /\ Last(f) = f[Len(f)]
    BY <1>2, <1>3, FrontLast
<1>5. Len(f) - 1 = Len(s) - 2 /\ Len(s) - 1 \in 1 .. Len(s) - 1
    BY <1>1, <1>2
<1>6. Last(f) = s[Len(s) - 1]
    BY <1>2, <1>4, <1>5
<1>7. \A n \in 1 .. Len(s) - 2 : n \in 1 .. Len(s) - 1
    BY <1>1
<1>8. \A n \in 1 .. Len(s) - 2 : Front(f)[n] = s[n]
    BY <1>2, <1>4, <1>5, <1>7
<1> QED
    BY <1>2, <1>4, <1>5, <1>6, <1>8 DEF f

Typed(nest) ==
    /\ IsSeq(code) /\ \A b \in DOMAIN code : IsSeq(code[b])
    /\ at \in DOMAIN code
    /\ DOMAIN nest = DOMAIN code /\ Nested(nest)
    /\ IsSeq(open) /\ IsSeq(values)

(* The if statements around the insert point, and around each of them.     *)
IfsBelow(n) == {open[m].bb : m \in 1 .. n - 1} \ {NoBlock}

Joins(nest) ==
    /\ nest[at] = Ifs
    /\ \A n \in DOMAIN open :
            open[n].bb # NoBlock =>
                /\ open[n].bb \in DOMAIN code \ {at}
                /\ nest[open[n].bb] = IfsBelow(n)
                /\ code[open[n].bb] = <<>>

Terminated ==
    \A b \in DOMAIN code : \A n \in DOMAIN code[b] :
        IsTerminator(code[b][n]) <=> n = Len(code[b]) /\ b \notin Unfinished

Targets(nest, b, to) ==
    \/ to = <<>>
    \/ \E j \in DOMAIN nest : to = <<j>> /\ Leaves(nest, b, j)
    \/ \E t \in DOMAIN nest : /\ t + 1 \in DOMAIN nest
                              /\ to = <<t, t + 1>>
                              /\ Enters(nest, b, t) /\ Passes(nest, b, t + 1)

Finished(nest) ==
    \A b \in DOMAIN code \ Unfinished :
        code[b] # <<>> /\ Targets(nest, b, code[b][Len(code[b])].to)

(* Every block but the first was made by a branch to it.                   *)
Made(nest) ==
    \A c \in DOMAIN code \ {1} : \E b \in DOMAIN code \ Unfinished :
        \E n \in DOMAIN code[b][Len(code[b])].to :
            /\ code[b][Len(code[b])].to[n] = c
            /\ Enters(nest, b, c) \/ Passes(nest, b, c)

(* What was made since an unfinished block was is within its if statement, *)
(* or is what the block itself is within.                                  *)
Waiting(nest) ==
    \A u \in Unfinished : \A c \in DOMAIN code :
        c > u => u \in nest[c] \/ c \in nest[u]

Structure(nest) ==
    /\ Typed(nest) /\ Joins(nest) /\ Terminated
    /\ Finished(nest) /\ Made(nest) /\ Waiting(nest)

(* What a reduction does that writes at the insert point and stays there.  *)
Writes ==
    /\ IsSeq(code') /\ Len(code') = Len(code)
    /\ \A b \in DOMAIN code \ {at} : code'[b] = code[b]
    /\ IsSeq(code'[at]) /\ Len(code'[at]) >= Len(code[at])
    /\ \A n \in 1 .. Len(code[at]) : code'[at][n] = code[at][n]

(* A sequence with one element replaced.                                   *)
LEMMA ExceptIs ==
    ASSUME NEW s, IsSeq(s), NEW i \in DOMAIN s, NEW x
    PROVE  LET t == [s EXCEPT ![i] = x]
           IN  /\ IsSeq(t) /\ Len(t) = Len(s) /\ t[i] = x
               /\ \A j \in DOMAIN s \ {i} : t[j] = s[j]
<1> DEFINE S == {s[n] : n \in DOMAIN s} \cup {x}
           t == [s EXCEPT ![i] = x]
<1>1. s \in Seq(S) /\ x \in S
    BY SeqMonotonic DEF IsSeq
<1>2. Len(s) \in Nat /\ DOMAIN s = 1 .. Len(s)
    BY SeqFacts
<1> HIDE DEF S
<1>3. /\ t \in Seq(S) /\ Len(t) = Len(s)
      /\ \A j \in 1 .. Len(s) : t[j] = IF j = i THEN x ELSE s[j]
    BY <1>1, <1>2, ExceptSeq
<1> HIDE DEF t
<1>4. IsSeq(t)
    BY <1>3, SeqOver
<1> QED
    BY <1>2, <1>3, <1>4 DEF t

(* What Emit does with one instruction.                                    *)
LEMMA EmitOne ==
    ASSUME IsSeq(code), at \in DOMAIN code, IsSeq(code[at]), NEW i, Emit(<<i>>)
    PROVE  Writes /\ IsAppended(code'[at], code[at], i)
<1> DEFINE old == code[at]
           new == old \o <<i>>
<1>1. IsAppended(new, old, i)
    BY Appended, ConcatOne
<1>2. code' = [code EXCEPT ![at] = new]
    BY DEF Emit
<1> HIDE DEF new
<1>3. /\ IsSeq(code') /\ Len(code') = Len(code) /\ code'[at] = new
      /\ \A b \in DOMAIN code \ {at} : code'[b] = code[b]
  <2>1. LET t == [code EXCEPT ![at] = new]
        IN  /\ IsSeq(t) /\ Len(t) = Len(code) /\ t[at] = new
            /\ \A b \in DOMAIN code \ {at} : t[b] = code[b]
    BY ExceptIs, Zenon
  <2> QED
    BY <1>2, <2>1, Zenon
<1>4. Len(old) \in Nat
    BY SeqFacts
<1>5. Len(new) >= Len(old) /\ IsSeq(new) /\ \A n \in 1 .. Len(old) : new[n] = old[n]
    BY <1>1, <1>4 DEF IsAppended
<1> QED
    BY <1>1, <1>3, <1>5 DEF Writes

(* What Emit does with two instructions.                                   *)
LEMMA EmitTwo ==
    ASSUME IsSeq(code), at \in DOMAIN code, IsSeq(code[at]), NEW i, NEW j,
           Emit(<<i, j>>)
    PROVE  /\ Writes
           /\ Len(code'[at]) = Len(code[at]) + 2
           /\ code'[at][Len(code[at]) + 1] = i
           /\ code'[at][Len(code[at]) + 2] = j
<1> DEFINE old == code[at]
           mid == Append(old, i)
           new == old \o <<i, j>>
<1>1. IsAppended(mid, old, i) /\ IsSeq(mid)
    BY Appended DEF IsAppended
<1>2. IsAppended(new, mid, j)
  <2>1. IsAppended(Append(mid, j), mid, j)
    BY <1>1, Appended, Zenon
  <2>2. new = Append(mid, j)
    BY ConcatTwo
  <2> QED
    BY <2>1, <2>2, Zenon
<1>3. code' = [code EXCEPT ![at] = new]
    BY DEF Emit
<1> HIDE DEF new, mid
<1>4. /\ IsSeq(code') /\ Len(code') = Len(code) /\ code'[at] = new
      /\ \A b \in DOMAIN code \ {at} : code'[b] = code[b]
  <2>1. LET t == [code EXCEPT ![at] = new]
        IN  /\ IsSeq(t) /\ Len(t) = Len(code) /\ t[at] = new
            /\ \A b \in DOMAIN code \ {at} : t[b] = code[b]
    BY ExceptIs, Zenon
  <2> QED
    BY <1>3, <2>1, Zenon
<1>5. Len(old) \in Nat
    BY SeqFacts
<1> HIDE DEF old
<1>6. /\ Len(new) = Len(old) + 2 /\ IsSeq(new)
      /\ new[Len(old) + 1] = i /\ new[Len(old) + 2] = j
      /\ \A n \in 1 .. Len(old) : new[n] = old[n]
    BY <1>1, <1>2, <1>5 DEF IsAppended
<1>7. Len(new) >= Len(old)
    BY <1>5, <1>6
<1> QED
    BY <1>4, <1>6, <1>7 DEF Writes, old

(* A reduction that writes no terminator, and leaves the if statements as  *)
(* they are, keeps the structure.                                          *)
LEMMA WritesKeepStructure ==
    ASSUME NEW nest, Structure(nest), status = "parsing", status' = "parsing",
           Writes, at' = at, Ifs' = Ifs, IsSeq(open'), IsSeq(values'),
           \A n \in Len(code[at]) + 1 .. Len(code'[at]) : ~IsTerminator(code'[at][n]),
           \A n \in DOMAIN open' : open'[n].bb # NoBlock =>
                \E m \in DOMAIN open : /\ open'[n].bb = open[m].bb
                                       /\ IfsBelow(n)' = IfsBelow(m)
    PROVE  Structure(nest)'
<1>1. /\ IsSeq(code) /\ \A b \in DOMAIN code : IsSeq(code[b])
      /\ at \in DOMAIN code
      /\ DOMAIN nest = DOMAIN code /\ Nested(nest)
    BY DEF Structure, Typed
<1>2. DOMAIN code' = DOMAIN code /\ (\A b \in DOMAIN code : IsSeq(code'[b])) /\ IsSeq(code')
    BY <1>1, SeqFacts DEF Writes
<1>3. Unfinished' = Unfinished /\ at \in Unfinished /\ Unfinished = {at} \cup Ifs
    BY DEF Unfinished
<1>4. \A b \in DOMAIN code \ Unfinished : code'[b] = code[b]
    BY <1>3 DEF Writes
<1>5. Typed(nest)'
    BY <1>1, <1>2 DEF Typed
<1>6. Joins(nest)'
  <2>1. nest[at] = Ifs
    BY DEF Structure, Joins
  <2>2. ASSUME NEW n \in DOMAIN open', open'[n].bb # NoBlock
        PROVE  /\ open'[n].bb \in DOMAIN code \ {at}
               /\ nest[open'[n].bb] = IfsBelow(n)'
               /\ code'[open'[n].bb] = <<>>
    <3>1. PICK m \in DOMAIN open : open'[n].bb = open[m].bb /\ IfsBelow(n)' = IfsBelow(m)
      BY <2>2
    <3>2. /\ open[m].bb \in DOMAIN code \ {at}
          /\ nest[open[m].bb] = IfsBelow(m)
          /\ code[open[m].bb] = <<>>
      BY <2>2, <3>1 DEF Structure, Joins
    <3>3. code'[open[m].bb] = code[open[m].bb]
      BY <3>2 DEF Writes
    <3> QED
      BY <3>1, <3>2, <3>3
  <2> QED
    BY <1>2, <2>1, <2>2 DEF Joins
<1>7. Terminated'
  <2> SUFFICES ASSUME NEW b \in DOMAIN code, NEW n \in DOMAIN code'[b]
               PROVE  IsTerminator(code'[b][n]) <=> n = Len(code'[b]) /\ b \notin Unfinished
    BY <1>2, <1>3 DEF Terminated, IsTerminator
  <2>1. CASE b # at
    BY <2>1 DEF Structure, Terminated, Writes
  <2>2. CASE b = at
    <3>1. /\ Len(code[at]) \in Nat /\ DOMAIN code[at] = 1 .. Len(code[at])
          /\ Len(code'[at]) \in Nat /\ DOMAIN code'[at] = 1 .. Len(code'[at])
      BY <1>1, <1>2, SeqFacts
    <3>2. n \in 1 .. Len(code[at]) \/ n \in Len(code[at]) + 1 .. Len(code'[at])
      BY <2>2, <3>1
    <3>3. ASSUME n \in 1 .. Len(code[at]) PROVE ~IsTerminator(code'[at][n])
      <4>1. ~IsTerminator(code[at][n])
        BY <1>1, <1>3, <3>1, <3>3 DEF Structure, Terminated
      <4>2. code'[at][n] = code[at][n]
        BY <3>3 DEF Writes
      <4> QED
        BY <4>1, <4>2
    <3> QED
      BY <1>3, <2>2, <3>2, <3>3
  <2> QED
    BY <2>1, <2>2
<1>8. Finished(nest)'
    BY <1>2, <1>3, <1>4 DEF Structure, Finished
<1>9. Made(nest)'
    BY <1>2, <1>3, <1>4 DEF Structure, Made
<1>10. Waiting(nest)'
    BY <1>2, <1>3 DEF Structure, Waiting
<1> QED
    BY <1>5, <1>6, <1>7, <1>8, <1>9, <1>10 DEF Structure
-----------------------------------------------------------------------------
(* What an if statement does to the blocks.                                *)
LEMMA IfCode ==
    ASSUME NEW nest, Structure(nest), If
    PROVE  /\ IsSeq(code') /\ Len(code') = Len(code) + 2
           /\ code'[Len(code) + 1] = <<>> /\ code'[Len(code) + 2] = <<>>
           /\ IsAppended(code'[at], code[at],
                 Instruction("condbr", values, <<Len(code) + 1, Len(code) + 2>>))
           /\ \A b \in DOMAIN code \ {at} : code'[b] = code[b]
           /\ at' = Len(code) + 1
           /\ IsAppended(open', open, [bb |-> Len(code) + 2, taken |-> meant[1] # 0])
<1> DEFINE L == Len(code)
           i == Instruction("condbr", values, <<L + 1, L + 2>>)
           x == [bb |-> L + 2, taken |-> meant[1] # 0]
           old == code[at]
           new == Append(old, i)
           one == [code EXCEPT ![at] = new]
           two == Append(one, <<>>)
           three == Append(two, <<>>)
<1>1. IsSeq(code) /\ IsSeq(old) /\ at \in DOMAIN code /\ IsSeq(open)
    BY DEF Structure, Typed
<1>2. code' = three /\ at' = L + 1 /\ open' = Append(open, x)
    BY DEF If
<1>3. L \in Nat /\ DOMAIN code = 1 .. L
    BY <1>1, SeqFacts
<1>4. IsAppended(new, old, i)
    BY <1>1, Appended, Zenon
<1> HIDE DEF new
<1>5. /\ IsSeq(one) /\ Len(one) = L /\ one[at] = new
      /\ \A b \in DOMAIN code \ {at} : one[b] = code[b]
  <2>1. LET t == [code EXCEPT ![at] = new]
        IN  /\ IsSeq(t) /\ Len(t) = Len(code) /\ t[at] = new
            /\ \A j \in DOMAIN code \ {at} : t[j] = code[j]
    BY <1>1, ExceptIs, Zenon
  <2> QED
    BY <2>1, Zenon
<1> HIDE DEF one
<1>6. IsAppended(two, one, <<>>) /\ IsSeq(two)
    BY <1>5, Appended, Zenon DEF IsAppended
<1> HIDE DEF two
<1>7. IsAppended(three, two, <<>>)
    BY <1>6, Appended, Zenon
<1>8. IsAppended(open', open, x)
    BY <1>1, <1>2, Appended, Zenon
<1> HIDE DEF three, x
<1>9. /\ IsSeq(three) /\ Len(three) = L + 2
      /\ three[L + 1] = <<>> /\ three[L + 2] = <<>>
      /\ \A b \in 1 .. L : three[b] = one[b]
    BY <1>3, <1>5, <1>6, <1>7 DEF IsAppended
<1>10. IsAppended(three[at], old, i) /\ \A b \in DOMAIN code \ {at} : three[b] = code[b]
    BY <1>1, <1>3, <1>4, <1>5, <1>9
<1> QED
    BY <1>2, <1>8, <1>9, <1>10 DEF x

(* The blocks that If makes are within one more if statement, and beside   *)
(* the block it was read in.                                               *)
NestIf(nest) ==
    [c \in 1 .. Len(code) + 2 |->
        IF c \in DOMAIN nest THEN nest[c]
        ELSE IF c = Len(code) + 1 THEN nest[at] \cup {Len(code) + 2} ELSE nest[at]]

(* More blocks behind the last change nothing for the branches there are.  *)
LEMMA BranchesStay ==
    ASSUME NEW N \in Nat, NEW nest, DOMAIN nest = 1 .. N,
           NEW new, 1 .. N \subseteq DOMAIN new, DOMAIN new \subseteq Nat,
           \A c \in 1 .. N : new[c] = nest[c],
           NEW a \in 1 .. N
    PROVE  /\ \A b \in 1 .. N : Leaves(nest, a, b) => Leaves(new, a, b)
           /\ \A b \in 1 .. N : Enters(nest, a, b) => Enters(new, a, b)
           /\ \A b \in 1 .. N : Passes(nest, a, b) => Passes(new, a, b)
           /\ \A to : Targets(nest, a, to) => Targets(new, a, to)
<1>1. \A t \in 1 .. N : NoneBetween(nest, a, t) => NoneBetween(new, a, t)
    BY DEF NoneBetween
<1>2. \A b \in 1 .. N : Leaves(nest, a, b) => Leaves(new, a, b)
    BY DEF Leaves
<1>3. \A b \in 1 .. N : Enters(nest, a, b) => Enters(new, a, b)
    BY <1>1 DEF Enters
<1>4. \A b \in 1 .. N : Passes(nest, a, b) => Passes(new, a, b)
  <2> SUFFICES ASSUME NEW b \in 1 .. N, Passes(nest, a, b)
               PROVE  Passes(new, a, b)
    OBVIOUS
  <2> DEFINE t == b - 1
  <2>1. /\ a < t /\ nest[b] = nest[a] /\ NoneBetween(nest, a, t)
        /\ t \in 1 .. N /\ b \in nest[t]
    BY DEF Passes
  <2>2. NoneBetween(new, a, t)
    BY <1>1, <2>1
  <2> QED
    BY <2>1, <2>2 DEF Passes
<1>5. ASSUME NEW to, Targets(nest, a, to)
      PROVE  Targets(new, a, to)
    BY <1>2, <1>3, <1>4, <1>5 DEF Targets
<1> QED
    BY <1>2, <1>3, <1>4, <1>5

(* An if statement ends a block and makes two.                             *)
LEMMA IfKeepsStructure ==
    ASSUME NEW nest, Structure(nest), status = "parsing", If,
           NEW new, new = NestIf(nest)
    PROVE  Structure(new)'
<1> DEFINE L == Len(code)
           i == Instruction("condbr", values, <<L + 1, L + 2>>)
<1>1. /\ IsSeq(code) /\ (\A b \in DOMAIN code : IsSeq(code[b]))
      /\ at \in DOMAIN code /\ IsSeq(open)
      /\ DOMAIN nest = DOMAIN code /\ Nested(nest)
    BY DEF Structure, Typed
<1>2. L \in Nat /\ DOMAIN code = 1 .. L /\ at \in Nat
    BY <1>1, SeqFacts
<1>3. /\ IsSeq(code') /\ Len(code') = L + 2
      /\ code'[L + 1] = <<>> /\ code'[L + 2] = <<>>
      /\ IsAppended(code'[at], code[at], i)
      /\ \A b \in DOMAIN code \ {at} : code'[b] = code[b]
      /\ at' = L + 1
      /\ IsAppended(open', open, [bb |-> L + 2, taken |-> meant[1] # 0])
    BY IfCode
<1> DEFINE x == [bb |-> L + 2, taken |-> meant[1] # 0]
<1>4. x.bb = L + 2 /\ L + 2 # NoBlock /\ status' = "parsing"
    BY <1>2, NoBlockAssumption DEF If
<1>5. /\ DOMAIN new = 1 .. L + 2
      /\ \A c \in 1 .. L : new[c] = nest[c]
      /\ new[L + 1] = nest[at] \cup {L + 2} /\ new[L + 2] = nest[at]
    BY <1>1, <1>2 DEF NestIf
<1>6. DOMAIN code' = 1 .. L + 2
    BY <1>2, <1>3, SeqFacts
<1> HIDE DEF x, i
<1>7. /\ Len(open) \in Nat /\ DOMAIN open = 1 .. Len(open)
      /\ DOMAIN open' = 1 .. Len(open) + 1 /\ IsSeq(open')
      /\ open'[Len(open) + 1] = x /\ \A n \in 1 .. Len(open) : open'[n] = open[n]
    BY <1>1, <1>3, SeqFacts DEF IsAppended, x
<1>8. Ifs' = Ifs \cup {L + 2}
    BY <1>4, <1>7 DEF Ifs
<1>9. \A n \in 1 .. Len(open) : IfsBelow(n)' = IfsBelow(n)
    BY <1>7 DEF IfsBelow
<1> PICK K \in Nat : K = Len(open) + 1
    BY <1>7
<1>10. IfsBelow(K)' = Ifs
  <2>1. 1 .. K - 1 = DOMAIN open
    BY <1>7
  <2>2. IfsBelow(K)' = {open'[m].bb : m \in DOMAIN open} \ {NoBlock}
    BY <2>1, Zenon DEF IfsBelow
  <2> QED
    BY <1>7, <2>2 DEF Ifs
<1>11. Ifs \subseteq 1 .. L /\ at \notin Ifs /\ nest[at] = Ifs
    BY <1>2 DEF Structure, Joins, Ifs
<1>12. /\ Unfinished = Ifs \cup {at}
       /\ Unfinished' = Ifs \cup {L + 1, L + 2}
    BY <1>3, <1>4, <1>8 DEF Unfinished
<1>13. DOMAIN code' \ Unfinished' = (DOMAIN code \ Unfinished) \cup {at}
    BY <1>1, <1>2, <1>6, <1>11, <1>12
<1>14. \A b \in DOMAIN code \ Unfinished : code'[b] = code[b]
    BY <1>3, <1>12
<1>15. /\ IsSeq(code'[at]) /\ Len(code[at]) \in Nat /\ Len(code'[at]) = Len(code[at]) + 1
       /\ code'[at][Len(code[at]) + 1] = i
       /\ \A n \in 1 .. Len(code[at]) : code'[at][n] = code[at][n]
    BY <1>1, <1>3, SeqFacts DEF IsAppended, i
<1>16. i.op = "condbr" /\ i.to = <<L + 1, L + 2>>
    BY DEF i, Instruction
<1>17. IsSeq(<<>>)
  <2>1. <<>> \in Seq({})
    OBVIOUS
  <2> QED
    BY <2>1, SeqOver
<1>18. Typed(new)'
  <2>1. \A b \in 1 .. L + 2 : IsSeq(code'[b])
    BY <1>1, <1>2, <1>3, <1>15, <1>17
  <2>2. Nested(new)
    <3>1. 1 \in 1 .. L /\ nest[1] = {}
      BY <1>1, <1>2 DEF Nested
    <3>2. ASSUME NEW b \in 1 .. L, NEW j \in nest[b]
          PROVE  j \in 1 .. L /\ j <= b + 1 /\ j # b
      BY <1>1, <1>2 DEF Nested
    <3>3. \A b \in 1 .. L + 2 : b \in 1 .. L \/ b = L + 1 \/ b = L + 2
      BY <1>2
    <3>4. ASSUME NEW b \in 1 .. L + 2, NEW j \in new[b]
          PROVE  j \in 1 .. L + 2 /\ j <= b + 1 /\ j # b
      <4>1. CASE b \in 1 .. L
        BY <1>2, <1>5, <3>2, <4>1
      <4>2. CASE b = L + 1
        <5>1. j \in 1 .. L \/ j = L + 2
          BY <1>1, <1>2, <1>5, <3>2, <4>2
        <5> QED
          BY <1>2, <4>2, <5>1
      <4>3. CASE b = L + 2
        <5>1. j \in 1 .. L
          BY <1>1, <1>2, <1>5, <3>2, <4>3
        <5> QED
          BY <1>2, <4>3, <5>1
      <4> QED
        BY <3>3, <4>1, <4>2, <4>3
    <3> QED
      BY <1>2, <1>5, <3>1, <3>4 DEF Nested
  <2>3. values' = <<>>
    BY DEF If
  <2> QED
    BY <1>2, <1>3, <1>5, <1>6, <1>7, <1>17, <2>1, <2>2, <2>3 DEF Typed
<1>19. Joins(new)'
  <2>1. new[at'] = Ifs'
    BY <1>3, <1>5, <1>8, <1>11
  <2>2. ASSUME NEW n \in DOMAIN open', open'[n].bb # NoBlock
        PROVE  /\ open'[n].bb \in DOMAIN code' \ {at'}
               /\ new[open'[n].bb] = IfsBelow(n)'
               /\ code'[open'[n].bb] = <<>>
    <3>1. CASE n = K
      <4>1. open'[n].bb = L + 2
        BY <1>4, <1>7, <3>1
      <4>2. L + 2 \in 1 .. L + 2 /\ L + 2 # L + 1
        BY <1>2
      <4> QED
        BY <1>3, <1>5, <1>6, <1>10, <1>11, <3>1, <4>1, <4>2
    <3>2. CASE n \in 1 .. Len(open)
      <4>1. open'[n] = open[n]
        BY <1>7, <3>2
      <4>2. /\ open[n].bb \in DOMAIN code \ {at}
            /\ nest[open[n].bb] = IfsBelow(n)
            /\ code[open[n].bb] = <<>>
        BY <1>7, <2>2, <3>2, <4>1 DEF Structure, Joins
      <4>3. open[n].bb # L + 1 /\ open[n].bb \in 1 .. L + 2
        BY <1>2, <4>2
      <4> QED
        BY <1>2, <1>3, <1>5, <1>6, <1>9, <3>2, <4>1, <4>2, <4>3
    <3> QED
      BY <1>7, <3>1, <3>2
  <2> QED
    BY <2>1, <2>2 DEF Joins
<1>20. Terminated'
  <2> SUFFICES ASSUME NEW b \in 1 .. L + 2, NEW n \in DOMAIN code'[b]
               PROVE  IsTerminator(code'[b][n]) <=> n = Len(code'[b]) /\ b \notin Unfinished'
    BY <1>6 DEF Terminated, IsTerminator
  <2>1. CASE b \in 1 .. L /\ b # at
    <3>1. code'[b] = code[b] /\ (b \in Unfinished <=> b \in Unfinished')
      BY <1>2, <1>3, <1>12, <2>1
    <3> QED
      BY <1>2, <2>1, <3>1 DEF Structure, Terminated
  <2>2. CASE b = at
    <3>1. n \in 1 .. Len(code[at]) \/ n = Len(code[at]) + 1
      BY <1>15, <2>2, SeqFacts
    <3>2. at \notin Unfinished'
      BY <1>1, <1>2, <1>11, <1>12
    <3>3. CASE n \in 1 .. Len(code[at])
      <4>1. ~IsTerminator(code[at][n])
        BY <1>1, <1>12, <3>3, SeqFacts DEF Structure, Terminated
      <4> QED
        BY <1>15, <2>2, <3>3, <4>1
    <3>4. CASE n = Len(code[at]) + 1
      BY <1>15, <1>16, <2>2, <3>2, <3>4 DEF IsTerminator
    <3> QED
      BY <3>1, <3>3, <3>4
  <2>3. CASE b \notin 1 .. L
    <3>1. code'[b] = <<>>
      BY <1>2, <1>3, <2>3
    <3> QED
      BY <3>1
  <2> QED
    BY <2>1, <2>2, <2>3
<1>21. NoneBetween(new, at, L + 1)
  <2> SUFFICES ASSUME NEW c \in DOMAIN new, at < c, c < L + 1
               PROVE  at \in new[c] \/ c \in new[at]
    BY DEF NoneBetween
  <2>1. c \in 1 .. L /\ at \in 1 .. L
    BY <1>1, <1>2, <1>5
  <2>2. at \in nest[c] \/ c \in nest[at]
    BY <1>2, <1>12, <2>1 DEF Structure, Waiting
  <2> QED
    BY <1>5, <2>1, <2>2
<1>22. at < L + 1 /\ L + 1 \in 1 .. L + 2 /\ L + 2 \in 1 .. L + 2
       /\ L + 1 + 1 = L + 2 /\ L + 2 - 1 = L + 1 /\ at \in 1 .. L
    BY <1>1, <1>2
<1>23. Enters(new, at, L + 1) /\ Passes(new, at, L + 2)
    BY <1>5, <1>21, <1>22 DEF Enters, Passes
<1>24. \A a \in 1 .. L :
            /\ \A b \in 1 .. L : Enters(nest, a, b) => Enters(new, a, b)
            /\ \A b \in 1 .. L : Passes(nest, a, b) => Passes(new, a, b)
            /\ \A to : Targets(nest, a, to) => Targets(new, a, to)
  <2>1. 1 .. L \subseteq DOMAIN new /\ DOMAIN new \subseteq Nat
    BY <1>2, <1>5
  <2> QED
    BY <1>1, <1>2, <1>5, <2>1, BranchesStay
<1>25. Finished(new)'
  <2> SUFFICES ASSUME NEW b \in DOMAIN code' \ Unfinished'
               PROVE  code'[b] # <<>> /\ Targets(new, b, code'[b][Len(code'[b])].to)
    BY DEF Finished
  <2>1. CASE b = at
    <3>1. code'[at] # <<>> /\ Len(code'[at]) = Len(code[at]) + 1
      BY <1>15
    <3>2. Targets(new, at, i.to)
      BY <1>5, <1>16, <1>22, <1>23 DEF Targets
    <3> QED
      BY <1>15, <2>1, <3>1, <3>2
  <2>2. CASE b # at
    <3>1. b \in DOMAIN code \ Unfinished /\ code'[b] = code[b] /\ b \in 1 .. L
      BY <1>2, <1>13, <1>14, <2>2
    <3>2. code[b] # <<>> /\ Targets(nest, b, code[b][Len(code[b])].to)
      BY <3>1 DEF Structure, Finished
    <3> QED
      BY <1>24, <3>1, <3>2
  <2> QED
    BY <2>1, <2>2
<1>26. Made(new)'
  <2> SUFFICES ASSUME NEW c \in DOMAIN code' \ {1}
               PROVE  \E b \in DOMAIN code' \ Unfinished' :
                        \E n \in DOMAIN code'[b][Len(code'[b])].to :
                            /\ code'[b][Len(code'[b])].to[n] = c
                            /\ Enters(new, b, c) \/ Passes(new, b, c)
    BY DEF Made
  <2>1. CASE c \in 1 .. L
    <3>1. PICK b \in DOMAIN code \ Unfinished :
            \E n \in DOMAIN code[b][Len(code[b])].to :
                /\ code[b][Len(code[b])].to[n] = c
                /\ Enters(nest, b, c) \/ Passes(nest, b, c)
      BY <1>2, <2>1 DEF Structure, Made
    <3>2. code'[b] = code[b] /\ b \in DOMAIN code' \ Unfinished' /\ b \in 1 .. L
      BY <1>2, <1>13, <1>14
    <3>3. Enters(nest, b, c) \/ Passes(nest, b, c) => Enters(new, b, c) \/ Passes(new, b, c)
      BY <1>24, <2>1, <3>2
    <3> QED
      BY <3>1, <3>2, <3>3
  <2>2. CASE c \notin 1 .. L
    <3>1. c = L + 1 \/ c = L + 2
      BY <1>2, <1>6, <2>2
    <3>2. at \in DOMAIN code' \ Unfinished' /\ code'[at][Len(code'[at])] = i
      BY <1>13, <1>15
    <3>3. \E n \in DOMAIN i.to : /\ i.to[n] = c
                                 /\ Enters(new, at, c) \/ Passes(new, at, c)
      BY <1>16, <1>23, <3>1
    <3> QED
      BY <3>2, <3>3
  <2> QED
    BY <2>1, <2>2
<1>27. Waiting(new)'
  <2> SUFFICES ASSUME NEW u \in Unfinished', NEW c \in 1 .. L + 2, c > u
               PROVE  u \in new[c] \/ c \in new[u]
    BY <1>6 DEF Waiting
  <2>1. CASE u \in Ifs
    <3>1. c \in 1 .. L => u \in nest[c] \/ c \in nest[u]
      BY <1>2, <1>12, <2>1 DEF Structure, Waiting
    <3>2. u \in new[L + 1] /\ u \in new[L + 2] /\ new[u] = nest[u]
      BY <1>5, <1>11, <2>1
    <3>3. c \in 1 .. L \/ c = L + 1 \/ c = L + 2
      BY <1>2
    <3> QED
      BY <1>5, <3>1, <3>2, <3>3
  <2>2. CASE u = L + 1
    BY <1>2, <1>5, <2>2
  <2>3. CASE u = L + 2
    BY <1>2, <2>3
  <2> QED
    BY <1>12, <2>1, <2>2, <2>3
<1> QED
    BY <1>18, <1>19, <1>20, <1>25, <1>26, <1>27 DEF Structure
-----------------------------------------------------------------------------
(* Constants and registers are told apart.                                 *)
LEMMA OperandKinds ==
    /\ \A n : IsConst(Const(n)) /\ Const(n).imm = n
    /\ \A p : ~IsConst(Register(p)) /\ Register(p).reg = p
BY DEF IsConst, Const, Register

(* The reductions that write no terminator and leave statements open.      *)
Ordinary ==
    \/ \E id \in Id : Identifier(id) \/ Assign(id)
    \/ \E n \in Imm : Immediate(n)
    \/ \E op \in Op : Binary(op)
    \/ Negate \/ Not

(* Writing nothing is writing.                                             *)
LEMMA NothingWritten ==
    ASSUME NEW nest, Structure(nest), code' = code
    PROVE  /\ Writes
           /\ \A n \in Len(code[at]) + 1 .. Len(code'[at]) : FALSE
<1>1. IsSeq(code) /\ at \in DOMAIN code /\ IsSeq(code[at])
    BY DEF Structure, Typed
<1>2. Len(code[at]) \in Nat
    BY <1>1, SeqFacts
<1>3. \A n \in Len(code[at]) + 1 .. Len(code[at]) : FALSE
    BY <1>2
<1>4. Len(code[at]) >= Len(code[at])
    BY <1>2
<1> QED
    BY <1>1, <1>3, <1>4, Zenon DEF Writes

(* What Operate does, with an operator that is not a terminator.           *)
LEMMA OperateFacts ==
    ASSUME NEW nest, Structure(nest), NEW op, NEW a, NEW b, NEW below, IsSeq(below),
           Operate(op, a, b, below)
    PROVE  \/ /\ IsConst(a) /\ IsConst(b) /\ code' = code
              /\ IsAppended(values', below, Const(Compute(op, a.imm, b.imm)))
           \/ /\ ~(IsConst(a) /\ IsConst(b)) /\ Writes
              /\ IsAppended(code'[at], code[at], Instruction(op, <<a, b>>, <<>>))
              /\ IsAppended(values', below, Here)
<1>1. IsSeq(code) /\ at \in DOMAIN code /\ IsSeq(code[at])
    BY DEF Structure, Typed
<1>2. \A x : IsAppended(Append(below, x), below, x)
    BY Appended, Zenon
<1>3. CASE IsConst(a) /\ IsConst(b)
    BY <1>2, <1>3, Zenon DEF Operate
<1>4. CASE ~(IsConst(a) /\ IsConst(b))
  <2>1. values' = Append(below, Here) /\ Emit(<<Instruction(op, <<a, b>>, <<>>)>>)
    BY <1>4, Zenon DEF Operate
  <2>2. IsAppended(values', below, Here)
    BY <1>2, <2>1, Zenon
  <2>3. Writes /\ IsAppended(code'[at], code[at], Instruction(op, <<a, b>>, <<>>))
    BY <1>1, <2>1, EmitOne, Zenon
  <2> QED
    BY <1>4, <2>2, <2>3
<1> QED
    BY <1>3, <1>4

(* One instruction more is one new place.                                  *)
LEMMA OneWritten ==
    ASSUME NEW i, IsAppended(code'[at], code[at], i), IsSeq(code[at])
    PROVE  /\ Len(code[at]) \in Nat /\ Len(code'[at]) = Len(code[at]) + 1
           /\ \A n \in Len(code[at]) + 1 .. Len(code'[at]) :
                n = Len(code[at]) + 1 /\ code'[at][n] = i
<1>1. Len(code[at]) \in Nat
    BY SeqFacts
<1> QED
    BY <1>1 DEF IsAppended

(* With the same statements open the if statements are the same.           *)
LEMMA SameOpen ==
    ASSUME open' = open, IsSeq(open)
    PROVE  /\ Ifs' = Ifs /\ IsSeq(open')
           /\ \A n \in DOMAIN open' : open'[n].bb # NoBlock =>
                \E m \in DOMAIN open : /\ open'[n].bb = open[m].bb
                                       /\ IfsBelow(n)' = IfsBelow(m)
BY DEF Ifs, IfsBelow

(* An instruction that is no terminator keeps the structure.               *)
LEMMA WritesOne ==
    ASSUME NEW nest, Structure(nest), status = "parsing", status' = "parsing",
           NEW i, Writes, IsAppended(code'[at], code[at], i), ~IsTerminator(i),
           at' = at, open' = open, IsSeq(values')
    PROVE  Structure(nest)'
<1>1. IsSeq(code[at]) /\ IsSeq(open)
    BY DEF Structure, Typed
<1>2. \A n \in Len(code[at]) + 1 .. Len(code'[at]) : ~IsTerminator(code'[at][n])
    BY <1>1, OneWritten
<1>3. /\ Ifs' = Ifs /\ IsSeq(open')
      /\ \A n \in DOMAIN open' : open'[n].bb # NoBlock =>
            \E m \in DOMAIN open : /\ open'[n].bb = open[m].bb
                                   /\ IfsBelow(n)' = IfsBelow(m)
    BY <1>1, SameOpen, Zenon
<1> QED
    BY <1>2, <1>3, WritesKeepStructure

(* So does none.                                                           *)
LEMMA WritesNone ==
    ASSUME NEW nest, Structure(nest), status = "parsing", status' = "parsing",
           code' = code, at' = at, open' = open, IsSeq(values')
    PROVE  Structure(nest)'
<1>1. IsSeq(open)
    BY DEF Structure, Typed
<1>2. Writes /\ \A n \in Len(code[at]) + 1 .. Len(code'[at]) : ~IsTerminator(code'[at][n])
    BY NothingWritten
<1>3. /\ Ifs' = Ifs /\ IsSeq(open')
      /\ \A n \in DOMAIN open' : open'[n].bb # NoBlock =>
            \E m \in DOMAIN open : /\ open'[n].bb = open[m].bb
                                   /\ IfsBelow(n)' = IfsBelow(m)
    BY <1>1, SameOpen, Zenon
<1> QED
    BY <1>2, <1>3, WritesKeepStructure

(* An operator writes one instruction or none.                             *)
LEMMA OperateKeepsStructure ==
    ASSUME NEW nest, Structure(nest), status = "parsing", status' = "parsing",
           NEW op, NEW a, NEW b, NEW below, IsSeq(below), Operate(op, a, b, below),
           op \notin {"br", "condbr", "ret"}, at' = at, open' = open
    PROVE  Structure(nest)'
<1> DEFINE i == Instruction(op, <<a, b>>, <<>>)
<1>1. ~IsTerminator(i)
    BY DEF IsTerminator, Instruction
<1> HIDE DEF i
<1>2. IsSeq(values')
    BY OperateFacts DEF IsAppended
<1>3. code' = code \/ (Writes /\ IsAppended(code'[at], code[at], i))
    BY OperateFacts DEF i
<1> QED
    BY <1>1, <1>2, <1>3, WritesOne, WritesNone

(* The empty sequence.                                                     *)
LEMMA EmptyIsSeq == IsSeq(<<>>) /\ Len(<<>>) = 0
<1>1. <<>> \in Seq({})
    OBVIOUS
<1> QED
    BY <1>1, SeqOver

(* Expressions and assignments make no block and end none.                 *)
LEMMA OrdinaryKeepsStructure ==
    ASSUME NEW nest, Structure(nest), Ordinary, status' = "parsing"
    PROVE  Structure(nest)'
<1>1. IsSeq(code) /\ at \in DOMAIN code /\ IsSeq(code[at]) /\ IsSeq(open) /\ IsSeq(values)
    BY DEF Structure, Typed
<1>2. status = "parsing" /\ at' = at /\ open' = open
    BY DEF Ordinary, Identifier, Assign, Immediate, Binary, Negate, Not, Reduce
<1>3. \A x : IsAppended(Append(values, x), values, x)
    BY <1>1, Appended, Zenon
<1>4. ASSUME NEW id \in Id, Identifier(id)
      PROVE  Structure(nest)'
  <2> DEFINE i == Instruction("load", <<idMap[id]>>, <<>>)
  <2>1. values' = Append(values, Here) /\ Emit(<<i>>)
    BY <1>2, <1>4 DEF Identifier
  <2>2. IsSeq(values')
    BY <1>3, <2>1 DEF IsAppended
  <2>3. ~IsTerminator(i)
    BY DEF IsTerminator, Instruction
  <2> HIDE DEF i
  <2>4. Writes /\ IsAppended(code'[at], code[at], i)
    BY <1>1, <2>1, EmitOne, Zenon
  <2> QED
    BY <1>2, <2>2, <2>3, <2>4, WritesOne
<1>5. ASSUME NEW id \in Id, Assign(id)
      PROVE  Structure(nest)'
  <2>1. values' = <<>> /\ IsSeq(values')
    BY <1>5, EmptyIsSeq DEF Assign
  <2>2. CASE id \in DOMAIN idMap
    <3> DEFINE i == Instruction("store", <<values[1], idMap[id]>>, <<>>)
    <3>1. Emit(<<i>>)
      BY <1>5, <2>2 DEF Assign
    <3>2. ~IsTerminator(i)
      BY DEF IsTerminator, Instruction
    <3> HIDE DEF i
    <3>3. Writes /\ IsAppended(code'[at], code[at], i)
      BY <1>1, <3>1, EmitOne, Zenon
    <3> QED
      BY <1>2, <2>1, <3>2, <3>3, WritesOne
  <2>3. CASE id \notin DOMAIN idMap
    <3> DEFINE i == Instruction("alloca", <<>>, <<>>)
               j == Instruction("store", <<values[1], Here>>, <<>>)
    <3>1. Emit(<<i, j>>)
      BY <1>5, <2>3 DEF Assign
    <3>2. ~IsTerminator(i) /\ ~IsTerminator(j)
      BY DEF IsTerminator, Instruction
    <3> HIDE DEF i, j
    <3>3. /\ Writes
          /\ Len(code'[at]) = Len(code[at]) + 2
          /\ code'[at][Len(code[at]) + 1] = i
          /\ code'[at][Len(code[at]) + 2] = j
      BY <1>1, <3>1, EmitTwo, Zenon
    <3>4. Len(code[at]) \in Nat
      BY <1>1, SeqFacts
    <3>5. \A n \in Len(code[at]) + 1 .. Len(code'[at]) : ~IsTerminator(code'[at][n])
      BY <3>2, <3>3, <3>4
    <3>6. /\ Ifs' = Ifs /\ IsSeq(open')
          /\ \A n \in DOMAIN open' : open'[n].bb # NoBlock =>
                \E m \in DOMAIN open : /\ open'[n].bb = open[m].bb
                                       /\ IfsBelow(n)' = IfsBelow(m)
      BY <1>1, <1>2, SameOpen, Zenon
    <3> QED
      BY <1>2, <2>1, <3>3, <3>5, <3>6, WritesKeepStructure
  <2> QED
    BY <2>2, <2>3
<1>6. ASSUME NEW n \in Imm, Immediate(n)
      PROVE  Structure(nest)'
  <2>1. code' = code /\ values' = Append(values, Const(n))
    BY <1>6 DEF Immediate
  <2>2. IsSeq(values')
    BY <1>3, <2>1 DEF IsAppended
  <2> QED
    BY <1>2, <2>1, <2>2, WritesNone
<1>7. ASSUME NEW op \in Op, Binary(op)
      PROVE  Structure(nest)'
  <2>1. /\ Operate(op, Last(Front(values)), Last(values), Front(Front(values)))
        /\ Len(values) >= 2
    BY <1>7 DEF Binary
  <2>2. op \notin {"br", "condbr", "ret"}
    BY OpAssumption
  <2>3. IsSeq(Front(Front(values)))
    BY <1>1, <2>1, FrontLastTwo
  <2> QED
    BY <1>2, <2>1, <2>2, <2>3, OperateKeepsStructure
<1>8. values # <<>> => IsSeq(Front(values))
    BY <1>1, FrontLast
<1>9. CASE Negate
  <2>1. Operate("sub", Const(0), Last(values), Front(values)) /\ values # <<>>
    BY <1>9 DEF Negate
  <2> QED
    BY <1>2, <1>8, <2>1, OperateKeepsStructure
<1>10. CASE Not
  <2>1. Operate("eq", Last(values), Const(0), Front(values)) /\ values # <<>>
    BY <1>10 DEF Not
  <2> QED
    BY <1>2, <1>8, <2>1, OperateKeepsStructure
<1> QED
    BY <1>4, <1>5, <1>6, <1>7, <1>9, <1>10 DEF Ordinary
-----------------------------------------------------------------------------
(* A while statement makes no block.                                       *)
LEMMA WhileKeepsStructure ==
    ASSUME NEW nest, Structure(nest), status = "parsing", While
    PROVE  Structure(nest)' /\ Ifs' = Ifs
<1> DEFINE x == [bb |-> NoBlock, taken |-> TRUE]
<1>1. IsSeq(open)
    BY DEF Structure, Typed
<1>2. /\ code' = code /\ at' = at /\ status' = status /\ values' = <<>>
      /\ open' = Append(open, x)
    BY DEF While
<1>3. IsAppended(open', open, x)
    BY <1>1, <1>2, Appended, Zenon
<1>4. x.bb = NoBlock
    OBVIOUS
<1> HIDE DEF x
<1>5. /\ Len(open) \in Nat /\ DOMAIN open = 1 .. Len(open) /\ IsSeq(open')
      /\ DOMAIN open' = 1 .. Len(open) + 1
      /\ open'[Len(open) + 1] = x /\ \A n \in 1 .. Len(open) : open'[n] = open[n]
    BY <1>1, <1>3, SeqFacts DEF IsAppended
<1>6. Ifs' = Ifs
    BY <1>4, <1>5 DEF Ifs
<1>7. ASSUME NEW n \in DOMAIN open', open'[n].bb # NoBlock
      PROVE  \E m \in DOMAIN open : open'[n].bb = open[m].bb /\ IfsBelow(n)' = IfsBelow(m)
  <2>1. n \in 1 .. Len(open) /\ open'[n] = open[n]
    BY <1>4, <1>5, <1>7
  <2>2. IfsBelow(n)' = IfsBelow(n)
    BY <1>5, <2>1 DEF IfsBelow
  <2> QED
    BY <1>5, <2>1, <2>2
<1>8. Writes /\ \A n \in Len(code[at]) + 1 .. Len(code'[at]) : ~IsTerminator(code'[at][n])
    BY <1>2, NothingWritten
<1>9. IsSeq(values')
    BY <1>2, EmptyIsSeq
<1> QED
    BY <1>2, <1>5, <1>6, <1>7, <1>8, <1>9, WritesKeepStructure

(* The statement whose body ends.                                          *)
LEMMA Closes ==
    ASSUME NEW nest, Structure(nest), EndBody
    PROVE  /\ Len(open) \in Nat /\ Len(open) >= 1 /\ Len(open) \in DOMAIN open
           /\ DOMAIN open = 1 .. Len(open) /\ IsSeq(open')
           /\ DOMAIN open' = 1 .. Len(open) - 1
           /\ \A n \in 1 .. Len(open) - 1 : open'[n] = open[n]
           /\ Last(open) = open[Len(open)]
           /\ Ifs' = IfsBelow(Len(open))
           /\ Ifs = IfsBelow(Len(open)) \cup ({Last(open).bb} \ {NoBlock})
           /\ \A n \in 1 .. Len(open) - 1 : IfsBelow(n)' = IfsBelow(n)
<1>1. IsSeq(open) /\ open # <<>> /\ open' = Front(open)
    BY DEF Structure, Typed, EndBody
<1>2. /\ Len(open) \in Nat /\ Len(open) >= 1
      /\ IsSeq(open') /\ Len(open') = Len(open) - 1
      /\ \A n \in 1 .. Len(open) - 1 : open'[n] = open[n]
      /\ Last(open) = open[Len(open)]
    BY <1>1, FrontLast
<1>3. DOMAIN open = 1 .. Len(open) /\ DOMAIN open' = 1 .. Len(open) - 1
    BY <1>1, <1>2, SeqFacts
<1>4. Ifs' = IfsBelow(Len(open))
    BY <1>2, <1>3 DEF Ifs, IfsBelow
<1>5. Ifs = IfsBelow(Len(open)) \cup ({Last(open).bb} \ {NoBlock})
    BY <1>2, <1>3 DEF Ifs, IfsBelow
<1>6. \A n \in 1 .. Len(open) - 1 : IfsBelow(n)' = IfsBelow(n)
    BY <1>2, <1>3 DEF IfsBelow
<1>7. Len(open) \in DOMAIN open
    BY <1>2, <1>3
<1> QED
    BY <1>1, <1>2, <1>3, <1>4, <1>5, <1>6, <1>7

(* Nor does the end of its body.                                           *)
LEMMA EndWhileKeepsStructure ==
    ASSUME NEW nest, Structure(nest), status = "parsing", EndBody, Last(open).bb = NoBlock
    PROVE  Structure(nest)' /\ Ifs' = Ifs
<1>1. code' = code /\ at' = at /\ status' = status /\ values' = values /\ IsSeq(values)
    BY DEF EndBody, Structure, Typed
<1>2. Ifs' = Ifs
    BY Closes
<1>3. Writes /\ \A n \in Len(code[at]) + 1 .. Len(code'[at]) : ~IsTerminator(code'[at][n])
    BY <1>1, NothingWritten
<1>4. ASSUME NEW n \in DOMAIN open', open'[n].bb # NoBlock
      PROVE  \E m \in DOMAIN open : open'[n].bb = open[m].bb /\ IfsBelow(n)' = IfsBelow(m)
    BY Closes
<1>5. IsSeq(open')
    BY Closes
<1> QED
    BY <1>1, <1>2, <1>3, <1>4, <1>5, WritesKeepStructure

(* The end of the body of an if statement.                                 *)
LEMMA EndIfKeepsStructure ==
    ASSUME NEW nest, Structure(nest), status = "parsing", EndBody, Last(open).bb # NoBlock
    PROVE  /\ Structure(nest)'
           /\ Writes
           /\ IsAppended(code'[at], code[at], Instruction("br", <<>>, <<Last(open).bb>>))
           /\ at' = Last(open).bb /\ at' \in DOMAIN code \ {at} /\ code[at'] = <<>>
           /\ Ifs' = nest[at'] /\ at' \notin Ifs' /\ Ifs = Ifs' \cup {at'}
<1> DEFINE j == Last(open).bb
           i == Instruction("br", <<>>, <<j>>)
           L == Len(open)
<1>1. /\ IsSeq(code) /\ (\A b \in DOMAIN code : IsSeq(code[b]))
      /\ at \in DOMAIN code /\ IsSeq(open) /\ IsSeq(values)
      /\ DOMAIN nest = DOMAIN code /\ Nested(nest)
    BY DEF Structure, Typed
<1>2. Emit(<<i>>) /\ at' = j /\ status' = "parsing" /\ values' = values
    BY DEF EndBody
<1>3. i.op = "br" /\ i.to = <<j>>
    BY DEF Instruction
<1> HIDE DEF i
<1>4. Writes /\ IsAppended(code'[at], code[at], i)
    BY <1>1, <1>2, EmitOne, Zenon
<1>5. /\ L \in Nat /\ L >= 1 /\ L \in DOMAIN open
      /\ DOMAIN open = 1 .. L /\ IsSeq(open')
      /\ DOMAIN open' = 1 .. L - 1
      /\ \A n \in 1 .. L - 1 : open'[n] = open[n]
      /\ j = open[L].bb
      /\ Ifs' = IfsBelow(L)
      /\ Ifs = IfsBelow(L) \cup {j}
      /\ \A n \in 1 .. L - 1 : IfsBelow(n)' = IfsBelow(n)
    BY Closes
<1> HIDE DEF j, L
<1>6. /\ j \in DOMAIN code \ {at} /\ nest[j] = Ifs' /\ code[j] = <<>>
    BY <1>5 DEF Structure, Joins, j
<1>7. j \notin nest[j] /\ at \notin Ifs /\ nest[at] = Ifs
    BY <1>1, <1>6 DEF Structure, Joins, Nested, Ifs
<1>8. /\ DOMAIN code' = DOMAIN code /\ (\A b \in DOMAIN code : IsSeq(code'[b])) /\ IsSeq(code')
    BY <1>1, <1>4, SeqFacts DEF Writes
<1>9. \A b \in DOMAIN code \ {at} : code'[b] = code[b]
    BY <1>4 DEF Writes
<1>10. Unfinished = Ifs \cup {at} /\ Unfinished' = Ifs
    BY <1>2, <1>5, <1>6, <1>7 DEF Unfinished
<1>11. /\ Len(code[at]) \in Nat /\ Len(code'[at]) = Len(code[at]) + 1 /\ code'[at] # <<>>
       /\ DOMAIN code[at] = 1 .. Len(code[at])
       /\ DOMAIN code'[at] = 1 .. Len(code[at]) + 1
       /\ code'[at][Len(code[at]) + 1] = i
       /\ \A n \in 1 .. Len(code[at]) : code'[at][n] = code[at][n]
    BY <1>1, <1>4, <1>8, SeqFacts DEF IsAppended
<1>12. Typed(nest)'
    BY <1>1, <1>2, <1>5, <1>6, <1>8 DEF Typed
<1>13. Joins(nest)'
  <2>1. ASSUME NEW n \in DOMAIN open', open'[n].bb # NoBlock
        PROVE  /\ open'[n].bb \in DOMAIN code' \ {at'}
               /\ nest[open'[n].bb] = IfsBelow(n)'
               /\ code'[open'[n].bb] = <<>>
    <3>1. n \in 1 .. L - 1 /\ n \in DOMAIN open /\ open'[n] = open[n] /\ IfsBelow(n)' = IfsBelow(n)
      BY <1>5
    <3>2. /\ open[n].bb \in DOMAIN code \ {at}
          /\ nest[open[n].bb] = IfsBelow(n)
          /\ code[open[n].bb] = <<>>
      BY <2>1, <3>1 DEF Structure, Joins
    <3>3. open[n].bb \in Ifs'
      BY <2>1, <3>1, <1>5 DEF IfsBelow
    <3> QED
      BY <1>2, <1>6, <1>7, <1>8, <1>9, <3>1, <3>2, <3>3
  <2> QED
    BY <1>2, <1>6, <2>1 DEF Joins
<1>14. Terminated'
  <2> SUFFICES ASSUME NEW b \in DOMAIN code, NEW n \in DOMAIN code'[b]
               PROVE  IsTerminator(code'[b][n]) <=> n = Len(code'[b]) /\ b \notin Unfinished'
    BY <1>8 DEF Terminated, IsTerminator
  <2>1. CASE b # at
    BY <1>9, <1>10, <2>1 DEF Structure, Terminated
  <2>2. CASE b = at
    <3>1. CASE n \in 1 .. Len(code[at])
      <4>1. ~IsTerminator(code[at][n])
        BY <1>1, <1>10, <1>11, <3>1 DEF Structure, Terminated
      <4> QED
        BY <1>11, <2>2, <3>1, <4>1
    <3>2. CASE n = Len(code[at]) + 1
      BY <1>3, <1>7, <1>10, <1>11, <2>2, <3>2 DEF IsTerminator
    <3> QED
      BY <1>11, <2>2, <3>1, <3>2
  <2> QED
    BY <2>1, <2>2
<1>15. Finished(nest)'
  <2> SUFFICES ASSUME NEW b \in DOMAIN code \ Unfinished'
               PROVE  code'[b] # <<>> /\ Targets(nest, b, code'[b][Len(code'[b])].to)
    BY <1>8 DEF Finished
  <2>1. CASE b # at
    BY <1>9, <1>10, <2>1 DEF Structure, Finished
  <2>2. CASE b = at
    <3>1. Leaves(nest, at, j) /\ j \in DOMAIN nest
      BY <1>1, <1>5, <1>6, <1>7 DEF Leaves
    <3>2. Targets(nest, at, <<j>>)
      BY <3>1 DEF Targets
    <3> QED
      BY <1>3, <1>11, <2>2, <3>2
  <2> QED
    BY <2>1, <2>2
<1>16. Made(nest)'
    BY <1>8, <1>9, <1>10 DEF Structure, Made
<1>17. Waiting(nest)'
    BY <1>8, <1>10 DEF Structure, Waiting
<1>18. Structure(nest)'
    BY <1>12, <1>13, <1>14, <1>15, <1>16, <1>17 DEF Structure
<1> QED
    BY <1>2, <1>4, <1>5, <1>6, <1>7, <1>18 DEF i, j

(* The return statement ends the last block.                               *)
LEMMA ReturnKeepsStructure ==
    ASSUME NEW nest, Structure(nest), status = "parsing", Return
    PROVE  /\ Structure(nest)'
           /\ Writes
           /\ IsAppended(code'[at], code[at], Instruction("ret", values, <<>>))
<1> DEFINE i == Instruction("ret", values, <<>>)
<1>1. /\ IsSeq(code) /\ (\A b \in DOMAIN code : IsSeq(code[b]))
      /\ at \in DOMAIN code /\ IsSeq(open) /\ IsSeq(values)
      /\ DOMAIN nest = DOMAIN code /\ Nested(nest)
    BY DEF Structure, Typed
<1>2. /\ Emit(<<i>>) /\ at' = at /\ status' = "accepted" /\ values' = values
      /\ open' = open /\ open = <<>>
    BY DEF Return
<1>3. i.op = "ret" /\ i.to = <<>>
    BY DEF Instruction
<1> HIDE DEF i
<1>4. Writes /\ IsAppended(code'[at], code[at], i)
    BY <1>1, <1>2, EmitOne, Zenon
<1>5. DOMAIN open = {} /\ DOMAIN open' = {} /\ Ifs = {} /\ Ifs' = {}
    BY <1>2 DEF Ifs
<1>6. Unfinished = {at} /\ Unfinished' = {}
    BY <1>2, <1>5 DEF Unfinished
<1>7. /\ DOMAIN code' = DOMAIN code /\ (\A b \in DOMAIN code : IsSeq(code'[b])) /\ IsSeq(code')
    BY <1>1, <1>4, SeqFacts DEF Writes
<1>8. \A b \in DOMAIN code \ {at} : code'[b] = code[b]
    BY <1>4 DEF Writes
<1>9. /\ Len(code[at]) \in Nat /\ Len(code'[at]) = Len(code[at]) + 1 /\ code'[at] # <<>>
      /\ DOMAIN code[at] = 1 .. Len(code[at])
      /\ DOMAIN code'[at] = 1 .. Len(code[at]) + 1
      /\ code'[at][Len(code[at]) + 1] = i
      /\ \A n \in 1 .. Len(code[at]) : code'[at][n] = code[at][n]
    BY <1>1, <1>4, <1>7, SeqFacts DEF IsAppended
<1>10. Typed(nest)'
    BY <1>1, <1>2, <1>7 DEF Typed
<1>11. Joins(nest)'
  <2>1. nest[at] = Ifs
    BY DEF Structure, Joins
  <2> QED
    BY <1>2, <1>5, <2>1 DEF Joins
<1>12. Terminated'
  <2> SUFFICES ASSUME NEW b \in DOMAIN code, NEW n \in DOMAIN code'[b]
               PROVE  IsTerminator(code'[b][n]) <=> n = Len(code'[b])
    BY <1>6, <1>7 DEF Terminated, IsTerminator
  <2>1. CASE b # at
    BY <1>6, <1>8, <2>1 DEF Structure, Terminated
  <2>2. CASE b = at
    <3>1. CASE n \in 1 .. Len(code[at])
      <4>1. ~IsTerminator(code[at][n])
        BY <1>1, <1>6, <1>9, <3>1 DEF Structure, Terminated
      <4> QED
        BY <1>9, <2>2, <3>1, <4>1
    <3>2. CASE n = Len(code[at]) + 1
      BY <1>3, <1>9, <2>2, <3>2 DEF IsTerminator
    <3> QED
      BY <1>9, <2>2, <3>1, <3>2
  <2> QED
    BY <2>1, <2>2
<1>13. Finished(nest)'
  <2> SUFFICES ASSUME NEW b \in DOMAIN code
               PROVE  code'[b] # <<>> /\ Targets(nest, b, code'[b][Len(code'[b])].to)
    BY <1>7 DEF Finished
  <2>1. CASE b # at
    BY <1>6, <1>8, <2>1 DEF Structure, Finished
  <2>2. CASE b = at
    BY <1>3, <1>9, <2>2 DEF Targets
  <2> QED
    BY <2>1, <2>2
<1>14. Made(nest)'
    BY <1>6, <1>7, <1>8 DEF Structure, Made
<1>15. Waiting(nest)'
    BY <1>6 DEF Waiting
<1>16. Structure(nest)'
    BY <1>10, <1>11, <1>12, <1>13, <1>14, <1>15 DEF Structure
<1> QED
    BY <1>4, <1>16 DEF i
-----------------------------------------------------------------------------
(***************************************************************************)
(* The operands.  An operand in the block of its use is computed before    *)
(* it; what is on the parser's stack is computed in the block that is      *)
(* written; the place of an identifier is in the block of its first        *)
(* assignment, and no block that waits for its turn is that one.           *)
(***************************************************************************)
Operands ==
    \A b \in DOMAIN code : \A n \in DOMAIN code[b] : \A v \in ToSet(code[b][n].args) :
        \/ IsConst(v)
        \/ \E B \in DOMAIN code : \E k \in 1 .. Len(code[B]) :
                v = Register(<<B, k>>) /\ (B = b => k < n)

LocalValue(v) == IsConst(v) \/ \E k \in 1 .. Len(code[at]) : v = Register(<<at, k>>)

Values == \A i \in DOMAIN values : LocalValue(values[i])

Places(nest) ==
    /\ DOMAIN home = DOMAIN idMap
    /\ \A id \in DOMAIN idMap :
            \E B \in DOMAIN code \ Ifs : \E k \in 1 .. Len(code[B]) :
                idMap[id] = Register(<<B, k>>) /\ home[id] = nest[B]
    /\ \A id, other \in DOMAIN idMap : idMap[id] = idMap[other] => id = other

(* An operand computed in a block that is not above the block of its use.  *)
Far(nest, b, v) == ~IsConst(v) /\ v.reg[1] # b /\ ~Above(nest, v.reg[1], b)

Strays(nest) ==
    \E b \in DOMAIN code : \E n \in DOMAIN code[b] : \E v \in ToSet(code[b][n].args) :
        Far(nest, b, v)

Uses(nest) ==
    /\ Operands /\ Values /\ Places(nest)
    /\ escaped <=> Strays(nest)

(* Code is written at the insert point, and blocks are made.               *)
Grows ==
    /\ \A b \in DOMAIN code' : IsSeq(code'[b])
    /\ DOMAIN code \subseteq DOMAIN code'
    /\ \A b \in DOMAIN code' \ DOMAIN code : code'[b] = <<>>
    /\ \A b \in DOMAIN code \ {at} : code'[b] = code[b]
    /\ Len(code'[at]) >= Len(code[at])
    /\ \A n \in 1 .. Len(code[at]) : code'[at][n] = code[at][n]

Written == Len(code[at]) + 1 .. Len(code'[at])

(* An operand of the instruction that is put n-th at the insert point.     *)
NewOperand(n, v) ==
    \/ IsConst(v)
    \/ \E B \in DOMAIN code : \E k \in Nat \ {0} :
            v = Register(<<B, k>>) /\ IF B = at THEN k < n ELSE k <= Len(code[B])

LocalOperand(n, v) == IsConst(v) \/ \E k \in 1 .. n - 1 : v = Register(<<at, k>>)

(* Writing at the insert point makes the code grow.                        *)
LEMMA WritesGrows ==
    ASSUME NEW nest, Structure(nest), Writes
    PROVE  Grows
<1>1. IsSeq(code) /\ \A b \in DOMAIN code : IsSeq(code[b])
    BY DEF Structure, Typed
<1>2. DOMAIN code' = DOMAIN code
    BY <1>1, SeqFacts DEF Writes
<1>3. \A b \in DOMAIN code : IsSeq(code'[b])
    BY <1>1 DEF Writes
<1> QED
    BY <1>2, <1>3 DEF Writes, Grows

(* The blocks before and after, and what is new.                           *)
LEMMA Lengths ==
    ASSUME NEW nest, Structure(nest), Grows
    PROVE  /\ \A b \in DOMAIN code : /\ Len(code[b]) \in Nat
                                     /\ DOMAIN code[b] = 1 .. Len(code[b])
                                     /\ Len(code'[b]) \in Nat
                                     /\ DOMAIN code'[b] = 1 .. Len(code'[b])
                                     /\ Len(code'[b]) >= Len(code[b])
                                     /\ \A n \in 1 .. Len(code[b]) : code'[b][n] = code[b][n]
           /\ \A b \in DOMAIN code' \ DOMAIN code : DOMAIN code'[b] = {}
           /\ DOMAIN code'[at] = 1 .. Len(code[at]) \cup Written
<1>1. \A b \in DOMAIN code : IsSeq(code[b]) /\ IsSeq(code'[b])
    BY DEF Structure, Typed, Grows
<1>2. \A b \in DOMAIN code : /\ Len(code[b]) \in Nat
                             /\ DOMAIN code[b] = 1 .. Len(code[b])
                             /\ Len(code'[b]) \in Nat
                             /\ DOMAIN code'[b] = 1 .. Len(code'[b])
    BY <1>1, SeqFacts
<1>3. \A b \in DOMAIN code : Len(code[b]) >= Len(code[b])
    BY <1>2
<1>4. \A b \in DOMAIN code : /\ Len(code'[b]) >= Len(code[b])
                             /\ \A n \in 1 .. Len(code[b]) : code'[b][n] = code[b][n]
    BY <1>3 DEF Grows
<1>5. \A b \in DOMAIN code' \ DOMAIN code : DOMAIN code'[b] = {}
    BY DEF Grows
<1>6. at \in DOMAIN code
    BY DEF Structure, Typed
<1>7. DOMAIN code'[at] = 1 .. Len(code[at]) \cup Written
    BY <1>2, <1>4, <1>6 DEF Written
<1> QED
    BY <1>2, <1>4, <1>5, <1>7

(* The operands stay computed before their use.                            *)
LEMMA OperandsGrow ==
    ASSUME NEW nest, Structure(nest), Operands, Grows,
           \A n \in Written : \A v \in ToSet(code'[at][n].args) : NewOperand(n, v)
    PROVE  Operands'
<1>1. at \in DOMAIN code /\ DOMAIN code \subseteq DOMAIN code'
    BY DEF Structure, Typed, Grows
<1>2. \A b \in DOMAIN code : /\ Len(code[b]) \in Nat
                             /\ DOMAIN code[b] = 1 .. Len(code[b])
                             /\ Len(code'[b]) \in Nat
                             /\ DOMAIN code'[b] = 1 .. Len(code'[b])
                             /\ Len(code'[b]) >= Len(code[b])
                             /\ \A n \in 1 .. Len(code[b]) : code'[b][n] = code[b][n]
    BY Lengths
<1>3. DOMAIN code'[at] = 1 .. Len(code[at]) \cup Written
    BY Lengths
<1> SUFFICES ASSUME NEW b \in DOMAIN code', NEW n \in DOMAIN code'[b],
                    NEW v \in ToSet(code'[b][n].args), ~IsConst(v)
             PROVE  \E B \in DOMAIN code' : \E k \in 1 .. Len(code'[B]) :
                        v = Register(<<B, k>>) /\ (B = b => k < n)
    BY DEF Operands, IsConst
<1>4. b \in DOMAIN code
    BY Lengths
<1>5. CASE n \in 1 .. Len(code[b])
  <2>1. code'[b][n] = code[b][n]
    BY <1>2, <1>4, <1>5
  <2> n \in DOMAIN code[b] /\ v \in ToSet(code[b][n].args)
    BY <1>2, <1>4, <1>5, <2>1
  <2>2. PICK B \in DOMAIN code : \E k \in 1 .. Len(code[B]) :
            v = Register(<<B, k>>) /\ (B = b => k < n)
    BY <1>4, Zenon DEF Operands
  <2>3. PICK k \in 1 .. Len(code[B]) : v = Register(<<B, k>>) /\ (B = b => k < n)
    BY <2>2
  <2>4. B \in DOMAIN code' /\ k \in 1 .. Len(code'[B])
    BY <1>1, <1>2
  <2> QED
    BY <2>3, <2>4
<1>6. CASE n \notin 1 .. Len(code[b])
  <2>1. b = at /\ n \in Written
    BY <1>2, <1>3, <1>4, <1>6 DEF Grows
  <2>2. NewOperand(n, v)
    BY <2>1
  <2>3. PICK B \in DOMAIN code : \E k \in Nat \ {0} :
            v = Register(<<B, k>>) /\ IF B = at THEN k < n ELSE k <= Len(code[B])
    BY <2>2 DEF NewOperand
  <2>4. PICK k \in Nat \ {0} :
            v = Register(<<B, k>>) /\ IF B = at THEN k < n ELSE k <= Len(code[B])
    BY <2>3
  <2>5. n <= Len(code'[at]) /\ n \in Nat
    BY <1>1, <1>2, <2>1
  <2>6. B \in DOMAIN code' /\ k \in 1 .. Len(code'[B])
    BY <1>1, <1>2, <2>4, <2>5
  <2> QED
    BY <2>1, <2>4, <2>6
<1> QED
    BY <1>5, <1>6

(* An operand that is far from its use stays far; new ones add theirs.     *)
LEMMA StraysGrow ==
    ASSUME NEW nest, NEW new, Structure(nest), Operands, Grows,
           \A b \in DOMAIN code : new[b] = nest[b],
           \A n \in Written : \A v \in ToSet(code'[at][n].args) : NewOperand(n, v)
    PROVE  Strays(new)' <=> \/ Strays(nest)
                            \/ \E n \in Written : \E v \in ToSet(code'[at][n].args) :
                                    Far(nest, at, v)
<1>1. at \in DOMAIN code /\ DOMAIN code \subseteq DOMAIN code'
    BY DEF Structure, Typed, Grows
<1>2. \A b \in DOMAIN code : /\ Len(code[b]) \in Nat
                             /\ DOMAIN code[b] = 1 .. Len(code[b])
                             /\ Len(code'[b]) \in Nat
                             /\ DOMAIN code'[b] = 1 .. Len(code'[b])
                             /\ Len(code'[b]) >= Len(code[b])
                             /\ \A n \in 1 .. Len(code[b]) : code'[b][n] = code[b][n]
    BY Lengths
<1>3. DOMAIN code'[at] = 1 .. Len(code[at]) \cup Written
    BY Lengths
<1>4. ASSUME NEW v, NEW B \in DOMAIN code, NEW k, v = Register(<<B, k>>),
             NEW b \in DOMAIN code
      PROVE  Far(new, b, v) <=> Far(nest, b, v)
  <2>1. ~IsConst(v) /\ v.reg[1] = B
    BY <1>4, OperandKinds
  <2>2. Above(new, B, b) <=> Above(nest, B, b)
    BY DEF Above
  <2> QED
    BY <2>1, <2>2 DEF Far
<1>5. ASSUME NEW v, IsConst(v), NEW b
      PROVE  ~Far(new, b, v) /\ ~Far(nest, b, v)
    BY <1>5 DEF Far
<1>6. ASSUME Strays(nest) PROVE Strays(new)'
  <2>0. PICK b \in DOMAIN code : \E n \in DOMAIN code[b] :
            \E v \in ToSet(code[b][n].args) : Far(nest, b, v)
    BY <1>6 DEF Strays
  <2>1. PICK n \in DOMAIN code[b] : \E v \in ToSet(code[b][n].args) : Far(nest, b, v)
    BY <2>0
  <2>2. PICK v \in ToSet(code[b][n].args) : Far(nest, b, v)
    BY <2>1
  <2>3. n \in DOMAIN code'[b] /\ code'[b][n] = code[b][n] /\ b \in DOMAIN code'
    BY <1>1, <1>2
  <2>4. Far(new, b, v)
    <3>1. \/ IsConst(v)
          \/ \E B \in DOMAIN code : \E k \in 1 .. Len(code[B]) :
                v = Register(<<B, k>>) /\ (B = b => k < n)
      BY Zenon DEF Operands
    <3> QED
      BY <1>4, <1>5, <2>2, <3>1
  <2> QED
    BY <2>2, <2>3, <2>4 DEF Strays, Far, IsConst
<1>7. ASSUME NEW n \in Written, NEW v \in ToSet(code'[at][n].args), Far(nest, at, v)
      PROVE  Strays(new)'
  <2>1. n \in DOMAIN code'[at] /\ at \in DOMAIN code'
    BY <1>1, <1>3
  <2>2. NewOperand(n, v)
    OBVIOUS
  <2>3. Far(new, at, v)
    BY <1>1, <1>4, <1>5, <1>7, <2>2 DEF NewOperand
  <2> QED
    BY <2>1, <2>3 DEF Strays, Far, IsConst
<1>8. ASSUME Strays(new)'
      PROVE  \/ Strays(nest)
             \/ \E n \in Written : \E v \in ToSet(code'[at][n].args) : Far(nest, at, v)
  <2>0. PICK b \in DOMAIN code' : \E n \in DOMAIN code'[b] :
            \E v \in ToSet(code'[b][n].args) : Far(new, b, v)
    BY <1>8 DEF Strays, Far, IsConst
  <2>1. PICK n \in DOMAIN code'[b] : \E v \in ToSet(code'[b][n].args) : Far(new, b, v)
    BY <2>0
  <2>2. PICK v \in ToSet(code'[b][n].args) : Far(new, b, v)
    BY <2>1
  <2>3. b \in DOMAIN code
    BY Lengths
  <2>4. CASE n \in 1 .. Len(code[b])
    <3>1. n \in DOMAIN code[b] /\ v \in ToSet(code[b][n].args)
      BY <1>2, <2>3, <2>4
    <3>2. Far(nest, b, v)
      <4>1. \/ IsConst(v)
            \/ \E B \in DOMAIN code : \E k \in 1 .. Len(code[B]) :
                    v = Register(<<B, k>>) /\ (B = b => k < n)
        BY <2>3, <3>1, Zenon DEF Operands
      <4> QED
        BY <1>4, <1>5, <2>2, <2>3, <4>1
    <3> QED
      BY <2>3, <3>1, <3>2 DEF Strays
  <2>5. CASE n \notin 1 .. Len(code[b])
    <3>1. b = at /\ n \in Written
      BY <1>2, <1>3, <2>3, <2>5 DEF Grows
    <3>2. NewOperand(n, v)
      BY <3>1
    <3>3. Far(nest, at, v)
      BY <1>1, <1>4, <1>5, <2>2, <3>1, <3>2 DEF NewOperand
    <3> QED
      BY <3>1, <3>3
  <2> QED
    BY <2>4, <2>5
<1> QED
    BY <1>6, <1>7, <1>8

(* An operand computed in the block of its use is not far from it.         *)
LEMMA LocalIsNear ==
    ASSUME NEW nest, Structure(nest), NEW n \in Nat, NEW v, LocalOperand(n, v)
    PROVE  NewOperand(n, v) /\ ~Far(nest, at, v)
<1>1. at \in DOMAIN code
    BY DEF Structure, Typed
<1>2. CASE IsConst(v)
    BY <1>2 DEF NewOperand, Far
<1>3. CASE ~IsConst(v)
  <2>1. PICK k \in 1 .. n - 1 : v = Register(<<at, k>>)
    BY <1>3 DEF LocalOperand
  <2>2. v.reg[1] = at
    BY <2>1, OperandKinds
  <2>3. k \in Nat \ {0} /\ k < n
    BY <2>1
  <2> QED
    BY <1>1, <2>1, <2>2, <2>3 DEF NewOperand, Far
<1> QED
    BY <1>2, <1>3

(* Where an identifier is mentioned its place is far just if an if         *)
(* statement around its first assignment has been closed: a block that was *)
(* begun and is not above the insert point was left for good.              *)
LEMMA MentionedFar ==
    ASSUME NEW nest, Structure(nest), Places(nest), status = "parsing",
           NEW id \in DOMAIN idMap
    PROVE  /\ \A n \in Nat : n > Len(code[at]) => NewOperand(n, idMap[id])
           /\ Far(nest, at, idMap[id]) <=> ~(home[id] \subseteq Ifs)
<1>1. PICK B \in DOMAIN code \ Ifs : \E k \in 1 .. Len(code[B]) :
            idMap[id] = Register(<<B, k>>) /\ home[id] = nest[B]
    BY DEF Places
<1>2. PICK k \in 1 .. Len(code[B]) : idMap[id] = Register(<<B, k>>) /\ home[id] = nest[B]
    BY <1>1
<1>3. /\ IsSeq(code) /\ IsSeq(code[B]) /\ IsSeq(code[at]) /\ at \in DOMAIN code
      /\ DOMAIN nest = DOMAIN code
    BY DEF Structure, Typed
<1>4. /\ Len(code[B]) \in Nat /\ Len(code[at]) \in Nat
      /\ DOMAIN code = 1 .. Len(code) /\ Len(code) \in Nat
    BY <1>3, SeqFacts
<1>5. ~IsConst(idMap[id]) /\ idMap[id].reg[1] = B
    BY <1>2, OperandKinds
<1>6. nest[at] = Ifs /\ at \notin Ifs
    BY DEF Structure, Joins, Ifs
<1>7. ASSUME NEW n \in Nat, n > Len(code[at])
      PROVE  NewOperand(n, idMap[id])
  <2>1. k \in Nat \ {0} /\ k <= Len(code[B]) /\ (B = at => k < n)
    BY <1>4, <1>7
  <2> QED
    BY <1>2, <2>1 DEF NewOperand
<1>8. B > at => at \in nest[B] \/ B \in nest[at]
  <2>1. at \in Unfinished
    BY DEF Unfinished
  <2> QED
    BY <2>1 DEF Structure, Waiting
<1> DEFINE v == idMap[id]
<1>11. home[id] = nest[B]
    BY <1>2
<1>12. Far(nest, at, v) <=> B # at /\ ~Above(nest, B, at)
    BY <1>5 DEF Far
<1> HIDE DEF v
<1>9. CASE B = at
    BY <1>6, <1>7, <1>9, <1>11, <1>12 DEF v
<1>10. CASE B # at
  <2>1. Above(nest, B, at) <=> nest[B] \subseteq Ifs
    <3>1. nest[B] \subseteq Ifs => ~(B > at)
      BY <1>6, <1>8
    <3>2. ~(B > at) => B <= at
      BY <1>3, <1>4
    <3> QED
      BY <1>6, <3>1, <3>2 DEF Above
  <2> QED
    BY <1>7, <1>10, <1>11, <1>12, <2>1 DEF v
<1> QED
    BY <1>7, <1>9, <1>10

(* The places of the identifiers stay.                                     *)
LEMMA PlacesStay ==
    ASSUME NEW nest, NEW new, Structure(nest), Places(nest), Grows,
           \A b \in DOMAIN code : new[b] = nest[b],
           idMap' = idMap, home' = home, Ifs' \cap DOMAIN code \subseteq Ifs
    PROVE  Places(new)'
<1>1. ASSUME NEW id \in DOMAIN idMap
      PROVE  \E B \in DOMAIN code' \ Ifs' : \E k \in 1 .. Len(code'[B]) :
                idMap[id] = Register(<<B, k>>) /\ home[id] = new[B]
  <2>1. PICK B \in DOMAIN code \ Ifs : \E k \in 1 .. Len(code[B]) :
            idMap[id] = Register(<<B, k>>) /\ home[id] = nest[B]
    BY DEF Places
  <2>2. PICK k \in 1 .. Len(code[B]) : idMap[id] = Register(<<B, k>>) /\ home[id] = nest[B]
    BY <2>1
  <2>3. /\ Len(code[B]) \in Nat /\ Len(code'[B]) \in Nat
        /\ Len(code'[B]) >= Len(code[B])
    BY Lengths
  <2>4. k \in 1 .. Len(code'[B])
    BY <2>3
  <2>5. B \in DOMAIN code' \ Ifs'
    BY DEF Grows
  <2> QED
    BY <2>2, <2>4, <2>5
<1> QED
    BY <1>1 DEF Places, Register

(* A new identifier gets a place of its own.                               *)
LEMMA PlacesPut ==
    ASSUME NEW nest, Structure(nest), Places(nest), Grows, NEW id, id \notin DOMAIN idMap,
           idMap' = Put(idMap, id, Here), home' = Put(home, id, Ifs), Ifs' = Ifs,
           Len(code'[at]) > Len(code[at])
    PROVE  Places(nest)'
<1>1. /\ at \in DOMAIN code \ Ifs /\ nest[at] = Ifs /\ DOMAIN code \subseteq DOMAIN code'
    BY DEF Structure, Typed, Joins, Ifs, Grows
<1>2. \A b \in DOMAIN code : /\ Len(code[b]) \in Nat /\ Len(code'[b]) \in Nat
                             /\ Len(code'[b]) >= Len(code[b])
    BY Lengths
<1> DEFINE l == Len(code[at]) + 1
<1>3. /\ DOMAIN idMap' = DOMAIN idMap \cup {id}
      /\ idMap'[id] = Register(<<at, l>>)
      /\ \A x \in DOMAIN idMap : idMap'[x] = idMap[x]
    BY DEF Put, Here
<1>4. /\ DOMAIN home' = DOMAIN home \cup {id}
      /\ home'[id] = Ifs
      /\ \A x \in DOMAIN home : x # id => home'[x] = home[x]
    BY DEF Put
<1>5. l \in 1 .. Len(code'[at])
    BY <1>1, <1>2
<1>6. \A x \in DOMAIN idMap : \E B \in DOMAIN code \ Ifs : \E k \in 1 .. Len(code[B]) :
            idMap[x] = Register(<<B, k>>) /\ home[x] = nest[B]
    BY DEF Places
<1>7. \A B \in DOMAIN code : \A k \in 1 .. Len(code[B]) :
            k \in 1 .. Len(code'[B]) /\ (B = at => k # l)
    BY <1>2
<1> HIDE DEF l
<1>8. ASSUME NEW x \in DOMAIN idMap'
      PROVE  \E B \in DOMAIN code' \ Ifs' : \E k \in 1 .. Len(code'[B]) :
                idMap'[x] = Register(<<B, k>>) /\ home'[x] = nest[B]
  <2>1. CASE x = id
    <3>1. at \in DOMAIN code' \ Ifs'
      BY <1>1
    <3> QED
      BY <1>1, <1>3, <1>4, <1>5, <2>1, <3>1
  <2>2. CASE x # id
    <3>1. x \in DOMAIN idMap /\ x \in DOMAIN home /\ idMap'[x] = idMap[x] /\ home'[x] = home[x]
      BY <1>3, <1>4, <2>2 DEF Places
    <3>2. PICK B \in DOMAIN code \ Ifs : \E k \in 1 .. Len(code[B]) :
                idMap[x] = Register(<<B, k>>) /\ home[x] = nest[B]
      BY <1>6, <3>1
    <3>3. B \in DOMAIN code' \ Ifs'
      BY <1>1
    <3> QED
      BY <1>7, <3>1, <3>2, <3>3
  <2> QED
    BY <2>1, <2>2
<1>9. ASSUME NEW x \in DOMAIN idMap PROVE idMap'[x] # idMap'[id]
  <2>1. PICK B \in DOMAIN code \ Ifs : \E k \in 1 .. Len(code[B]) : idMap[x] = Register(<<B, k>>)
    BY <1>6
  <2>2. PICK k \in 1 .. Len(code[B]) : idMap[x] = Register(<<B, k>>)
    BY <2>1
  <2>3. <<B, k>> # <<at, l>>
    BY <1>7
  <2>4. Register(<<B, k>>) # Register(<<at, l>>)
    BY <2>3, OperandKinds
  <2> QED
    BY <1>3, <2>2, <2>4
<1>10. \A x, y \in DOMAIN idMap' : idMap'[x] = idMap'[y] => x = y
  <2>1. \A x, y \in DOMAIN idMap : idMap[x] = idMap[y] => x = y
    BY DEF Places
  <2> QED
    BY <1>3, <1>9, <2>1
<1>11. DOMAIN home' = DOMAIN idMap'
    BY <1>3, <1>4 DEF Places
<1> QED
    BY <1>8, <1>10, <1>11 DEF Places, Register
-----------------------------------------------------------------------------
(* A value on the parser's stack may be used at the insert point.          *)
LEMMA ValueIsLocal ==
    ASSUME NEW nest, Structure(nest), NEW v, LocalValue(v),
           NEW n \in Nat, n > Len(code[at])
    PROVE  LocalOperand(n, v)
<1>1. Len(code[at]) \in Nat
    BY SeqFacts DEF Structure, Typed
<1>2. \A k \in 1 .. Len(code[at]) : k \in 1 .. n - 1
    BY <1>1
<1> QED
    BY <1>2 DEF LocalValue, LocalOperand

(* The same of a value after the step.                                     *)
LocalNext(v) == IsConst(v) \/ \E k \in 1 .. Len(code'[at']) : v = Register(<<at', k>>)

(* Values after a reduction, element by element.                           *)
LEMMA ValuesNext ==
    ASSUME \A j \in DOMAIN values' : LocalNext(values'[j])
    PROVE  Values'
BY DEF Values, LocalValue, LocalNext, IsConst, Register

(* A value stays local while the insert point stays in its block.          *)
LEMMA ValueStays ==
    ASSUME NEW nest, Structure(nest), Grows, at' = at, NEW v, LocalValue(v)
    PROVE  LocalNext(v)
<1>1. at \in DOMAIN code
    BY DEF Structure, Typed
<1>2. /\ Len(code[at]) \in Nat /\ Len(code'[at]) \in Nat
      /\ Len(code'[at]) >= Len(code[at])
    BY <1>1, Lengths
<1>3. \A k \in 1 .. Len(code[at]) : k \in 1 .. Len(code'[at])
    BY <1>2
<1> QED
    BY <1>3 DEF LocalValue, LocalNext

(* The instruction just written is local.                                  *)
LEMMA HereStays ==
    ASSUME NEW nest, Structure(nest), at' = at, Len(code'[at]) \in Nat,
           Len(code'[at]) >= Len(code[at]) + 1
    PROVE  LocalNext(Here)
<1>1. Len(code[at]) \in Nat
    BY SeqFacts DEF Structure, Typed
<1>2. Len(code[at]) + 1 \in 1 .. Len(code'[at])
    BY <1>1
<1> QED
    BY <1>2 DEF LocalNext, Here

(* The operands in a list of none, one or two.                             *)
LEMMA Pair ==
    /\ ToSet(<<>>) = {}
    /\ \A x : ToSet(<<x>>) = {x}
    /\ \A x, y : ToSet(<<x, y>>) = {x, y}
BY DEF ToSet

(* A reduction whose instructions use what is at the insert point.         *)
LEMMA LocalKeepsUses ==
    ASSUME NEW nest, NEW new, Structure(nest), Uses(nest), Grows,
           \A b \in DOMAIN code : new[b] = nest[b],
           \A n \in Written : \A v \in ToSet(code'[at][n].args) : LocalOperand(n, v),
           Ifs' \cap DOMAIN code \subseteq Ifs, Values',
           idMap' = idMap, home' = home, escaped' = escaped
    PROVE  Uses(new)'
<1>1. Len(code[at]) \in Nat /\ Len(code'[at]) \in Nat
    BY SeqFacts DEF Structure, Typed, Grows
<1>2. Written \subseteq Nat
    BY <1>1 DEF Written
<1>3. \A n \in Written : \A v \in ToSet(code'[at][n].args) :
            NewOperand(n, v) /\ ~Far(nest, at, v)
    BY <1>2, LocalIsNear
<1>4. Operands'
    BY <1>3, OperandsGrow DEF Uses
<1>5. Strays(new)' <=> Strays(nest)
    BY <1>3, StraysGrow DEF Uses
<1>6. Places(new)'
    BY PlacesStay DEF Uses
<1>7. escaped <=> Strays(nest)
    BY DEF Uses
<1>8. escaped' <=> Strays(new)'
    BY <1>5, <1>7, Zenon
<1> QED
    BY <1>4, <1>6, <1>8, Zenon DEF Uses

(* An operator uses values from the parser's stack.                        *)
LEMMA OperateKeepsUses ==
    ASSUME NEW nest, Structure(nest), Uses(nest),
           NEW op, NEW a, NEW b, NEW below, IsSeq(below), Operate(op, a, b, below),
           LocalValue(a), LocalValue(b), \A i \in DOMAIN below : LocalValue(below[i]),
           at' = at, open' = open, idMap' = idMap, home' = home, escaped' = escaped
    PROVE  Uses(nest)'
<1> DEFINE i == Instruction(op, <<a, b>>, <<>>)
           L == Len(code[at])
<1>1. L \in Nat /\ DOMAIN below = 1 .. Len(below) /\ Len(below) \in Nat
    BY SeqFacts DEF Structure, Typed
<1>2. Ifs' = Ifs
    BY DEF Ifs
<1>3. CASE /\ code' = code
           /\ IsAppended(values', below, Const(Compute(op, a.imm, b.imm)))
  <2>1. Writes /\ \A n \in L + 1 .. Len(code'[at]) : FALSE
    BY <1>3, NothingWritten
  <2>2. Grows
    BY <2>1, WritesGrows
  <2>3. Values'
    <3> SUFFICES ASSUME NEW j \in DOMAIN values' PROVE LocalNext(values'[j])
      BY ValuesNext
    <3>1. DOMAIN values' = 1 .. Len(below) + 1
      BY <1>1, <1>3, SeqFacts DEF IsAppended
    <3>2. CASE j \in 1 .. Len(below)
      BY <1>1, <1>3, <2>2, <3>2, ValueStays DEF IsAppended
    <3>3. CASE j = Len(below) + 1
      BY <1>3, <3>3, OperandKinds DEF IsAppended, LocalNext
    <3> QED
      BY <1>1, <3>1, <3>2, <3>3
  <2> QED
    BY <1>2, <2>1, <2>2, <2>3, LocalKeepsUses DEF Written
<1>4. CASE /\ Writes /\ IsAppended(code'[at], code[at], i)
           /\ IsAppended(values', below, Here)
  <2>1. Grows
    BY <1>4, WritesGrows
  <2>2. \A n \in Written : n = L + 1 /\ code'[at][n] = i
    BY <1>4, OneWritten DEF Written, Structure, Typed
  <2>3. LocalOperand(L + 1, a) /\ LocalOperand(L + 1, b)
    BY <1>1, ValueIsLocal
  <2>4. ToSet(i.args) = {a, b}
    BY Pair DEF Instruction
  <2>5. L + 1 \in 1 .. Len(code'[at])
    BY <1>1, <1>4, OneWritten DEF Structure, Typed
  <2>6. Values'
    <3> SUFFICES ASSUME NEW j \in DOMAIN values' PROVE LocalNext(values'[j])
      BY ValuesNext
    <3>1. DOMAIN values' = 1 .. Len(below) + 1
      BY <1>1, <1>4, SeqFacts DEF IsAppended
    <3>2. CASE j \in 1 .. Len(below)
      BY <1>1, <1>4, <2>1, <3>2, ValueStays DEF IsAppended
    <3>3. CASE j = Len(below) + 1
      <4>1. values'[j] = Here
        BY <1>4, <3>3 DEF IsAppended
      <4>2. Len(code'[at]) \in Nat /\ Len(code'[at]) >= L + 1
        BY <1>1, <1>4, OneWritten DEF Structure, Typed
      <4> QED
        BY <4>1, <4>2, HereStays
    <3> QED
      BY <1>1, <3>1, <3>2, <3>3
  <2> HIDE DEF i
  <2> QED
    BY <1>2, <2>1, <2>2, <2>3, <2>4, <2>6, LocalKeepsUses
<1> QED
  <2>1. \/ /\ code' = code
           /\ IsAppended(values', below, Const(Compute(op, a.imm, b.imm)))
        \/ /\ Writes /\ IsAppended(code'[at], code[at], i)
           /\ IsAppended(values', below, Here)
    BY OperateFacts
  <2> HIDE DEF i
  <2> QED
    BY <1>3, <1>4, <2>1

(* With nothing on the parser's stack nothing is asked of it.              *)
LEMMA NoValues ==
    ASSUME values' = <<>>
    PROVE  Values'
<1>1. DOMAIN values' = {}
    OBVIOUS
<1> QED
    BY <1>1 DEF Values

(* What Mention does.                                                      *)
LEMMA MentionOf ==
    ASSUME NEW nest, Structure(nest), Uses(nest), status = "parsing",
           NEW id \in DOMAIN idMap, Mention(id)
    PROVE  /\ home' = home
           /\ \A n \in Nat : n > Len(code[at]) => NewOperand(n, idMap[id])
           /\ escaped' <=> (escaped \/ Far(nest, at, idMap[id]))
<1>1. Places(nest) /\ DOMAIN home = DOMAIN idMap
    BY DEF Uses, Places
<1>2. home' = home /\ (escaped' <=> (escaped \/ ~(home[id] \subseteq Ifs)))
  <2>1. home' = home /\ escaped' = (escaped \/ ~(home[id] \subseteq Ifs))
    BY <1>1, Zenon DEF Mention
  <2> QED
    BY <2>1, Zenon
<1>3. /\ \A n \in Nat : n > Len(code[at]) => NewOperand(n, idMap[id])
      /\ Far(nest, at, idMap[id]) <=> ~(home[id] \subseteq Ifs)
    BY <1>1, MentionedFar
<1> QED
    BY <1>2, <1>3, Zenon

(* A reduction that mentions an identifier that has a place.               *)
LEMMA MentionKeepsUses ==
    ASSUME NEW nest, Structure(nest), Uses(nest), status = "parsing", Writes,
           NEW i, IsAppended(code'[at], code[at], i),
           NEW id \in DOMAIN idMap, Mention(id),
           idMap[id] \in ToSet(i.args),
           \A v \in ToSet(i.args) : v = idMap[id] \/ LocalValue(v),
           at' = at, open' = open, idMap' = idMap, Values'
    PROVE  Uses(nest)'
<1> DEFINE L == Len(code[at])
<1>1. Grows
    BY WritesGrows
<1>2. L \in Nat /\ Len(code'[at]) = L + 1 /\ \A n \in Written : n = L + 1 /\ code'[at][n] = i
    BY OneWritten DEF Written, Structure, Typed
<1>3. L + 1 \in Written /\ code'[at][L + 1] = i
    BY <1>2 DEF Written, IsAppended
<1>4. /\ home' = home /\ NewOperand(L + 1, idMap[id])
      /\ escaped' <=> (escaped \/ Far(nest, at, idMap[id]))
  <2>1. L + 1 \in Nat /\ L + 1 > L
    BY <1>2
  <2> QED
    BY <2>1, MentionOf
<1>5. \A v \in ToSet(i.args) : v # idMap[id] => NewOperand(L + 1, v) /\ ~Far(nest, at, v)
    BY <1>2, ValueIsLocal, LocalIsNear
<1>6. \A n \in Written : \A v \in ToSet(code'[at][n].args) : NewOperand(n, v)
    BY <1>2, <1>4, <1>5
<1>7. Operands'
    BY <1>1, <1>6, OperandsGrow DEF Uses
<1>8. Strays(nest)' <=> \/ Strays(nest)
                        \/ \E n \in Written : \E v \in ToSet(code'[at][n].args) :
                                Far(nest, at, v)
    BY <1>1, <1>6, StraysGrow DEF Uses
<1>9. (\E n \in Written : \E v \in ToSet(code'[at][n].args) : Far(nest, at, v))
        <=> Far(nest, at, idMap[id])
    BY <1>2, <1>3, <1>5
<1>10. escaped <=> Strays(nest)
    BY DEF Uses
<1>11. escaped' <=> Strays(nest)'
    BY <1>4, <1>8, <1>9, <1>10, Zenon
<1>12. Places(nest)'
  <2>1. Ifs' = Ifs
    BY DEF Ifs
  <2> QED
    BY <1>1, <1>4, <2>1, PlacesStay DEF Uses
<1> QED
    BY <1>7, <1>11, <1>12, Zenon DEF Uses

(* Expressions and assignments keep the operands.                          *)
LEMMA OrdinaryKeepsUses ==
    ASSUME NEW nest, Structure(nest), Uses(nest), Ordinary, status' = "parsing"
    PROVE  Uses(nest)'
<1>1. IsSeq(code) /\ at \in DOMAIN code /\ IsSeq(code[at]) /\ IsSeq(open) /\ IsSeq(values)
    BY DEF Structure, Typed
<1>2. status = "parsing" /\ at' = at /\ open' = open /\ Ifs' = Ifs
    BY DEF Ordinary, Identifier, Assign, Immediate, Binary, Negate, Not, Reduce, Ifs
<1>3. \A x : IsAppended(Append(values, x), values, x)
    BY <1>1, Appended, Zenon
<1>4. /\ Len(code[at]) \in Nat /\ Len(values) \in Nat /\ DOMAIN values = 1 .. Len(values)
    BY <1>1, SeqFacts
<1>5. \A i \in 1 .. Len(values) : LocalValue(values[i])
    BY <1>4 DEF Uses, Values
<1>6. ASSUME NEW x, LocalNext(x), IsAppended(values', values, x), Grows
      PROVE  Values'
  <2> SUFFICES ASSUME NEW j \in DOMAIN values' PROVE LocalNext(values'[j])
    BY ValuesNext
  <2>1. DOMAIN values' = 1 .. Len(values) + 1
    BY <1>4, <1>6, SeqFacts DEF IsAppended
  <2>2. CASE j \in 1 .. Len(values)
    BY <1>2, <1>5, <1>6, <2>2, ValueStays DEF IsAppended
  <2>3. CASE j = Len(values) + 1
    BY <1>6, <2>3 DEF IsAppended
  <2> QED
    BY <1>4, <2>1, <2>2, <2>3
<1>7. ASSUME NEW id \in Id, Identifier(id)
      PROVE  Uses(nest)'
  <2> DEFINE i == Instruction("load", <<idMap[id]>>, <<>>)
  <2>1. /\ id \in DOMAIN idMap /\ values' = Append(values, Here) /\ Emit(<<i>>)
        /\ Mention(id) /\ idMap' = idMap
    BY <1>2, <1>7 DEF Identifier
  <2>2. ToSet(i.args) = {idMap[id]}
    BY Pair DEF Instruction
  <2> HIDE DEF i
  <2>3. Writes /\ IsAppended(code'[at], code[at], i)
    BY <1>1, <2>1, EmitOne, Zenon
  <2>4. LocalNext(Here)
    <3>1. Len(code'[at]) \in Nat /\ Len(code'[at]) >= Len(code[at]) + 1
      BY <1>1, <1>4, <2>3, OneWritten
    <3> QED
      BY <1>2, <3>1, HereStays
  <2>5. Grows
    BY <2>3, WritesGrows
  <2>6. Values'
    <3> DEFINE x == Here
    <3>1. IsAppended(values', values, x)
      BY <1>3, <2>1
    <3> HIDE DEF x
    <3> QED
      BY <1>6, <2>4, <2>5, <3>1 DEF x
  <2> QED
    BY <1>2, <2>1, <2>2, <2>3, <2>6, MentionKeepsUses
<1>8. ASSUME NEW id \in Id, Assign(id)
      PROVE  Uses(nest)'
  <2>1. /\ Len(values) = 1 /\ values' = <<>> /\ Values' /\ LocalValue(values[1])
        /\ Mention(id)
    <3>1. Len(values) = 1 /\ values' = <<>> /\ Mention(id)
      BY <1>8 DEF Assign
    <3> QED
      BY <1>5, <3>1, NoValues
  <2>2. CASE id \in DOMAIN idMap
    <3> DEFINE i == Instruction("store", <<values[1], idMap[id]>>, <<>>)
    <3>1. Emit(<<i>>) /\ idMap' = idMap
      BY <1>8, <2>2 DEF Assign
    <3>2. ToSet(i.args) = {values[1], idMap[id]}
      BY Pair DEF Instruction
    <3> HIDE DEF i
    <3>3. Writes /\ IsAppended(code'[at], code[at], i)
      BY <1>1, <3>1, EmitOne, Zenon
    <3> QED
      BY <1>2, <2>1, <2>2, <3>1, <3>2, <3>3, MentionKeepsUses
  <2>3. CASE id \notin DOMAIN idMap
    <3> DEFINE i == Instruction("alloca", <<>>, <<>>)
               j == Instruction("store", <<values[1], Here>>, <<>>)
               L == Len(code[at])
    <3>1. Emit(<<i, j>>) /\ idMap' = Put(idMap, id, Here)
      BY <1>8, <2>3 DEF Assign
    <3>2. ToSet(i.args) = {} /\ ToSet(j.args) = {values[1], Here}
      BY Pair DEF Instruction
    <3> HIDE DEF i, j
    <3>3. /\ Writes
          /\ Len(code'[at]) = L + 2
          /\ code'[at][L + 1] = i
          /\ code'[at][L + 2] = j
      BY <1>1, <3>1, EmitTwo, Zenon
    <3>4. Grows
      BY <3>3, WritesGrows
    <3>5. \A n \in Written : n \in Nat /\ (n = L + 1 \/ n = L + 2)
      BY <1>4, <3>3 DEF Written
    <3>6. LocalOperand(L + 2, values[1])
      BY <1>4, <2>1, ValueIsLocal
    <3>7. LocalOperand(L + 2, Here)
      <4>1. L + 1 \in 1 .. L + 2 - 1
        BY <1>4
      <4> QED
        BY <4>1 DEF LocalOperand, Here
    <3>8. \A n \in Written : \A v \in ToSet(code'[at][n].args) :
            NewOperand(n, v) /\ ~Far(nest, at, v)
      BY <1>4, <3>2, <3>3, <3>5, <3>6, <3>7, LocalIsNear
    <3>9. Operands'
      BY <3>4, <3>8, OperandsGrow DEF Uses
    <3>10. Strays(nest)' <=> Strays(nest)
      BY <3>4, <3>8, StraysGrow DEF Uses
    <3>11. Places(nest) /\ DOMAIN home = DOMAIN idMap /\ (escaped <=> Strays(nest))
      BY DEF Uses, Places
    <3>12. home' = Put(home, id, Ifs) /\ escaped' = escaped
      BY <2>1, <2>3, <3>11, Zenon DEF Mention
    <3>13. Places(nest)'
      <4>1. Len(code'[at]) > Len(code[at])
        BY <1>4, <3>3
      <4> QED
        BY <1>2, <2>3, <3>1, <3>4, <3>11, <3>12, <4>1, PlacesPut
    <3>14. escaped' <=> Strays(nest)'
      BY <3>10, <3>11, <3>12, Zenon
    <3> QED
      BY <2>1, <3>9, <3>13, <3>14, Zenon DEF Uses
  <2> QED
    BY <2>2, <2>3
<1>9. ASSUME NEW n \in Imm, Immediate(n)
      PROVE  Uses(nest)'
  <2> DEFINE x == Const(n)
  <2>1. /\ code' = code /\ values' = Append(values, x)
        /\ idMap' = idMap /\ home' = home /\ escaped' = escaped
    BY <1>9 DEF Immediate
  <2>2. Writes /\ \A m \in Written : FALSE
    BY <2>1, NothingWritten DEF Written
  <2>3. Grows
    BY <2>2, WritesGrows
  <2>4. LocalNext(x)
    BY OperandKinds DEF LocalNext
  <2> HIDE DEF x
  <2>5. Values'
    BY <1>3, <1>6, <2>1, <2>3, <2>4
  <2> QED
    BY <1>2, <2>1, <2>2, <2>3, <2>5, LocalKeepsUses
<1>10. ASSUME NEW op \in Op, Binary(op)
      PROVE  Uses(nest)'
  <2> DEFINE below == Front(Front(values))
  <2>1. /\ Operate(op, Last(Front(values)), Last(values), below) /\ Len(values) >= 2
        /\ idMap' = idMap /\ home' = home /\ escaped' = escaped
    BY <1>10 DEF Binary
  <2>2. /\ IsSeq(below) /\ Len(below) = Len(values) - 2
        /\ \A n \in 1 .. Len(values) - 2 : below[n] = values[n]
        /\ Last(Front(values)) = values[Len(values) - 1]
        /\ Last(values) = values[Len(values)]
    BY <1>1, <2>1, FrontLastTwo
  <2> HIDE DEF below
  <2>3. DOMAIN below = 1 .. Len(values) - 2
    BY <2>2, SeqFacts
  <2>4. /\ Len(values) \in 1 .. Len(values) /\ Len(values) - 1 \in 1 .. Len(values)
        /\ \A n \in 1 .. Len(values) - 2 : n \in 1 .. Len(values)
    BY <1>4, <2>1
  <2>5. LocalValue(Last(Front(values))) /\ LocalValue(Last(values))
    BY <1>5, <2>2, <2>4
  <2>6. \A i \in DOMAIN below : LocalValue(below[i])
    BY <1>5, <2>2, <2>3, <2>4
  <2> QED
    BY <1>2, <2>1, <2>2, <2>5, <2>6, OperateKeepsUses
<1>11. values # <<>> => /\ IsSeq(Front(values)) /\ LocalValue(Last(values))
                        /\ \A i \in DOMAIN Front(values) : LocalValue(Front(values)[i])
  <2> SUFFICES ASSUME values # <<>>
               PROVE  /\ IsSeq(Front(values)) /\ LocalValue(Last(values))
                      /\ \A i \in DOMAIN Front(values) : LocalValue(Front(values)[i])
    OBVIOUS
  <2>1. /\ Len(values) >= 1
        /\ IsSeq(Front(values)) /\ Len(Front(values)) = Len(values) - 1
        /\ \A n \in 1 .. Len(values) - 1 : Front(values)[n] = values[n]
        /\ Last(values) = values[Len(values)]
    BY <1>1, FrontLast
  <2>2. DOMAIN Front(values) = 1 .. Len(values) - 1
    BY <2>1, SeqFacts
  <2>3. Len(values) \in 1 .. Len(values) /\ 1 .. Len(values) - 1 \subseteq 1 .. Len(values)
    BY <1>4, <2>1
  <2>4. LocalValue(Last(values))
    BY <1>5, <2>1, <2>3
  <2>5. ASSUME NEW i \in DOMAIN Front(values)
        PROVE  LocalValue(Front(values)[i])
    BY <1>5, <2>1, <2>2, <2>3
  <2> QED
    BY <2>1, <2>4, <2>5
<1>12. \A n : LocalValue(Const(n))
    BY OperandKinds DEF LocalValue
<1>13. CASE Negate
  <2>1. /\ Operate("sub", Const(0), Last(values), Front(values)) /\ values # <<>>
        /\ idMap' = idMap /\ home' = home /\ escaped' = escaped
    BY <1>13 DEF Negate
  <2> QED
    BY <1>2, <1>11, <1>12, <2>1, OperateKeepsUses
<1>14. CASE Not
  <2>1. /\ Operate("eq", Last(values), Const(0), Front(values)) /\ values # <<>>
        /\ idMap' = idMap /\ home' = home /\ escaped' = escaped
    BY <1>14 DEF Not
  <2> QED
    BY <1>2, <1>11, <1>12, <2>1, OperateKeepsUses
<1> QED
    BY <1>7, <1>8, <1>9, <1>10, <1>13, <1>14 DEF Ordinary
-----------------------------------------------------------------------------
(* The other statements keep the operands.                                 *)
LEMMA StatementsKeepUses ==
    ASSUME NEW nest, Structure(nest), Uses(nest), status = "parsing"
    PROVE  /\ While => Uses(nest)'
           /\ EndBody => Uses(nest)'
           /\ Return => Uses(nest)'
           /\ \A new : If /\ new = NestIf(nest) => Uses(new)'
<1>1. IsSeq(code) /\ at \in DOMAIN code /\ IsSeq(code[at]) /\ IsSeq(open) /\ IsSeq(values)
    BY DEF Structure, Typed
<1>2. /\ Len(code[at]) \in Nat /\ Len(code) \in Nat /\ DOMAIN code = 1 .. Len(code)
      /\ DOMAIN values = 1 .. Len(values)
    BY <1>1, SeqFacts
<1>3. \A i \in DOMAIN values : LocalValue(values[i])
    BY DEF Uses, Values
<1>4. code' = code => Grows /\ \A n \in Written : FALSE
    BY NothingWritten, WritesGrows DEF Written
<1>5. ASSUME NEW i, IsAppended(code'[at], code[at], i),
             \A v \in ToSet(i.args) : LocalValue(v)
      PROVE  \A n \in Written : \A v \in ToSet(code'[at][n].args) : LocalOperand(n, v)
  <2>1. \A n \in Written : n \in Nat /\ n > Len(code[at]) /\ code'[at][n] = i
    BY <1>1, <1>2, <1>5, OneWritten DEF Written
  <2> QED
    BY <1>5, <2>1, ValueIsLocal
<1>6. ASSUME While PROVE Uses(nest)'
  <2>1. /\ code' = code /\ values' = <<>>
        /\ idMap' = idMap /\ home' = home /\ escaped' = escaped
    BY <1>6 DEF While
  <2>2. Ifs' = Ifs
    BY <1>6, WhileKeepsStructure
  <2> QED
    BY <1>4, <2>1, <2>2, NoValues, LocalKeepsUses
<1>7. ASSUME EndBody PROVE Uses(nest)'
  <2>1. /\ values = <<>> /\ values' = <<>>
        /\ idMap' = idMap /\ home' = home /\ escaped' = escaped
    BY <1>7 DEF EndBody, source
  <2>2. CASE Last(open).bb = NoBlock
    <3>1. code' = code
      BY <1>7, <2>2 DEF EndBody
    <3>2. Ifs' = Ifs
      BY <1>7, <2>2, EndWhileKeepsStructure
    <3> QED
      BY <1>4, <2>1, <3>1, <3>2, NoValues, LocalKeepsUses
  <2>3. CASE Last(open).bb # NoBlock
    <3> DEFINE i == Instruction("br", <<>>, <<Last(open).bb>>)
    <3>1. Writes /\ IsAppended(code'[at], code[at], i) /\ Ifs' \subseteq Ifs
      BY <1>7, <2>3, EndIfKeepsStructure
    <3>2. ToSet(i.args) = {}
      BY Pair DEF Instruction
    <3> HIDE DEF i
    <3>3. Grows
      BY <3>1, WritesGrows
    <3>4. \A n \in Written : \A v \in ToSet(code'[at][n].args) : LocalOperand(n, v)
      BY <1>5, <3>1, <3>2
    <3> QED
      BY <2>1, <3>1, <3>3, <3>4, NoValues, LocalKeepsUses
  <2> QED
    BY <2>2, <2>3
<1>8. ASSUME Return PROVE Uses(nest)'
  <2> DEFINE i == Instruction("ret", values, <<>>)
  <2>1. /\ values' = values /\ at' = at /\ open' = open
        /\ idMap' = idMap /\ home' = home /\ escaped' = escaped
    BY <1>8 DEF Return
  <2>2. Writes /\ IsAppended(code'[at], code[at], i)
    BY <1>8, ReturnKeepsStructure
  <2>3. \A v \in ToSet(i.args) : LocalValue(v)
    BY <1>3 DEF Instruction, ToSet
  <2> HIDE DEF i
  <2>4. Grows /\ Ifs' = Ifs
    BY <2>1, <2>2, WritesGrows DEF Ifs
  <2>5. \A n \in Written : \A v \in ToSet(code'[at][n].args) : LocalOperand(n, v)
    BY <1>5, <2>2, <2>3
  <2>6. Values'
    BY <1>3, <2>1, <2>4, ValueStays, ValuesNext
  <2> QED
    BY <2>1, <2>4, <2>5, <2>6, LocalKeepsUses
<1>9. ASSUME If, NEW new, new = NestIf(nest) PROVE Uses(new)'
  <2> DEFINE L == Len(code)
             i == Instruction("condbr", values, <<L + 1, L + 2>>)
             x == [bb |-> L + 2, taken |-> meant[1] # 0]
  <2>1. /\ values' = <<>>
        /\ idMap' = idMap /\ home' = home /\ escaped' = escaped
    BY <1>9 DEF If
  <2>2. /\ IsSeq(code') /\ Len(code') = L + 2
        /\ code'[L + 1] = <<>> /\ code'[L + 2] = <<>>
        /\ IsAppended(code'[at], code[at], i)
        /\ \A b \in DOMAIN code \ {at} : code'[b] = code[b]
        /\ IsAppended(open', open, x)
    BY <1>9, IfCode
  <2>3. \A v \in ToSet(i.args) : LocalValue(v)
    BY <1>3 DEF Instruction, ToSet
  <2>4. x.bb = L + 2
    OBVIOUS
  <2> HIDE DEF i, x
  <2>5. \A n \in Written : \A v \in ToSet(code'[at][n].args) : LocalOperand(n, v)
    BY <1>5, <2>2, <2>3
  <2>6. DOMAIN code' = 1 .. L + 2
    BY <1>2, <2>2, SeqFacts
  <2>7. /\ IsSeq(code'[at]) /\ Len(code'[at]) >= Len(code[at])
        /\ \A n \in 1 .. Len(code[at]) : code'[at][n] = code[at][n]
    BY <1>2, <2>2 DEF IsAppended
  <2>8. Grows
    <3>1. \A b \in DOMAIN code' : b \in DOMAIN code \/ b = L + 1 \/ b = L + 2
      BY <1>2, <2>6
    <3>2. \A b \in DOMAIN code : IsSeq(code[b])
      BY DEF Structure, Typed
    <3>3. \A b \in DOMAIN code' : IsSeq(code'[b])
      BY <2>2, <2>7, <3>1, <3>2, EmptyIsSeq
    <3>4. DOMAIN code \subseteq DOMAIN code'
      BY <1>2, <2>6
    <3> QED
      BY <2>2, <2>7, <3>1, <3>3, <3>4 DEF Grows
  <2>9. \A b \in DOMAIN code : new[b] = nest[b]
    <3>1. DOMAIN nest = 1 .. L
      BY <1>2 DEF Structure, Typed
    <3>2. 1 .. L \subseteq 1 .. L + 2
      BY <1>2
    <3> QED
      BY <1>2, <1>9, <3>1, <3>2 DEF NestIf
  <2>10. Ifs' \cap DOMAIN code \subseteq Ifs
    <3>1. /\ Len(open) \in Nat /\ DOMAIN open = 1 .. Len(open)
          /\ DOMAIN open' = 1 .. Len(open) + 1
      BY <1>1, <2>2, SeqFacts DEF IsAppended
    <3>2. Ifs' \subseteq Ifs \cup {L + 2}
      BY <2>2, <2>4, <3>1 DEF Ifs, IsAppended
    <3> QED
      BY <1>2, <3>2
  <2> QED
    BY <2>1, <2>5, <2>8, <2>9, <2>10, NoValues, LocalKeepsUses
<1> QED
    BY <1>6, <1>7, <1>8, <1>9
-----------------------------------------------------------------------------
(***************************************************************************)
(* The inductive invariant.                                                *)
(***************************************************************************)
Shape == \E nest : Structure(nest) /\ Uses(nest)

ShapeInv == status \in {"parsing", "accepted"} => Shape

(* The invariant holds at the start of a parse.                            *)
LEMMA InitShape == ExprInit => ShapeInv
<1> SUFFICES ASSUME ExprInit PROVE Shape
    BY DEF ShapeInv
<1> DEFINE nest == [b \in {1} |-> {}]
<1>1. /\ code = << <<>> >> /\ at = 1 /\ idMap = <<>> /\ values = <<>> /\ open = <<>>
      /\ status = "parsing" /\ home = <<>> /\ escaped = FALSE
    BY EntryAssumption DEF ExprInit
<1>2. /\ IsSeq(code) /\ DOMAIN code = {1} /\ code[1] = <<>>
  <2>1. code \in Seq({<<>>}) /\ Len(code) = 1 /\ code[1] = <<>>
    BY <1>1
  <2> QED
    BY <2>1, SeqOver
<1>3. DOMAIN code[1] = {} /\ DOMAIN open = {} /\ DOMAIN values = {} /\ DOMAIN idMap = {}
      /\ DOMAIN home = {}
    BY <1>1, <1>2
<1>4. Ifs = {} /\ Unfinished = {1}
    BY <1>1, <1>3 DEF Ifs, Unfinished
<1>5. DOMAIN nest = {1} /\ nest[1] = {}
    OBVIOUS
<1> HIDE DEF nest
<1>6. Typed(nest)
    BY <1>1, <1>2, <1>5, EmptyIsSeq DEF Typed, Nested
<1>7. Joins(nest)
    BY <1>1, <1>3, <1>4, <1>5 DEF Joins
<1>8. Terminated /\ Finished(nest) /\ Made(nest)
    BY <1>2, <1>3, <1>4 DEF Terminated, Finished, Made
<1>9. Waiting(nest)
    BY <1>2, <1>4 DEF Waiting
<1>10. Structure(nest)
    BY <1>6, <1>7, <1>8, <1>9 DEF Structure
<1>11. Operands /\ Values /\ Places(nest) /\ ~Strays(nest)
    BY <1>2, <1>3 DEF Operands, Values, Places, Strays
<1>12. Uses(nest)
    BY <1>1, <1>11, Zenon DEF Uses
<1> QED
    BY <1>10, <1>12 DEF Shape

(* Any nesting will do.                                                    *)
LEMMA ShapeIs ==
    ASSUME NEW nest, Structure(nest)', Uses(nest)'
    PROVE  Shape'
BY DEF Shape

(* Every reduction keeps the invariant.                                    *)
LEMMA StepKeepsShape == ShapeInv /\ [ExprNext]_exprVars => ShapeInv'
<1> SUFFICES ASSUME ShapeInv, [ExprNext]_exprVars, status' \in {"parsing", "accepted"}
             PROVE  Shape'
    BY DEF ShapeInv
<1>1. CASE Stopped \/ UNCHANGED exprVars
  <2>1. UNCHANGED <<code, at, idMap, values, open, status, home, escaped>>
    BY <1>1 DEF Stopped, exprVars, parser, source
  <2>2. PICK nest : Structure(nest) /\ Uses(nest)
    BY <2>1 DEF ShapeInv, Shape
  <2>3. Structure(nest)'
    BY <2>1, <2>2 DEF Structure, Typed, Joins, IfsBelow, Ifs, Terminated, IsTerminator,
        Unfinished, Finished, Made, Waiting
  <2>4. Operands' /\ Values' /\ Places(nest)'
    BY <2>1, <2>2 DEF Uses, Operands, Values, LocalValue, Places, Ifs, IsConst, Register
  <2>5. Strays(nest)' <=> Strays(nest)
    BY <2>1 DEF Strays, Far, IsConst
  <2>6. escaped <=> Strays(nest)
    BY <2>2 DEF Uses
  <2>7. Uses(nest)'
    BY <2>1, <2>4, <2>5, <2>6, Zenon DEF Uses
  <2> QED
    BY <2>3, <2>7, ShapeIs
<1>2. CASE SyntaxError
    BY <1>2 DEF SyntaxError
<1>3. CASE Ordinary \/ If \/ While \/ EndBody \/ Return
  <2>1. status = "parsing"
    BY <1>3 DEF Ordinary, Identifier, Assign, Immediate, Binary, Negate, Not, If, While,
        EndBody, Return, Reduce
  <2>2. PICK nest : Structure(nest) /\ Uses(nest)
    BY <2>1 DEF ShapeInv, Shape
  <2>3. CASE Ordinary
    <3>1. status' = "parsing"
      BY <2>1, <2>3 DEF Ordinary, Identifier, Assign, Immediate, Binary, Negate, Not
    <3> QED
      BY <2>2, <2>3, <3>1, OrdinaryKeepsStructure, OrdinaryKeepsUses, ShapeIs
  <2>4. CASE If
    <3> DEFINE new == NestIf(nest)
    <3>1. \A x : x = new => Structure(x)' /\ Uses(x)'
      BY <2>1, <2>2, <2>4, IfKeepsStructure, StatementsKeepUses
    <3>2. PICK x : x = new
      OBVIOUS
    <3> QED
      BY <3>1, <3>2, ShapeIs
  <2>5. CASE While
    BY <2>1, <2>2, <2>5, WhileKeepsStructure, StatementsKeepUses, ShapeIs
  <2>6. CASE EndBody
    BY <2>1, <2>2, <2>6, EndWhileKeepsStructure, EndIfKeepsStructure, StatementsKeepUses, ShapeIs
  <2>7. CASE Return
    BY <2>1, <2>2, <2>7, ReturnKeepsStructure, StatementsKeepUses, ShapeIs
  <2> QED
    BY <1>3, <2>3, <2>4, <2>5, <2>6, <2>7
<1> QED
    BY <1>1, <1>2, <1>3 DEF ExprNext, Ordinary

(* The edges of a graph.                                                   *)
LEMMA EdgesAre ==
    ASSUME NEW graph, NEW a, NEW b
    PROVE  <<a, b>> \in Edges(graph) <=> a \in DOMAIN graph /\ \E n \in DOMAIN graph[a] : graph[a][n] = b
<1> DEFINE From(c) == {<<c, graph[c][n]>> : n \in DOMAIN graph[c]}
           all == {From(c) : c \in DOMAIN graph}
<1>1. \A c : <<a, b>> \in From(c) <=> c = a /\ \E n \in DOMAIN graph[a] : graph[a][n] = b
    OBVIOUS
<1>2. Edges(graph) = UNION all
    BY DEF Edges
<1> HIDE DEF From
<1>3. <<a, b>> \in UNION all <=> \E c \in DOMAIN graph : <<a, b>> \in From(c)
    OBVIOUS
<1> HIDE DEF all
<1> QED
    BY <1>1, <1>2, <1>3

(* Of the finished code the verifier finds fault just with operands that   *)
(* are far from their use.                                                 *)
LEMMA WellFormedIsNear ==
    ASSUME NEW nest, Structure(nest), Operands, status = "accepted"
    PROVE  WellFormed <=> ~Strays(nest)
<1>1. /\ IsSeq(code) /\ (\A b \in DOMAIN code : IsSeq(code[b]))
      /\ DOMAIN nest = DOMAIN code /\ Nested(nest)
    BY DEF Structure, Typed
<1>2. Unfinished = {}
    BY DEF Unfinished
<1>3. DOMAIN code = 1 .. Len(code) /\ Len(code) \in Nat
    BY <1>1, SeqFacts
<1>4. \A b \in DOMAIN code :
        /\ code[b] # <<>> /\ Targets(nest, b, code[b][Len(code[b])].to)
        /\ \A n \in DOMAIN code[b] : IsTerminator(code[b][n]) <=> n = Len(code[b])
    BY <1>2 DEF Structure, Finished, Terminated
<1> DEFINE graph == Successors
<1>5. DOMAIN graph = DOMAIN code /\ \A b \in DOMAIN code : graph[b] = code[b][Len(code[b])].to
    BY <1>1, <1>4, FrontLast DEF Successors
<1>6. NestedGraph(graph, nest)
  <2>1. ASSUME NEW a \in DOMAIN graph, NEW b \in DOMAIN graph, <<a, b>> \in Edges(graph)
        PROVE  Leaves(nest, a, b) \/ Enters(nest, a, b) \/ Passes(nest, a, b)
    <3>2. Targets(nest, a, graph[a])
      BY <1>4, <1>5
    <3>3. PICK n \in DOMAIN graph[a] : b = graph[a][n]
      BY <2>1, EdgesAre
    <3> HIDE DEF graph
    <3>4. CASE graph[a] = <<>>
      BY <3>3, <3>4
    <3>5. CASE \E j \in DOMAIN nest : graph[a] = <<j>> /\ Leaves(nest, a, j)
      BY <3>3, <3>5
    <3>6. CASE \E t \in DOMAIN nest : /\ t + 1 \in DOMAIN nest
                                      /\ graph[a] = <<t, t + 1>>
                                      /\ Enters(nest, a, t) /\ Passes(nest, a, t + 1)
      BY <3>3, <3>6
    <3> QED
      BY <3>2, <3>4, <3>5, <3>6 DEF Targets
  <2>2. ASSUME NEW b \in DOMAIN graph \ {1}
        PROVE  \E a \in DOMAIN graph :
                    <<a, b>> \in Edges(graph) /\ (Enters(nest, a, b) \/ Passes(nest, a, b))
    <3>1. PICK a \in DOMAIN code \ Unfinished :
            \E n \in DOMAIN code[a][Len(code[a])].to :
                /\ code[a][Len(code[a])].to[n] = b
                /\ Enters(nest, a, b) \/ Passes(nest, a, b)
      BY <1>5 DEF Structure, Made
    <3>2. a \in DOMAIN graph /\ \E n \in DOMAIN graph[a] : graph[a][n] = b
      BY <1>5, <3>1
    <3> HIDE DEF graph
    <3>3. <<a, b>> \in Edges(graph)
      BY <3>2, EdgesAre
    <3> QED
      BY <3>1, <3>2, <3>3
  <2> HIDE DEF graph
  <2> QED
    BY <1>1, <1>3, <1>5, <2>1, <2>2 DEF NestedGraph
<1> HIDE DEF graph
<1>7. ASSUME NEW b \in DOMAIN code, NEW n \in DOMAIN code[b],
             NEW v \in ToSet(code[b][n].args), ~IsConst(v)
      PROVE  (IF v.reg[1] = b THEN v.reg[2] < n ELSE Dominates(graph, v.reg[1], b))
                <=> ~Far(nest, b, v)
  <2>1. PICK B \in DOMAIN code : \E k \in 1 .. Len(code[B]) :
            v = Register(<<B, k>>) /\ (B = b => k < n)
    BY <1>7, Zenon DEF Operands
  <2>2. PICK k \in 1 .. Len(code[B]) : v = Register(<<B, k>>) /\ (B = b => k < n)
    BY <2>1
  <2>3. v.reg[1] = B /\ v.reg[2] = k
    BY <2>2, OperandKinds
  <2>4. Dominates(graph, B, b) <=> Above(nest, B, b)
    BY <1>5, <1>6, DominatesIsAbove
  <2> QED
    BY <1>7, <2>2, <2>3, <2>4 DEF Far
<1>8. WellFormed <=> \A b \in DOMAIN code : \A n \in DOMAIN code[b] :
            \A v \in {a \in ToSet(code[b][n].args) : ~IsConst(a)} :
                IF v.reg[1] = b THEN v.reg[2] < n ELSE Dominates(graph, v.reg[1], b)
    BY <1>4 DEF WellFormed, graph
<1>9. \A b \in DOMAIN code : \A n \in DOMAIN code[b] : \A v \in ToSet(code[b][n].args) :
            Far(nest, b, v) => ~IsConst(v)
    BY DEF Far
<1> QED
    BY <1>7, <1>8, <1>9 DEF Strays

(* At every moment of a parse the blocks are those of nested if            *)
(* statements, and escaped says whether an operand is far from its use.    *)
THEOREM ExprShape == ExprSpec => []ShapeInv
BY InitShape, StepKeepsShape, PTL DEF ExprSpec

(* The code that main writes is well formed just if every identifier is    *)
(* mentioned within the if statements of its first assignment.             *)
THEOREM ExprWellFormed == ExprSpec => []WellFormedUnlessEscaped
<1>1. ShapeInv => WellFormedUnlessEscaped
  <2> SUFFICES ASSUME ShapeInv, status = "accepted"
               PROVE  WellFormed <=> ~escaped
    BY DEF WellFormedUnlessEscaped
  <2>1. PICK nest : Structure(nest) /\ Uses(nest)
    BY DEF ShapeInv, Shape
  <2>2. WellFormed <=> ~Strays(nest)
    BY <2>1, WellFormedIsNear DEF Uses
  <2>3. escaped <=> Strays(nest)
    BY <2>1 DEF Uses
  <2> QED
    BY <2>2, <2>3, Zenon
<1> QED
    BY <1>1, ExprShape, PTL
-----------------------------------------------------------------------------
(***************************************************************************)
(* The machine.                                                            *)
(***************************************************************************)
IsMachine(m) == m = [place |-> m.place, registers |-> m.registers, stack |-> m.stack]

(* m2 is m but for the place, the registers and the stack given.           *)
Becomes(m2, p, r, s) == IsMachine(m2) /\ m2.place = p /\ m2.registers = r /\ m2.stack = s

(* What an instruction does to place, registers and stack.                 *)
LEMMA Executes ==
    ASSUME NEW m, IsMachine(m), NEW b, NEW n, m.place = <<b, n>>, NEW i
    PROVE  /\ i.op = "ret" => Execute(i, m) = m
           /\ i.op = "br" => Becomes(Execute(i, m), <<i.to[1], 1>>, m.registers, m.stack)
           /\ i.op = "condbr" =>
                Becomes(Execute(i, m),
                        <<IF Held(m, i.args[1]) # 0 THEN i.to[1] ELSE i.to[2], 1>>,
                        m.registers, m.stack)
           /\ i.op = "alloca" =>
                Becomes(Execute(i, m), <<b, n + 1>>, m.registers, Put(m.stack, <<b, n>>, Undef))
           /\ i.op = "load" =>
                Becomes(Execute(i, m), <<b, n + 1>>,
                        Put(m.registers, <<b, n>>, m.stack[i.args[1].reg]), m.stack)
           /\ i.op = "store" =>
                Becomes(Execute(i, m), <<b, n + 1>>, m.registers,
                        Put(m.stack, i.args[2].reg, Held(m, i.args[1])))
           /\ i.op \notin {"ret", "br", "condbr", "alloca", "load", "store"} =>
                Becomes(Execute(i, m), <<b, n + 1>>,
                        Put(m.registers, <<b, n>>,
                            Compute(i.op, Held(m, i.args[1]), Held(m, i.args[2]))),
                        m.stack)
<1> DEFINE a == Advance(m)
<1>1. Becomes(a, <<b, n + 1>>, m.registers, m.stack)
    BY DEF Advance, IsMachine, Becomes
<1>2. \A x : Becomes(Jump(m, x), <<x, 1>>, m.registers, m.stack)
    BY DEF Jump, IsMachine, Becomes
<1> HIDE DEF a
<1>3. \A p, x : Becomes([a EXCEPT !.registers = Put(@, p, x)], <<b, n + 1>>,
                        Put(m.registers, p, x), m.stack)
    BY <1>1 DEF IsMachine, Becomes
<1>4. \A p, x : Becomes([a EXCEPT !.stack = Put(@, p, x)], <<b, n + 1>>,
                        m.registers, Put(m.stack, p, x))
    BY <1>1 DEF IsMachine, Becomes
<1>5. ASSUME i.op = "ret" PROVE Execute(i, m) = m
    BY <1>5 DEF Execute
<1>6. ASSUME i.op = "br"
      PROVE  Becomes(Execute(i, m), <<i.to[1], 1>>, m.registers, m.stack)
  <2>1. Execute(i, m) = Jump(m, i.to[1])
    BY <1>6 DEF Execute
  <2> QED
    BY <1>2, <2>1
<1>7. ASSUME i.op = "condbr"
      PROVE  Becomes(Execute(i, m),
                     <<IF Held(m, i.args[1]) # 0 THEN i.to[1] ELSE i.to[2], 1>>,
                     m.registers, m.stack)
  <2> DEFINE to == IF Held(m, i.args[1]) # 0 THEN i.to[1] ELSE i.to[2]
  <2>1. Execute(i, m) = Jump(m, to)
    BY <1>7 DEF Execute
  <2> HIDE DEF to
  <2>2. Becomes(Execute(i, m), <<to, 1>>, m.registers, m.stack)
    BY <1>2, <2>1
  <2> QED
    BY <2>2 DEF to
<1>8. ASSUME i.op = "alloca"
      PROVE  Becomes(Execute(i, m), <<b, n + 1>>, m.registers, Put(m.stack, <<b, n>>, Undef))
  <2>1. Execute(i, m) = [a EXCEPT !.stack = Put(@, <<b, n>>, Undef)]
    BY <1>8 DEF Execute, a
  <2> QED
    BY <1>4, <2>1
<1>9. ASSUME i.op = "load"
      PROVE  Becomes(Execute(i, m), <<b, n + 1>>,
                     Put(m.registers, <<b, n>>, m.stack[i.args[1].reg]), m.stack)
  <2>1. Execute(i, m) = [a EXCEPT !.registers = Put(@, <<b, n>>, m.stack[i.args[1].reg])]
    BY <1>9 DEF Execute, a
  <2> QED
    BY <1>3, <2>1
<1>10. ASSUME i.op = "store"
       PROVE  Becomes(Execute(i, m), <<b, n + 1>>, m.registers,
                      Put(m.stack, i.args[2].reg, Held(m, i.args[1])))
  <2>1. Execute(i, m) = [a EXCEPT !.stack = Put(@, i.args[2].reg, Held(m, i.args[1]))]
    BY <1>10 DEF Execute, a
  <2> QED
    BY <1>4, <2>1
<1>11. ASSUME i.op \notin {"ret", "br", "condbr", "alloca", "load", "store"}
       PROVE  Becomes(Execute(i, m), <<b, n + 1>>,
                      Put(m.registers, <<b, n>>,
                          Compute(i.op, Held(m, i.args[1]), Held(m, i.args[2]))),
                      m.stack)
  <2> DEFINE x == Compute(i.op, Held(m, i.args[1]), Held(m, i.args[2]))
  <2>1. Execute(i, m) = [a EXCEPT !.registers = Put(@, <<b, n>>, x)]
    BY <1>11 DEF Execute, a
  <2> HIDE DEF x
  <2>2. Becomes(Execute(i, m), <<b, n + 1>>, Put(m.registers, <<b, n>>, x), m.stack)
    BY <1>3, <2>1
  <2> QED
    BY <2>2 DEF x
<1> QED
    BY <1>5, <1>6, <1>7, <1>8, <1>9, <1>10, <1>11

(* Put changes one place.                                                  *)
LEMMA PutKeeps ==
    ASSUME NEW f, NEW p, NEW y, NEW new, new = Put(f, p, y), NEW r, r \in DOMAIN f, r # p
    PROVE  r \in DOMAIN new /\ new[r] = f[r]
BY DEF Put

InCode(p) == p[1] \in DOMAIN code /\ p[2] \in DOMAIN code[p[1]]

(* M are the first states of a run of the code there is.                   *)
Runs(M, k) ==
    /\ M[0] = Start
    /\ \A n \in 0 .. k - 1 :
            InCode(M[n].place) /\ M[n + 1] = Execute(At(M[n].place), M[n])

(* What the machine does with the code there is after a reduction.         *)
Steps(m, m2) ==
    /\ m.place[1] \in DOMAIN code' /\ m.place[2] \in DOMAIN code'[m.place[1]]
    /\ m2 = Execute(code'[m.place[1]][m.place[2]], m)

Reaches(m, m2) ==
    m2 = m \/ Steps(m, m2) \/ \E m1 : Steps(m, m1) /\ Steps(m1, m2)

(* A run of the code there was is one of the code there is: what has been  *)
(* executed is not written again.                                          *)
LEMMA RunsStay ==
    ASSUME NEW nest, Structure(nest), Grows, NEW M, NEW k, Runs(M, k)
    PROVE  Runs(M, k)'
<1>1. M[0] = Start
    BY DEF Runs
<1>2. ASSUME NEW n \in 0 .. k - 1
      PROVE  /\ M[n].place[1] \in DOMAIN code' /\ M[n].place[2] \in DOMAIN code'[M[n].place[1]]
             /\ M[n + 1] = Execute(code'[M[n].place[1]][M[n].place[2]], M[n])
  <2> DEFINE b == M[n].place[1]
             i == M[n].place[2]
  <2>1. b \in DOMAIN code /\ i \in DOMAIN code[b] /\ M[n + 1] = Execute(code[b][i], M[n])
    BY DEF Runs, InCode, At
  <2> HIDE DEF b, i
  <2>2. /\ Len(code[b]) \in Nat /\ DOMAIN code[b] = 1 .. Len(code[b])
        /\ Len(code'[b]) \in Nat /\ DOMAIN code'[b] = 1 .. Len(code'[b])
        /\ Len(code'[b]) >= Len(code[b])
        /\ \A x \in 1 .. Len(code[b]) : code'[b][x] = code[b][x]
    BY <2>1, Lengths
  <2>3. b \in DOMAIN code'
    BY <2>1 DEF Grows
  <2> QED
    BY <2>1, <2>2, <2>3 DEF b, i
<1> QED
    BY <1>1, <1>2 DEF Runs, InCode, At, Start, Execute, Held, Jump, Advance, Put, IsConst, Compute

(* Runs, after a reduction.                                                *)
LEMMA RunsNext ==
    ASSUME NEW M, NEW k
    PROVE  Runs(M, k)' <=> /\ M[0] = Start
                           /\ \A n \in 0 .. k - 1 : Steps(M[n], M[n + 1])
<1>1. ASSUME NEW n
      PROVE  (InCode(M[n].place) /\ M[n + 1] = Execute(At(M[n].place), M[n]))'
                <=> Steps(M[n], M[n + 1])
    BY DEF InCode, At, Steps, Execute, Held, Jump, Advance, Put, IsConst, Compute
<1> QED
    BY <1>1 DEF Runs, Start

(* A run that goes on for one instruction.                                 *)
LEMMA RunsOne ==
    ASSUME NEW M, NEW k \in Nat, Runs(M, k)', NEW m2, Steps(M[k], m2)
    PROVE  \E N : Runs(N, k + 1)' /\ N[k + 1] = m2
<1>0. PICK N : N = [n \in 0 .. k + 1 |-> IF n <= k THEN M[n] ELSE m2]
    OBVIOUS
<1>1. \A n \in 0 .. k : N[n] = M[n]
    BY <1>0
<1>2. N[k + 1] = m2
    BY <1>0
<1>3. Runs(N, k + 1)'
  <2> SUFFICES /\ N[0] = Start
               /\ \A n \in 0 .. k + 1 - 1 : Steps(N[n], N[n + 1])
    BY RunsNext
  <2>1. M[0] = Start /\ \A n \in 0 .. k - 1 : Steps(M[n], M[n + 1])
    BY RunsNext
  <2>2. N[0] = Start
    BY <1>1, <2>1
  <2>3. ASSUME NEW n \in 0 .. k + 1 - 1 PROVE Steps(N[n], N[n + 1])
    <3>1. n \in 0 .. k - 1 \/ n = k
      OBVIOUS
    <3>2. CASE n \in 0 .. k - 1
      <4>1. N[n] = M[n] /\ N[n + 1] = M[n + 1]
        BY <1>1, <3>2
      <4> QED
        BY <2>1, <3>2, <4>1
    <3>3. CASE n = k
      BY <1>1, <1>2, <3>3
    <3> QED
      BY <3>1, <3>2, <3>3
  <2> QED
    BY <2>2, <2>3
<1> QED
    BY <1>2, <1>3

(* A run that goes on for none, one or two.                                *)
LEMMA RunsOn ==
    ASSUME NEW nest, Structure(nest), Grows, NEW M, NEW k \in Nat, Runs(M, k),
           NEW m2, Reaches(M[k], m2)
    PROVE  \E N, l : l \in {k, k + 1, k + 2} /\ Runs(N, l)' /\ N[l] = m2
<1>1. Runs(M, k)'
    BY RunsStay
<1>2. CASE m2 = M[k]
    BY <1>1, <1>2
<1>3. CASE Steps(M[k], m2)
    BY <1>1, <1>3, RunsOne
<1>4. CASE \E m1 : Steps(M[k], m1) /\ Steps(m1, m2)
  <2>1. PICK m1 : Steps(M[k], m1) /\ Steps(m1, m2)
    BY <1>4
  <2>2. PICK N : Runs(N, k + 1)' /\ N[k + 1] = m1
    BY <1>1, <2>1, RunsOne
  <2> DEFINE l == k + 1
  <2>3. l \in Nat /\ Runs(N, l)' /\ N[l] = m1
    BY <2>2
  <2> HIDE DEF l
  <2>4. PICK P : Runs(P, l + 1)' /\ P[l + 1] = m2
    BY <2>1, <2>3, RunsOne
  <2>5. l + 1 = k + 2
    BY DEF l
  <2> QED
    BY <2>4, <2>5
<1> QED
    BY <1>2, <1>3, <1>4 DEF Reaches
-----------------------------------------------------------------------------
(***************************************************************************)
(* How the machine and the interpreter go together.                        *)
(***************************************************************************)
(* The joins of the if statements around what is executed.                 *)
LiveIfs ==
    {open[n].bb : n \in {k \in DOMAIN open : \A m \in 1 .. k : open[m].taken}} \ {NoBlock}

(* The machine is where the code is written, or waits behind the outermost *)
(* if statement whose body is not executed.                                *)
Placed(m) ==
    IF Reached
    THEN m.place = <<at, Len(code[at]) + 1>>
    ELSE \E f \in DOMAIN open :
            /\ ~open[f].taken /\ \A k \in 1 .. f - 1 : open[k].taken
            /\ open[f].bb # NoBlock /\ m.place = <<open[f].bb, 1>>

Agree(m, vs, ms) ==
    /\ Len(ms) = Len(vs)
    /\ \A i \in 1 .. Len(vs) :
            /\ Held(m, vs[i]) = ms[i]
            /\ ~IsConst(vs[i]) => vs[i].reg \in DOMAIN m.registers

(* A variable that has a place on the stack has its value there, and it    *)
(* has one within the if statements of its first assignment.               *)
Stacked(m) ==
    /\ \A id \in DOMAIN idMap :
            idMap[id].reg \in DOMAIN m.stack => m.stack[idMap[id].reg] = env[id]
    /\ \A id \in DOMAIN idMap : home[id] \subseteq LiveIfs => idMap[id].reg \in DOMAIN m.stack
    /\ \A p \in DOMAIN m.stack :
            \E B \in DOMAIN code : \E k \in 1 .. Len(code[B]) : p = <<B, k>>

Matches(m) ==
    /\ IsMachine(m) /\ Placed(m) /\ Stacked(m)
    /\ Reached => Agree(m, values, meant)

Interpreter ==
    /\ IsSeq(meant) /\ Len(meant) = Len(values)
    /\ DOMAIN env = Id /\ DOMAIN idMap \subseteq Id

(* What is reached is within all the open if statements.                   *)
LEMMA LiveIsIfs ==
    /\ LiveIfs \subseteq Ifs
    /\ Reached /\ IsSeq(open) => LiveIfs = Ifs
<1>1. LiveIfs \subseteq Ifs
    BY DEF LiveIfs, Ifs
<1>2. ASSUME Reached, IsSeq(open) PROVE LiveIfs = Ifs
  <2>1. DOMAIN open = 1 .. Len(open) /\ Len(open) \in Nat
    BY <1>2, SeqFacts
  <2>2. \A k \in DOMAIN open : \A m \in 1 .. k : open[m].taken
    BY <1>2, <2>1 DEF Reached
  <2> QED
    BY <2>2 DEF LiveIfs, Ifs
<1> QED
    BY <1>1, <1>2

(* Up to the first body that is not executed the joins are those below it. *)
LEMMA LiveIsBelow ==
    ASSUME IsSeq(open), NEW f \in DOMAIN open, ~open[f].taken,
           \A k \in 1 .. f - 1 : open[k].taken
    PROVE  LiveIfs = IfsBelow(f)
<1>1. DOMAIN open = 1 .. Len(open) /\ Len(open) \in Nat
    BY SeqFacts
<1>2. {k \in DOMAIN open : \A m \in 1 .. k : open[m].taken} = 1 .. f - 1
  <2>1. ASSUME NEW k \in DOMAIN open, \A m \in 1 .. k : open[m].taken
        PROVE  k \in 1 .. f - 1
    <3>1. ~(f \in 1 .. k)
      BY <2>1
    <3> QED
      BY <1>1, <3>1
  <2>2. ASSUME NEW k \in 1 .. f - 1
        PROVE  k \in DOMAIN open /\ \A m \in 1 .. k : open[m].taken
    BY <1>1
  <2> QED
    BY <2>1, <2>2
<1> QED
    BY <1>2 DEF LiveIfs, IfsBelow

(* These depend on the open statements alone.                              *)
LEMMA SameOpenLive ==
    ASSUME open' = open
    PROVE  (Reached' <=> Reached) /\ LiveIfs' = LiveIfs
BY DEF Reached, LiveIfs

(* An operand's value depends on the registers alone.                      *)
LEMMA HeldSame ==
    ASSUME NEW m, NEW m2, m2.registers = m.registers, NEW v
    PROVE  Held(m2, v) = Held(m, v)
BY DEF Held

(* One value more, in the register written last if in any.                 *)
LEMMA AgreeAppended ==
    ASSUME NEW m, NEW below, NEW bm, IsSeq(below), Agree(m, below, bm),
           \A i \in DOMAIN below : LocalValue(below[i]),
           Len(code[at]) \in Nat,
           NEW m2,
           \/ m2.registers = m.registers
           \/ \E y : m2.registers = Put(m.registers, <<at, Len(code[at]) + 1>>, y),
           NEW vs, NEW v, IsAppended(vs, below, v),
           NEW ms, NEW x, IsAppended(ms, bm, x),
           Held(m2, v) = x, ~IsConst(v) => v.reg \in DOMAIN m2.registers
    PROVE  Agree(m2, vs, ms)
<1>1. Len(below) \in Nat /\ DOMAIN below = 1 .. Len(below) /\ Len(bm) = Len(below)
    BY SeqFacts DEF Agree
<1>2. /\ Len(vs) = Len(below) + 1 /\ Len(ms) = Len(below) + 1
      /\ vs[Len(below) + 1] = v /\ ms[Len(below) + 1] = x
      /\ \A i \in 1 .. Len(below) : vs[i] = below[i] /\ ms[i] = bm[i]
    BY <1>1 DEF IsAppended
<1>3. ASSUME NEW i \in 1 .. Len(below)
      PROVE  /\ Held(m2, below[i]) = bm[i]
             /\ ~IsConst(below[i]) => below[i].reg \in DOMAIN m2.registers
  <2>1. /\ Held(m, below[i]) = bm[i]
        /\ ~IsConst(below[i]) => below[i].reg \in DOMAIN m.registers
    BY DEF Agree
  <2>2. CASE m2.registers = m.registers
    BY <2>1, <2>2, HeldSame
  <2>3. CASE IsConst(below[i])
    BY <2>1, <2>3 DEF Held
  <2>4. CASE /\ ~IsConst(below[i])
             /\ \E y : m2.registers = Put(m.registers, <<at, Len(code[at]) + 1>>, y)
    <3>1. PICK y : m2.registers = Put(m.registers, <<at, Len(code[at]) + 1>>, y)
      BY <2>4
    <3>2. PICK k \in 1 .. Len(code[at]) : below[i] = Register(<<at, k>>)
      BY <1>1, <2>4 DEF LocalValue
    <3>3. below[i].reg = <<at, k>>
      BY <3>2, OperandKinds
    <3>4. k # Len(code[at]) + 1
      OBVIOUS
    <3>5. below[i].reg # <<at, Len(code[at]) + 1>>
      BY <3>3, <3>4
    <3>6. /\ below[i].reg \in DOMAIN m2.registers
          /\ m2.registers[below[i].reg] = m.registers[below[i].reg]
      <4> DEFINE p == <<at, Len(code[at]) + 1>>
                 r == below[i].reg
      <4>1. r \in DOMAIN m.registers /\ r # p /\ m2.registers = Put(m.registers, p, y)
        BY <2>1, <2>4, <3>1, <3>5
      <4> HIDE DEF p, r
      <4>2. r \in DOMAIN m2.registers /\ m2.registers[r] = m.registers[r]
        BY <4>1, PutKeeps
      <4> QED
        BY <4>2 DEF r
    <3> QED
      BY <2>1, <2>4, <3>6 DEF Held
  <2> QED
    BY <2>2, <2>3, <2>4
<1>4. ASSUME NEW i \in 1 .. Len(vs)
      PROVE  /\ Held(m2, vs[i]) = ms[i]
             /\ ~IsConst(vs[i]) => vs[i].reg \in DOMAIN m2.registers
  <2>1. i \in 1 .. Len(below) \/ i = Len(below) + 1
    BY <1>1, <1>2
  <2> QED
    BY <1>2, <1>3, <2>1
<1> QED
    BY <1>2, <1>4 DEF Agree

(* Where nothing is assigned the stack stays right.                        *)
LEMMA StackedStays ==
    ASSUME NEW nest, Structure(nest), Grows,
           idMap' = idMap, home' = home, env' = env,
           NEW m, Stacked(m), NEW m2, m2.stack = m.stack,
           \A id \in DOMAIN idMap : home[id] \subseteq LiveIfs' => home[id] \subseteq LiveIfs
    PROVE  Stacked(m2)'
<1>1. ASSUME NEW p \in DOMAIN m2.stack
      PROVE  \E B \in DOMAIN code' : \E k \in 1 .. Len(code'[B]) : p = <<B, k>>
  <2>1. PICK B \in DOMAIN code : \E k \in 1 .. Len(code[B]) : p = <<B, k>>
    BY DEF Stacked
  <2>2. PICK k \in 1 .. Len(code[B]) : p = <<B, k>>
    BY <2>1
  <2>3. /\ Len(code[B]) \in Nat /\ Len(code'[B]) \in Nat
        /\ Len(code'[B]) >= Len(code[B])
    BY Lengths
  <2>4. B \in DOMAIN code' /\ k \in 1 .. Len(code'[B])
    BY <2>3 DEF Grows
  <2> QED
    BY <2>2, <2>4
<1>2. ASSUME NEW id \in DOMAIN idMap
      PROVE  /\ idMap[id].reg \in DOMAIN m2.stack => m2.stack[idMap[id].reg] = env[id]
             /\ home[id] \subseteq LiveIfs' => idMap[id].reg \in DOMAIN m2.stack
    BY DEF Stacked
<1> QED
    BY <1>1, <1>2 DEF Stacked
-----------------------------------------------------------------------------
(* Expressions and assignments write at the insert point.                  *)
LEMMA OrdinaryWrites ==
    ASSUME NEW nest, Structure(nest), Ordinary, status' = "parsing"
    PROVE  Writes /\ Grows /\ open' = open /\ at' = at /\ status = "parsing"
           /\ reductions' = reductions + 1
<1>1. IsSeq(code) /\ at \in DOMAIN code /\ IsSeq(code[at])
    BY DEF Structure, Typed
<1>2. code' = code => Writes
    BY NothingWritten
<1>3. \A i : Emit(<<i>>) => Writes
    BY <1>1, EmitOne
<1>4. \A i, j : Emit(<<i, j>>) => Writes
    BY <1>1, EmitTwo
<1>5. \A op, a, b, below : Operate(op, a, b, below) => Writes
    BY <1>2, <1>3 DEF Operate
<1>6. Writes
    BY <1>2, <1>3, <1>4, <1>5 DEF Ordinary, Identifier, Assign, Immediate, Binary, Negate, Not
<1>7. /\ open' = open /\ at' = at /\ status = "parsing"
      /\ reductions' = reductions + 1
    BY DEF Ordinary, Identifier, Assign, Immediate, Binary, Negate, Not, Reduce
<1> QED
    BY <1>6, <1>7, WritesGrows

(* The first assignment of an identifier, executed or not.                 *)
LEMMA StackedNew ==
    ASSUME NEW nest, Structure(nest), Places(nest), Grows, Len(code'[at]) > Len(code[at]),
           NEW id, id \notin DOMAIN idMap,
           idMap' = Put(idMap, id, Here), home' = Put(home, id, Ifs),
           LiveIfs' = LiveIfs, NEW m, Stacked(m), NEW m2,
           \A p \in DOMAIN m.stack :
                p \in DOMAIN m2.stack /\ m2.stack[p] = m.stack[p],
           DOMAIN m2.stack \subseteq DOMAIN m.stack \cup {<<at, Len(code[at]) + 1>>},
           Here.reg \in DOMAIN m2.stack => m2.stack[Here.reg] = env'[id],
           Ifs \subseteq LiveIfs => Here.reg \in DOMAIN m2.stack,
           \A other \in DOMAIN idMap : env'[other] = env[other]
    PROVE  Stacked(m2)'
<1> DEFINE l == Len(code[at]) + 1
<1>1. /\ at \in DOMAIN code /\ DOMAIN code \subseteq DOMAIN code' /\ DOMAIN home = DOMAIN idMap
    BY DEF Structure, Typed, Grows, Places
<1>2. \A b \in DOMAIN code : /\ Len(code[b]) \in Nat /\ Len(code'[b]) \in Nat
                             /\ Len(code'[b]) >= Len(code[b])
    BY Lengths
<1>3. /\ DOMAIN idMap' = DOMAIN idMap \cup {id}
      /\ idMap'[id].reg = Here.reg /\ Here.reg = <<at, l>>
      /\ \A x \in DOMAIN idMap : idMap'[x] = idMap[x]
    BY DEF Put, Here, Register
<1>4. /\ home'[id] = Ifs
      /\ \A x \in DOMAIN idMap : home'[x] = home[x]
    BY <1>1 DEF Put
<1>5. l \in 1 .. Len(code'[at])
    BY <1>1, <1>2
<1>6. \A B \in DOMAIN code : \A k \in 1 .. Len(code[B]) :
            k \in 1 .. Len(code'[B]) /\ (B = at => k # l)
    BY <1>2
<1> HIDE DEF l
<1>7. ASSUME NEW x \in DOMAIN idMap
      PROVE  idMap[x].reg # <<at, l>>
  <2>1. PICK B \in DOMAIN code \ Ifs : \E k \in 1 .. Len(code[B]) :
            idMap[x] = Register(<<B, k>>) /\ home[x] = nest[B]
    BY DEF Places
  <2>2. PICK k \in 1 .. Len(code[B]) : idMap[x] = Register(<<B, k>>)
    BY <2>1
  <2>3. idMap[x].reg = <<B, k>>
    BY <2>2, OperandKinds
  <2> QED
    BY <1>6, <2>3
<1>8. DOMAIN m2.stack \subseteq DOMAIN m.stack \cup {<<at, l>>}
    BY DEF l
<1>9. ASSUME NEW x \in DOMAIN idMap'
      PROVE  /\ idMap'[x].reg \in DOMAIN m2.stack => m2.stack[idMap'[x].reg] = env'[x]
             /\ home'[x] \subseteq LiveIfs' => idMap'[x].reg \in DOMAIN m2.stack
  <2>1. CASE x = id
    BY <1>3, <1>4, <2>1
  <2>2. CASE x # id
    <3>1. /\ x \in DOMAIN idMap /\ idMap'[x] = idMap[x] /\ home'[x] = home[x]
          /\ env'[x] = env[x]
      BY <1>3, <1>4, <2>2
    <3>2. /\ idMap[x].reg \in DOMAIN m.stack => m.stack[idMap[x].reg] = env[x]
          /\ home[x] \subseteq LiveIfs => idMap[x].reg \in DOMAIN m.stack
      BY <3>1 DEF Stacked
    <3>3. idMap[x].reg \in DOMAIN m2.stack => idMap[x].reg \in DOMAIN m.stack
      BY <1>7, <1>8, <3>1
    <3> DEFINE r == idMap[x].reg
    <3> HIDE DEF r
    <3>4. r \in DOMAIN m.stack => r \in DOMAIN m2.stack /\ m2.stack[r] = m.stack[r]
      OBVIOUS
    <3> QED
      BY <3>1, <3>2, <3>3, <3>4 DEF r
  <2> QED
    BY <2>1, <2>2
<1>10. ASSUME NEW p \in DOMAIN m2.stack
       PROVE  \E B \in DOMAIN code' : \E k \in 1 .. Len(code'[B]) : p = <<B, k>>
  <2>1. CASE p = <<at, l>>
    BY <1>1, <1>5, <2>1
  <2>2. CASE p \in DOMAIN m.stack
    <3>1. PICK B \in DOMAIN code : \E k \in 1 .. Len(code[B]) : p = <<B, k>>
      BY <2>2 DEF Stacked
    <3> QED
      BY <1>1, <1>6, <3>1
  <2> QED
    BY <1>8, <2>1, <2>2
<1> QED
    BY <1>9, <1>10 DEF Stacked

(* Another assignment.                                                     *)
LEMMA StackedStore ==
    ASSUME NEW nest, Structure(nest), Places(nest), Grows, Interpreter,
           idMap' = idMap, home' = home, LiveIfs' = LiveIfs,
           NEW id \in DOMAIN idMap, NEW x, env' = [env EXCEPT ![id] = x],
           NEW m, Stacked(m), idMap[id].reg \in DOMAIN m.stack,
           NEW m2, m2.stack = Put(m.stack, idMap[id].reg, x)
    PROVE  Stacked(m2)'
<1> DEFINE r == idMap[id].reg
<1>1. /\ DOMAIN m2.stack = DOMAIN m.stack /\ m2.stack[r] = x
      /\ \A p \in DOMAIN m.stack : p # r => m2.stack[p] = m.stack[p]
  <2>1. m2.stack = Put(m.stack, r, x) /\ r \in DOMAIN m.stack
    OBVIOUS
  <2> HIDE DEF r
  <2>2. DOMAIN m2.stack = DOMAIN m.stack \cup {r}
    BY <2>1 DEF Put
  <2>3. m2.stack[r] = x
    BY <2>1 DEF Put
  <2>4. ASSUME NEW p \in DOMAIN m.stack, p # r PROVE m2.stack[p] = m.stack[p]
    BY <2>1, <2>4, PutKeeps
  <2> QED
    BY <2>1, <2>2, <2>3, <2>4
<1>2. /\ env'[id] = x
      /\ \A other \in DOMAIN idMap : other # id => env'[other] = env[other]
    BY DEF Interpreter
<1>3. ASSUME NEW other \in DOMAIN idMap, other # id
      PROVE  idMap[other].reg # r
  <2>1. \A y \in DOMAIN idMap : \E p : idMap[y] = Register(p)
    BY DEF Places
  <2>2. PICK p, q : idMap[other] = Register(p) /\ idMap[id] = Register(q)
    BY <2>1
  <2>3. idMap[other] # idMap[id]
    BY <1>3 DEF Places
  <2> QED
    BY <2>2, <2>3, OperandKinds
<1>4. ASSUME NEW y \in DOMAIN idMap
      PROVE  /\ idMap[y].reg \in DOMAIN m2.stack => m2.stack[idMap[y].reg] = env'[y]
             /\ home[y] \subseteq LiveIfs => idMap[y].reg \in DOMAIN m2.stack
  <2>1. CASE y = id
    BY <1>1, <1>2, <2>1
  <2>2. CASE y # id
    <3>1. /\ idMap[y].reg \in DOMAIN m.stack => m.stack[idMap[y].reg] = env[y]
          /\ home[y] \subseteq LiveIfs => idMap[y].reg \in DOMAIN m.stack
      BY DEF Stacked
    <3> QED
      BY <1>1, <1>2, <1>3, <2>2, <3>1
  <2> QED
    BY <2>1, <2>2
<1>5. ASSUME NEW p \in DOMAIN m2.stack
      PROVE  \E B \in DOMAIN code' : \E k \in 1 .. Len(code'[B]) : p = <<B, k>>
  <2>1. PICK B \in DOMAIN code : \E k \in 1 .. Len(code[B]) : p = <<B, k>>
    BY <1>1 DEF Stacked
  <2>2. PICK k \in 1 .. Len(code[B]) : p = <<B, k>>
    BY <2>1
  <2>3. /\ Len(code[B]) \in Nat /\ Len(code'[B]) \in Nat
        /\ Len(code'[B]) >= Len(code[B]) /\ B \in DOMAIN code'
    BY Lengths DEF Grows
  <2> QED
    BY <2>2, <2>3
<1> QED
    BY <1>4, <1>5 DEF Stacked

(* What is read and not executed leaves the machine where it waits.        *)
LEMMA IdleOrdinary ==
    ASSUME NEW nest, Structure(nest), Uses(nest), Interpreter, Ordinary, status' = "parsing",
           ~Reached, NEW m, Matches(m)
    PROVE  Matches(m)'
<1>1. Writes /\ Grows /\ open' = open /\ at' = at /\ status = "parsing" /\ IsSeq(open)
    BY OrdinaryWrites DEF Structure, Typed
<1>2. ~Reached' /\ LiveIfs' = LiveIfs
    BY <1>1, SameOpenLive
<1>3. PICK f \in DOMAIN open :
        /\ ~open[f].taken /\ \A k \in 1 .. f - 1 : open[k].taken
        /\ open[f].bb # NoBlock /\ m.place = <<open[f].bb, 1>>
    BY DEF Matches, Placed
<1>4. Placed(m)'
    BY <1>1, <1>2, <1>3 DEF Placed
<1>5. ~(Ifs \subseteq LiveIfs)
  <2>1. LiveIfs = IfsBelow(f)
    BY <1>1, <1>3, LiveIsBelow
  <2>2. open[f].bb \in Ifs
    BY <1>3 DEF Ifs
  <2>3. nest[open[f].bb] = IfsBelow(f) /\ open[f].bb \in DOMAIN nest
    BY <1>3 DEF Structure, Joins, Typed
  <2>4. open[f].bb \notin nest[open[f].bb]
    BY <2>3 DEF Structure, Typed, Nested
  <2> QED
    BY <2>1, <2>2, <2>3, <2>4
<1>6. Places(nest) /\ DOMAIN home = DOMAIN idMap /\ Stacked(m) /\ IsMachine(m)
    BY DEF Uses, Places, Matches
<1>7. idMap' = idMap /\ home' = home /\ env' = env => Stacked(m)'
    BY <1>1, <1>2, <1>6, StackedStays
<1>8. Stacked(m)'
  <2>1. ASSUME NEW id \in Id, Identifier(id) PROVE Stacked(m)'
    <3>1. idMap' = idMap /\ env' = env /\ Mention(id) /\ id \in DOMAIN home
      BY <1>1, <1>6, <2>1 DEF Identifier
    <3>2. home' = home
      BY <3>1, Zenon DEF Mention
    <3> QED
      BY <1>7, <3>1, <3>2
  <2>2. ASSUME NEW id \in Id, Assign(id) PROVE Stacked(m)'
    <3>1. env' = env /\ Mention(id)
      BY <2>2 DEF Assign
    <3>2. CASE id \in DOMAIN idMap
      <4>1. idMap' = idMap /\ home' = home
        BY <1>6, <2>2, <3>1, <3>2, Zenon DEF Assign, Mention
      <4> QED
        BY <1>7, <3>1, <4>1
    <3>3. CASE id \notin DOMAIN idMap
      <4>1. idMap' = Put(idMap, id, Here)
        BY <2>2, <3>3, Zenon DEF Assign
      <4>2. home' = Put(home, id, Ifs)
        BY <1>6, <3>1, <3>3, Zenon DEF Mention
      <4>3. Len(code'[at]) > Len(code[at])
        <5>1. Emit(<<Instruction("alloca", <<>>, <<>>),
                     Instruction("store", <<values[1], Here>>, <<>>)>>)
          BY <2>2, <3>3, Zenon DEF Assign
        <5>2. Len(code'[at]) = Len(code[at]) + 2 /\ Len(code[at]) \in Nat
          BY <5>1, EmitTwo, SeqFacts DEF Structure, Typed
        <5> QED
          BY <5>2
      <4>4. Here.reg \notin DOMAIN m.stack
        <5>1. Here.reg = <<at, Len(code[at]) + 1>>
          BY OperandKinds DEF Here
        <5>2. ASSUME NEW B \in DOMAIN code, NEW k \in 1 .. Len(code[B])
              PROVE  <<B, k>> # <<at, Len(code[at]) + 1>>
          <6>1. Len(code[B]) \in Nat
            BY <1>1, Lengths
          <6> QED
            BY <6>1
        <5> QED
          BY <1>6, <5>1, <5>2 DEF Stacked
      <4> QED
        BY <1>1, <1>2, <1>5, <1>6, <3>1, <3>3, <4>1, <4>2, <4>3, <4>4, StackedNew
    <3> QED
      BY <3>2, <3>3
  <2>3. CASE (\E n \in Imm : Immediate(n)) \/ (\E op \in Op : Binary(op)) \/ Negate \/ Not
    BY <1>7, <2>3 DEF Immediate, Binary, Negate, Not
  <2> QED
    BY <2>1, <2>2, <2>3 DEF Ordinary
<1>9. IsMachine(m)'
    BY <1>6 DEF IsMachine
<1> QED
    BY <1>2, <1>4, <1>8, <1>9 DEF Matches
-----------------------------------------------------------------------------
(* The machine executes the instruction just written.                      *)
LEMMA OneStep ==
    ASSUME NEW nest, Structure(nest), Reached, NEW m, Matches(m),
           Grows, NEW i, IsAppended(code'[at], code[at], i)
    PROVE  /\ Steps(m, Execute(i, m))
           /\ IsMachine(m) /\ m.place = <<at, Len(code[at]) + 1>> /\ Len(code[at]) \in Nat
<1>1. IsMachine(m) /\ m.place = <<at, Len(code[at]) + 1>> /\ at \in DOMAIN code
    BY DEF Matches, Placed, Structure, Typed
<1>2. /\ Len(code[at]) \in Nat /\ Len(code'[at]) \in Nat
      /\ DOMAIN code'[at] = 1 .. Len(code'[at])
    BY <1>1, Lengths
<1>3. at \in DOMAIN code' /\ Len(code[at]) + 1 \in DOMAIN code'[at]
    BY <1>1, <1>2 DEF Grows, IsAppended
<1>4. code'[at][Len(code[at]) + 1] = i
    BY DEF IsAppended
<1> DEFINE p == m.place
<1>5. p[1] = at /\ p[2] = Len(code[at]) + 1
    BY <1>1
<1> HIDE DEF p
<1>6. p[1] \in DOMAIN code' /\ p[2] \in DOMAIN code'[p[1]] /\ code'[p[1]][p[2]] = i
    BY <1>3, <1>4, <1>5
<1> QED
    BY <1>1, <1>2, <1>6 DEF Steps, p

(* The machine is behind what was just written.                            *)
LEMMA MatchesThen ==
    ASSUME open' = open, at' = at, Reached, NEW m, IsMachine(m),
           m.place = <<at, Len(code'[at]) + 1>>, Stacked(m)', Agree(m, values', meant')
    PROVE  Matches(m)'
<1>1. Placed(m)'
    BY DEF Placed, Reached
<1>2. Agree(m, values, meant)'
    BY DEF Agree, Held, IsConst
<1>3. IsMachine(m)'
    BY DEF IsMachine
<1> QED
    BY <1>1, <1>2, <1>3 DEF Matches

(* The machine computes what Operate has emitted.                          *)
LEMMA OperateMatches ==
    ASSUME NEW nest, Structure(nest), Uses(nest), Reached, NEW m, Matches(m),
           NEW op, op \notin {"ret", "br", "condbr", "alloca", "load", "store"},
           NEW a, NEW b, NEW below, IsSeq(below), Operate(op, a, b, below),
           \A i \in DOMAIN below : LocalValue(below[i]),
           NEW bm, Agree(m, below, bm),
           IsAppended(meant', bm, Compute(op, Held(m, a), Held(m, b))),
           open' = open, at' = at, idMap' = idMap, home' = home, env' = env
    PROVE  \E m2 : Reaches(m, m2) /\ Matches(m2)'
<1> DEFINE L == Len(code[at])
           i == Instruction(op, <<a, b>>, <<>>)
           x == Compute(op, Held(m, a), Held(m, b))
<1>1. /\ IsMachine(m) /\ m.place = <<at, L + 1>> /\ Stacked(m)
      /\ at \in DOMAIN code /\ IsSeq(code[at]) /\ L \in Nat
    BY SeqFacts DEF Matches, Placed, Structure, Typed
<1>2. LiveIfs' = LiveIfs
    BY SameOpenLive
<1>3. CASE /\ IsConst(a) /\ IsConst(b) /\ code' = code
           /\ IsAppended(values', below, Const(Compute(op, a.imm, b.imm)))
  <2>1. Grows
    BY <1>3, NothingWritten, WritesGrows
  <2>2. Stacked(m)'
    BY <1>1, <1>2, <2>1, StackedStays
  <2>3. Compute(op, a.imm, b.imm) = x
    BY <1>3 DEF Held
  <2> HIDE DEF x
  <2>4. IsAppended(values', below, Const(x)) /\ IsAppended(meant', bm, x)
    BY <1>3, <2>3 DEF x
  <2>5. Held(m, Const(x)) = x /\ IsConst(Const(x))
    BY OperandKinds DEF Held
  <2>6. Agree(m, values', meant')
    BY <1>1, <2>4, <2>5, AgreeAppended
  <2>7. m.place = <<at, Len(code'[at]) + 1>>
    BY <1>1, <1>3
  <2>8. Matches(m)'
    BY <1>1, <2>2, <2>6, <2>7, MatchesThen
  <2> QED
    BY <2>8 DEF Reaches
<1>4. CASE /\ Writes /\ IsAppended(code'[at], code[at], i)
           /\ IsAppended(values', below, Here)
  <2> DEFINE m2 == Execute(i, m)
  <2>1. Grows
    BY <1>4, WritesGrows
  <2>2. Steps(m, m2)
    BY <1>4, <2>1, OneStep
  <2>3. i.op = op /\ i.args[1] = a /\ i.args[2] = b
    BY DEF Instruction
  <2> HIDE DEF i
  <2>4. Becomes(m2, <<at, L + 1 + 1>>, Put(m.registers, <<at, L + 1>>, x), m.stack)
    BY <1>1, <2>3, Executes
  <2>5. Len(code'[at]) = L + 1
    BY <1>4 DEF IsAppended
  <2> HIDE DEF m2, x
  <2>6. /\ IsMachine(m2) /\ m2.place = <<at, L + 1 + 1>> /\ m2.stack = m.stack
        /\ m2.registers = Put(m.registers, <<at, L + 1>>, x)
    BY <2>4 DEF Becomes
  <2>7. <<at, L + 1>> \in DOMAIN m2.registers /\ m2.registers[<<at, L + 1>>] = x
    BY <2>6 DEF Put
  <2>8. ~IsConst(Here) /\ Here.reg = <<at, L + 1>>
    BY OperandKinds DEF Here
  <2>9. Held(m2, Here) = x
    BY <2>7, <2>8 DEF Held
  <2>10. Agree(m2, values', meant')
    <3>1. IsAppended(meant', bm, x)
      BY DEF x
    <3> QED
      BY <1>1, <1>4, <2>6, <2>7, <2>8, <2>9, <3>1, AgreeAppended
  <2>11. Stacked(m2)'
    BY <1>1, <1>2, <2>1, <2>6, StackedStays
  <2>12. Matches(m2)'
    BY <2>5, <2>6, <2>10, <2>11, MatchesThen
  <2> QED
    BY <2>2, <2>12 DEF Reaches
<1> QED
  <2>1. \/ /\ IsConst(a) /\ IsConst(b) /\ code' = code
           /\ IsAppended(values', below, Const(Compute(op, a.imm, b.imm)))
        \/ /\ Writes /\ IsAppended(code'[at], code[at], i)
           /\ IsAppended(values', below, Here)
    BY OperateFacts
  <2> HIDE DEF i
  <2> QED
    BY <1>3, <1>4, <2>1

(* An identifier that is mentioned within the if statements of its first   *)
(* assignment has a place on the stack.                                    *)
LEMMA MentionedStacked ==
    ASSUME NEW nest, Structure(nest), Uses(nest), Reached, NEW m, Stacked(m),
           NEW id \in DOMAIN idMap, Mention(id), ~escaped'
    PROVE  /\ home' = home /\ idMap[id].reg \in DOMAIN m.stack
           /\ m.stack[idMap[id].reg] = env[id]
<1>1. id \in DOMAIN home /\ IsSeq(open)
    BY DEF Uses, Places, Structure, Typed
<1>2. home' = home /\ escaped' = (escaped \/ ~(home[id] \subseteq Ifs))
    BY <1>1, Zenon DEF Mention
<1>3. home[id] \subseteq Ifs
    BY <1>2, Zenon
<1>4. LiveIfs = Ifs
    BY <1>1, LiveIsIfs
<1>5. idMap[id].reg \in DOMAIN m.stack
    BY <1>3, <1>4 DEF Stacked
<1> QED
    BY <1>2, <1>5 DEF Stacked
-----------------------------------------------------------------------------
(* Reading a variable: the load gives what the interpreter has.            *)
LEMMA IdentifierMatches ==
    ASSUME NEW nest, Structure(nest), Uses(nest), Interpreter, status' = "parsing",
           Reached, ~escaped', NEW m, Matches(m), NEW id \in Id, Identifier(id)
    PROVE  \E m2 : Reaches(m, m2) /\ Matches(m2)'
<1> DEFINE L == Len(code[at])
           i == Instruction("load", <<idMap[id]>>, <<>>)
           x == env[id]
<1>1. /\ IsMachine(m) /\ m.place = <<at, L + 1>> /\ Stacked(m) /\ Agree(m, values, meant)
      /\ at \in DOMAIN code /\ IsSeq(code) /\ IsSeq(code[at]) /\ L \in Nat
      /\ IsSeq(values) /\ IsSeq(meant) /\ Len(meant) = Len(values)
    BY SeqFacts DEF Matches, Placed, Structure, Typed, Interpreter
<1>2. status = "parsing" /\ open' = open /\ at' = at /\ idMap' = idMap /\ env' = env
    BY DEF Identifier, Reduce
<1>3. /\ id \in DOMAIN idMap /\ Mention(id) /\ Emit(<<i>>)
      /\ values' = Append(values, Here) /\ meant' = Append(meant, x)
    BY <1>2 DEF Identifier
<1>4. /\ IsAppended(values', values, Here) /\ IsAppended(meant', meant, x)
  <2>1. IsAppended(Append(values, Here), values, Here)
    BY <1>1, Appended, Zenon
  <2>2. IsAppended(Append(meant, x), meant, x)
    BY <1>1, Appended, Zenon
  <2> QED
    BY <1>3, <2>1, <2>2, Zenon
<1>5. /\ home' = home /\ idMap[id].reg \in DOMAIN m.stack
      /\ m.stack[idMap[id].reg] = x
    BY <1>1, <1>3, MentionedStacked
<1>6. i.op = "load" /\ i.args[1] = idMap[id]
    BY DEF Instruction
<1> HIDE DEF i
<1>7. Writes /\ IsAppended(code'[at], code[at], i)
    BY <1>1, <1>3, EmitOne, Zenon
<1>8. Grows
    BY <1>7, WritesGrows
<1>0. PICK m2 : m2 = Execute(i, m)
    OBVIOUS
<1>9. Steps(m, m2)
    BY <1>0, <1>7, <1>8, OneStep
<1>10. Becomes(m2, <<at, L + 1 + 1>>,
               Put(m.registers, <<at, L + 1>>, m.stack[idMap[id].reg]), m.stack)
    BY <1>0, <1>1, <1>6, Executes
<1>11. Len(code'[at]) = L + 1
    BY <1>7 DEF IsAppended
<1> HIDE DEF x
<1>12. /\ IsMachine(m2) /\ m2.place = <<at, L + 1 + 1>> /\ m2.stack = m.stack
       /\ m2.registers = Put(m.registers, <<at, L + 1>>, x)
    BY <1>5, <1>10 DEF Becomes
<1>13. <<at, L + 1>> \in DOMAIN m2.registers /\ m2.registers[<<at, L + 1>>] = x
    BY <1>12 DEF Put
<1>14. ~IsConst(Here) /\ Here.reg = <<at, L + 1>>
    BY OperandKinds DEF Here
<1>15. Held(m2, Here) = x
    BY <1>13, <1>14 DEF Held
<1>16. Agree(m2, values', meant')
  <2>1. \A n \in DOMAIN values : LocalValue(values[n])
    BY DEF Uses, Values
  <2> QED
    BY <1>1, <1>4, <1>12, <1>13, <1>14, <1>15, <2>1, AgreeAppended
<1>17. LiveIfs' = LiveIfs
    BY <1>2, SameOpenLive
<1>18. Stacked(m2)'
    BY <1>1, <1>2, <1>5, <1>8, <1>12, <1>17, StackedStays
<1>19. Matches(m2)'
    BY <1>2, <1>11, <1>12, <1>16, <1>18, MatchesThen
<1> QED
    BY <1>9, <1>19 DEF Reaches

(* With nothing on the parser's stack there is nothing to compare.         *)
LEMMA NothingAgrees ==
    ASSUME values' = <<>>, meant' = <<>>, NEW m
    PROVE  Agree(m, values', meant')
<1>1. Len(values') = 0 /\ Len(meant') = 0
    BY EmptyIsSeq
<1>2. 1 .. 0 = {}
    OBVIOUS
<1> QED
    BY <1>1, <1>2 DEF Agree

(* An assignment, with its alloca if it is the first of the text.          *)
LEMMA AssignMatches ==
    ASSUME NEW nest, Structure(nest), Uses(nest), Interpreter,
           Reached, ~escaped', NEW m, Matches(m), NEW id \in Id, Assign(id)
    PROVE  \E m2 : Reaches(m, m2) /\ Matches(m2)'
<1> DEFINE L == Len(code[at])
           x == meant[1]
           v == values[1]
<1>1. /\ IsMachine(m) /\ m.place = <<at, L + 1>> /\ Stacked(m) /\ Agree(m, values, meant)
      /\ at \in DOMAIN code /\ IsSeq(code) /\ IsSeq(code[at]) /\ L \in Nat
    BY SeqFacts DEF Matches, Placed, Structure, Typed
<1>2. /\ open' = open /\ at' = at /\ Len(values) = 1 /\ Mention(id)
      /\ values' = <<>> /\ meant' = <<>>
    BY DEF Assign
<1>3. env' = [env EXCEPT ![id] = x]
    BY DEF Assign
<1>4. Held(m, v) = x
    BY <1>1, <1>2 DEF Agree
<1>5. LiveIfs' = LiveIfs /\ LiveIfs = Ifs
    BY <1>2, SameOpenLive, LiveIsIfs DEF Structure, Typed
<1>6. Places(nest) /\ DOMAIN home = DOMAIN idMap /\ DOMAIN env = Id /\ DOMAIN idMap \subseteq Id
    BY DEF Uses, Places, Interpreter
<1>7. CASE id \in DOMAIN idMap
  <2> DEFINE i == Instruction("store", <<v, idMap[id]>>, <<>>)
  <2>1. Emit(<<i>>) /\ idMap' = idMap
    BY <1>7 DEF Assign
  <2>2. home' = home /\ idMap[id].reg \in DOMAIN m.stack
    BY <1>1, <1>2, <1>7, MentionedStacked
  <2>3. i.op = "store" /\ i.args[1] = v /\ i.args[2] = idMap[id]
    BY DEF Instruction
  <2> HIDE DEF i
  <2>4. Writes /\ IsAppended(code'[at], code[at], i)
    BY <1>1, <2>1, EmitOne, Zenon
  <2>5. Grows
    BY <2>4, WritesGrows
  <2>0. PICK m2 : m2 = Execute(i, m)
    OBVIOUS
  <2>6. Steps(m, m2)
    BY <2>0, <2>4, <2>5, OneStep
  <2>7. Becomes(m2, <<at, L + 1 + 1>>, m.registers, Put(m.stack, idMap[id].reg, Held(m, v)))
    BY <1>1, <2>0, <2>3, Executes
  <2>8. Len(code'[at]) = L + 1
    BY <2>4 DEF IsAppended
  <2> HIDE DEF x, v
  <2>9. /\ IsMachine(m2) /\ m2.place = <<at, L + 1 + 1>>
        /\ m2.stack = Put(m.stack, idMap[id].reg, x)
    BY <1>4, <2>7 DEF Becomes
  <2>10. Stacked(m2)'
    BY <1>1, <1>3, <1>5, <1>6, <1>7, <2>1, <2>2, <2>5, <2>9, StackedStore
  <2>11. Agree(m2, values', meant')
    BY <1>2, NothingAgrees
  <2>12. Matches(m2)'
    BY <1>2, <2>8, <2>9, <2>10, <2>11, MatchesThen
  <2> QED
    BY <2>6, <2>12 DEF Reaches
<1>8. CASE id \notin DOMAIN idMap
  <2> DEFINE i == Instruction("alloca", <<>>, <<>>)
             j == Instruction("store", <<v, Here>>, <<>>)
             p == <<at, L + 1>>
  <2>1. Emit(<<i, j>>) /\ idMap' = Put(idMap, id, Here)
    BY <1>8 DEF Assign
  <2>2. home' = Put(home, id, Ifs)
    BY <1>2, <1>6, <1>8, Zenon DEF Mention
  <2>3. Here.reg = p
    BY OperandKinds DEF Here
  <2>4. i.op = "alloca" /\ j.op = "store" /\ j.args[1] = v /\ j.args[2] = Here
    BY DEF Instruction
  <2> HIDE DEF i, j
  <2>5. /\ Writes
        /\ Len(code'[at]) = L + 2
        /\ code'[at][L + 1] = i
        /\ code'[at][L + 2] = j
    BY <1>1, <2>1, EmitTwo, Zenon
  <2>6. Grows
    BY <2>5, WritesGrows
  <2>7. /\ at \in DOMAIN code' /\ L + 1 \in DOMAIN code'[at] /\ L + 2 \in DOMAIN code'[at]
    <3>1. DOMAIN code'[at] = 1 .. Len(code'[at])
      BY <1>1, <2>6, Lengths
    <3>2. L + 1 \in 1 .. L + 2 /\ L + 2 \in 1 .. L + 2
      BY <1>1
    <3> QED
      BY <1>1, <2>5, <2>6, <3>1, <3>2 DEF Grows
  <2>8. /\ m.place[1] = at /\ m.place[2] = L + 1
    BY <1>1
  <2>0. PICK m1 : m1 = Execute(i, m)
    OBVIOUS
  <2>9. Steps(m, m1)
    BY <2>0, <2>5, <2>7, <2>8 DEF Steps
  <2>10. Becomes(m1, <<at, L + 1 + 1>>, m.registers, Put(m.stack, p, Undef))
    BY <1>1, <2>0, <2>4, Executes
  <2>11. /\ IsMachine(m1) /\ m1.place = <<at, L + 1 + 1>> /\ m1.registers = m.registers
         /\ m1.stack = Put(m.stack, p, Undef)
    BY <2>10 DEF Becomes
  <2>12. m1.place[1] = at /\ m1.place[2] = L + 2
    BY <1>1, <2>11
  <2>24. PICK m2 : m2 = Execute(j, m1)
    OBVIOUS
  <2>13. Steps(m1, m2)
    BY <2>5, <2>7, <2>12, <2>24 DEF Steps
  <2>14. Held(m1, v) = x
    BY <1>4, <2>11, HeldSame
  <2>15. Becomes(m2, <<at, L + 1 + 1 + 1>>, m1.registers, Put(m1.stack, Here.reg, Held(m1, v)))
    BY <2>4, <2>11, <2>24, Executes
  <2> HIDE DEF x, v
  <2>16. /\ IsMachine(m2) /\ m2.place = <<at, L + 1 + 1 + 1>>
         /\ m2.stack = Put(m1.stack, p, x)
    BY <2>3, <2>14, <2>15 DEF Becomes
  <2>17. p \notin DOMAIN m.stack
    <3>1. ASSUME NEW B \in DOMAIN code, NEW k \in 1 .. Len(code[B])
          PROVE  <<B, k>> # p
      <4>1. Len(code[B]) \in Nat
        BY <2>6, Lengths
      <4> QED
        BY <4>1
    <3> HIDE DEF p
    <3> QED
      BY <1>1, <3>1 DEF Stacked
  <2> HIDE DEF p
  <2>18. /\ DOMAIN m2.stack \subseteq DOMAIN m.stack \cup {p}
         /\ p \in DOMAIN m2.stack /\ m2.stack[p] = x
         /\ \A q \in DOMAIN m.stack : q \in DOMAIN m2.stack /\ m2.stack[q] = m.stack[q]
    <3>1. /\ DOMAIN m1.stack = DOMAIN m.stack \cup {p}
          /\ \A q \in DOMAIN m.stack : m1.stack[q] = m.stack[q]
      BY <2>11, <2>17 DEF Put
    <3>2. /\ DOMAIN m2.stack = DOMAIN m1.stack \cup {p}
          /\ m2.stack[p] = x
          /\ \A q \in DOMAIN m1.stack : q # p => m2.stack[q] = m1.stack[q]
      BY <2>16 DEF Put
    <3> QED
      BY <2>17, <3>1, <3>2
  <2>19. env'[id] = x /\ \A other \in DOMAIN idMap : env'[other] = env[other]
    BY <1>3, <1>6, <1>8
  <2>20. Stacked(m2)'
    <3>1. Len(code'[at]) > Len(code[at])
      BY <1>1, <2>5
    <3>2. Here.reg \in DOMAIN m2.stack => m2.stack[Here.reg] = env'[id]
      BY <2>3, <2>18, <2>19
    <3>3. DOMAIN m2.stack \subseteq DOMAIN m.stack \cup {<<at, L + 1>>}
      BY <2>18 DEF p
    <3> QED
      BY <1>1, <1>5, <1>6, <1>8, <2>1, <2>2, <2>3, <2>6, <2>18, <2>19, <3>1, <3>2, <3>3, StackedNew
  <2>21. Agree(m2, values', meant')
    BY <1>2, NothingAgrees
  <2>22. m2.place = <<at, Len(code'[at]) + 1>>
    BY <1>1, <2>5, <2>16
  <2>23. Matches(m2)'
    BY <1>2, <2>16, <2>20, <2>21, <2>22, MatchesThen
  <2> QED
    BY <2>9, <2>13, <2>23 DEF Reaches
<1> QED
    BY <1>7, <1>8
-----------------------------------------------------------------------------
(* An immediate: nothing is executed.                                      *)
LEMMA ImmediateMatches ==
    ASSUME NEW nest, Structure(nest), Uses(nest), Interpreter,
           Reached, NEW m, Matches(m), NEW n \in Imm, Immediate(n)
    PROVE  \E m2 : Reaches(m, m2) /\ Matches(m2)'
<1>1. /\ IsMachine(m) /\ m.place = <<at, Len(code[at]) + 1>> /\ Stacked(m)
      /\ Agree(m, values, meant)
      /\ at \in DOMAIN code /\ IsSeq(code[at]) /\ Len(code[at]) \in Nat
      /\ IsSeq(values) /\ IsSeq(meant)
    BY SeqFacts DEF Matches, Placed, Structure, Typed, Interpreter
<1>2. /\ code' = code /\ open' = open /\ at' = at
      /\ idMap' = idMap /\ home' = home /\ env' = env
      /\ values' = Append(values, Const(n)) /\ meant' = Append(meant, n)
    BY DEF Immediate
<1>3. Grows /\ LiveIfs' = LiveIfs
    BY <1>2, NothingWritten, WritesGrows, SameOpenLive
<1>4. IsAppended(values', values, Const(n)) /\ IsAppended(meant', meant, n)
  <2>1. IsAppended(Append(values, Const(n)), values, Const(n))
    BY <1>1, Appended, Zenon
  <2>2. IsAppended(Append(meant, n), meant, n)
    BY <1>1, Appended, Zenon
  <2> QED
    BY <1>2, <2>1, <2>2, Zenon
<1>5. Held(m, Const(n)) = n /\ IsConst(Const(n))
    BY OperandKinds DEF Held
<1>6. Agree(m, values', meant')
  <2>1. \A i \in DOMAIN values : LocalValue(values[i])
    BY DEF Uses, Values
  <2> QED
    BY <1>1, <1>4, <1>5, <2>1, AgreeAppended
<1>7. Stacked(m)'
    BY <1>1, <1>2, <1>3, StackedStays
<1>8. Matches(m)'
    BY <1>1, <1>2, <1>6, <1>7, MatchesThen
<1> QED
    BY <1>8 DEF Reaches

(* The operators of two operands.                                          *)
LEMMA BinaryMatches ==
    ASSUME NEW nest, Structure(nest), Uses(nest), Interpreter,
           Reached, NEW m, Matches(m), NEW op \in Op, Binary(op)
    PROVE  \E m2 : Reaches(m, m2) /\ Matches(m2)'
<1> DEFINE L == Len(values)
           vs == Front(Front(values))
           ms == Front(Front(meant))
           a == Last(Front(values))
           b == Last(values)
           x == Compute(op, Last(Front(meant)), Last(meant))
<1>1. /\ L >= 2 /\ Operate(op, a, b, vs) /\ meant' = Append(ms, x)
      /\ open' = open /\ at' = at /\ idMap' = idMap /\ home' = home /\ env' = env
    BY DEF Binary
<1>2. /\ IsSeq(values) /\ IsSeq(meant) /\ Len(meant) = L
      /\ L \in Nat /\ DOMAIN values = 1 .. L
    BY SeqFacts DEF Structure, Typed, Interpreter
<1>3. /\ IsSeq(vs) /\ Len(vs) = L - 2 /\ \A n \in 1 .. L - 2 : vs[n] = values[n]
      /\ a = values[L - 1] /\ b = values[L]
    BY <1>1, <1>2, FrontLastTwo
<1>4. /\ IsSeq(ms) /\ Len(ms) = L - 2 /\ \A n \in 1 .. L - 2 : ms[n] = meant[n]
      /\ Last(Front(meant)) = meant[L - 1] /\ Last(meant) = meant[L]
    BY <1>1, <1>2, FrontLastTwo
<1>5. DOMAIN vs = 1 .. L - 2
    BY <1>3, SeqFacts
<1>6. \A i \in 1 .. L : /\ Held(m, values[i]) = meant[i]
                        /\ ~IsConst(values[i]) => values[i].reg \in DOMAIN m.registers
    BY DEF Matches, Agree
<1>7. \A i \in 1 .. L : LocalValue(values[i])
    BY <1>2 DEF Uses, Values
<1>8. x = Compute(op, meant[L - 1], meant[L])
    BY <1>4
<1> HIDE DEF L, vs, ms, a, b, x
<1>9. /\ L - 1 \in 1 .. L /\ L \in 1 .. L
      /\ \A i \in 1 .. L - 2 : i \in 1 .. L
    BY <1>1, <1>2
<1>10. Agree(m, vs, ms)
    BY <1>3, <1>4, <1>6, <1>9 DEF Agree
<1>11. \A i \in DOMAIN vs : LocalValue(vs[i])
    BY <1>3, <1>5, <1>7, <1>9
<1>12. Held(m, a) = meant[L - 1] /\ Held(m, b) = meant[L]
    BY <1>3, <1>6, <1>9
<1>13. x = Compute(op, Held(m, a), Held(m, b))
    BY <1>8, <1>12
<1>14. IsAppended(Append(ms, x), ms, x)
    BY <1>4, Appended, Zenon
<1>15. IsAppended(meant', ms, Compute(op, Held(m, a), Held(m, b)))
    BY <1>1, <1>13, <1>14
<1>16. op \notin {"ret", "br", "condbr", "alloca", "load", "store"}
    BY OpAssumption
<1> QED
    BY <1>1, <1>3, <1>10, <1>11, <1>15, <1>16, OperateMatches

(* The operators of one operand take the last value.                       *)
LEMMA LastValue ==
    ASSUME NEW nest, Structure(nest), Uses(nest), Interpreter, values # <<>>,
           NEW m, Agree(m, values, meant)
    PROVE  /\ IsSeq(Front(values)) /\ \A i \in DOMAIN Front(values) : LocalValue(Front(values)[i])
           /\ IsSeq(Front(meant)) /\ Agree(m, Front(values), Front(meant))
           /\ Held(m, Last(values)) = Last(meant)
<1>1. /\ IsSeq(values) /\ IsSeq(meant) /\ Len(meant) = Len(values)
    BY DEF Structure, Typed, Interpreter
<1>2. meant # <<>> /\ Len(values) \in Nat /\ DOMAIN values = 1 .. Len(values)
    BY <1>1, SeqFacts
<1> DEFINE L == Len(values)
           fv == Front(values)
           fm == Front(meant)
<1>3. /\ L \in Nat /\ L >= 1 /\ IsSeq(fv) /\ Len(fv) = L - 1
      /\ \A n \in 1 .. L - 1 : fv[n] = values[n]
      /\ Last(values) = values[L]
    BY <1>1, FrontLast
<1>4. /\ IsSeq(fm) /\ Len(fm) = L - 1
      /\ \A n \in 1 .. L - 1 : fm[n] = meant[n]
      /\ Last(meant) = meant[L]
    BY <1>1, <1>2, FrontLast
<1>5. DOMAIN fv = 1 .. L - 1
    BY <1>3, SeqFacts
<1> HIDE DEF fv, fm
<1>6. \A i \in 1 .. L : /\ Held(m, values[i]) = meant[i]
                        /\ ~IsConst(values[i]) => values[i].reg \in DOMAIN m.registers
    BY DEF Agree
<1> HIDE DEF L
<1>7. \A i \in 1 .. L - 1 : i \in 1 .. L
    BY <1>3
<1>8. Agree(m, fv, fm)
    BY <1>3, <1>4, <1>6, <1>7 DEF Agree
<1>9. \A i \in DOMAIN fv : LocalValue(fv[i])
  <2>1. \A i \in 1 .. L : LocalValue(values[i])
    BY <1>2 DEF Uses, Values, L
  <2> QED
    BY <1>3, <1>5, <1>7, <2>1
<1>10. Held(m, Last(values)) = Last(meant)
    BY <1>3, <1>4, <1>6
<1> QED
    BY <1>3, <1>4, <1>8, <1>9, <1>10 DEF fv, fm

(* The operators of one operand.                                           *)
LEMMA NegateMatches ==
    ASSUME NEW nest, Structure(nest), Uses(nest), Interpreter,
           Reached, NEW m, Matches(m), Negate \/ Not
    PROVE  \E m2 : Reaches(m, m2) /\ Matches(m2)'
<1>1. /\ values # <<>>
      /\ open' = open /\ at' = at /\ idMap' = idMap /\ home' = home /\ env' = env
    BY DEF Negate, Not
<1>2. Agree(m, values, meant)
    BY DEF Matches
<1> DEFINE fv == Front(values)
           fm == Front(meant)
           v == Last(values)
           z == Const(0)
<1>3. /\ IsSeq(fv) /\ \A i \in DOMAIN fv : LocalValue(fv[i])
      /\ IsSeq(fm) /\ Agree(m, fv, fm)
      /\ Held(m, v) = Last(meant)
    BY <1>1, <1>2, LastValue
<1>4. Held(m, z) = 0
    BY OperandKinds DEF Held
<1>5. CASE Negate
  <2>1. /\ Operate("sub", z, v, fv)
        /\ meant' = Append(fm, Compute("sub", 0, Last(meant)))
    BY <1>5 DEF Negate
  <2> HIDE DEF fv, fm, v, z
  <2>2. Compute("sub", 0, Last(meant)) = Compute("sub", Held(m, z), Held(m, v))
    BY <1>3, <1>4
  <2> DEFINE x == Compute("sub", Held(m, z), Held(m, v))
  <2>3. meant' = Append(fm, x)
    BY <2>1, <2>2
  <2> HIDE DEF x
  <2>4. IsAppended(Append(fm, x), fm, x)
    BY <1>3, Appended, Zenon
  <2>5. IsAppended(meant', fm, Compute("sub", Held(m, z), Held(m, v)))
    BY <2>3, <2>4 DEF x
  <2> QED
    BY <1>1, <1>3, <2>1, <2>5, OperateMatches
<1>6. CASE Not
  <2>1. /\ Operate("eq", v, z, fv)
        /\ meant' = Append(fm, Compute("eq", Last(meant), 0))
    BY <1>6 DEF Not
  <2> HIDE DEF fv, fm, v, z
  <2>2. Compute("eq", Last(meant), 0) = Compute("eq", Held(m, v), Held(m, z))
    BY <1>3, <1>4
  <2> DEFINE x == Compute("eq", Held(m, v), Held(m, z))
  <2>3. meant' = Append(fm, x)
    BY <2>1, <2>2
  <2> HIDE DEF x
  <2>4. IsAppended(Append(fm, x), fm, x)
    BY <1>3, Appended, Zenon
  <2>5. IsAppended(meant', fm, Compute("eq", Held(m, v), Held(m, z)))
    BY <2>3, <2>4 DEF x
  <2> QED
    BY <1>1, <1>3, <2>1, <2>5, OperateMatches
<1> QED
    BY <1>5, <1>6

(* Expressions and assignments, reached or not.                            *)
LEMMA OrdinaryMatches ==
    ASSUME NEW nest, Structure(nest), Uses(nest), Interpreter, Ordinary,
           status' = "parsing", ~escaped', NEW m, Matches(m)
    PROVE  \E m2 : Reaches(m, m2) /\ Matches(m2)'
<1>1. CASE ~Reached
  <2>1. Matches(m)'
    BY <1>1, IdleOrdinary
  <2> QED
    BY <2>1 DEF Reaches
<1>2. CASE Reached
    BY <1>2, IdentifierMatches, AssignMatches, ImmediateMatches, BinaryMatches, NegateMatches
        DEF Ordinary
<1> QED
    BY <1>1, <1>2
-----------------------------------------------------------------------------
(* An if statement makes the code grow.                                    *)
LEMMA IfGrows ==
    ASSUME NEW nest, Structure(nest), If
    PROVE  /\ Grows /\ at \in DOMAIN code /\ Len(code) \in Nat /\ DOMAIN code = 1 .. Len(code)
           /\ Len(code) + 1 \in DOMAIN code'
<1> DEFINE L == Len(code)
           i == Instruction("condbr", values, <<L + 1, L + 2>>)
<1>1. IsSeq(code) /\ at \in DOMAIN code /\ IsSeq(code[at])
    BY DEF Structure, Typed
<1>2. Len(code[at]) \in Nat /\ L \in Nat /\ DOMAIN code = 1 .. L
    BY <1>1, SeqFacts
<1>3. /\ IsSeq(code') /\ Len(code') = L + 2
      /\ code'[L + 1] = <<>> /\ code'[L + 2] = <<>>
      /\ IsAppended(code'[at], code[at], i)
      /\ \A b \in DOMAIN code \ {at} : code'[b] = code[b]
    BY IfCode
<1> HIDE DEF i
<1>4. DOMAIN code' = 1 .. L + 2
    BY <1>2, <1>3, SeqFacts
<1>5. /\ IsSeq(code'[at]) /\ Len(code'[at]) >= Len(code[at])
      /\ \A n \in 1 .. Len(code[at]) : code'[at][n] = code[at][n]
    BY <1>2, <1>3 DEF IsAppended
<1>6. \A b \in DOMAIN code' : b \in DOMAIN code \/ b = L + 1 \/ b = L + 2
    BY <1>2, <1>4
<1>7. \A b \in DOMAIN code : IsSeq(code[b])
    BY DEF Structure, Typed
<1>8. \A b \in DOMAIN code' : IsSeq(code'[b])
    BY <1>3, <1>5, <1>6, <1>7, EmptyIsSeq
<1>9. DOMAIN code \subseteq DOMAIN code' /\ L + 1 \in DOMAIN code'
    BY <1>2, <1>4
<1> QED
    BY <1>1, <1>2, <1>3, <1>5, <1>6, <1>8, <1>9 DEF Grows

(* A statement is opened.                                                  *)
LEMMA Opens ==
    ASSUME IsSeq(open), NEW x, IsAppended(open', open, x)
    PROVE  /\ Len(open) \in Nat /\ DOMAIN open = 1 .. Len(open)
           /\ DOMAIN open' = 1 .. Len(open) + 1
           /\ open'[Len(open) + 1] = x /\ \A n \in 1 .. Len(open) : open'[n] = open[n]
           /\ Reached' <=> Reached /\ x.taken
           /\ LiveIfs' \subseteq LiveIfs \cup ({x.bb} \ {NoBlock})
           /\ ~Reached => LiveIfs' \subseteq LiveIfs
<1> DEFINE N == Len(open)
           live == {k \in DOMAIN open : \A m \in 1 .. k : open[m].taken}
           next == {k \in DOMAIN open' : \A m \in 1 .. k : open'[m].taken}
<1>1. /\ N \in Nat /\ DOMAIN open = 1 .. N /\ DOMAIN open' = 1 .. N + 1
      /\ open'[N + 1] = x /\ \A n \in 1 .. N : open'[n] = open[n]
    BY SeqFacts DEF IsAppended
<1> HIDE DEF N
<1>2. Reached' <=> Reached /\ x.taken
  <2>1. 1 .. N + 1 = 1 .. N \cup {N + 1}
    BY <1>1
  <2>2. (\A n \in 1 .. N + 1 : open'[n].taken) <=> (\A n \in 1 .. N : open'[n].taken) /\ open'[N + 1].taken
    BY <2>1
  <2>3. (\A n \in 1 .. N : open'[n].taken) <=> (\A n \in 1 .. N : open[n].taken)
    BY <1>1
  <2> QED
    BY <1>1, <2>2, <2>3, Zenon DEF Reached
<1>3. ASSUME NEW k \in next
      PROVE  k \in live \/ (k = N + 1 /\ Reached)
  <2>1. k \in 1 .. N \/ k = N + 1
    BY <1>1
  <2>2. \A m \in 1 .. k : open'[m].taken
    OBVIOUS
  <2>3. CASE k \in 1 .. N
    <3>1. \A m \in 1 .. k : m \in 1 .. N
      BY <1>1, <2>3
    <3> QED
      BY <1>1, <2>2, <2>3, <3>1
  <2>4. CASE k = N + 1
    <3>1. \A m \in 1 .. N : m \in 1 .. N + 1
      BY <1>1
    <3> QED
      BY <1>1, <2>2, <2>4, <3>1 DEF Reached
  <2> QED
    BY <2>1, <2>3, <2>4
<1>4. \A k \in live : open'[k] = open[k]
    BY <1>1
<1>5. /\ LiveIfs = {open[n].bb : n \in live} \ {NoBlock}
      /\ LiveIfs' = {open'[n].bb : n \in next} \ {NoBlock}
    BY DEF LiveIfs
<1> HIDE DEF live, next
<1>6. /\ LiveIfs' \subseteq LiveIfs \cup ({x.bb} \ {NoBlock})
      /\ ~Reached => LiveIfs' \subseteq LiveIfs
    BY <1>1, <1>3, <1>4, <1>5
<1> QED
    BY <1>1, <1>2, <1>6 DEF N

(* An if statement: the machine goes into the body, or waits at the join.  *)
LEMMA IfMatches ==
    ASSUME NEW nest, Structure(nest), Uses(nest), Interpreter, If, NEW m, Matches(m)
    PROVE  \E m2 : Reaches(m, m2) /\ Matches(m2)'
<1> DEFINE L == Len(code)
           N == Len(open)
           i == Instruction("condbr", values, <<L + 1, L + 2>>)
           x == [bb |-> L + 2, taken |-> meant[1] # 0]
<1>1. /\ IsMachine(m) /\ Placed(m) /\ Stacked(m) /\ IsSeq(open)
      /\ Reached => Agree(m, values, meant)
    BY DEF Matches, Structure, Typed
<1>2. /\ Grows /\ at \in DOMAIN code /\ L \in Nat /\ DOMAIN code = 1 .. L
    BY IfGrows
<1>3. /\ Len(values) = 1 /\ values' = <<>> /\ meant' = <<>>
      /\ idMap' = idMap /\ home' = home /\ env' = env
    BY DEF If
<1>4. /\ code'[L + 1] = <<>> /\ code'[L + 2] = <<>> /\ at' = L + 1
      /\ IsAppended(code'[at], code[at], i)
      /\ IsAppended(open', open, x)
    BY IfCode
<1>5. x.bb = L + 2 /\ (x.taken <=> meant[1] # 0)
    OBVIOUS
<1>6. i.op = "condbr" /\ i.args = values /\ i.to[1] = L + 1 /\ i.to[2] = L + 2
    BY DEF Instruction
<1> HIDE DEF i, x
<1>7. /\ N \in Nat /\ DOMAIN open = 1 .. N /\ DOMAIN open' = 1 .. N + 1
      /\ open'[N + 1] = x /\ \A n \in 1 .. N : open'[n] = open[n]
      /\ Reached' <=> Reached /\ x.taken
      /\ LiveIfs' \subseteq LiveIfs \cup {L + 2}
    BY <1>1, <1>4, <1>5, Opens
<1>8. \A id \in DOMAIN idMap : home[id] \subseteq DOMAIN code
    BY DEF Uses, Places, Structure, Typed, Nested
<1>9. L + 2 \notin DOMAIN code
    BY <1>2
<1>10. \A id \in DOMAIN idMap : home[id] \subseteq LiveIfs' => home[id] \subseteq LiveIfs
    BY <1>7, <1>8, <1>9
<1>11. ASSUME NEW m2, m2.stack = m.stack PROVE Stacked(m2)'
    BY <1>1, <1>2, <1>3, <1>10, <1>11, StackedStays
<1>12. L + 2 # NoBlock
    BY <1>2, NoBlockAssumption
<1>13. CASE Reached
  <2>0. PICK m2 : m2 = Execute(i, m)
    OBVIOUS
  <2>1. Steps(m, m2) /\ m.place = <<at, Len(code[at]) + 1>>
    BY <1>2, <1>4, <1>13, <2>0, OneStep
  <2>2. Held(m, i.args[1]) = meant[1]
    BY <1>1, <1>3, <1>6, <1>13 DEF Agree
  <2>3. Becomes(m2, <<IF meant[1] # 0 THEN L + 1 ELSE L + 2, 1>>, m.registers, m.stack)
    BY <1>1, <1>6, <2>0, <2>1, <2>2, Executes
  <2>4. IsMachine(m2) /\ m2.stack = m.stack
    BY <2>3 DEF Becomes
  <2>5. CASE x.taken
    <3>1. m2.place = <<L + 1, 1>>
      BY <1>5, <2>3, <2>5 DEF Becomes
    <3>2. Len(code'[at']) + 1 = 1
      BY <1>4
    <3>3. m2.place = <<at', Len(code'[at']) + 1>>
      BY <1>4, <3>1, <3>2
    <3>4. Placed(m2)'
      BY <1>7, <1>13, <2>5, <3>3 DEF Placed
    <3>5. Agree(m2, values', meant')
      BY <1>3, NothingAgrees
    <3>6. Agree(m2, values, meant)'
      BY <3>5 DEF Agree, Held, IsConst
    <3>7. Matches(m2)'
      BY <1>11, <2>4, <3>4, <3>6 DEF Matches, IsMachine
    <3> QED
      BY <2>1, <3>7 DEF Reaches
  <2>6. CASE ~x.taken
    <3>1. m2.place = <<L + 2, 1>>
      BY <1>5, <2>3, <2>6 DEF Becomes
    <3>2. /\ N + 1 \in DOMAIN open' /\ ~open'[N + 1].taken
          /\ open'[N + 1].bb # NoBlock /\ m2.place = <<open'[N + 1].bb, 1>>
      BY <1>5, <1>7, <1>12, <2>6, <3>1
    <3>3. \A k \in 1 .. N + 1 - 1 : open'[k].taken
      BY <1>7, <1>13 DEF Reached
    <3>4. ~Reached'
      BY <1>7, <2>6
    <3>5. Placed(m2)'
      BY <3>2, <3>3, <3>4 DEF Placed
    <3>6. Matches(m2)'
      BY <1>11, <2>4, <3>4, <3>5 DEF Matches, IsMachine
    <3> QED
      BY <2>1, <3>6 DEF Reaches
  <2> QED
    BY <2>5, <2>6
<1>14. CASE ~Reached
  <2>1. PICK f \in DOMAIN open :
        /\ ~open[f].taken /\ \A k \in 1 .. f - 1 : open[k].taken
        /\ open[f].bb # NoBlock /\ m.place = <<open[f].bb, 1>>
    BY <1>1, <1>14 DEF Placed
  <2>2. f \in 1 .. N /\ f \in DOMAIN open' /\ \A k \in 1 .. f - 1 : k \in 1 .. N
    BY <1>7
  <2>3. /\ ~open'[f].taken /\ \A k \in 1 .. f - 1 : open'[k].taken
        /\ open'[f].bb # NoBlock /\ m.place = <<open'[f].bb, 1>>
    BY <1>7, <2>1, <2>2
  <2>4. ~Reached'
    BY <1>7, <1>14
  <2>5. Placed(m)'
    BY <2>2, <2>3, <2>4 DEF Placed
  <2>6. Matches(m)'
    BY <1>1, <1>11, <2>4, <2>5 DEF Matches, IsMachine
  <2> QED
    BY <2>6 DEF Reaches
<1> QED
    BY <1>13, <1>14

(* A while statement that is not reached.                                  *)
LEMMA WhileMatches ==
    ASSUME NEW nest, Structure(nest), While, ~Reached, NEW m, Matches(m)
    PROVE  Matches(m)'
<1> DEFINE N == Len(open)
           x == [bb |-> NoBlock, taken |-> TRUE]
<1>1. IsMachine(m) /\ Placed(m) /\ Stacked(m) /\ IsSeq(open)
    BY DEF Matches, Structure, Typed
<1>2. /\ open' = Append(open, x) /\ code' = code
      /\ idMap' = idMap /\ home' = home /\ env' = env
    BY DEF While
<1> HIDE DEF x
<1>3. IsAppended(open', open, x)
  <2>1. IsAppended(Append(open, x), open, x)
    BY <1>1, Appended, Zenon
  <2> QED
    BY <1>2, <2>1, Zenon
<1>4. /\ N \in Nat /\ DOMAIN open = 1 .. N /\ DOMAIN open' = 1 .. N + 1
      /\ \A n \in 1 .. N : open'[n] = open[n]
      /\ ~Reached' /\ LiveIfs' \subseteq LiveIfs
    BY <1>1, <1>3, Opens
<1>5. Grows
    BY <1>2, NothingWritten, WritesGrows
<1>6. Stacked(m)'
    BY <1>1, <1>2, <1>4, <1>5, StackedStays
<1>7. PICK f \in DOMAIN open :
        /\ ~open[f].taken /\ \A k \in 1 .. f - 1 : open[k].taken
        /\ open[f].bb # NoBlock /\ m.place = <<open[f].bb, 1>>
    BY <1>1 DEF Placed
<1>8. f \in 1 .. N /\ f \in DOMAIN open' /\ \A k \in 1 .. f - 1 : k \in 1 .. N
    BY <1>4
<1>9. /\ ~open'[f].taken /\ \A k \in 1 .. f - 1 : open'[k].taken
      /\ open'[f].bb # NoBlock /\ m.place = <<open'[f].bb, 1>>
    BY <1>4, <1>7, <1>8
<1>10. Placed(m)'
    BY <1>4, <1>8, <1>9 DEF Placed
<1> QED
    BY <1>1, <1>4, <1>6, <1>10 DEF Matches, IsMachine
-----------------------------------------------------------------------------
(* The end of a body: the machine goes to the join, or is there already.   *)
LEMMA EndBodyMatches ==
    ASSUME NEW nest, Structure(nest), Uses(nest), Interpreter, status = "parsing", EndBody,
           NEW m, Matches(m)
    PROVE  \E m2 : Reaches(m, m2) /\ Matches(m2)'
<1> DEFINE N == Len(open)
           j == Last(open).bb
           i == Instruction("br", <<>>, <<j>>)
           live == {k \in DOMAIN open : \A n \in 1 .. k : open[n].taken}
           next == {k \in DOMAIN open' : \A n \in 1 .. k : open'[n].taken}
<1>1. /\ IsMachine(m) /\ Placed(m) /\ Stacked(m) /\ IsSeq(open) /\ IsSeq(code)
      /\ at \in DOMAIN code
    BY DEF Matches, Structure, Typed
<1>2. /\ values = <<>> /\ values' = <<>> /\ meant' = meant
      /\ idMap' = idMap /\ home' = home /\ env' = env
    BY DEF EndBody, source
<1>3. meant' = <<>>
  <2>1. IsSeq(meant) /\ Len(meant) = Len(values)
    BY DEF Interpreter
  <2>2. Len(values) = 0
    BY <1>2, EmptyIsSeq
  <2> QED
    BY <1>2, <2>1, <2>2, SeqFacts
<1>4. /\ N \in Nat /\ N >= 1 /\ N \in DOMAIN open
      /\ DOMAIN open = 1 .. N /\ DOMAIN open' = 1 .. N - 1
      /\ \A n \in 1 .. N - 1 : open'[n] = open[n]
      /\ Last(open) = open[N]
    BY Closes
<1> HIDE DEF N
<1>5. LiveIfs' \subseteq LiveIfs
  <2>1. \A k \in next : k \in live /\ open'[k] = open[k]
    <3>1. ASSUME NEW k \in next PROVE k \in live /\ open'[k] = open[k]
      <4>1. k \in 1 .. N - 1 /\ \A n \in 1 .. k : open'[n].taken
        BY <1>4
      <4>2. k \in 1 .. N /\ \A n \in 1 .. k : n \in 1 .. N - 1
        BY <1>4, <4>1
      <4> QED
        BY <1>4, <4>1, <4>2
    <3> QED
      BY <3>1
  <2>2. /\ LiveIfs = {open[n].bb : n \in live} \ {NoBlock}
        /\ LiveIfs' = {open'[n].bb : n \in next} \ {NoBlock}
    BY DEF LiveIfs
  <2> HIDE DEF live, next
  <2> QED
    BY <2>1, <2>2
<1> HIDE DEF live, next
<1>6. Reached => Reached'
  <2>1. \A n \in 1 .. N - 1 : n \in 1 .. N
    BY <1>4
  <2> QED
    BY <1>4, <2>1 DEF Reached
<1>7. ASSUME NEW f \in 1 .. N - 1, ~open[f].taken, \A k \in 1 .. f - 1 : open[k].taken,
             open[f].bb # NoBlock, m.place = <<open[f].bb, 1>>
      PROVE  Placed(m)'
  <2>1. f \in DOMAIN open' /\ \A k \in 1 .. f - 1 : k \in 1 .. N - 1
    BY <1>4
  <2>2. /\ ~open'[f].taken /\ \A k \in 1 .. f - 1 : open'[k].taken
        /\ open'[f].bb # NoBlock /\ m.place = <<open'[f].bb, 1>>
    BY <1>4, <1>7, <2>1
  <2>3. ~Reached'
    BY <2>1, <2>2 DEF Reached
  <2> QED
    BY <2>1, <2>2, <2>3 DEF Placed
<1>8. ASSUME NEW m2, Agree(m2, values', meant') PROVE Agree(m2, values, meant)'
    BY <1>8 DEF Agree, Held, IsConst
<1>9. ASSUME NEW m2, IsMachine(m2), m2.stack = m.stack, Placed(m2)', Grows
      PROVE  Matches(m2)'
  <2>1. Stacked(m2)'
    BY <1>1, <1>2, <1>5, <1>9, StackedStays
  <2>2. Agree(m2, values, meant)'
    BY <1>2, <1>3, <1>8, NothingAgrees
  <2> QED
    BY <1>9, <2>1, <2>2 DEF Matches, IsMachine
<1>10. CASE j = NoBlock
  <2>1. code' = code /\ at' = at
    BY <1>10 DEF EndBody
  <2>2. Grows
    BY <2>1, NothingWritten, WritesGrows
  <2>3. Placed(m)'
    <3>1. CASE Reached
      BY <1>1, <1>6, <2>1, <3>1 DEF Placed
    <3>2. CASE ~Reached
      <4>1. PICK f \in DOMAIN open :
            /\ ~open[f].taken /\ \A k \in 1 .. f - 1 : open[k].taken
            /\ open[f].bb # NoBlock /\ m.place = <<open[f].bb, 1>>
        BY <1>1, <3>2 DEF Placed
      <4>2. f # N
        BY <1>4, <1>10, <4>1
      <4>3. f \in 1 .. N - 1
        BY <1>4, <4>2
      <4> QED
        BY <1>7, <4>1, <4>3
    <3> QED
      BY <3>1, <3>2
  <2>4. Matches(m)'
    BY <1>1, <1>9, <2>2, <2>3
  <2> QED
    BY <2>4 DEF Reaches
<1>11. CASE j # NoBlock
  <2>1. /\ Writes /\ IsAppended(code'[at], code[at], i)
        /\ at' = j /\ at' \in DOMAIN code \ {at} /\ code[at'] = <<>>
    BY <1>11, EndIfKeepsStructure
  <2>2. Grows
    BY <2>1, WritesGrows
  <2>3. code'[at'] = <<>>
    BY <2>1 DEF Writes
  <2>4. Len(code'[at']) + 1 = 1
    BY <2>3
  <2>5. i.op = "br" /\ i.to[1] = j
    BY DEF Instruction
  <2> HIDE DEF i
  <2>6. CASE Reached
    <3>0. PICK m2 : m2 = Execute(i, m)
      OBVIOUS
    <3>1. Steps(m, m2) /\ m.place = <<at, Len(code[at]) + 1>>
      BY <2>1, <2>2, <2>6, <3>0, OneStep
    <3>2. Becomes(m2, <<j, 1>>, m.registers, m.stack)
      BY <1>1, <2>5, <3>0, <3>1, Executes
    <3>3. IsMachine(m2) /\ m2.stack = m.stack /\ m2.place = <<j, 1>>
      BY <3>2 DEF Becomes
    <3>4. m2.place = <<at', Len(code'[at']) + 1>>
      BY <2>1, <2>4, <3>3
    <3>5. Placed(m2)'
      BY <1>6, <2>6, <3>4 DEF Placed
    <3>6. Matches(m2)'
      BY <1>9, <2>2, <3>3, <3>5
    <3> QED
      BY <3>1, <3>6 DEF Reaches
  <2>7. CASE ~Reached
    <3>1. PICK f \in DOMAIN open :
          /\ ~open[f].taken /\ \A k \in 1 .. f - 1 : open[k].taken
          /\ open[f].bb # NoBlock /\ m.place = <<open[f].bb, 1>>
      BY <1>1, <2>7 DEF Placed
    <3>2. f \in 1 .. N - 1 \/ f = N
      BY <1>4
    <3>3. Placed(m)'
      <4>1. CASE f \in 1 .. N - 1
        BY <1>7, <3>1, <4>1
      <4>2. CASE f = N
        <5>1. m.place = <<j, 1>>
          BY <1>4, <3>1, <4>2
        <5>2. m.place = <<at', Len(code'[at']) + 1>>
          BY <2>1, <2>4, <5>1
        <5>3. Reached'
          BY <1>4, <3>1, <4>2 DEF Reached
        <5> QED
          BY <5>2, <5>3 DEF Placed
      <4> QED
        BY <3>2, <4>1, <4>2
    <3>4. Matches(m)'
      BY <1>1, <1>9, <2>2, <3>3
    <3> QED
      BY <3>4 DEF Reaches
  <2> QED
    BY <2>6, <2>7
<1> QED
    BY <1>10, <1>11

(* The machine is at a ret that hands the result on.                       *)
AtReturn(m) ==
    InCode(m.place) /\ At(m.place).op = "ret" /\ Held(m, At(m.place).args[1]) = result

(* The return statement: the machine has come to its ret.                  *)
LEMMA ReturnMatches ==
    ASSUME NEW nest, Structure(nest), status = "parsing", Return, NEW m, Matches(m)
    PROVE  AtReturn(m)'
<1> DEFINE i == Instruction("ret", values, <<>>)
           p == m.place
<1>1. /\ Len(values) = 1 /\ open = <<>> /\ result' = meant[1]
    BY DEF Return
<1>2. Writes /\ IsAppended(code'[at], code[at], i)
    BY ReturnKeepsStructure
<1>3. Grows
    BY <1>2, WritesGrows
<1>4. Reached
    BY <1>1 DEF Reached
<1>5. i.op = "ret" /\ i.args = values
    BY DEF Instruction
<1> HIDE DEF i
<1>6. IsMachine(m) /\ p = <<at, Len(code[at]) + 1>> /\ Steps(m, Execute(i, m))
    BY <1>2, <1>3, <1>4, OneStep
<1>7. p[1] = at /\ p[2] = Len(code[at]) + 1
    BY <1>6
<1>8. p[1] \in DOMAIN code' /\ p[2] \in DOMAIN code'[p[1]]
    BY <1>6 DEF Steps
<1> HIDE DEF p
<1>9. code'[p[1]][p[2]] = i
    BY <1>2, <1>7 DEF IsAppended
<1>10. Held(m, values[1]) = result'
    BY <1>1, <1>4 DEF Matches, Agree
<1>11. InCode(m.place)' /\ At(m.place)' = i
    BY <1>8, <1>9 DEF InCode, At, p
<1>12. Held(m, i.args[1]) = result'
    BY <1>5, <1>10
<1>13. (At(m.place).op)' = "ret" /\ Held(m, At(m.place).args[1])' = result'
    BY <1>5, <1>11, <1>12 DEF Held, IsConst
<1> QED
    BY <1>11, <1>13 DEF AtReturn

(* The interpreter keeps a value for each on the parser's stack.           *)
LEMMA InterpreterStays ==
    ASSUME NEW nest, Structure(nest), Interpreter, status' = "parsing",
           Ordinary \/ If \/ While \/ EndBody
    PROVE  Interpreter'
<1>1. /\ IsSeq(values) /\ IsSeq(meant) /\ Len(meant) = Len(values)
      /\ DOMAIN env = Id /\ DOMAIN idMap \subseteq Id /\ Len(values) \in Nat
    BY SeqFacts DEF Structure, Typed, Interpreter
<1>2. ASSUME NEW vs, NEW v, IsAppended(values', vs, v), NEW ms, NEW x, IsSeq(ms), Len(ms) = Len(vs),
             meant' = Append(ms, x)
      PROVE  IsSeq(meant') /\ Len(meant') = Len(values')
  <2>1. IsAppended(Append(ms, x), ms, x)
    BY <1>2, Appended, Zenon
  <2> QED
    BY <1>2, <2>1 DEF IsAppended
<1>3. values' = <<>> /\ meant' = <<>> => IsSeq(meant') /\ Len(meant') = Len(values')
    BY EmptyIsSeq
<1>4. ASSUME NEW v, NEW x, values' = Append(values, v), meant' = Append(meant, x)
      PROVE  IsSeq(meant') /\ Len(meant') = Len(values')
  <2>1. IsAppended(Append(values, v), values, v)
    BY <1>1, Appended, Zenon
  <2> QED
    BY <1>1, <1>2, <1>4, <2>1
<1>5. ASSUME NEW op, NEW a, NEW b, NEW vs, IsSeq(vs), Operate(op, a, b, vs),
             NEW ms, NEW x, IsSeq(ms), Len(ms) = Len(vs), meant' = Append(ms, x)
      PROVE  IsSeq(meant') /\ Len(meant') = Len(values')
  <2>1. \E v : IsAppended(values', vs, v)
    BY <1>5, OperateFacts
  <2> QED
    BY <1>2, <1>5, <2>1
<1>6. CASE Ordinary
  <2>1. ASSUME NEW id \in Id, Identifier(id) PROVE Interpreter'
    <3>1. /\ \E v, x : values' = Append(values, v) /\ meant' = Append(meant, x)
          /\ env' = env /\ idMap' = idMap
      BY <2>1 DEF Identifier, Reduce
    <3> QED
      BY <1>1, <1>4, <3>1 DEF Interpreter
  <2>2. ASSUME NEW id \in Id, Assign(id) PROVE Interpreter'
    <3>1. values' = <<>> /\ meant' = <<>>
      BY <2>2 DEF Assign
    <3>2. env' = env \/ \E x : env' = [env EXCEPT ![id] = x]
      BY <2>2 DEF Assign
    <3>3. DOMAIN env' = Id
      BY <1>1, <3>2
    <3>4. idMap' = idMap \/ \E x : idMap' = Put(idMap, id, x)
      BY <2>2 DEF Assign
    <3>5. DOMAIN idMap' \subseteq Id
      BY <1>1, <2>2, <3>4 DEF Put
    <3> QED
      BY <1>3, <3>1, <3>3, <3>5 DEF Interpreter
  <2>3. ASSUME NEW n \in Imm, Immediate(n) PROVE Interpreter'
    <3>1. /\ values' = Append(values, Const(n)) /\ meant' = Append(meant, n)
          /\ env' = env /\ idMap' = idMap
      BY <2>3 DEF Immediate
    <3> QED
      BY <1>1, <1>4, <3>1 DEF Interpreter
  <2>4. ASSUME NEW op \in Op, Binary(op) PROVE Interpreter'
    <3>1. /\ Len(values) >= 2 /\ env' = env /\ idMap' = idMap
          /\ \E a, b : Operate(op, a, b, Front(Front(values)))
          /\ \E x : meant' = Append(Front(Front(meant)), x)
      BY <2>4 DEF Binary
    <3>2. /\ IsSeq(Front(Front(values))) /\ IsSeq(Front(Front(meant)))
          /\ Len(Front(Front(values))) = Len(values) - 2
          /\ Len(Front(Front(meant))) = Len(values) - 2
      BY <1>1, <3>1, FrontLastTwo
    <3>3. IsSeq(meant') /\ Len(meant') = Len(values')
      BY <1>5, <3>1, <3>2
    <3> QED
      BY <1>1, <3>1, <3>3 DEF Interpreter
  <2>5. ASSUME Negate \/ Not PROVE Interpreter'
    <3>1. /\ values # <<>> /\ env' = env /\ idMap' = idMap
          /\ \E op, a, b : Operate(op, a, b, Front(values))
          /\ \E x : meant' = Append(Front(meant), x)
      BY <2>5 DEF Negate, Not
    <3>2. meant # <<>>
      BY <1>1, <3>1, SeqFacts
    <3>3. /\ IsSeq(Front(values)) /\ IsSeq(Front(meant))
          /\ Len(Front(values)) = Len(values) - 1 /\ Len(Front(meant)) = Len(values) - 1
      BY <1>1, <3>1, <3>2, FrontLast
    <3>4. IsSeq(meant') /\ Len(meant') = Len(values')
      BY <1>5, <3>1, <3>3
    <3> QED
      BY <1>1, <3>1, <3>4 DEF Interpreter
  <2> QED
    BY <1>6, <2>1, <2>2, <2>3, <2>4, <2>5 DEF Ordinary
<1>7. CASE If \/ While
  <2>1. values' = <<>> /\ meant' = <<>> /\ env' = env /\ idMap' = idMap
    BY <1>7 DEF If, While
  <2> QED
    BY <1>1, <1>3, <2>1 DEF Interpreter
<1>8. CASE EndBody
  <2>1. values' = values /\ meant' = meant /\ env' = env /\ idMap' = idMap
    BY <1>8 DEF EndBody, source
  <2> QED
    BY <1>1, <2>1 DEF Interpreter
<1> QED
    BY <1>6, <1>7, <1>8
-----------------------------------------------------------------------------
(***************************************************************************)
(* The machine follows the interpreter, in two instructions for each       *)
(* reduction at most.                                                      *)
(***************************************************************************)
Followed == \E k \in 0 .. 2 * reductions : \E M : Runs(M, k) /\ Matches(M[k])

Returned == \E k \in 0 .. 2 * reductions : \E M : Runs(M, k) /\ AtReturn(M[k])

SimInv ==
    /\ reductions \in Nat
    /\ status = "parsing" => Interpreter
    /\ defined /\ ~escaped /\ status = "parsing" => Followed
    /\ defined /\ ~escaped /\ status = "accepted" => Returned

(* Before anything is read the machine is at the start of the entry.       *)
LEMMA InitSim == ExprInit => SimInv
<1> SUFFICES ASSUME ExprInit PROVE SimInv
    OBVIOUS
<1>1. /\ code = << <<>> >> /\ at = 1 /\ idMap = <<>> /\ values = <<>> /\ open = <<>>
      /\ status = "parsing" /\ home = <<>> /\ meant = <<>> /\ reductions = 0
      /\ env = [id \in Id |-> Undef]
    BY EntryAssumption DEF ExprInit
<1>2. Interpreter
  <2>1. DOMAIN env = Id /\ DOMAIN idMap = {}
    BY <1>1
  <2>2. IsSeq(meant) /\ Len(meant) = Len(values)
    BY <1>1, EmptyIsSeq
  <2> QED
    BY <2>1, <2>2 DEF Interpreter
<1>3. IsMachine(Start) /\ Start.place = <<1, 1>> /\ Start.stack = <<>>
    BY EntryAssumption DEF IsMachine, Start
<1>4. Reached
    BY <1>1 DEF Reached
<1>5. Placed(Start)
  <2>1. Len(code[at]) + 1 = 1
    BY <1>1
  <2> QED
    BY <1>1, <1>3, <1>4, <2>1 DEF Placed
<1>6. Stacked(Start)
  <2>1. DOMAIN idMap = {} /\ DOMAIN Start.stack = {}
    BY <1>1, <1>3
  <2> QED
    BY <2>1 DEF Stacked
<1>7. Agree(Start, values, meant)
  <2>1. Len(values) = 0 /\ Len(meant) = 0 /\ 1 .. 0 = {}
    BY <1>1, EmptyIsSeq
  <2> QED
    BY <2>1 DEF Agree
<1>8. Matches(Start)
    BY <1>3, <1>5, <1>6, <1>7 DEF Matches
<1>9. Followed
  <2>1. PICK M : M = [n \in {0} |-> Start]
    OBVIOUS
  <2>2. M[0] = Start
    BY <2>1
  <2>3. \A n \in 0 .. 0 - 1 : FALSE
    OBVIOUS
  <2>4. Runs(M, 0)
    BY <2>2, <2>3 DEF Runs
  <2>5. 0 \in 0 .. 2 * reductions
    BY <1>1
  <2> QED
    BY <1>8, <2>2, <2>4, <2>5 DEF Followed
<1> QED
    BY <1>1, <1>2, <1>9 DEF SimInv

(* A reduction goes on with what is being read, or stops.                  *)
LEMMA Reduction ==
    ASSUME NEW nest, Structure(nest),
           \/ Ordinary /\ status' = "parsing"
           \/ If \/ While \/ EndBody \/ Return
    PROVE  Grows /\ reductions' = reductions + 1 /\ status = "parsing"
<1>1. CASE Ordinary /\ status' = "parsing"
    BY <1>1, OrdinaryWrites
<1>2. CASE If
    BY <1>2, IfGrows DEF If, Reduce
<1>3. CASE While
    BY <1>3, NothingWritten, WritesGrows DEF While, Reduce
<1>4. CASE EndBody
  <2>1. status = "parsing" /\ reductions' = reductions + 1
    BY <1>4 DEF EndBody, Reduce
  <2>2. CASE Last(open).bb = NoBlock
    BY <1>4, <2>1, <2>2, NothingWritten, WritesGrows DEF EndBody
  <2>3. CASE Last(open).bb # NoBlock
    BY <1>4, <2>1, <2>3, EndIfKeepsStructure, WritesGrows
  <2> QED
    BY <2>2, <2>3
<1>5. CASE Return
  <2>1. status = "parsing" /\ reductions' = reductions + 1
    BY <1>5 DEF Return, Reduce
  <2> QED
    BY <1>5, <2>1, ReturnKeepsStructure, WritesGrows
<1> QED
    BY <1>1, <1>2, <1>3, <1>4, <1>5

(* What is defined now was defined before, and no while was reached.       *)
LEMMA StillDefined ==
    ASSUME Ordinary \/ If \/ While \/ EndBody \/ Return, defined', ~escaped'
    PROVE  defined /\ ~escaped /\ (While => ~Reached)
<1>1. Ordinary \/ EndBody \/ Return => defined' = defined
    BY DEF Ordinary, Identifier, Assign, Immediate, Binary, Negate, Not, EndBody, source, Return
<1>2. If => defined' = (defined /\ (Reached => meant[1] # Undef))
    BY Zenon DEF If
<1>3. While => defined' = (defined /\ ~Reached)
    BY DEF While
<1>7. defined /\ (While => ~Reached)
  <2>1. CASE Ordinary \/ EndBody \/ Return
    <3>1. defined
      BY <1>1, <2>1
    <3> QED
      BY <1>3, <3>1, Zenon
  <2>2. CASE If
    <3>1. defined
      BY <1>2, <2>2, Zenon
    <3> QED
      BY <1>3, <3>1, Zenon
  <2>3. CASE While
    BY <1>3, <2>3, Zenon
  <2> QED
    BY <2>1, <2>2, <2>3
<1>8. ASSUME NEW id, Mention(id) PROVE ~escaped
    BY <1>8, Zenon DEF Mention
<1>9. escaped' = escaped \/ \E id : Mention(id)
    BY DEF Ordinary, Identifier, Assign, Immediate, Binary, Negate, Not, EndBody, source, Return,
        If, While
<1>10. ~escaped
    BY <1>8, <1>9, Zenon
<1> QED
    BY <1>7, <1>10

(* Whatever is read, two instructions at most follow it.                   *)
LEMMA StepFollowed ==
    ASSUME NEW nest, Structure(nest), Uses(nest), Interpreter,
           Ordinary \/ If \/ While \/ EndBody, status' = "parsing",
           While => ~Reached, ~escaped', NEW m, Matches(m)
    PROVE  \E m2 : Reaches(m, m2) /\ Matches(m2)'
<1>1. status = "parsing"
    BY Reduction
<1>2. CASE Ordinary
    BY <1>2, OrdinaryMatches
<1>3. CASE If
    BY <1>3, IfMatches
<1>4. CASE While
  <2>1. Matches(m)'
    BY <1>4, WhileMatches
  <2> QED
    BY <2>1 DEF Reaches
<1>5. CASE EndBody
    BY <1>1, <1>5, EndBodyMatches
<1> QED
    BY <1>2, <1>3, <1>4, <1>5

(* Every reduction keeps the simulation.                                   *)
LEMMA StepKeepsSim == ShapeInv /\ SimInv /\ [ExprNext]_exprVars => SimInv'
<1> SUFFICES ASSUME ShapeInv, SimInv, [ExprNext]_exprVars PROVE SimInv'
    OBVIOUS
<1>1. CASE Stopped \/ UNCHANGED exprVars
  <2>1. UNCHANGED <<code, at, idMap, values, open, status, reductions, env, meant, defined,
                    home, escaped, result>>
    BY <1>1 DEF Stopped, exprVars, parser, source
  <2>2. Interpreter' <=> Interpreter
    BY <2>1 DEF Interpreter
  <2>3. \A M, k : Runs(M, k)' <=> Runs(M, k)
    BY <2>1 DEF Runs, InCode, At, Start, Execute, Held, Jump, Advance, Put, IsConst, Compute
  <2>4. \A m : Matches(m)' <=> Matches(m)
    BY <2>1 DEF Matches, IsMachine, Placed, Stacked, Reached, Agree, LiveIfs, Held, IsConst
  <2>5. \A m : AtReturn(m)' <=> AtReturn(m)
    BY <2>1 DEF AtReturn, InCode, At, Held, IsConst
  <2>6. Followed' <=> Followed
    BY <2>1, <2>3, <2>4 DEF Followed
  <2>7. Returned' <=> Returned
    BY <2>1, <2>3, <2>5 DEF Returned
  <2>8. reductions' = reductions /\ status' = status /\ defined' = defined /\ escaped' = escaped
    BY <2>1
  <2> QED
    BY <2>2, <2>6, <2>7, <2>8, Zenon DEF SimInv
<1>2. CASE SyntaxError
    BY <1>2 DEF SyntaxError, SimInv
<1>3. CASE Ordinary /\ status' # "parsing"
  <2>1. status' = "crashed" /\ reductions' = reductions + 1
    BY <1>3 DEF Ordinary, Identifier, Assign, Immediate, Binary, Negate, Not, Reduce
  <2> QED
    BY <2>1 DEF SimInv
<1>4. CASE (Ordinary /\ status' = "parsing") \/ If \/ While \/ EndBody \/ Return
  <2>1. PICK nest : Structure(nest) /\ Uses(nest)
    BY <1>4 DEF ShapeInv, Shape, Ordinary, Identifier, Assign, Immediate, Binary, Negate, Not,
        If, While, EndBody, Return, Reduce
  <2>2. Grows /\ reductions' = reductions + 1 /\ status = "parsing"
    BY <1>4, <2>1, Reduction
  <2>3. Interpreter /\ reductions \in Nat
    BY <2>2 DEF SimInv
  <2>4. ASSUME defined', ~escaped'
        PROVE  \E k \in 0 .. 2 * reductions : \E M :
                    Runs(M, k) /\ Matches(M[k]) /\ (While => ~Reached)
    <3>1. defined /\ ~escaped /\ (While => ~Reached)
      BY <1>4, <2>4, StillDefined
    <3>2. Followed
      BY <2>2, <3>1, Zenon DEF SimInv
    <3> QED
      BY <3>1, <3>2 DEF Followed
  <2>5. CASE Return
    <3>1. status' = "accepted"
      BY <2>5 DEF Return
    <3>2. ASSUME defined', ~escaped' PROVE Returned'
      <4>1. PICK k \in 0 .. 2 * reductions : \E M :
                    Runs(M, k) /\ Matches(M[k]) /\ (While => ~Reached)
        BY <2>4, <3>2
      <4>2. PICK M : Runs(M, k) /\ Matches(M[k])
        BY <4>1
      <4>3. AtReturn(M[k])'
        BY <2>1, <2>2, <2>5, <4>2, ReturnMatches
      <4>4. Runs(M, k)'
        BY <2>1, <2>2, <4>2, RunsStay
      <4>5. k \in 0 .. 2 * reductions'
        BY <2>2, <2>3
      <4> QED
        BY <4>3, <4>4, <4>5 DEF Returned
    <3>3. status' # "parsing" /\ reductions' \in Nat
      BY <2>2, <2>3, <3>1
    <3> QED
      BY <3>2, <3>3, Zenon DEF SimInv
  <2>6. CASE (Ordinary /\ status' = "parsing") \/ If \/ While \/ EndBody
    <3>1. status' = "parsing"
      BY <2>2, <2>6 DEF If, While, EndBody
    <3>2. Interpreter'
      BY <2>1, <2>3, <2>6, <3>1, InterpreterStays
    <3>3. ASSUME defined', ~escaped' PROVE Followed'
      <4>1. PICK k \in 0 .. 2 * reductions : \E M :
                    Runs(M, k) /\ Matches(M[k]) /\ (While => ~Reached)
        BY <2>4, <3>3
      <4>2. PICK M : Runs(M, k) /\ Matches(M[k]) /\ (While => ~Reached)
        BY <4>1
      <4>3. PICK m2 : Reaches(M[k], m2) /\ Matches(m2)'
        BY <2>1, <2>3, <2>6, <3>1, <3>3, <4>2, StepFollowed
      <4>4. k \in Nat
        BY <2>3
      <4>5. PICK N, l : l \in {k, k + 1, k + 2} /\ Runs(N, l)' /\ N[l] = m2
        BY <2>1, <2>2, <4>2, <4>3, <4>4, RunsOn
      <4>6. l \in 0 .. 2 * reductions'
        BY <2>2, <2>3, <4>5
      <4>7. Matches(N[l])'
        BY <4>3, <4>5
      <4> QED
        BY <4>5, <4>6, <4>7 DEF Followed
    <3>4. reductions' \in Nat
      BY <2>2, <2>3
    <3> QED
      BY <3>1, <3>2, <3>3, <3>4, Zenon DEF SimInv
  <2> QED
    BY <1>4, <2>5, <2>6
<1> QED
    BY <1>1, <1>2, <1>3, <1>4 DEF ExprNext, Ordinary
-----------------------------------------------------------------------------
(* The run that Ran takes the last state of.                               *)
IsRun(f) ==
    f = [n \in Nat |-> IF n = 0 THEN Start ELSE Execute(At(f[n - 1].place), f[n - 1])]

(* A run that comes to a ret stays there, however long it is looked at.    *)
LEMMA RanIs ==
    ASSUME reductions \in Nat, NEW k \in 0 .. 2 * reductions, NEW M, Runs(M, k), AtReturn(M[k])
    PROVE  Ran = M[k]
<1> DEFINE T == [n \in Nat |-> IF n <= k THEN M[n] ELSE M[k]]
           ran == CHOOSE f : f = [n \in Nat |->
                    IF n = 0 THEN Start
                    ELSE LET m == f[n - 1] IN Execute(At(m.place), m)]
<1>1. k \in Nat /\ 2 * reductions \in Nat /\ k <= 2 * reductions
    OBVIOUS
<1>2. \A n \in Nat : T[n] = IF n <= k THEN M[n] ELSE M[k]
    OBVIOUS
<1>3. T = [n \in Nat |-> T[n]]
    OBVIOUS
<1> HIDE DEF T
<1>4. Execute(At(M[k].place), M[k]) = M[k]
    BY Zenon DEF AtReturn, Execute
<1>5. M[0] = Start /\ \A n \in 0 .. k - 1 : M[n + 1] = Execute(At(M[n].place), M[n])
    BY DEF Runs
<1>6. \A n \in Nat : T[n] = IF n = 0 THEN Start ELSE Execute(At(T[n - 1].place), T[n - 1])
  <2> SUFFICES ASSUME NEW n \in Nat
               PROVE  T[n] = IF n = 0 THEN Start ELSE Execute(At(T[n - 1].place), T[n - 1])
    OBVIOUS
  <2>1. CASE n = 0
    BY <1>1, <1>2, <1>5, <2>1
  <2>2. CASE n # 0 /\ n <= k
    <3>1. n - 1 \in 0 .. k - 1 /\ n - 1 \in Nat /\ n - 1 <= k /\ (n - 1) + 1 = n
      BY <1>1, <2>2
    <3>2. T[n] = M[n] /\ T[n - 1] = M[n - 1]
      BY <1>2, <2>2, <3>1
    <3>3. M[n] = Execute(At(M[n - 1].place), M[n - 1])
      BY <1>5, <3>1
    <3> QED
      BY <2>2, <3>2, <3>3, Zenon
  <2>3. CASE n # 0 /\ ~(n <= k)
    <3>1. n - 1 \in Nat /\ (n - 1 <= k => n - 1 = k)
      BY <1>1, <2>3
    <3>2. T[n] = M[k] /\ T[n - 1] = M[k]
      BY <1>2, <2>3, <3>1
    <3> QED
      BY <1>4, <2>3, <3>2, Zenon
  <2> QED
    BY <2>1, <2>2, <2>3
<1>7. IsRun(T)
    BY <1>3, <1>6, Zenon DEF IsRun
<1>8. ran = [n \in Nat |-> IF n = 0 THEN Start
                           ELSE LET m == ran[n - 1] IN Execute(At(m.place), m)]
    BY <1>7, Zenon DEF IsRun
<1>9. Ran = ran[2 * reductions]
    BY Zenon DEF Ran
<1> HIDE DEF ran
<1>10. \A n \in Nat : ran[n] = IF n = 0 THEN Start ELSE Execute(At(ran[n - 1].place), ran[n - 1])
    BY <1>8, Zenon
<1> DEFINE P == {n \in Nat : ran[n] = T[n]}
<1>11. 0 \in P
    BY <1>6, <1>10
<1>12. ASSUME NEW n \in P PROVE n + 1 \in P
  <2>1. n \in Nat /\ ran[n] = T[n]
    OBVIOUS
  <2>2. n + 1 \in Nat /\ n + 1 # 0 /\ (n + 1) - 1 = n
    BY <2>1
  <2>3. ran[n + 1] = Execute(At(ran[n].place), ran[n])
    BY <1>10, <2>2
  <2>4. T[n + 1] = Execute(At(T[n].place), T[n])
    BY <1>6, <2>2
  <2>5. ran[n + 1] = T[n + 1]
    BY <2>1, <2>3, <2>4, Zenon
  <2> QED
    BY <2>2, <2>5
<1>13. P = Nat
  <2> HIDE DEF P
  <2>1. P \in SUBSET Nat
    BY DEF P
  <2> QED
    BY <1>11, <1>12, <2>1, Induction
<1>14. ran[2 * reductions] = T[2 * reductions]
    BY <1>1, <1>13
<1>15. T[2 * reductions] = M[k]
  <2>1. 2 * reductions <= k => 2 * reductions = k
    BY <1>1
  <2> QED
    BY <1>1, <1>2, <2>1
<1> QED
    BY <1>9, <1>14, <1>15, Zenon

(* At every moment of a parse, as long as no while is reached and every    *)
(* variable is mentioned within the if statements of its first assignment, *)
(* the machine, run on the code there is, is where the interpreter is, and *)
(* at the end at a ret with its result.                                    *)
THEOREM ExprSimulation == ExprSpec => []SimInv
<1>1. ExprInit => ShapeInv /\ SimInv
    BY InitShape, InitSim
<1>2. ShapeInv /\ SimInv /\ [ExprNext]_exprVars => (ShapeInv /\ SimInv)'
    BY StepKeepsShape, StepKeepsSim
<1> QED
    BY <1>1, <1>2, PTL DEF ExprSpec

(* Code that is well formed returns what the program returns, if it does   *)
(* not depend on what was never assigned and comes to no while.            *)
THEOREM ExprReturns == ExprSpec => []ReturnsWhatTheSourceSays
<1>1. SimInv /\ WellFormedUnlessEscaped => ReturnsWhatTheSourceSays
  <2> SUFFICES ASSUME SimInv, WellFormedUnlessEscaped,
                      status = "accepted", WellFormed, defined
               PROVE  At(Ran.place).op = "ret" /\ Held(Ran, At(Ran.place).args[1]) = result
    BY Zenon DEF ReturnsWhatTheSourceSays
  <2>1. ~escaped
    BY Zenon DEF WellFormedUnlessEscaped
  <2>2. Returned /\ reductions \in Nat
    BY <2>1, Zenon DEF SimInv
  <2>3. PICK k \in 0 .. 2 * reductions : \E M : Runs(M, k) /\ AtReturn(M[k])
    BY <2>2 DEF Returned
  <2>4. PICK M : Runs(M, k) /\ AtReturn(M[k])
    BY <2>3
  <2>5. Ran = M[k]
    BY <2>2, <2>4, RanIs
  <2> QED
    BY <2>4, <2>5, Zenon DEF AtReturn
<1> QED
    BY <1>1, ExprSimulation, ExprWellFormed, PTL
=============================================================================
