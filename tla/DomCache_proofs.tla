-------------------------- MODULE DomCache_proofs --------------------------
(***************************************************************************)
(* Proofs about projects/lib/analysis/dominance.cpp for any functions and  *)
(* graphs, any number of changes and any order of questions.  What the     *)
(* analyses of LLVM compute is used only through the assumptions that      *)
(* DomCache states.                                                        *)
(***************************************************************************)
EXTENDS DomCache, FiniteSetTheorems, TLAPS

Walk == [fun : Fun, block : Block, seen : Seq(Block),
         cur : Block \cup {NoBlock}, clean : BOOLEAN]

Types ==
    /\ succ \in [Fun -> Graphs]
    /\ Current \in Fun \cup {NoFun}
    /\ Current # NoFun => DT \in Graphs
    /\ LI \in [Fun -> [visits : Nat, graph : Graphs \cup {NoGraph}]]
    /\ edited \in [Fun -> BOOLEAN]
    /\ edits \in Nat
    /\ walk \in Walk \cup {None}

(* The trees show the function they were built for unless it was changed;  *)
(* and so does the loop information of a function analysed once.           *)
CacheFresh ==
    /\ Current # NoFun /\ ~edited[Current] =>
            DT = succ[Current] /\ PDT = succ[Current]
    /\ \A f \in Fun : LI[f].visits = 1 /\ ~edited[f] => LI[f].graph = succ[f]

(* Without a change nothing counts as changed.                             *)
EditsSeen ==
    /\ edits = 0 => \A f \in Fun : ~edited[f]
    /\ edits = 0 /\ walk # None => walk.clean

ChildrenOf(f, b) == Analysis[succ[f]].children[b]

(* A walk is where it would be had it kept its position in the list: what  *)
(* it has seen are the first children, in order, and cur is the next.      *)
WalkInOrder ==
    walk # None /\ walk.clean =>
        /\ ~edited[walk.fun]
        /\ Len(walk.seen) <= Len(ChildrenOf(walk.fun, walk.block))
        /\ \A n \in 1 .. Len(walk.seen) :
                walk.seen[n] = ChildrenOf(walk.fun, walk.block)[n]
        /\ walk.cur = IF Len(walk.seen) < Len(ChildrenOf(walk.fun, walk.block))
                      THEN ChildrenOf(walk.fun, walk.block)[Len(walk.seen) + 1]
                      ELSE NoBlock

Inv == Types /\ CacheFresh /\ EditsSeen /\ WalkInOrder

(* The library's list of a finite set has every member, and none twice.    *)
LEMMA ListOfSet ==
    ASSUME NEW S, IsFiniteSet(S)
    PROVE  /\ SetToSeq(S) \in [1 .. Cardinality(S) -> S]
           /\ \A m, n \in 1 .. Cardinality(S) :
                SetToSeq(S)[m] = SetToSeq(S)[n] => m = n
           /\ \A c \in S : \E n \in 1 .. Cardinality(S) : SetToSeq(S)[n] = c
           /\ Cardinality(S) \in Nat
<1>1. Cardinality(S) \in Nat /\ ExistsBijection(1 .. Cardinality(S), S)
    BY FS_CardinalityType
<1>2. PICK f \in [1 .. Cardinality(S) -> S] : IsInjective(f)
    BY <1>1 DEF ExistsBijection, Bijection, Injection
<1>3. /\ SetToSeq(S) \in [1 .. Cardinality(S) -> S]
      /\ IsInjective(SetToSeq(S))
    BY <1>2 DEF SetToSeq
<1>4. SetToSeq(S) \in Injection(1 .. Cardinality(S), S)
    BY <1>3 DEF Injection, IsInjective
<1>5. Cardinality(1 .. Cardinality(S)) = Cardinality(S)
    BY <1>1, FS_Interval
<1>6. SetToSeq(S) \in Surjection(1 .. Cardinality(S), S)
    BY <1>4, <1>5, FS_Injection
<1> QED
    BY <1>1, <1>3, <1>6 DEF IsInjective, Surjection

(* The children of a block of a function, whatever graph it has: a list of *)
(* blocks without repetition, of the blocks that it immediately dominates. *)
LEMMA ChildrenListed ==
    ASSUME NEW g \in Graphs, NEW b \in Block
    PROVE  LET list == Analysis[g].children[b]
               set == {c \in DOMAIN g : Analysis[g].idom[c] = b}
           IN  /\ list \in Seq(Block)
               /\ Len(list) = Cardinality(set)
               /\ {list[n] : n \in 1 .. Len(list)} = set
               /\ \A m, n \in 1 .. Len(list) : list[m] = list[n] => m = n
<1> DEFINE set == {c \in DOMAIN g : ImmDom(g, c) = b}
<1>1. set \subseteq Block /\ IsFiniteSet(set)
    BY GraphsAssumption, BlockAssumption, FS_Subset
<1>2. Analysis[g].children[b] = SetToSeq(set)
    BY BlockAssumption DEF Analysis, DomChildren
<1>3. \A c \in DOMAIN g : Analysis[g].idom[c] = ImmDom(g, c)
    BY GraphsAssumption DEF Analysis
<1> DEFINE list == SetToSeq(set)
<1>4. /\ list \in [1 .. Cardinality(set) -> set]
      /\ \A m, n \in 1 .. Cardinality(set) : list[m] = list[n] => m = n
      /\ \A c \in set : \E n \in 1 .. Cardinality(set) : list[n] = c
      /\ Cardinality(set) \in Nat
    BY <1>1, ListOfSet
<1> HIDE DEF list, set
<1>5. list \in Seq(Block) /\ Len(list) = Cardinality(set)
    BY <1>1, <1>4
<1>6. {list[n] : n \in 1 .. Len(list)} = set
    BY <1>4, <1>5
<1>7. set = {c \in DOMAIN g : Analysis[g].idom[c] = b}
    BY <1>3 DEF set
<1>8. Analysis[g].children[b] = list
    BY <1>2 DEF list, set
<1> QED
    BY <1>4, <1>5, <1>6, <1>7, <1>8

(* Only blocks that the entry reaches have children.                       *)
LEMMA ParentIsLive ==
    ASSUME NEW g \in Graphs, NEW b \in Block, Analysis[g].children[b] # <<>>
    PROVE  b \in Analysis[g].live
<1> DEFINE list == Analysis[g].children[b]
<1>1. list \in Seq(Block) /\ list # <<>>
      /\ {list[n] : n \in 1 .. Len(list)}
            = {c \in DOMAIN g : Analysis[g].idom[c] = b}
    BY ChildrenListed
<1>2. 1 \in 1 .. Len(list)
    BY <1>1
<1>3. PICK c \in DOMAIN g : Analysis[g].idom[c] = b
    BY <1>1, <1>2
<1> QED
    BY <1>3, IdomAssumption, GraphsAssumption, BlockAssumption

(* In a list without repetition the search by value finds the position.    *)
LEMMA NextIsNext ==
    ASSUME NEW S, NEW list \in Seq(S), NEW n \in 1 .. Len(list),
           \A l, m \in 1 .. Len(list) : list[l] = list[m] => l = m
    PROVE  NextOf(list, list[n]) = IF n < Len(list) THEN list[n + 1] ELSE NoBlock
<1>1. CASE n < Len(list)
  <2>1. n \in 1 .. Len(list) - 1
    BY <1>1
  <2>2. \A k \in 1 .. Len(list) - 1 : list[k] = list[n] => k = n
    OBVIOUS
  <2>3. \A m \in 1 .. n - 1 : list[m] # list[n]
    OBVIOUS
  <2> DEFINE found == CHOOSE k \in 1 .. Len(list) - 1 :
                list[k] = list[n] /\ \A m \in 1 .. k - 1 : list[m] # list[n]
  <2>4. NextOf(list, list[n]) = list[1 + found]
    BY <2>1, Zenon DEF NextOf
  <2>5. found \in 1 .. Len(list) - 1 /\ list[found] = list[n]
    BY <2>1, <2>3
  <2> HIDE DEF found
  <2>6. found = n
    BY <2>2, <2>5
  <2> QED BY <1>1, <2>4, <2>6
<1>2. CASE n = Len(list)
  <2>1. ~ \E m \in 1 .. Len(list) - 1 : list[m] = list[n]
    BY <1>2
  <2> QED BY <1>2, <2>1 DEF NextOf
<1> QED BY <1>1, <1>2
-----------------------------------------------------------------------------
(* The search yields a member of the list or NULL.                         *)
LEMMA SearchType ==
    ASSUME NEW list \in Seq(Block), NEW last
    PROVE  /\ FirstOf(list) \in Block \cup {NoBlock}
           /\ NextOf(list, last) \in Block \cup {NoBlock}
<1>1. FirstOf(list) \in Block \cup {NoBlock}
    BY DEF FirstOf
<1> DEFINE found == CHOOSE n \in 1 .. Len(list) - 1 :
                list[n] = last /\ \A m \in 1 .. n - 1 : list[m] # last
<1>2. CASE \E n \in 1 .. Len(list) - 1 : list[n] = last
  <2>1. NextOf(list, last) = list[1 + found]
    BY <1>2, Zenon DEF NextOf
  <2> DEFINE hits == {n \in 1 .. Len(list) - 1 : list[n] = last}
  <2>2. hits \subseteq Nat /\ hits # {}
    BY <1>2
  <2>3. \A m, n \in Nat : m < n => <<m, n>> \in OpToRel(<, Nat)
    BY DEF OpToRel
  <2> HIDE DEF hits
  <2>4. PICK n \in hits : \A m \in hits : ~(<<m, n>> \in OpToRel(<, Nat))
    BY <2>2, WFMin, NatLessThanWellFounded, Zenon
  <2>5. \A m \in hits : ~(m < n)
    BY <2>2, <2>3, <2>4, Zenon
  <2>6. n \in 1 .. Len(list) - 1 /\ list[n] = last
        /\ \A m \in 1 .. n - 1 : list[m] # last
    BY <2>5 DEF hits
  <2>7. found \in 1 .. Len(list) - 1
    BY <2>6
  <2> HIDE DEF found
  <2> QED BY <1>1, <2>1, <2>7
<1>3. CASE ~ \E n \in 1 .. Len(list) - 1 : list[n] = last
    BY <1>1, <1>3 DEF NextOf
<1> QED BY <1>2, <1>3

(* After any question about f the cache is for f, and fresh for it unless  *)
(* f was changed while it was the current function.                        *)
LEMMA UpdateKeeps ==
    ASSUME Types, CacheFresh, NEW f \in Fun, UpdateDominators(f), UNCHANGED succ
    PROVE  /\ Current' = f
           /\ DT' \in Graphs
           /\ LI' \in [Fun -> [visits : Nat, graph : Graphs \cup {NoGraph}]]
           /\ edited' \in [Fun -> BOOLEAN]
           /\ \A h \in Fun : ~edited[h] => ~edited'[h]
           /\ CacheFresh'
<1>1. CASE Current = f
    BY <1>1, FunAssumption DEF Types, CacheFresh, UpdateDominators
<1>2. CASE Current # f
  <2>1. /\ Current' = f /\ DT' = succ[f] /\ PDT' = succ[f]
        /\ edited' = [edited EXCEPT ![f] = FALSE]
        /\ LI' = [LI EXCEPT ![f] = IF @.visits = 0
                            THEN [visits |-> 1, graph |-> succ[f]]
                            ELSE [visits |-> 2, graph |-> NoGraph]]
    BY <1>2 DEF UpdateDominators, Analyze
  <2>2. succ[f] \in Graphs
    BY DEF Types
  <2>3. LI' \in [Fun -> [visits : Nat, graph : Graphs \cup {NoGraph}]]
    BY <2>1, <2>2 DEF Types
  <2>4. edited' \in [Fun -> BOOLEAN] /\ \A h \in Fun : ~edited[h] => ~edited'[h]
    BY <2>1 DEF Types
  <2>5. \A h \in Fun : LI'[h].visits = 1 /\ ~edited'[h] => LI'[h].graph = succ[h]
    BY <2>1 DEF Types, CacheFresh
  <2>6. CacheFresh'
    BY <2>1, <2>5 DEF CacheFresh
  <2> QED BY <2>1, <2>2, <2>3, <2>4, <2>6
<1> QED BY <1>1, <1>2

(* A question, or a turn of a walk, that changes neither a function nor a  *)
(* walk keeps the invariant.                                               *)
LEMMA QuestionKeeps ==
    ASSUME Inv, NEW f \in Fun, UpdateDominators(f), UNCHANGED <<succ, edits, walk>>
    PROVE  Inv'
<1>1. Types /\ CacheFresh /\ EditsSeen /\ WalkInOrder
    BY DEF Inv
<1>2. /\ Current' = f
      /\ DT' \in Graphs
      /\ LI' \in [Fun -> [visits : Nat, graph : Graphs \cup {NoGraph}]]
      /\ edited' \in [Fun -> BOOLEAN]
      /\ \A h \in Fun : ~edited[h] => ~edited'[h]
      /\ CacheFresh'
    BY <1>1, UpdateKeeps
<1>3. Types'
    BY <1>1, <1>2 DEF Types
<1>4. EditsSeen'
    BY <1>1, <1>2 DEF EditsSeen
<1>5. WalkInOrder'
    BY <1>1, <1>2 DEF WalkInOrder, ChildrenOf, Types, Walk
<1> QED BY <1>2, <1>3, <1>4, <1>5 DEF Inv

(* The invariant holds before the first question.                          *)
LEMMA InitInv == Init => Inv
<1> SUFFICES ASSUME Init PROVE Inv
    OBVIOUS
<1>1. Types
    BY FunctionsAssumption DEF Init, Types
<1>2. CacheFresh /\ EditsSeen /\ WalkInOrder
    BY DEF Init, CacheFresh, EditsSeen, WalkInOrder
<1> QED BY <1>1, <1>2 DEF Inv

(* So does the first call of a walk: it begins at the first child.         *)
LEMMA FirstChildKeeps ==
    ASSUME Inv, NEW f \in Fun, NEW b \in DOMAIN succ[f], LLVMFirstDomChild(f, b)
    PROVE  Inv'
<1>1. Types /\ CacheFresh /\ EditsSeen /\ WalkInOrder
    BY DEF Inv
<1>2. /\ Current' = f
      /\ DT' \in Graphs
      /\ LI' \in [Fun -> [visits : Nat, graph : Graphs \cup {NoGraph}]]
      /\ edited' \in [Fun -> BOOLEAN]
      /\ \A h \in Fun : ~edited[h] => ~edited'[h]
      /\ CacheFresh'
    BY <1>1, UpdateKeeps DEF LLVMFirstDomChild
<1>3. /\ walk' = [fun |-> f, block |-> b, seen |-> <<>>,
                  cur |-> FirstOf(Analysis[DT'].children[b]), clean |-> ~edited'[f]]
      /\ UNCHANGED <<succ, edits>>
    BY DEF LLVMFirstDomChild
<1>4. b \in Block /\ succ[f] \in Graphs
    BY <1>1, GraphsAssumption DEF Types
<1>5. Analysis[succ[f]].children[b] \in Seq(Block)
      /\ Analysis[DT'].children[b] \in Seq(Block)
    BY <1>2, <1>4, ChildrenListed
<1>6. walk' \in Walk
  <2>1. FirstOf(Analysis[DT'].children[b]) \in Block \cup {NoBlock}
    BY <1>5, SearchType
  <2>2. <<>> \in Seq(Block) /\ (~edited'[f]) \in BOOLEAN
    BY <1>2
  <2> QED BY <1>3, <1>4, <2>1, <2>2 DEF Walk
<1>7. Types'
    BY <1>1, <1>2, <1>3, <1>6 DEF Types
<1>8. EditsSeen'
    BY <1>1, <1>2, <1>3 DEF EditsSeen
<1>9. ASSUME ~edited'[f]
      PROVE  WalkInOrder'
  <2>1. DT' = succ[f]
    BY <1>2, <1>3, <1>9, FunAssumption DEF CacheFresh
  <2> DEFINE list == Analysis[succ[f]].children[b]
  <2>2. walk'.cur = FirstOf(list) /\ walk'.seen = <<>>
        /\ walk'.fun = f /\ walk'.block = b
    BY <1>3, <2>1
  <2>3. list \in Seq(Block) /\ ChildrenOf(f, b)' = list
    BY <1>3, <1>5 DEF ChildrenOf
  <2> HIDE DEF list
  <2>4. FirstOf(list) = IF 0 < Len(list) THEN list[1] ELSE NoBlock
    BY <2>3 DEF FirstOf
  <2> QED BY <1>9, <2>2, <2>3, <2>4 DEF WalkInOrder, ChildrenOf
<1>10. WalkInOrder'
    BY <1>3, <1>9 DEF WalkInOrder
<1> QED BY <1>2, <1>7, <1>8, <1>10 DEF Inv

(* A turn of a walk that does not crash moves on to the next child.        *)
LEMMA NextChildKeeps ==
    ASSUME Inv, LLVMNextDomChild
    PROVE  Inv'
<1>1. Types /\ CacheFresh /\ EditsSeen /\ WalkInOrder
    BY DEF Inv
<1> DEFINE f == walk.fun
           b == walk.block
<1>2. /\ walk \in Walk /\ walk # None /\ walk.cur # NoBlock
      /\ UpdateDominators(f)
      /\ UNCHANGED <<succ, edits>>
    BY <1>1 DEF LLVMNextDomChild, Crash, Types
<1>3. /\ f \in Fun /\ b \in Block /\ walk.seen \in Seq(Block)
      /\ walk.cur \in Block /\ walk.clean \in BOOLEAN
      /\ succ[f] \in Graphs
    BY <1>1, <1>2 DEF Walk, Types
<1> HIDE DEF f, b
<1>4. /\ Current' = f
      /\ DT' \in Graphs
      /\ LI' \in [Fun -> [visits : Nat, graph : Graphs \cup {NoGraph}]]
      /\ edited' \in [Fun -> BOOLEAN]
      /\ \A h \in Fun : ~edited[h] => ~edited'[h]
      /\ CacheFresh'
    BY <1>1, <1>2, <1>3, UpdateKeeps
<1>5. CASE UNCHANGED walk
    BY <1>1, <1>2, <1>3, <1>5, QuestionKeeps DEF Inv
<1>6. CASE walk' = [walk EXCEPT
                        !.seen = Append(@, walk.cur),
                        !.cur = NextOf(Analysis[DT'].children[b], walk.cur)]
  <2> DEFINE next == NextOf(Analysis[DT'].children[b], walk.cur)
  <2>1. next \in Block \cup {NoBlock}
    BY <1>3, <1>4, ChildrenListed, SearchType
  <2> HIDE DEF next
  <2>2. walk' = [fun |-> f, block |-> b, seen |-> Append(walk.seen, walk.cur),
                 cur |-> next, clean |-> walk.clean]
    BY <1>2, <1>6 DEF Walk, next, f, b
  <2>3. walk' \in Walk
    BY <1>3, <2>1, <2>2 DEF Walk
  <2>4. Types'
    BY <1>1, <1>2, <1>3, <1>4, <2>3 DEF Types
  <2>5. EditsSeen'
    BY <1>1, <1>2, <1>4, <2>2 DEF EditsSeen
  <2>6. ASSUME walk.clean
        PROVE  WalkInOrder'
    <3> DEFINE list == Analysis[succ[f]].children[b]
               seen == walk.seen
    <3>1. /\ list \in Seq(Block)
          /\ \A m, n \in 1 .. Len(list) : list[m] = list[n] => m = n
      BY <1>3, ChildrenListed
    <3>2. /\ ~edited[f]
          /\ Len(seen) <= Len(list)
          /\ \A n \in 1 .. Len(seen) : seen[n] = list[n]
          /\ walk.cur = IF Len(seen) < Len(list) THEN list[Len(seen) + 1]
                        ELSE NoBlock
      BY <1>1, <1>2, <2>6 DEF WalkInOrder, ChildrenOf, f, b
    <3>3. ~edited'[f] /\ DT' = succ[f]
      BY <1>2, <1>3, <1>4, <3>2, FunAssumption DEF CacheFresh
    <3>4. next = NextOf(list, walk.cur) /\ Analysis[succ'[f]].children[b] = list
      BY <1>2, <3>3 DEF next
    <3> HIDE DEF list
    <3>5. Len(seen) < Len(list) /\ walk.cur = list[Len(seen) + 1]
      BY <1>2, <3>2
    <3> DEFINE n == Len(seen) + 1
    <3>6. n \in 1 .. Len(list)
      BY <1>3, <3>1, <3>5
    <3>7. next = IF n < Len(list) THEN list[n + 1] ELSE NoBlock
      BY <3>1, <3>4, <3>5, <3>6, NextIsNext
    <3>8. Len(Append(seen, walk.cur)) = n
          /\ \A m \in 1 .. n : Append(seen, walk.cur)[m] = list[m]
      BY <1>3, <3>2, <3>5
    <3> QED
      BY <2>2, <3>3, <3>4, <3>6, <3>7, <3>8 DEF WalkInOrder, ChildrenOf
  <2>7. WalkInOrder'
    BY <2>2, <2>6 DEF WalkInOrder
  <2> QED BY <1>4, <2>4, <2>5, <2>7 DEF Inv
<1> QED
    BY <1>5, <1>6 DEF LLVMNextDomChild, Crash, b

(* A change of f marks it, and the walk over it.                           *)
LEMMA EditKeeps ==
    ASSUME Inv, NEW f \in Fun, Edit(f)
    PROVE  Inv'
<1>1. Types /\ CacheFresh /\ EditsSeen /\ WalkInOrder
    BY DEF Inv
<1>2. PICK g \in Graphs : succ' = [succ EXCEPT ![f] = g]
  <2>1. Edits[succ[f]] \subseteq Graphs
    BY <1>1 DEF Types, Edits
  <2> QED BY <2>1 DEF Edit
<1>3. /\ edits' = edits + 1
      /\ edited' = [edited EXCEPT ![f] = TRUE]
      /\ walk' = IF walk # None /\ walk.fun = f
                 THEN [walk EXCEPT !.clean = FALSE] ELSE walk
      /\ UNCHANGED <<Current, DT, PDT, LI>>
    BY DEF Edit
<1>4. walk' \in Walk \cup {None}
    BY <1>1, <1>3 DEF Types, Walk
<1>5. Types'
    BY <1>1, <1>2, <1>3, <1>4 DEF Types
<1>6. CacheFresh'
    BY <1>1, <1>2, <1>3 DEF Types, CacheFresh
<1>7. EditsSeen'
    BY <1>1, <1>3 DEF Types, EditsSeen
<1>8. WalkInOrder'
  <2>1. CASE walk # None /\ walk.fun = f
    <3>1. walk \in Walk
      BY <1>1, <2>1 DEF Types
    <3>2. walk'.clean = FALSE
      BY <1>3, <2>1, <3>1 DEF Walk
    <3> QED BY <3>2 DEF WalkInOrder
  <2>2. CASE walk # None /\ walk.fun # f
    <3>1. UNCHANGED walk /\ walk.fun \in Fun
      BY <1>1, <1>3, <2>2 DEF Types, Walk
    <3>2. succ'[walk.fun] = succ[walk.fun] /\ edited'[walk.fun] = edited[walk.fun]
      BY <1>1, <1>2, <1>3, <2>2, <3>1 DEF Types
    <3> QED BY <1>1, <3>1, <3>2 DEF WalkInOrder, ChildrenOf
  <2>3. CASE walk = None
    BY <1>3, <2>3 DEF WalkInOrder
  <2> QED BY <2>1, <2>2, <2>3
<1> QED BY <1>5, <1>6, <1>7, <1>8 DEF Inv

(* What the questions change.                                              *)
LEMMA QueryForm ==
    ASSUME Inv, NEW f \in Fun, Query(f)
    PROVE  \/ UpdateDominators(f) /\ UNCHANGED <<succ, edits, walk>>
           \/ \E b \in DOMAIN succ[f] : LLVMGetLoopNestingDepth(f, b)
           \/ \E b \in DOMAIN succ[f] : LLVMFirstDomChild(f, b)
BY DEF Query, LLVMDominates, LLVMPostDominates, LLVMNearestCommonDominator,
       LLVMIsReachableFromEntry, LLVMImmDom, LLVMImmPostDom, Answer, Crash

(* The loop depth is answered from a cache that may be for another         *)
(* function.                                                               *)
LEMMA DepthKeeps ==
    ASSUME Inv, NEW f \in Fun, NEW b, LLVMGetLoopNestingDepth(f, b)
    PROVE  Inv'
<1>1. UNCHANGED <<succ, edits, walk>>
    BY DEF LLVMGetLoopNestingDepth
<1>2. CASE UpdateDominators(f)
    BY <1>1, <1>2, QuestionKeeps
<1>3. CASE UNCHANGED <<Current, DT, PDT, LI, edited>>
    BY <1>1, <1>3
    DEF Inv, Types, CacheFresh, EditsSeen, WalkInOrder, ChildrenOf
<1> QED BY <1>2, <1>3 DEF LLVMGetLoopNestingDepth

(* Every step keeps the invariant.                                         *)
LEMMA NextInv == Inv /\ [Next]_vars => Inv'
<1> SUFFICES ASSUME Inv, [Next]_vars PROVE Inv'
    OBVIOUS
<1>1. ASSUME NEW f \in Fun, Query(f) PROVE Inv'
    BY <1>1, QueryForm, QuestionKeeps, DepthKeeps, FirstChildKeeps
<1>2. ASSUME NEW f \in Fun, Edit(f) PROVE Inv'
    BY <1>2, EditKeeps
<1>3. CASE LLVMNextDomChild
    BY <1>3, NextChildKeeps
<1>4. CASE UNCHANGED vars
    BY <1>4
    DEF vars, Inv, Types, CacheFresh, EditsSeen, WalkInOrder, ChildrenOf
<1> QED BY <1>1, <1>2, <1>3, <1>4 DEF Next, Crashed
-----------------------------------------------------------------------------
(***************************************************************************)
(* An answer is right unless its function changed since the trees were     *)
(* last built for it; a loop depth, if the function was analysed once.     *)
(***************************************************************************)
LEMMA AnswersFresh == Inv /\ FreshUnlessEdited /\ [Next]_vars => FreshUnlessEdited'
<1> SUFFICES ASSUME Inv, FreshUnlessEdited, [Next]_vars PROVE FreshUnlessEdited'
    OBVIOUS
<1>1. Inv'
    BY NextInv
<1>2. CacheFresh' /\ Types /\ CacheFresh
    BY <1>1 DEF Inv
<1>3. ASSUME answer' = None PROVE FreshUnlessEdited'
    BY <1>3 DEF FreshUnlessEdited
<1>4. ASSUME NEW f \in Fun, UpdateDominators(f), UNCHANGED succ
      PROVE  edited'[f] \/ (DT' = succ'[f] /\ PDT' = succ'[f])
  <2>1. Current' = f
    BY <1>2, <1>4, UpdateKeeps
  <2> QED BY <1>2, <2>1, FunAssumption DEF CacheFresh
<1>5. ASSUME NEW f \in Fun, Query(f) PROVE FreshUnlessEdited'
  <2>1. PICK b \in DOMAIN succ[f] :
          \/ \E a \in DOMAIN succ[f] :
              \/ LLVMDominates(f, a, b)
              \/ LLVMPostDominates(f, a, b)
              \/ LLVMNearestCommonDominator(f, a, b)
          \/ LLVMIsReachableFromEntry(f, b)
          \/ LLVMImmDom(f, b)
          \/ LLVMImmPostDom(f, b)
          \/ LLVMGetLoopNestingDepth(f, b)
          \/ LLVMFirstDomChild(f, b)
    BY <1>5 DEF Query
  <2>2. ASSUME NEW a \in DOMAIN succ[f], LLVMDominates(f, a, b)
        PROVE  FreshUnlessEdited'
    BY <1>4, <2>2 DEF LLVMDominates, Answer, FreshUnlessEdited
  <2>3. ASSUME NEW a \in DOMAIN succ[f], LLVMPostDominates(f, a, b)
        PROVE  FreshUnlessEdited'
    BY <1>4, <2>3 DEF LLVMPostDominates, Answer, FreshUnlessEdited
  <2>4. ASSUME NEW a \in DOMAIN succ[f], LLVMNearestCommonDominator(f, a, b)
        PROVE  FreshUnlessEdited'
    BY <1>4, <2>4 DEF LLVMNearestCommonDominator, Answer, FreshUnlessEdited
  <2>5. CASE LLVMIsReachableFromEntry(f, b)
    BY <1>4, <2>5 DEF LLVMIsReachableFromEntry, Answer, FreshUnlessEdited
  <2>6. CASE LLVMImmDom(f, b)
    BY <1>4, <2>6 DEF LLVMImmDom, Answer, FreshUnlessEdited
  <2>7. CASE LLVMImmPostDom(f, b)
    <3>1. CASE Crash
      BY <1>3, <3>1 DEF Crash
    <3>2. CASE Answer("PDT", f, PDT', LAMBDA t : t.ipdom[b])
      BY <1>4, <2>7, <3>2 DEF LLVMImmPostDom, Answer, FreshUnlessEdited
    <3> QED BY <2>7, <3>1, <3>2 DEF LLVMImmPostDom
  <2>8. CASE LLVMGetLoopNestingDepth(f, b)
    <3>1. UNCHANGED succ /\ answer'.fun = f /\ answer'.kind = "LI"
      BY <2>8 DEF LLVMGetLoopNestingDepth
    <3>2. ASSUME LI'[f].visits = 1, ~edited'[f]
          PROVE  answer'.right
      <4>1. PICK depth \in CASE LI'[f].visits = 0 -> {0}
                             [] LI'[f].visits = 1 ->
                                    {Analysis[LI'[f].graph].depth[b]}
                             [] OTHER -> 0 .. Cardinality(Block) :
              answer'.right = (depth = Analysis[succ[f]].depth[b])
          BY <2>8 DEF LLVMGetLoopNestingDepth
      <4>2. depth = Analysis[LI'[f].graph].depth[b]
          BY <3>2, <4>1
      <4>3. LI'[f].graph = succ'[f]
          BY <1>2, <3>2 DEF CacheFresh
      <4> QED BY <3>1, <4>1, <4>2, <4>3
    <3> QED BY <3>1, <3>2 DEF FreshUnlessEdited
  <2>9. CASE LLVMFirstDomChild(f, b)
    BY <1>3, <2>9 DEF LLVMFirstDomChild
  <2> QED BY <2>1, <2>2, <2>3, <2>4, <2>5, <2>6, <2>7, <2>8, <2>9
<1>6. ASSUME NEW f \in Fun, Edit(f) PROVE FreshUnlessEdited'
    BY <1>3, <1>6 DEF Edit
<1>7. CASE LLVMNextDomChild
    BY <1>3, <1>7 DEF LLVMNextDomChild, Crash
<1>8. CASE UNCHANGED vars
    BY <1>8 DEF vars, FreshUnlessEdited
<1> QED BY <1>5, <1>6, <1>7, <1>8 DEF Next, Crashed

(* An answer is right for the function as it is at the moment, however     *)
(* many functions share the cache, unless its function was changed.        *)
THEOREM AnswersRight == Spec => []FreshUnlessEdited
<1>1. Init => FreshUnlessEdited
    BY DEF Init, FreshUnlessEdited
<1> QED BY <1>1, InitInv, NextInv, AnswersFresh, PTL DEF Spec

(* A walk without a change of its function meets every child once.         *)
LEMMA InvWalkComplete == Inv => WalkComplete
<1> SUFFICES ASSUME Inv, walk # None, walk.cur = NoBlock, walk.clean
             PROVE  LET children == {c \in DOMAIN succ[walk.fun] :
                            Analysis[succ[walk.fun]].idom[c] = walk.block}
                    IN  /\ Len(walk.seen) = Cardinality(children)
                        /\ {walk.seen[n] : n \in DOMAIN walk.seen} = children
    BY DEF WalkComplete
<1> DEFINE list == ChildrenOf(walk.fun, walk.block)
           children == {c \in DOMAIN succ[walk.fun] :
                            Analysis[succ[walk.fun]].idom[c] = walk.block}
           seen == walk.seen
<1>1. walk.fun \in Fun /\ walk.block \in Block /\ seen \in Seq(Block)
      /\ succ[walk.fun] \in Graphs
    BY DEF Inv, Types, Walk
<1>2. /\ list \in Seq(Block)
      /\ Len(list) = Cardinality(children)
      /\ {list[n] : n \in 1 .. Len(list)} = children
    BY <1>1, ChildrenListed DEF ChildrenOf
<1>3. /\ Len(seen) <= Len(list)
      /\ \A n \in 1 .. Len(seen) : seen[n] = list[n]
      /\ NoBlock = IF Len(seen) < Len(list) THEN list[Len(seen) + 1] ELSE NoBlock
    BY DEF Inv, WalkInOrder
<1> HIDE DEF list, children
<1>4. Len(seen) = Len(list)
    BY <1>1, <1>2, <1>3, BlockAssumption
<1>5. DOMAIN seen = 1 .. Len(list)
    BY <1>1, <1>4
<1>6. {seen[n] : n \in DOMAIN seen} = children
    BY <1>2, <1>3, <1>4, <1>5
<1> QED BY <1>2, <1>4, <1>6 DEF children

(* The loop over the children of a block is complete although it keeps no  *)
(* position and the trees are rebuilt under it.                            *)
THEOREM WalksComplete == Spec => []WalkComplete
BY InitInv, NextInv, InvWalkComplete, PTL DEF Spec

(* Without a change every block asked about has its node in the trees.     *)
LEMMA NoCrash == Inv /\ CrashOnlyAfterEdit /\ [Next]_vars => CrashOnlyAfterEdit'
<1> SUFFICES ASSUME Inv, CrashOnlyAfterEdit, [Next]_vars
             PROVE  CrashOnlyAfterEdit'
    OBVIOUS
<1>1. Types /\ CacheFresh /\ EditsSeen /\ WalkInOrder /\ Inv'
    BY NextInv DEF Inv
<1>2. CacheFresh' /\ EditsSeen'
    BY <1>1 DEF Inv
<1>3. ASSUME UNCHANGED <<crashed, edits>> PROVE CrashOnlyAfterEdit'
    BY <1>3 DEF CrashOnlyAfterEdit
<1>4. ASSUME NEW f \in Fun, UpdateDominators(f), UNCHANGED <<succ, edits>>,
             edits = 0
      PROVE  DT' = succ[f] /\ PDT' = succ[f]
  <2>1. Current' = f
    BY <1>1, <1>4, UpdateKeeps
  <2> QED BY <1>2, <1>4, <2>1, FunAssumption DEF CacheFresh, EditsSeen
<1>5. ASSUME NEW f \in Fun, Query(f) PROVE CrashOnlyAfterEdit'
  <2>1. CASE UNCHANGED <<crashed, edits>>
    BY <1>3, <2>1
  <2>2. ASSUME NEW b \in DOMAIN succ[f], LLVMImmPostDom(f, b)
        PROVE  CrashOnlyAfterEdit'
    <3>1. CASE edits = 0
      <4>1. PDT' = succ[f]
        BY <1>4, <2>2, <3>1 DEF LLVMImmPostDom, Answer, Crash
      <4>2. UNCHANGED <<crashed, edits>>
        BY <2>2, <4>1 DEF LLVMImmPostDom, Answer
      <4> QED BY <1>3, <4>2
    <3>2. CASE edits # 0
      <4>1. edits' = edits /\ edits \in Nat
        BY <1>1, <2>2 DEF LLVMImmPostDom, Answer, Crash, Types
      <4> QED BY <3>2, <4>1 DEF CrashOnlyAfterEdit
    <3> QED BY <3>1, <3>2
  <2> QED
    BY <1>5, <2>1, <2>2
    DEF Query, LLVMDominates, LLVMPostDominates, LLVMNearestCommonDominator,
        LLVMIsReachableFromEntry, LLVMImmDom, Answer,
        LLVMGetLoopNestingDepth, LLVMFirstDomChild
<1>6. ASSUME NEW f \in Fun, Edit(f) PROVE CrashOnlyAfterEdit'
    BY <1>1, <1>6 DEF Edit, Types, CrashOnlyAfterEdit
<1>7. CASE LLVMNextDomChild
  <2>1. /\ walk # None /\ walk.cur # NoBlock /\ UpdateDominators(walk.fun)
        /\ UNCHANGED <<succ, edits>>
    BY <1>7 DEF LLVMNextDomChild, Crash
  <2>2. walk.fun \in Fun /\ walk.block \in Block /\ succ[walk.fun] \in Graphs
        /\ walk.seen \in Seq(Block) /\ edits \in Nat
    BY <1>1, <2>1 DEF Types, Walk
  <2>3. CASE edits = 0
    <3> DEFINE list == ChildrenOf(walk.fun, walk.block)
    <3>1. list \in Seq(Block)
      BY <2>2, ChildrenListed DEF ChildrenOf
    <3>2. Len(walk.seen) < Len(list)
      BY <1>1, <2>1, <2>3 DEF EditsSeen, WalkInOrder
    <3>3. list # <<>>
      BY <2>2, <3>1, <3>2
    <3>4. walk.block \in Analysis[succ[walk.fun]].live
      BY <2>2, <3>3, ParentIsLive DEF ChildrenOf
    <3>5. DT' = succ[walk.fun]
      BY <1>4, <2>1, <2>2, <2>3
    <3>6. UNCHANGED crashed
      BY <1>7, <3>4, <3>5 DEF LLVMNextDomChild
    <3> QED BY <1>3, <2>1, <3>6
  <2>4. CASE edits # 0
    BY <2>1, <2>2, <2>4 DEF CrashOnlyAfterEdit
  <2> QED BY <2>3, <2>4
<1>8. CASE UNCHANGED vars
    BY <1>3, <1>8 DEF vars
<1> QED BY <1>5, <1>6, <1>7, <1>8 DEF Next, Crashed

(* Clients that change nothing crash nothing, in whatever order they ask.  *)
THEOREM CrashNeedsEdit == Spec => []CrashOnlyAfterEdit
<1>1. Init => CrashOnlyAfterEdit
    BY DEF Init, CrashOnlyAfterEdit
<1> QED BY <1>1, InitInv, NextInv, NoCrash, PTL DEF Spec
=============================================================================
