------------------------------ MODULE DomCache ------------------------------
(***************************************************************************)
(* projects/lib/analysis/dominance.cpp: the C interface to dominance.  One *)
(* set of trees is kept, for the function asked about last; a question     *)
(* about another function replaces it.  In between clients change the      *)
(* functions.  A client may also be halfway through the children of a      *)
(* block when other questions are asked.                                   *)
(***************************************************************************)
EXTENDS Cfg

CONSTANTS
    Fun,        \* the functions of the module
    NoFun,      \* NULL
    Block,      \* the names of blocks
    Graphs,     \* the graphs a function may have
    Functions,  \* those the functions of the module have at first
    MaxEdits,   \* bound: how often clients change a graph
    None        \* no question asked, no walk begun

ASSUME FunAssumption == NoFun \notin Fun
ASSUME BlockAssumption == IsFiniteSet(Block) /\ NoBlock \notin Block
ASSUME GraphsAssumption == \A g \in Graphs : IsCfg(g) /\ DOMAIN g \subseteq Block
ASSUME FunctionsAssumption == Functions \subseteq [Fun -> Graphs]

INSTANCE ListByValue WITH NoElement <- NoBlock

(* A client changes the successors of a block, or inserts a block behind   *)
(* one.                                                                    *)
Changed(g) ==
    {h \in {[g EXCEPT ![b] = to] : b \in DOMAIN g, to \in {g[c] : c \in DOMAIN g}}
           \cup {[c \in DOMAIN g \cup {new} |->
                    IF c = b THEN <<new>> ELSE IF c = new THEN g[b] ELSE g[c]] :
                        b \in DOMAIN g, new \in Block \ DOMAIN g} :
        h # g /\ IsCfg(h)}

Edits == [g \in Graphs |-> Changed(g) \cap Graphs]

(* What recalculate and analyze find in each graph.                        *)
Analysis ==
    [g \in Graphs |->
        [doms |-> [b \in Block |-> {a \in Block : Dominates(g, a, b)}],
         postDoms |-> [b \in Block |-> {a \in Block : PostDominates(g, a, b)}],
         live |-> LiveBlocks(g),
         idom |-> [b \in Block |-> ImmDom(g, b)],
         ipdom |-> [b \in Block |-> ImmPostDom(g, b)],
         children |-> [b \in Block |-> DomChildren(g, b)],
         common |-> [e \in Block \X Block |->
                        NearestCommonDominator(g, e[1], e[2])],
         depth |-> [b \in Block |-> LoopDepth(g, b)]]]

(* Every question has an answer for every block, in the function or not.   *)
ASSUME AnalysisAssumption ==
    Analysis \in [Graphs ->
        [doms : [Block -> SUBSET Block],
         postDoms : [Block -> SUBSET Block],
         live : SUBSET Block,
         idom : [Block -> Block \cup {NoBlock}],
         ipdom : [Block -> Block \cup {NoBlock}],
         children : [Block -> Seq(Block)],
         common : [Block \X Block -> Block \cup {NoBlock}],
         depth : [Block -> Nat]]]

(* An immediate dominator is one of the blocks the entry reaches.          *)
ASSUME IdomAssumption ==
    \A g \in Graphs : \A b \in Block :
        Analysis[g].idom[b] \in Analysis[g].live \cup {NoBlock}

VARIABLES
    succ,       \* the graph of each function, as it is now
    Current,    \* the function the trees are for
    DT, PDT,    \* the graph the dominator and the post-dominator tree show
    LI,         \* how often each function was analysed for loops (2: more than
                \* once), and the graph it had if once
    edited,     \* has the function changed since the trees were last built for it?
    edits,      \* number of changes so far
    answer,     \* the last question: "Dominates" or what it was put to, its
                \* function, and whether the answer is what the function's
                \* graph says at that moment
    walk,       \* a client's loop over the children of a block
    crashed     \* a null pointer has been dereferenced

vars == <<succ, Current, DT, PDT, LI, edited, edits, answer, walk, crashed>>

NoGraph == [b \in {} |-> <<>>]

Init ==
    /\ succ \in Functions
    /\ Current = NoFun
    /\ DT = NoGraph /\ PDT = NoGraph
    /\ LI = [f \in Fun |-> [visits |-> 0, graph |-> NoGraph]]
    /\ edited = [f \in Fun |-> FALSE]
    /\ edits = 0
    /\ answer = None
    /\ walk = None
    /\ crashed = FALSE
-----------------------------------------------------------------------------
(* analyze adds what it finds to the loops it has already found.           *)
Analyze(f) ==
    LI' = [LI EXCEPT ![f] = IF @.visits = 0
                            THEN [visits |-> 1, graph |-> succ[f]]
                            ELSE [visits |-> 2, graph |-> NoGraph]]

(* Mutant: the post-dominator tree is built once and for all.              *)
UpdateDominators_keepsPDT(f) ==
    IF Current # f
    THEN /\ Current' = f
         /\ DT' = succ[f]
         /\ PDT' = IF PDT = NoGraph THEN succ[f] ELSE PDT
         /\ Analyze(f)
         /\ edited' = [edited EXCEPT ![f] = FALSE]
    ELSE UNCHANGED <<Current, DT, PDT, LI, edited>>

(* Mutant: the trees are built for the first function only.                *)
UpdateDominators_once(f) ==
    IF Current = NoFun
    THEN /\ Current' = f
         /\ DT' = succ[f]
         /\ PDT' = succ[f]
         /\ Analyze(f)
         /\ edited' = [edited EXCEPT ![f] = FALSE]
    ELSE UNCHANGED <<Current, DT, PDT, LI, edited>>

UpdateDominators(f) ==
    IF Current # f
    THEN /\ Current' = f
         /\ DT' = succ[f]
         /\ PDT' = succ[f]
         /\ Analyze(f)
         /\ edited' = [edited EXCEPT ![f] = FALSE]
    ELSE UNCHANGED <<Current, DT, PDT, LI, edited>>

(* The question is put to the trees of graph shown.                        *)
Answer(kind, f, shown, Ask(_)) ==
    /\ answer' = [kind |-> kind, fun |-> f,
                  right |-> Ask(Analysis[shown]) = Ask(Analysis[succ[f]])]
    /\ UNCHANGED <<succ, edits, walk, crashed>>

Crash ==
    /\ crashed' = TRUE
    /\ answer' = None
    /\ UNCHANGED <<succ, edits, walk>>

LLVMDominates(f, a, b) ==
    /\ UpdateDominators(f)
    /\ Answer("Dominates", f, DT', LAMBDA t : a \in t.doms[b])

LLVMPostDominates(f, a, b) ==
    /\ UpdateDominators(f)
    /\ Answer("PDT", f, PDT', LAMBDA t : a \in t.postDoms[b])

LLVMIsReachableFromEntry(f, b) ==
    /\ UpdateDominators(f)
    /\ Answer("DT", f, DT', LAMBDA t : b \in t.live)

LLVMImmDom(f, b) ==
    /\ UpdateDominators(f)
    /\ Answer("DT", f, DT', LAMBDA t : t.idom[b])

(* A block the tree was not built with has no node: getIDom of a null      *)
(* pointer.  LLVMImmDom asks first.                                        *)
LLVMImmPostDom(f, b) ==
    /\ UpdateDominators(f)
    /\ IF b \in DOMAIN PDT'
       THEN Answer("PDT", f, PDT', LAMBDA t : t.ipdom[b])
       ELSE Crash

LLVMNearestCommonDominator(f, a, b) ==
    /\ UpdateDominators(f)
    /\ Answer("DT", f, DT', LAMBDA t : t.common[<<a, b>>])

(* The trees are built only if there are none, for any function; a         *)
(* function never analysed has no loops then.  What a second analysis of a *)
(* function makes of its own old loops is not for this interface to say.   *)
LLVMGetLoopNestingDepth(f, b) ==
    /\ IF Current = NoFun
       THEN UpdateDominators(f)
       ELSE UNCHANGED <<Current, DT, PDT, LI, edited>>
    /\ \E depth \in CASE LI'[f].visits = 0 -> {0}
                      [] LI'[f].visits = 1 -> {Analysis[LI'[f].graph].depth[b]}
                      [] OTHER -> 0 .. Cardinality(Block) :
        /\ answer' = [kind |-> "LI", fun |-> f,
                      right |-> depth = Analysis[succ[f]].depth[b]]
        /\ UNCHANGED <<succ, edits, walk, crashed>>

(* for (c = LLVMFirstDomChild(b); c != NULL; c = LLVMNextDomChild(b, c))   *)
LLVMFirstDomChild(f, b) ==
    /\ walk = None
    /\ UpdateDominators(f)
    /\ walk' = [fun |-> f, block |-> b, seen |-> <<>>,
                cur |-> FirstOf(Analysis[DT'].children[b]), clean |-> ~edited'[f]]
    /\ answer' = None
    /\ UNCHANGED <<succ, edits, crashed>>

(* Mutant: the trees at hand are used, whatever function they are for.     *)
LLVMNextDomChild_noUpdate ==
    /\ walk # None
    /\ walk.cur # NoBlock
    /\ UNCHANGED <<Current, DT, PDT, LI, edited>>
    /\ walk' = [walk EXCEPT
                    !.seen = Append(@, walk.cur),
                    !.cur = NextOf(Analysis[DT'].children[walk.block], walk.cur)]
    /\ answer' = None
    /\ UNCHANGED <<succ, edits, crashed>>

(* A block without a node in the tree crashes the search.                  *)
LLVMNextDomChild ==
    /\ walk # None
    /\ walk.cur # NoBlock
    /\ UpdateDominators(walk.fun)
    /\ IF walk.block \in Analysis[DT'].live
       THEN /\ walk' = [walk EXCEPT
                    !.seen = Append(@, walk.cur),
                    !.cur = NextOf(Analysis[DT'].children[walk.block], walk.cur)]
            /\ answer' = None
            /\ UNCHANGED <<succ, edits, crashed>>
       ELSE Crash

(* dominance.h has no call to say that a function has changed.             *)
Edit(f) ==
    /\ edits < MaxEdits
    /\ edits' = edits + 1
    /\ \E g \in Edits[succ[f]] : succ' = [succ EXCEPT ![f] = g]
    /\ edited' = [edited EXCEPT ![f] = TRUE]
    /\ walk' = IF walk # None /\ walk.fun = f THEN [walk EXCEPT !.clean = FALSE]
               ELSE walk
    /\ answer' = None
    /\ UNCHANGED <<Current, DT, PDT, LI, crashed>>

Query(f) ==
    \E b \in DOMAIN succ[f] :
        \/ \E a \in DOMAIN succ[f] :
            \/ LLVMDominates(f, a, b)
            \/ LLVMPostDominates(f, a, b)
            \/ LLVMNearestCommonDominator(f, a, b)
        \/ LLVMIsReachableFromEntry(f, b)
        \/ LLVMImmDom(f, b)
        \/ LLVMImmPostDom(f, b)
        \/ LLVMGetLoopNestingDepth(f, b)
        \/ LLVMFirstDomChild(f, b)

Crashed == crashed /\ UNCHANGED vars

Next ==
    \/ ~crashed /\ \E f \in Fun : Query(f) \/ Edit(f)
    \/ ~crashed /\ LLVMNextDomChild
    \/ Crashed

Spec == Init /\ [][Next]_vars
-----------------------------------------------------------------------------
(* An answer is right for the function as it is, as long as no client has  *)
(* changed that function since the trees were last built for it, however   *)
(* often questions about other functions came in between.  The loop depth  *)
(* needs more: one analysis of the function, and no second one.            *)
FreshUnlessEdited ==
    answer # None =>
        \/ edited[answer.fun]
        \/ answer.kind = "LI" /\ LI[answer.fun].visits # 1
        \/ answer.right

(* Clients that change nothing crash nothing, whatever they ask in which   *)
(* order: every block of the function asked about has its nodes then.      *)
CrashOnlyAfterEdit == crashed => edits > 0

(* The loop over the children of a block, which searches for its place     *)
(* anew on each turn, sees every child once, although questions about      *)
(* other functions may have the trees rebuilt between any two turns.       *)
WalkComplete ==
    walk # None /\ walk.cur = NoBlock /\ walk.clean =>
        LET children == {c \in DOMAIN succ[walk.fun] :
                            Analysis[succ[walk.fun]].idom[c] = walk.block}
        IN  /\ Len(walk.seen) = Cardinality(children)
            /\ {walk.seen[n] : n \in DOMAIN walk.seen} = children

(* "Test if a dom b" (dominance.cpp:56).                                   *)
TestsDominance ==
    answer # None /\ answer.kind = "Dominates" => answer.right
=============================================================================
