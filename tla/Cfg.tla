-------------------------------- MODULE Cfg --------------------------------
(***************************************************************************)
(* Control flow graphs, and what LLVM computes from one: dominators, post- *)
(* dominators and natural loops, each defined by what it means rather than *)
(* by an algorithm.  A graph gives every block of a function the sequence  *)
(* of its successors, in the order of the terminator's operands.           *)
(***************************************************************************)
EXTENDS Integers, SequencesExt

CONSTANTS
    Entry,      \* the first block of every function
    NoBlock     \* NULL

Edges(g) == UNION {{<<a, g[a][n]>> : n \in DOMAIN g[a]} : a \in DOMAIN g}

Reversed(edges) == {<<e[2], e[1]>> : e \in edges}

(* The members of nodes on a path within nodes that begins in from.        *)
Reachable(nodes, edges, from) ==
    LET within[n \in 0 .. Cardinality(nodes)] ==
            IF n = 0
            THEN from \cap nodes
            ELSE LET before == within[n - 1]
                 IN  before \cup {b \in nodes : \E a \in before : <<a, b>> \in edges}
    IN  within[Cardinality(nodes)]

LiveBlocks(g) == Reachable(DOMAIN g, Edges(g), {Entry})

Exits(g) == {b \in DOMAIN g : g[b] = <<>>}

(* What LLVM puts into a post-dominator tree for blocks that reach no exit *)
(* is its own affair: the graphs considered have none.                     *)
IsCfg(g) ==
    /\ Entry \in DOMAIN g
    /\ \A e \in Edges(g) : e[2] \in DOMAIN g \ {Entry}
    /\ Reachable(DOMAIN g, Reversed(Edges(g)), Exits(g)) = DOMAIN g

(* An unreachable block, or one that the graph does not have, is dominated *)
(* by every block and dominates itself only.                               *)
Dominates(g, a, b) ==
    \/ a = b
    \/ b \notin LiveBlocks(g)
    \/ /\ a \in LiveBlocks(g)
       /\ b \notin Reachable(DOMAIN g \ {a}, Edges(g), {Entry})

PostDominates(g, a, b) ==
    \/ a = b
    \/ b \notin DOMAIN g
    \/ /\ a \in DOMAIN g
       /\ b \notin Reachable(DOMAIN g \ {a}, Reversed(Edges(g)), Exits(g))

(* The member of candidates that all others dominate, if there is one.     *)
Closest(candidates, Dom(_, _)) ==
    IF candidates = {}
    THEN NoBlock
    ELSE CHOOSE c \in candidates : \A d \in candidates : Dom(d, c)

ImmDom(g, b) ==
    IF b \notin LiveBlocks(g)
    THEN NoBlock
    ELSE Closest({a \in LiveBlocks(g) \ {b} : Dominates(g, a, b)},
                 LAMBDA a, c : Dominates(g, a, c))

ImmPostDom(g, b) ==
    IF b \notin DOMAIN g
    THEN NoBlock
    ELSE Closest({a \in DOMAIN g \ {b} : PostDominates(g, a, b)},
                 LAMBDA a, c : PostDominates(g, a, c))

(* The children of b in the dominator tree, in an order that stays.        *)
DomChildren(g, b) ==
    SetToSeq({c \in DOMAIN g : b # NoBlock /\ ImmDom(g, c) = b})

NearestCommonDominator(g, a, b) ==
    IF Entry \in {a, b}
    THEN Entry
    ELSE IF ~({a, b} \subseteq LiveBlocks(g))
    THEN NoBlock
    ELSE Closest({d \in LiveBlocks(g) : Dominates(g, d, a) /\ Dominates(g, d, b)},
                 LAMBDA d, c : Dominates(g, d, c))

Latches(g, h) == {l \in LiveBlocks(g) : <<l, h>> \in Edges(g) /\ Dominates(g, h, l)}

Headers(g) == {h \in LiveBlocks(g) : Latches(g, h) # {}}

(* The natural loop of h: the blocks from which a latch is reached without *)
(* passing h.                                                              *)
LoopBlocks(g, h) ==
    {h} \cup Reachable(LiveBlocks(g) \ {h}, Reversed(Edges(g)), Latches(g, h))

LoopDepth(g, b) == Cardinality({h \in Headers(g) : b \in LoopBlocks(g, h)})

OutermostLoops(g) == SetToSeq({h \in Headers(g) : LoopDepth(g, h) = 1})

(* One entry for each edge into b, as pred_begin(b) .. pred_end(b), in an  *)
(* order that stays: LLVM's is that of the uses of b.                      *)
Preds(g, b) ==
    LET outgoing == UNION {{<<a, n>> : n \in DOMAIN g[a]} : a \in DOMAIN g}
        into == SetToSeq({e \in outgoing : g[e[1]][e[2]] = b})
    IN  [k \in DOMAIN into |-> into[k][1]]
=============================================================================
