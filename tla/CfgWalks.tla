------------------------------ MODULE CfgWalks ------------------------------
(***************************************************************************)
(* projects/lib/analysis/cfg.cpp and loop.cpp as a C client uses them: a   *)
(* loop over the successors or the predecessors of a block, or over the    *)
(* outermost loops of a function with, for each, the worklist of its       *)
(* blocks or of its exits.                                                 *)
(***************************************************************************)
EXTENDS Cfg

CONSTANT Graphs     \* the functions walked over

(* Every operand of a terminator is a block of the function.               *)
ASSUME GraphsAssumption ==
    \A f \in Graphs : /\ f \in [DOMAIN f -> Seq(DOMAIN f)]
                      /\ IsFiniteSet(DOMAIN f) /\ NoBlock \notin DOMAIN f
                      /\ IsCfg(f)

(* One exit for each edge out of the loop of h; the worklist, a set, keeps *)
(* one for each block.                                                     *)
ExitBlocks(f, h) ==
    LET loop == LoopBlocks(f, h)
    IN  {b \in DOMAIN f \ loop : \E a \in loop : <<a, b>> \in Edges(f)}

(* What LLVM's iterators deliver for a function, and LoopInfo, which        *)
(* LLVMCreateLoopInfoRef fills once.                                       *)
LLVMCreateLoopInfoRef(f) ==
    [succs |-> f,
     preds |-> [b \in DOMAIN f |-> Preds(f, b)],
     loops |-> OutermostLoops(f),
     blocks |-> [h \in Headers(f) |-> LoopBlocks(f, h)],
     exits |-> [h \in Headers(f) |-> ExitBlocks(f, h)],
     latches |-> [h \in Headers(f) |-> Latches(f, h)],
     looping |-> {b \in DOMAIN f : LoopDepth(f, b) > 0}]

INSTANCE ListByValue WITH NoElement <- NoBlock
INSTANCE Worklist WITH NoValue <- NoBlock

VARIABLES
    pc,         \* "turn" in the loop, "drain" in its body, "done" behind it
    g,          \* the function, and its loops
    kind,       \* what is walked over
    block,      \* the block whose edges are walked over
    cur,        \* the client's loop variable
    worklist,   \* the worklist filled for the loop cur
    seen        \* what the client has been given, up to one entry too many

vars == <<pc, g, kind, block, cur, worklist, seen>>

LLVMGetFirstSuccessor(b) == FirstOf(g.succs[b])

LLVMGetNextSuccessor(b, last) == NextOf(g.succs[b], last)

LLVMGetFirstPredecessor(b) == FirstOf(g.preds[b])

LLVMGetNextPredecessor(b, last) == NextOf(g.preds[b], last)

LLVMCountPredecessors(b) == Len(g.preds[b])

LLVMSinglePredecessor(b) == Len(g.preds[b]) = 1

LLVMSingleSuccessor(b) == Len(g.succs[b]) = 1

LLVMGetFirstLoop == FirstOf(g.loops)

LLVMGetNextLoop(last) == NextOf(g.loops, last)

(* Mutant: only the header and the latches are entered.                    *)
LLVMGetBlocksInLoop_ends(h) ==
    worklist_insert_all(worklist_create, {h} \cup g.latches[h])

LLVMGetBlocksInLoop(h) ==
    worklist_insert_all(worklist_create, g.blocks[h])

LLVMGetExitBlocks(h) == worklist_insert_all(worklist_create, g.exits[h])

(* The list that is walked over.                                           *)
List == CASE kind = "successors" -> g.succs[block]
          [] kind = "predecessors" -> g.preds[block]
          [] OTHER -> g.loops

First == CASE kind = "successors" -> LLVMGetFirstSuccessor(block)
           [] kind = "predecessors" -> LLVMGetFirstPredecessor(block)
           [] OTHER -> LLVMGetFirstLoop

Following == CASE kind = "successors" -> LLVMGetNextSuccessor(block, cur)
               [] kind = "predecessors" -> LLVMGetNextPredecessor(block, cur)
               [] OTHER -> LLVMGetNextLoop(cur)

Fill == IF kind = "blocks" THEN LLVMGetBlocksInLoop(cur) ELSE LLVMGetExitBlocks(cur)

OverEdges == kind \in {"successors", "predecessors"}

(* seen stops at one entry more than the list has.                         *)
Given(x) == IF OverEdges /\ Len(seen) > Len(List) THEN seen ELSE Append(seen, x)

Init ==
    /\ g \in {LLVMCreateLoopInfoRef(f) : f \in Graphs}
    /\ kind \in {"successors", "predecessors", "blocks", "exits"}
    /\ block \in IF OverEdges THEN DOMAIN g.succs ELSE {Entry}
    /\ cur = First
    /\ worklist = {}
    /\ seen = <<>>
    /\ pc = "turn"

(* for (s = LLVMGetFirst...(b); s != NULL; s = LLVMGetNext...(b, s))       *)
NextEdge ==
    /\ pc = "turn" /\ cur # NoBlock
    /\ OverEdges
    /\ seen' = Given(cur)
    /\ cur' = Following
    /\ UNCHANGED <<pc, g, kind, block, worklist>>

EnterLoop ==
    /\ pc = "turn" /\ cur # NoBlock
    /\ ~OverEdges
    /\ worklist' = Fill
    /\ pc' = "drain"
    /\ UNCHANGED <<g, kind, block, cur, seen>>

(* The client pops until the worklist is empty, in address order.          *)
PopBlock ==
    /\ pc = "drain"
    /\ ~worklist_empty(worklist)
    /\ \E top \in worklist_pop(worklist) :
        /\ worklist' = top.rest
        /\ seen' = Given(<<cur, top.value>>)
    /\ UNCHANGED <<pc, g, kind, block, cur>>

NextLoop ==
    /\ pc = "drain"
    /\ worklist_empty(worklist)
    /\ cur' = Following
    /\ pc' = "turn"
    /\ UNCHANGED <<g, kind, block, worklist, seen>>

Finish ==
    /\ pc = "turn" /\ cur = NoBlock
    /\ pc' = "done"
    /\ UNCHANGED <<g, kind, block, cur, worklist, seen>>

Done == pc = "done" /\ UNCHANGED vars

Next == NextEdge \/ EnterLoop \/ PopBlock \/ NextLoop \/ Finish \/ Done

Spec == Init /\ [][Next]_vars /\ WF_vars(Next)
-----------------------------------------------------------------------------
(* Every block of every outermost loop, or every exit.                     *)
Pairs == LET inside == IF kind = "blocks" THEN g.blocks ELSE g.exits
         IN  UNION {{<<h, b>> : b \in inside[h]} : h \in ToSet(g.loops)}

(* A client whose loop has ended was given every edge, in order, and as    *)
(* many as LLVMCountPredecessors says; walking the outermost loops, it has *)
(* met every block of every loop, the inner ones included, exactly once,   *)
(* and each exit of each outermost loop once, however many edges lead to   *)
(* it.                                                                     *)
WalkComplete ==
    pc = "done" =>
        /\ OverEdges => seen = List
        /\ kind = "predecessors" => /\ Len(seen) = LLVMCountPredecessors(block)
                                    /\ LLVMSinglePredecessor(block) <=>
                                        cur = NoBlock /\ Len(seen) = 1
        /\ ~OverEdges => /\ ToSet(seen) = Pairs
                         /\ Len(seen) = Cardinality(Pairs)
        /\ kind = "blocks" => /\ {p[2] : p \in ToSet(seen)} = g.looping
                              /\ Len(seen) = Cardinality(g.looping)

Repeats == \E m, n \in DOMAIN List : m # n /\ List[m] = List[n]

(* The client's loop over the edges ends exactly if no block is on the     *)
(* list twice.  A switch, or a branch with both arms to one block, puts it *)
(* there; the search by value then returns to the first of the two and the *)
(* client turns between them for ever.                                     *)
EndsUnlessRepeated ==
    \/ ~Repeats /\ <>(pc = "done")
    \/ Repeats /\ [](pc # "done")
=============================================================================
