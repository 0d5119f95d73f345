------------------------------ MODULE DceCpp ------------------------------
(***************************************************************************)
(* tutorial/5/C++/dce.cpp: read a module, remove dead code function by     *)
(* function with a worklist of instruction pointers, verify, write.        *)
(*                                                                         *)
(* The worklist is a std::set of pointers: it holds no duplicates and      *)
(* begin() is the smallest address, which no one controls, so the next     *)
(* instruction is any member.  Reading, transforming and writing happen in *)
(* one thread; what varies is the module, the addresses, and whether the   *)
(* command line, the two files and the disk are good.                      *)
(***************************************************************************)
EXTENDS IR

CONSTANT Programs   \* the modules the input file may hold
ASSUME ProgramsAssumption == Programs \subseteq Program

VARIABLES
    pc,         \* where main and RunDeadCodeElimination are
    prog,       \* the module as parsed: nothing rewrites an instruction
    alive,      \* the instructions not yet erased from their parent
    worklist,   \* std::set<Instruction*> of the function being cleaned
    cur,        \* the function the outer loop is at
    DCE_count,  \* the global counter
    out,        \* the output file, held by a ToolOutputFile
    status      \* the exit status of main, -1 while it runs

vars == <<pc, prog, alive, worklist, cur, DCE_count, out, status>>

(* The output file starts with whatever content it had, or is not there;   *)
(* opening truncates it.  "unopened" is what "old" is once the open has    *)
(* failed.                                                                 *)
OutState == {"old", "open", "unopened", "kept", "deleted"}

(* The destructor of ToolOutputFile, when keep() was not called: it removes*)
(* the file, unless the open had failed.                                   *)
Released == IF out = "open" THEN "deleted" ELSE out

(* A fatal error of LLVM ends the run and removes every file registered    *)
(* for that.  The output is registered before it is opened, so one that is *)
(* there and could not be opened may go too.                               *)
Interrupted == IF out = "open" THEN {"deleted"} ELSE {"deleted", out}

Removable == {"compute", "fneg", "load"}

(* Mutant: the use list is not looked at.                                  *)
isDead_noUseCheck(i) == prog.op[i] \in Removable

(* Mutant: isVolatile is not asked.                                        *)
isDead_volatileToo(i) == /\ prog.op[i] \in Removable \cup {"volatileLoad"}
                         /\ Users(prog, alive, i) = {}

isDead(i) == /\ prog.op[i] \in Removable
             /\ Users(prog, alive, i) = {}

Init ==
    /\ pc = "start"
    /\ prog \in Programs
    /\ alive = Instr
    /\ worklist = {}
    /\ cur = 1
    /\ DCE_count = 0
    /\ out = "old"
    /\ status = -1

(* main returns 1 before it touches any file when argc < 3.                *)
TooFewArguments ==
    /\ pc = "start"
    /\ pc' = "exit"
    /\ status' = 1
    /\ UNCHANGED <<prog, alive, worklist, cur, DCE_count, out>>

(* The output is opened first, and only then is the input parsed.  Nobody  *)
(* looks at the error code of the open.                                    *)
OpenOutput ==
    /\ pc = "start"
    /\ pc' = "parse"
    /\ out' \in {"open", "unopened"}
    /\ UNCHANGED <<prog, alive, worklist, cur, DCE_count, status>>

ParseFails ==
    /\ pc = "parse"
    /\ pc' = "exit"
    /\ out' = Released
    /\ status' = 1
    /\ UNCHANGED <<prog, alive, worklist, cur, DCE_count>>

ParseSucceeds ==
    /\ pc = "parse"
    /\ pc' = "function"
    /\ UNCHANGED <<prog, alive, worklist, cur, DCE_count, out, status>>

(* Mutant: the loop over functions runs one too far.                       *)
ScanFunction_offByOne ==
    /\ pc = "function"
    /\ cur <= NumFunc + 1
    /\ worklist' = {i \in Instr \cap alive : prog.func[i] = cur /\ isDead(i)}
    /\ pc' = "drain"
    /\ UNCHANGED <<prog, alive, cur, DCE_count, out, status>>

(* The head of the loop over functions and the scan of its body: a fresh   *)
(* worklist receives every instruction that is dead now.  The scan changes *)
(* no instruction, so it is one step.                                      *)
ScanFunction ==
    /\ pc = "function"
    /\ cur <= NumFunc
    /\ worklist' = {i \in InstrsOf(prog, cur) \cap alive : isDead(i)}
    /\ pc' = "drain"
    /\ UNCHANGED <<prog, alive, cur, DCE_count, out, status>>

(* Mutant: the instruction is not erased from the worklist first.          *)
EraseDead_leavesEntry(i) ==
    /\ isDead(i)
    /\ worklist' = worklist \cup prog.ops[i]
    /\ alive' = alive \ {i}
    /\ DCE_count' = DCE_count + 1

(* Mutant: operands are queued only if they are dead already, while i      *)
(* still uses them.                                                        *)
EraseDead_asksTooEarly(i) ==
    /\ isDead(i)
    /\ worklist' = (worklist \ {i}) \cup {j \in prog.ops[i] : isDead(j)}
    /\ alive' = alive \ {i}
    /\ DCE_count' = DCE_count + 1

EraseDead(i) ==
    /\ isDead(i)
    /\ worklist' = (worklist \ {i}) \cup prog.ops[i]
    /\ alive' = alive \ {i}
    /\ DCE_count' = DCE_count + 1

(* Mutant: an instruction is taken off the worklist only with its erasure. *)
SkipUsed_leavesEntry(i) ==
    /\ ~isDead(i)
    /\ UNCHANGED <<worklist, alive, DCE_count>>

(* Mutant: every turn of the drain loop is counted.                        *)
SkipUsed_counts(i) ==
    /\ ~isDead(i)
    /\ worklist' = worklist \ {i}
    /\ DCE_count' = DCE_count + 1
    /\ UNCHANGED alive

SkipUsed(i) ==
    /\ ~isDead(i)
    /\ worklist' = worklist \ {i}
    /\ UNCHANGED <<alive, DCE_count>>

(* One turn of the drain loop: an instruction that got here as an operand  *)
(* may still be used, or may be no removable one, so isDead is asked again.*)
DrainOne ==
    /\ pc = "drain"
    /\ \E i \in worklist : EraseDead(i) \/ SkipUsed(i)
    /\ UNCHANGED <<pc, prog, cur, out, status>>

FunctionDone ==
    /\ pc = "drain"
    /\ worklist = {}
    /\ cur' = cur + 1
    /\ pc' = "function"
    /\ UNCHANGED <<prog, alive, worklist, DCE_count, out, status>>

ModuleDone ==
    /\ pc = "function"
    /\ cur > NumFunc
    /\ pc' = "verify"
    /\ UNCHANGED <<prog, alive, worklist, cur, DCE_count, out, status>>

(* The verifier agrees: the module is written and the output kept.         *)
Written ==
    /\ pc = "verify"
    /\ Verifies(prog, alive)
    /\ out = "open"
    /\ out' = "kept"
    /\ pc' = "exit"
    /\ status' = 0
    /\ UNCHANGED <<prog, alive, worklist, cur, DCE_count>>

(* A file that was never opened takes nothing, nor does a full disk.  The  *)
(* stream notices when it is destroyed, after keep(), and that is a fatal  *)
(* error.                                                                  *)
WriteFails ==
    /\ pc = "verify"
    /\ Verifies(prog, alive)
    /\ out' \in Interrupted
    /\ pc' = "exit"
    /\ status' = 1
    /\ UNCHANGED <<prog, alive, worklist, cur, DCE_count>>

(* The verifier objects: the output is not kept, and main returns 0.       *)
Rejected ==
    /\ pc = "verify"
    /\ ~Verifies(prog, alive)
    /\ out' = Released
    /\ pc' = "exit"
    /\ status' = 0
    /\ UNCHANGED <<prog, alive, worklist, cur, DCE_count>>

Exited == pc = "exit" /\ UNCHANGED vars

Next ==
    \/ TooFewArguments \/ OpenOutput
    \/ ParseFails \/ ParseSucceeds
    \/ ScanFunction \/ DrainOne \/ FunctionDone \/ ModuleDone
    \/ Written \/ WriteFails \/ Rejected
    \/ Exited

(* One thread runs main: as long as it has a next step it takes it.        *)
Fairness == WF_vars(Next)

Spec == Init /\ [][Next]_vars /\ Fairness
-----------------------------------------------------------------------------
PC == {"start", "parse", "function", "drain", "verify", "exit"}

(* Type invariant of the state above.                                      *)
TypeOK ==
    /\ pc \in PC
    /\ prog \in Program
    /\ alive \subseteq Instr
    /\ worklist \subseteq Instr
    /\ cur \in 1 .. NumFunc + 1
    /\ pc = "drain" => cur <= NumFunc
    /\ DCE_count \in Nat
    /\ out \in OutState
    /\ status \in {-1, 0, 1}

(* The worklist never holds an instruction that eraseFromParent has freed: *)
(* the drain loop would dereference it.                                    *)
WorklistAlive == worklist \subseteq alive

(* No instruction that stays has an operand that is gone, at any point of  *)
(* the run: an operand is erased only after its last user.                 *)
OperandsAlive == Intact(prog, alive)

Abs == INSTANCE AbstractDCE WITH kept <- alive

(* When main is through, the instructions left are exactly the largest set *)
(* in which each one is unremovable or used: nothing dead is left behind,  *)
(* nothing else went, and the addresses that order the worklist made no    *)
(* difference.                                                             *)
ResidueLeft == pc = "exit" /\ status = 0 => alive = Abs!Residue(prog)

(* DCE_count counts each erased instruction once, over all functions.      *)
CountIsErased == DCE_count = Cardinality(Instr \ alive)

(* main returns 0 whether or not the output is there.  When it is not, and *)
(* main returned 0, then an ill-formed instruction of the input is needed  *)
(* by what may not be removed; an ill-formed one that is dead is removed,  *)
(* and the output is written.  A failed open or write is never passed over *)
(* in silence, and an output that is kept is one the verifier accepts.     *)
ZeroMeansWritten ==
    pc = "exit" =>
        /\ out = "kept" => status = 0 /\ Verifies(prog, alive)
        /\ status = 0 =>
              (out = "kept" <=> Abs!Residue(prog) \cap prog.bad = {})

(* Instructions of functions the outer loop has passed, that no one erased *)
(* then, do not become dead later.                                         *)
PassedFunctionsClean ==
    pc \in {"function", "drain", "verify"} =>
        \A i \in alive : isDead(i) =>
            \/ prog.func[i] > cur
            \/ prog.func[i] = cur /\ (pc = "function" \/ i \in worklist)

(* The elimination implements its promise, step by step.                   *)
Refines == Abs!AbsSpec

(* Every run ends: each turn of the drain loop takes an instruction off    *)
(* the worklist, and puts instructions on it only when it erases one.      *)
Terminates == <>(pc = "exit")
=============================================================================
