------------------------------- MODULE DceC -------------------------------
(***************************************************************************)
(* tutorial/5/C/dce.c: the same elimination over the C interface.  It has  *)
(* one worklist for the whole module, filled by a scan of every function   *)
(* before the first instruction is erased, and its isDead knows no FNeg.   *)
(***************************************************************************)
EXTENDS IR

CONSTANTS
    Programs,   \* the modules the input file may hold
    NoValue     \* what worklist_pop returns from an empty worklist

ASSUME ProgramsAssumption == Programs \subseteq Program
ASSUME NoValueAssumption == NoValue \notin Instr

INSTANCE Worklist

VARIABLES
    pc,         \* where main and RunDeadCodeElimination are
    prog,       \* the module as parsed
    alive,      \* the instructions not yet erased from their parent
    worklist,   \* the module's worklist
    cur,        \* the function the scan is at
    DCE_count,  \* the global counter
    out,        \* the output file: "old" until bitcode is written to it
    status      \* the exit status of main, -1 while it runs

vars == <<pc, prog, alive, worklist, cur, DCE_count, out, status>>

Removable == {"compute", "load"}

(* Mutant: the use list is not looked at.                                  *)
isDead_noUseCheck(i) == prog.op[i] \in Removable

(* Mutant: LLVMGetVolatile is not asked.                                   *)
isDead_volatileToo(i) == /\ Users(prog, alive, i) = {}
                         /\ prog.op[i] \in Removable \cup {"volatileLoad"}

(* Mutant: the load case falls through to the default.                     *)
isDead_keepsLoads(i) == /\ Users(prog, alive, i) = {}
                        /\ prog.op[i] \in Removable \ {"load"}

isDead(i) == /\ Users(prog, alive, i) = {}
             /\ prog.op[i] \in Removable

Init ==
    /\ pc = "start"
    /\ prog \in Programs
    /\ alive = Instr
    /\ worklist = {}
    /\ cur = 1
    /\ DCE_count = 0
    /\ out = "old"
    /\ status = -1

(* Too few arguments are no failure for this main ...                      *)
TooFewArguments ==
    /\ pc = "start"
    /\ pc' = "exit"
    /\ status' = 0
    /\ UNCHANGED <<prog, alive, worklist, cur, DCE_count, out>>

(* ... an input that cannot be read or parsed is one.                      *)
UnreadableInput ==
    /\ pc = "start"
    /\ pc' = "exit"
    /\ status' = 1
    /\ UNCHANGED <<prog, alive, worklist, cur, DCE_count, out>>

(* The input is read and parsed whole before anything else is opened.      *)
ReadModule ==
    /\ pc = "start"
    /\ pc' = "scan"
    /\ worklist' = worklist_create
    /\ UNCHANGED <<prog, alive, cur, DCE_count, out, status>>

(* Mutant: the scan runs one function too far.                             *)
ScanFunction_offByOne ==
    /\ pc = "scan"
    /\ cur <= NumFunc + 1
    /\ worklist' =
        worklist_insert_all(worklist,
                            {i \in InstrsOf(prog, cur) \cap alive : isDead(i)})
    /\ cur' = cur + 1
    /\ UNCHANGED <<pc, prog, alive, DCE_count, out, status>>

ScanFunction ==
    /\ pc = "scan"
    /\ cur <= NumFunc
    /\ worklist' =
        worklist_insert_all(worklist,
                            {i \in InstrsOf(prog, cur) \cap alive : isDead(i)})
    /\ cur' = cur + 1
    /\ UNCHANGED <<pc, prog, alive, DCE_count, out, status>>

ScanDone ==
    /\ pc = "scan"
    /\ cur > NumFunc
    /\ pc' = "drain"
    /\ UNCHANGED <<prog, alive, worklist, cur, DCE_count, out, status>>

(* Mutant: only an instruction that is erased leaves the worklist.         *)
DrainOne_popsErasedOnly ==
    /\ pc = "drain"
    /\ ~worklist_empty(worklist)
    /\ \E top \in worklist_pop(worklist) :
        \/ /\ isDead(top.value)
           /\ worklist' = worklist_insert_all(top.rest, prog.ops[top.value])
           /\ DCE_count' = DCE_count + 1
           /\ alive' = alive \ {top.value}
        \/ /\ ~isDead(top.value)
           /\ UNCHANGED <<worklist, alive, DCE_count>>
    /\ UNCHANGED <<pc, prog, cur, out, status>>

(* One turn of the drain loop.  The operands are queued while i still uses *)
(* them; i is erased last.                                                 *)
DrainOne ==
    /\ pc = "drain"
    /\ ~worklist_empty(worklist)
    /\ \E top \in worklist_pop(worklist) :
        \/ /\ isDead(top.value)
           /\ worklist' = worklist_insert_all(top.rest, prog.ops[top.value])
           /\ DCE_count' = DCE_count + 1
           /\ alive' = alive \ {top.value}
        \/ /\ ~isDead(top.value)
           /\ worklist' = top.rest
           /\ UNCHANGED <<alive, DCE_count>>
    /\ UNCHANGED <<pc, prog, cur, out, status>>

(* The result replaces argv[2] only if the module verifies.  Whether it    *)
(* does, and whether argv[2] could be opened, main returns 0 ...           *)
VerifyAndWrite ==
    /\ pc = "drain"
    /\ worklist_empty(worklist)
    /\ out' \in IF Verifies(prog, alive) THEN {"written", "old"} ELSE {"old"}
    /\ pc' = "exit"
    /\ status' = 0
    /\ UNCHANGED <<prog, alive, worklist, cur, DCE_count>>

(* ... but a disk that fills up is a fatal error of LLVM, and leaves the   *)
(* part that was written.                                                  *)
WriteFails ==
    /\ pc = "drain"
    /\ worklist_empty(worklist)
    /\ Verifies(prog, alive)
    /\ out' = "torn"
    /\ pc' = "exit"
    /\ status' = 1
    /\ UNCHANGED <<prog, alive, worklist, cur, DCE_count>>

Exited == pc = "exit" /\ UNCHANGED vars

Next ==
    \/ TooFewArguments \/ UnreadableInput \/ ReadModule
    \/ ScanFunction \/ ScanDone \/ DrainOne
    \/ VerifyAndWrite \/ WriteFails
    \/ Exited

Fairness == WF_vars(Next)

Spec == Init /\ [][Next]_vars /\ Fairness
-----------------------------------------------------------------------------
(* Type invariant of the state above.                                      *)
TypeOK ==
    /\ pc \in {"start", "scan", "drain", "exit"}
    /\ prog \in Program
    /\ alive \subseteq Instr
    /\ worklist \subseteq Instr
    /\ cur \in 1 .. NumFunc + 1
    /\ DCE_count \in Nat
    /\ out \in {"old", "torn", "written"}
    /\ status \in {-1, 0, 1}

(* The module-wide worklist never holds a freed instruction, although the  *)
(* operands of one function are queued among the dead of another.          *)
WorklistAlive == worklist \subseteq alive

(* No instruction that stays has an operand that is gone.                  *)
OperandsAlive == Intact(prog, alive)

Abs == INSTANCE AbstractDCE WITH kept <- alive

(* Same promise as the C++ version, with one opcode fewer.                 *)
Refines == Abs!AbsSpec

Cpp == INSTANCE AbstractDCE WITH kept <- alive,
                                 Removable <- {"compute", "fneg", "load"}

(* Whatever the C++ version keeps this one keeps, and where FNeg does not  *)
(* occur both keep the same instructions: filling one worklist up front    *)
(* or one for each function makes no difference.                           *)
AgreesWithCpp ==
    worklist = {} /\ pc = "drain" =>
        /\ Cpp!Residue(prog) \subseteq alive
        /\ (\A i \in Instr : prog.op[i] # "fneg") => alive = Cpp!Residue(prog)

(* Every run ends.                                                         *)
Terminates == <>(pc = "exit")
=============================================================================
