-------------------------------- MODULE IR --------------------------------
(***************************************************************************)
(* The part of an LLVM module that the two dead code eliminators of        *)
(* tutorial/5 look at: instructions, the function each belongs to, the     *)
(* instructions among its operands, and the kind of opcode.  Operands that *)
(* are no instructions (constants, arguments, blocks) are left out, both   *)
(* eliminators skip them.  An instruction may use itself or a later one:   *)
(* a PHI in a loop, or any instruction of an unreachable block.            *)
(*                                                                         *)
(* A module that was parsed need not be well formed: an operand may fail   *)
(* to dominate its use, as in what tutorial/3 writes for a variable that   *)
(* is assigned inside an if only.  Nobody but the verifier looks at that.  *)
(***************************************************************************)
EXTENDS Integers, FiniteSets

CONSTANTS
    Instr,      \* the instructions of the module
    NumFunc     \* its functions are 1 .. NumFunc, in module order

ASSUME InstrAssumption == IsFiniteSet(Instr)
ASSUME NumFuncAssumption == NumFunc \in Nat

(***************************************************************************)
(* "compute" is any opcode of the long case list of isDead, PHI and Alloca *)
(* included; FNeg is listed by the C++ version only.  "other" is the       *)
(* default case: stores, branches, calls, returns.                         *)
(***************************************************************************)
Opcode == {"compute", "fneg", "load", "volatileLoad", "other"}

(* SSA form: an operand is an instruction of the same function.            *)
Program ==
    {p \in [func : [Instr -> 1 .. NumFunc],
            ops  : [Instr -> SUBSET Instr],
            op   : [Instr -> Opcode],
            bad  : SUBSET Instr] :  \* the instructions that are ill-formed
        \A i \in Instr : \A j \in p.ops[i] : p.func[j] = p.func[i]}

(* The use list of i, I.use_begin() .. I.use_end(), when the instructions  *)
(* in kept are the ones still in the module.                               *)
Users(p, kept, i) == {u \in kept : i \in p.ops[u]}

InstrsOf(p, f) == {i \in Instr : p.func[i] = f}

(* No instruction in kept has an operand that is gone.                     *)
Intact(p, kept) == \A i \in kept : p.ops[i] \subseteq kept

(* What the LLVM verifier accepts.  A flaw outside the instructions counts *)
(* as one of an instruction that stays, a terminator.                      *)
Verifies(p, kept) == Intact(p, kept) /\ kept \cap p.bad = {}
=============================================================================
