---------------------------- MODULE AbstractDCE ----------------------------
(***************************************************************************)
(* What dead code elimination promises, without worklists or functions:    *)
(* as long as some instruction of the module is removable and unused, one  *)
(* such instruction is removed; nothing else ever is.                      *)
(***************************************************************************)
EXTENDS IR

CONSTANT Removable  \* the opcodes that may be removed

VARIABLES
    prog,       \* the module as it was read
    kept        \* its instructions that have not been erased

absVars == <<prog, kept>>

Unused(i) == /\ i \in kept
             /\ prog.op[i] \in Removable
             /\ Users(prog, kept, i) = {}

AbsInit == prog \in Program /\ kept = Instr

Remove(i) == /\ Unused(i)
             /\ kept' = kept \ {i}
             /\ UNCHANGED prog

AbsNext == \E i \in Instr : Remove(i)

AbsSpec == AbsInit /\ [][AbsNext]_absVars

(***************************************************************************)
(* A set of instructions supports itself when each of its members is there *)
(* for a reason: it may not be removed, or another member uses it.  The    *)
(* union of all such sets supports itself too, so there is a largest one,  *)
(* and it depends on the module alone.                                     *)
(***************************************************************************)
SelfSupporting(p, S) ==
    \A i \in S : p.op[i] \in Removable => Users(p, S, i) # {}

Residue(p) == UNION {S \in SUBSET Instr : SelfSupporting(p, S)}
=============================================================================
