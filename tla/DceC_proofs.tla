---------------------------- MODULE DceC_proofs ----------------------------
(***************************************************************************)
(* Proofs about tutorial/5/C/dce.c for every module, every number of       *)
(* functions and every order in which the one worklist is popped.          *)
(***************************************************************************)
EXTENDS DceC, TLAPS

(***************************************************************************)
(* As in the C++ version the invariants need one another: what a pop       *)
(* queues is alive because no instruction has a dangling operand.          *)
(***************************************************************************)
Safe == TypeOK /\ WorklistAlive /\ OperandsAlive

(* What erasing dead top does to the two lists: the operands that are      *)
(* queued are alive, top is not among them, and no operand dangles.        *)
LEMMA EraseKeepsSafe ==
    ASSUME NEW p \in Program, NEW A \in SUBSET Instr, NEW i \in A,
           Intact(p, A), Users(p, A, i) = {}
    PROVE  p.ops[i] \subseteq A \ {i} /\ Intact(p, A \ {i})
BY DEF Intact, Users, Program

(* What worklist_pop hands out when the worklist is not empty.             *)
LEMMA PopTakesAMember ==
    ASSUME ~worklist_empty(worklist), NEW top \in worklist_pop(worklist)
    PROVE  top.value \in worklist /\ top.rest = worklist \ {top.value}
BY DEF worklist_pop, worklist_empty

(* The two outcomes of a turn of the drain loop, for the value popped.     *)
LEMMA DrainCases ==
    ASSUME DrainOne
    PROVE  \E i \in worklist :
             \/ /\ isDead(i)
                /\ worklist' = (worklist \ {i}) \cup prog.ops[i]
                /\ DCE_count' = DCE_count + 1
                /\ alive' = alive \ {i}
             \/ /\ ~isDead(i)
                /\ worklist' = worklist \ {i}
                /\ UNCHANGED <<alive, DCE_count>>
<1>1. PICK top \in worklist_pop(worklist) :
        \/ /\ isDead(top.value)
           /\ worklist' = worklist_insert_all(top.rest, prog.ops[top.value])
           /\ DCE_count' = DCE_count + 1
           /\ alive' = alive \ {top.value}
        \/ /\ ~isDead(top.value)
           /\ worklist' = top.rest
           /\ UNCHANGED <<alive, DCE_count>>
    BY DEF DrainOne
<1>2. top.value \in worklist /\ top.rest = worklist \ {top.value}
    BY <1>1, PopTakesAMember DEF DrainOne
<1> QED
    BY <1>1, <1>2 DEF worklist_insert_all

(* The state in which main starts is safe.                                 *)
LEMMA InitSafe == Init => Safe
BY ProgramsAssumption, NumFuncAssumption
DEF Init, Safe, TypeOK, WorklistAlive, OperandsAlive, Intact, Program

(* Every step of main keeps it safe.                                       *)
LEMMA NextSafe == Safe /\ [Next]_vars => Safe'
<1> SUFFICES ASSUME Safe, [Next]_vars PROVE Safe'
    OBVIOUS
<1> USE NumFuncAssumption
<1>1. TypeOK /\ WorklistAlive /\ OperandsAlive
    BY DEF Safe
<1>2. CASE UNCHANGED <<prog, alive, worklist, DCE_count>>
  <2>1. WorklistAlive' /\ OperandsAlive'
    BY <1>1, <1>2 DEF WorklistAlive, OperandsAlive
  <2>2. TypeOK'
    BY <1>1, <1>2
    DEF Next, TooFewArguments, UnreadableInput, ReadModule, ScanFunction,
        ScanDone, VerifyAndWrite, WriteFails, DrainOne, Exited, vars, TypeOK
  <2> QED BY <2>1, <2>2 DEF Safe
<1>3. CASE ReadModule
    BY <1>1, <1>3
    DEF ReadModule, worklist_create, Safe, TypeOK, WorklistAlive, OperandsAlive
<1>4. CASE ScanFunction
  <2>1. TypeOK'
    BY <1>1, <1>4 DEF ScanFunction, TypeOK, InstrsOf, worklist_insert_all
  <2>2. WorklistAlive' /\ OperandsAlive'
    BY <1>1, <1>4
    DEF ScanFunction, worklist_insert_all, WorklistAlive, OperandsAlive
  <2> QED BY <2>1, <2>2 DEF Safe
<1>5. CASE DrainOne
  <2>1. PICK i \in worklist :
          \/ /\ isDead(i)
             /\ worklist' = (worklist \ {i}) \cup prog.ops[i]
             /\ DCE_count' = DCE_count + 1
             /\ alive' = alive \ {i}
          \/ /\ ~isDead(i)
             /\ worklist' = worklist \ {i}
             /\ UNCHANGED <<alive, DCE_count>>
    BY <1>5, DrainCases
  <2>2. UNCHANGED <<pc, prog, cur, out, status>>
    BY <1>5 DEF DrainOne
  <2>3. i \in alive /\ prog \in Program /\ alive \in SUBSET Instr
    BY <1>1, <2>1 DEF TypeOK, WorklistAlive
  <2>4. CASE isDead(i)
    <3>1. prog.ops[i] \subseteq alive \ {i} /\ Intact(prog, alive \ {i})
      BY <1>1, <2>3, <2>4, EraseKeepsSafe DEF isDead, OperandsAlive
    <3>2. TypeOK'
      BY <1>1, <2>1, <2>2, <2>3, <2>4, <3>1 DEF TypeOK
    <3>3. WorklistAlive' /\ OperandsAlive'
      BY <1>1, <2>1, <2>2, <2>4, <3>1 DEF WorklistAlive, OperandsAlive
    <3> QED BY <3>2, <3>3 DEF Safe
  <2>5. CASE ~isDead(i)
    <3>1. TypeOK'
      BY <1>1, <2>1, <2>2, <2>5 DEF TypeOK
    <3>2. WorklistAlive' /\ OperandsAlive'
      BY <1>1, <2>1, <2>2, <2>5 DEF WorklistAlive, OperandsAlive
    <3> QED BY <3>1, <3>2 DEF Safe
  <2> QED BY <2>4, <2>5
<1> QED
    BY <1>2, <1>3, <1>4, <1>5
    DEF Next, TooFewArguments, UnreadableInput, ScanDone, VerifyAndWrite,
        WriteFails, Exited, vars

(***************************************************************************)
(* No run pops a freed instruction, and no run leaves a dangling operand,  *)
(* at any moment, although the worklist mixes all functions.               *)
(***************************************************************************)
THEOREM Safety == Spec => []Safe
BY InitSafe, NextSafe, PTL DEF Spec

(* The state keeps its types.                                              *)
THEOREM TypeCorrect == Spec => []TypeOK
BY Safety, PTL DEF Safe

(* What worklist_pop hands out has not been freed.                         *)
THEOREM NoUseAfterFree == Spec => []WorklistAlive
BY Safety, PTL DEF Safe

(* Every operand of what stays is there.                                   *)
THEOREM NoDanglingOperand == Spec => []OperandsAlive
BY Safety, PTL DEF Safe
-----------------------------------------------------------------------------
(***************************************************************************)
(* What is left when the worklist is empty.  A dead instruction is either  *)
(* in a function the scan has yet to come to or on the worklist; and no    *)
(* set that supports itself in the eyes of the C++ version, which can      *)
(* remove more, has lost a member.                                         *)
(***************************************************************************)
DeadIsListed ==
    pc \in {"start", "scan", "drain"} =>
        \A i \in alive : isDead(i) =>
            \/ i \in worklist
            \/ pc \in {"start", "scan"} /\ prog.func[i] >= cur

StartsAtFirst == pc = "start" => cur = 1 /\ worklist = {}

SupportKept ==
    \A S \in SUBSET Instr : Cpp!SelfSupporting(prog, S) => S \subseteq alive

IInv == Safe /\ StartsAtFirst /\ DeadIsListed /\ SupportKept

(* The invariant holds when main starts.                                   *)
LEMMA InitIInv == Init => IInv
<1> SUFFICES ASSUME Init PROVE IInv
    OBVIOUS
<1>1. Safe
    BY InitSafe
<1>2. prog \in Program
    BY <1>1 DEF Safe, TypeOK
<1>3. StartsAtFirst /\ SupportKept
    BY DEF Init, StartsAtFirst, SupportKept
<1>4. \A i \in Instr : prog.func[i] \in 1 .. NumFunc
    BY <1>2 DEF Program
<1>5. DeadIsListed
    BY <1>4, NumFuncAssumption DEF Init, DeadIsListed
<1> QED BY <1>1, <1>3, <1>5 DEF IInv

(* An instruction dead for the C version belongs to no set that supports   *)
(* itself for the C++ version.                                             *)
LEMMA DeadIsUnsupported ==
    ASSUME NEW S \in SUBSET alive, NEW i \in alive, isDead(i),
           Cpp!SelfSupporting(prog, S)
    PROVE  i \notin S
BY DEF isDead, Removable, Users, Cpp!SelfSupporting, Cpp!Users

(* Erasing i makes only operands of i dead.                                *)
LEMMA NewlyDead ==
    ASSUME UNCHANGED prog, NEW i, alive' = alive \ {i},
           NEW j \in alive', isDead(j)'
    PROVE  isDead(j) \/ j \in prog.ops[i]
BY DEF isDead, Users

(* Every step of main keeps the invariant.                                 *)
LEMMA NextIInv == IInv /\ [Next]_vars => IInv'
<1> SUFFICES ASSUME IInv, [Next]_vars PROVE IInv'
    OBVIOUS
<1>1. Safe /\ Safe'
    BY NextSafe DEF IInv
<1>2. StartsAtFirst /\ DeadIsListed /\ SupportKept
    BY DEF IInv
<1>3. prog \in Program /\ alive \in SUBSET Instr /\ worklist \subseteq alive
      /\ cur \in 1 .. NumFunc + 1
    BY <1>1 DEF Safe, TypeOK, WorklistAlive
<1>4. \A i \in Instr : prog.func[i] \in 1 .. NumFunc
    BY <1>3 DEF Program
<1> USE NumFuncAssumption
<1>5. ASSUME UNCHANGED <<prog, alive>>
      PROVE  SupportKept' /\ (\A i : isDead(i)' = isDead(i))
    BY <1>2, <1>5 DEF SupportKept, isDead, Cpp!SelfSupporting
<1>6. CASE TooFewArguments \/ UnreadableInput \/ VerifyAndWrite \/ WriteFails
  <2>1. UNCHANGED <<prog, alive>> /\ pc' = "exit"
    BY <1>6 DEF TooFewArguments, UnreadableInput, VerifyAndWrite, WriteFails
  <2>2. StartsAtFirst' /\ DeadIsListed'
    BY <2>1 DEF StartsAtFirst, DeadIsListed
  <2> QED BY <1>1, <1>5, <2>1, <2>2 DEF IInv
<1>7. CASE ReadModule
  <2>1. UNCHANGED <<prog, alive, cur>> /\ pc = "start" /\ pc' = "scan"
    BY <1>7 DEF ReadModule
  <2>2. StartsAtFirst' /\ DeadIsListed'
    BY <1>2, <1>3, <1>4, <2>1 DEF StartsAtFirst, DeadIsListed
  <2> QED BY <1>1, <1>5, <2>1, <2>2 DEF IInv
<1>8. CASE ScanFunction
  <2>1. UNCHANGED <<prog, alive>> /\ pc = "scan" /\ pc' = "scan"
        /\ cur' = cur + 1
        /\ worklist' = worklist \cup
                         {i \in InstrsOf(prog, cur) \cap alive : isDead(i)}
    BY <1>8 DEF ScanFunction, worklist_insert_all
  <2>2. ASSUME NEW i \in alive, isDead(i), i \notin worklist'
        PROVE  prog.func[i] >= cur'
    <3>1. prog.func[i] >= cur
      BY <1>2, <2>1, <2>2 DEF DeadIsListed
    <3>2. prog.func[i] # cur
      BY <1>3, <2>1, <2>2 DEF InstrsOf
    <3> QED BY <1>3, <1>4, <2>1, <3>1, <3>2
  <2>3. StartsAtFirst' /\ DeadIsListed'
    BY <1>5, <2>1, <2>2 DEF StartsAtFirst, DeadIsListed
  <2> QED BY <1>1, <1>5, <2>1, <2>3 DEF IInv
<1>9. CASE ScanDone
  <2>1. UNCHANGED <<prog, alive, worklist>> /\ pc = "scan" /\ pc' = "drain"
        /\ cur > NumFunc
    BY <1>9 DEF ScanDone
  <2>2. StartsAtFirst' /\ DeadIsListed'
    BY <1>2, <1>3, <1>4, <1>5, <2>1 DEF StartsAtFirst, DeadIsListed
  <2> QED BY <1>1, <1>5, <2>1, <2>2 DEF IInv
<1>10. CASE DrainOne
  <2>1. PICK i \in worklist :
          \/ /\ isDead(i)
             /\ worklist' = (worklist \ {i}) \cup prog.ops[i]
             /\ DCE_count' = DCE_count + 1
             /\ alive' = alive \ {i}
          \/ /\ ~isDead(i)
             /\ worklist' = worklist \ {i}
             /\ UNCHANGED <<alive, DCE_count>>
    BY <1>10, DrainCases
  <2>2. UNCHANGED <<pc, prog>> /\ pc = "drain" /\ i \in alive
    BY <1>3, <1>10, <2>1 DEF DrainOne
  <2>3. StartsAtFirst'
    BY <2>2 DEF StartsAtFirst
  <2>4. CASE isDead(i)
    <3>1. alive' = alive \ {i} /\ worklist' = (worklist \ {i}) \cup prog.ops[i]
      BY <2>1, <2>4
    <3>2. DeadIsListed'
      <4> SUFFICES ASSUME NEW j \in alive', isDead(j)'
                   PROVE  j \in worklist'
          BY <2>2 DEF DeadIsListed
      <4>1. isDead(j) \/ j \in prog.ops[i]
          BY <2>2, <3>1, NewlyDead
      <4>2. j \in alive /\ j # i
          BY <3>1
      <4>3. isDead(j) => j \in worklist
          BY <1>2, <2>2, <4>2 DEF DeadIsListed
      <4> QED BY <3>1, <4>1, <4>2, <4>3
    <3>3. SupportKept'
      <4> SUFFICES ASSUME NEW S \in SUBSET Instr, Cpp!SelfSupporting(prog, S)'
                   PROVE  S \subseteq alive'
          BY DEF SupportKept
      <4>1. Cpp!SelfSupporting(prog, S)
          BY <2>2 DEF Cpp!SelfSupporting
      <4>2. S \in SUBSET alive
          BY <1>2, <4>1 DEF SupportKept
      <4>3. i \notin S
          BY <2>2, <2>4, <4>1, <4>2, DeadIsUnsupported
      <4> QED BY <3>1, <4>2, <4>3
    <3> QED BY <1>1, <2>3, <3>2, <3>3 DEF IInv
  <2>5. CASE ~isDead(i)
    <3>1. UNCHANGED <<prog, alive>> /\ worklist' = worklist \ {i}
      BY <2>1, <2>2, <2>5
    <3>2. DeadIsListed'
      BY <1>2, <1>5, <2>2, <2>5, <3>1 DEF DeadIsListed
    <3> QED BY <1>1, <1>5, <2>3, <3>1, <3>2 DEF IInv
  <2> QED BY <2>4, <2>5
<1>11. CASE UNCHANGED vars
  <2>1. UNCHANGED <<pc, prog, alive, worklist, cur>>
    BY <1>11 DEF vars
  <2>2. StartsAtFirst' /\ DeadIsListed'
    BY <1>2, <1>5, <2>1 DEF StartsAtFirst, DeadIsListed
  <2> QED BY <1>1, <1>5, <2>1, <2>2 DEF IInv
<1>12. CASE Exited
    BY <1>11, <1>12 DEF Exited
<1> QED
    BY <1>6, <1>7, <1>8, <1>9, <1>10, <1>11, <1>12 DEF Next

(* With the worklist empty nothing is dead; without FNeg the two versions  *)
(* mean the same by that, and what is left supports itself.                *)
LEMMA IInvAgrees == IInv => AgreesWithCpp
<1> SUFFICES ASSUME IInv, worklist = {}, pc = "drain"
             PROVE  /\ Cpp!Residue(prog) \subseteq alive
                    /\ (\A i \in Instr : prog.op[i] # "fneg") =>
                            alive = Cpp!Residue(prog)
    BY DEF AgreesWithCpp
<1>1. prog \in Program /\ alive \in SUBSET Instr
    BY DEF IInv, Safe, TypeOK
<1>2. Cpp!Residue(prog) \subseteq alive
    BY DEF IInv, SupportKept, Cpp!Residue
<1>3. ASSUME \A i \in Instr : prog.op[i] # "fneg"
      PROVE  alive \subseteq Cpp!Residue(prog)
  <2>1. \A i \in alive : ~isDead(i)
    BY DEF IInv, DeadIsListed
  <2>2. Cpp!SelfSupporting(prog, alive)
    BY <1>1, <1>3, <2>1
    DEF isDead, Removable, Users, Cpp!SelfSupporting, Cpp!Users
  <2> QED BY <1>1, <2>2 DEF Cpp!Residue
<1> QED BY <1>2, <1>3

(***************************************************************************)
(* The C version removes nothing the C++ version keeps; in a module        *)
(* without FNeg both leave the same instructions, so neither the number of *)
(* worklists nor the order of their members shows in the result.           *)
(***************************************************************************)
THEOREM Agreement == Spec => []AgreesWithCpp
BY InitIInv, NextIInv, IInvAgrees, PTL DEF Spec

(***************************************************************************)
(* The C version implements the abstract elimination: each step removes    *)
(* one unused removable instruction or nothing.                            *)
(***************************************************************************)
THEOREM Refinement == Spec => Refines
<1>1. Init => Abs!AbsInit
    BY ProgramsAssumption
    DEF Init, Abs!AbsInit, Abs!Program, Program, Opcode, Abs!Opcode
<1>2. Safe /\ [Next]_vars => [Abs!AbsNext]_(Abs!absVars)
  <2> SUFFICES ASSUME Safe, [Next]_vars, ~UNCHANGED <<prog, alive>>
               PROVE  Abs!AbsNext
      BY DEF Abs!absVars
  <2>1. DrainOne
      BY DEF Next, TooFewArguments, UnreadableInput, ReadModule, ScanFunction,
             ScanDone, VerifyAndWrite, WriteFails, Exited, vars
  <2>2. PICK i \in worklist : isDead(i) /\ alive' = alive \ {i}
      BY <2>1, DrainCases DEF DrainOne
  <2>3. i \in alive /\ i \in Instr /\ UNCHANGED prog
      BY <2>1, <2>2 DEF Safe, TypeOK, WorklistAlive, DrainOne
  <2>4. Abs!Remove(i)
      BY <2>2, <2>3
      DEF isDead, Abs!Remove, Abs!Unused, Users, Abs!Users
  <2> QED BY <2>3, <2>4 DEF Abs!AbsNext
<1> QED BY <1>1, <1>2, Safety, PTL DEF Spec, Refines, Abs!AbsSpec
=============================================================================
