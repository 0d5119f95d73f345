--------------------------- MODULE DceCpp_proofs ---------------------------
(***************************************************************************)
(* Proofs about tutorial/5/C++/dce.cpp for every module, every number of   *)
(* functions and every order of the worklist.                              *)
(***************************************************************************)
EXTENDS DceCpp, FiniteSetTheorems, TLAPS

(***************************************************************************)
(* TypeOK and OperandsAlive are not inductive as they stand: the operands  *)
(* that DrainOne queues are alive only because alive is closed under       *)
(* operands, and ScanFunction needs nothing else.  Together with           *)
(* WorklistAlive they are.                                                 *)
(***************************************************************************)
Safe == TypeOK /\ WorklistAlive /\ OperandsAlive

(* Erasing an unused instruction leaves no dangling operand.               *)
LEMMA EraseUnused ==
    ASSUME NEW p \in Program, NEW A \in SUBSET Instr, NEW i \in A,
           Intact(p, A), Users(p, A, i) = {}
    PROVE  Intact(p, A \ {i})
BY DEF Intact, Users, Program

(* The operands of an instruction are other instructions than itself when  *)
(* it is unused.                                                           *)
LEMMA UnusedIsNoOperand ==
    ASSUME NEW p \in Program, NEW A \in SUBSET Instr, NEW i \in A,
           Users(p, A, i) = {}
    PROVE  i \notin p.ops[i]
BY DEF Users

(* The state in which main starts is safe.                                 *)
LEMMA InitSafe == Init => Safe
<1> SUFFICES ASSUME Init PROVE Safe
    OBVIOUS
<1>1. TypeOK
    BY ProgramsAssumption, NumFuncAssumption DEF Init, TypeOK, PC, OutState
<1>2. WorklistAlive
    BY DEF Init, WorklistAlive
<1>3. OperandsAlive
    BY ProgramsAssumption DEF Init, OperandsAlive, Intact, Program
<1> QED BY <1>1, <1>2, <1>3 DEF Safe

(* Every step of main keeps it safe.                                       *)
LEMMA NextSafe == Safe /\ [Next]_vars => Safe'
<1> SUFFICES ASSUME Safe, [Next]_vars PROVE Safe'
    OBVIOUS
<1> USE NumFuncAssumption
<1>1. TypeOK /\ WorklistAlive /\ OperandsAlive
    BY DEF Safe
<1>2. ASSUME UNCHANGED <<prog, alive, worklist>>
      PROVE  WorklistAlive' /\ OperandsAlive'
    BY <1>1, <1>2 DEF WorklistAlive, OperandsAlive
<1>3. CASE TooFewArguments
    BY <1>1, <1>2, <1>3 DEF TooFewArguments, Safe, TypeOK, PC, OutState
<1>4. CASE OpenOutput
    BY <1>1, <1>2, <1>4 DEF OpenOutput, Safe, TypeOK, PC, OutState
<1>5. CASE ParseFails
    BY <1>1, <1>2, <1>5 DEF ParseFails, Released, Safe, TypeOK, PC, OutState
<1>6. CASE ParseSucceeds
    BY <1>1, <1>2, <1>6 DEF ParseSucceeds, Safe, TypeOK, PC, OutState
<1>7. CASE ScanFunction
  <2>1. TypeOK'
    BY <1>1, <1>7 DEF ScanFunction, TypeOK, PC, InstrsOf
  <2>2. WorklistAlive' /\ OperandsAlive'
    BY <1>1, <1>7 DEF ScanFunction, WorklistAlive, OperandsAlive
  <2> QED BY <2>1, <2>2 DEF Safe
<1>8. CASE DrainOne
  <2>1. PICK i \in worklist : EraseDead(i) \/ SkipUsed(i)
    BY <1>8 DEF DrainOne
  <2>2. i \in alive /\ i \in Instr /\ prog \in Program
    BY <1>1, <2>1 DEF TypeOK, WorklistAlive
  <2>3. UNCHANGED <<pc, prog, cur, out, status>>
    BY <1>8 DEF DrainOne
  <2>4. CASE EraseDead(i)
    <3>1. prog.ops[i] \in SUBSET Instr
      BY <2>2 DEF Program
    <3>2. TypeOK'
      BY <1>1, <2>2, <2>3, <2>4, <3>1 DEF EraseDead, TypeOK
    <3>3. Users(prog, alive, i) = {} /\ alive \in SUBSET Instr
      BY <1>1, <2>4 DEF EraseDead, isDead, TypeOK
    <3>4. prog.ops[i] \subseteq alive \ {i}
      BY <1>1, <2>2, <3>3, UnusedIsNoOperand DEF OperandsAlive, Intact
    <3>5. WorklistAlive'
      BY <1>1, <2>4, <3>4 DEF EraseDead, WorklistAlive
    <3>6. OperandsAlive'
      <4>1. Intact(prog, alive \ {i})
        BY <1>1, <2>2, <3>3, EraseUnused DEF OperandsAlive
      <4> QED BY <4>1, <2>3, <2>4 DEF EraseDead, OperandsAlive
    <3> QED BY <3>2, <3>5, <3>6 DEF Safe
  <2>5. CASE SkipUsed(i)
    BY <1>1, <2>3, <2>5
    DEF SkipUsed, Safe, TypeOK, WorklistAlive, OperandsAlive
  <2> QED BY <2>1, <2>4, <2>5
<1>9. CASE FunctionDone
    BY <1>1, <1>9 DEF FunctionDone, Safe, TypeOK, PC,
                      WorklistAlive, OperandsAlive
<1>10. CASE ModuleDone
    BY <1>1, <1>2, <1>10 DEF ModuleDone, Safe, TypeOK, PC
<1>11. CASE Written \/ WriteFails \/ Rejected
  <2>1. UNCHANGED <<prog, alive, worklist, cur, DCE_count>> /\ pc' = "exit"
    BY <1>11 DEF Written, WriteFails, Rejected
  <2>2. out' \in OutState /\ status' \in {0, 1}
    BY <1>1, <1>11 DEF Written, WriteFails, Rejected, Released, Interrupted,
                       TypeOK, OutState
  <2>3. TypeOK'
    BY <1>1, <2>1, <2>2 DEF TypeOK, PC
  <2> QED BY <1>2, <2>1, <2>3 DEF Safe
<1>12. CASE Exited
    BY <1>1, <1>2, <1>12 DEF Exited, vars, Safe, TypeOK
<1>13. CASE UNCHANGED vars
    BY <1>1, <1>2, <1>13 DEF vars, Safe, TypeOK
<1> QED
    BY <1>3, <1>4, <1>5, <1>6, <1>7, <1>8, <1>9, <1>10, <1>11, <1>12, <1>13
    DEF Next

(***************************************************************************)
(* TypeOK, WorklistAlive and OperandsAlive hold of every run of main: no   *)
(* freed instruction is dereferenced through the worklist, and the module  *)
(* is never left with a dangling operand, not even between two erasures.   *)
(***************************************************************************)
THEOREM Safety == Spec => []Safe
BY InitSafe, NextSafe, PTL DEF Spec

(* The state keeps its types.                                              *)
THEOREM TypeCorrect == Spec => []TypeOK
BY Safety, PTL DEF Safe

(* The drain loop never meets a freed instruction.                         *)
THEOREM NoUseAfterFree == Spec => []WorklistAlive
BY Safety, PTL DEF Safe

(* Every operand of what stays is there, at every moment.                  *)
THEOREM NoDanglingOperand == Spec => []OperandsAlive
BY Safety, PTL DEF Safe
-----------------------------------------------------------------------------
(***************************************************************************)
(* What main leaves behind.  Where the loops are, a dead instruction is    *)
(* either still to be scanned or on the worklist, and the worklist holds   *)
(* instructions of the current function only; and no set of instructions   *)
(* that supports itself has lost a member.                                 *)
(***************************************************************************)
Position ==
    /\ pc \in {"start", "parse"} => cur = 1
    /\ pc = "verify" => cur = NumFunc + 1
    /\ pc # "drain" => worklist = {}
    /\ \A i \in worklist : prog.func[i] = cur

ExitClean == pc = "exit" /\ status = 0 => \A i \in alive : ~isDead(i)

SupportKept == \A S \in SUBSET Instr : Abs!SelfSupporting(prog, S) => S \subseteq alive

IInv == Safe /\ Position /\ PassedFunctionsClean /\ ExitClean /\ SupportKept

(* The invariant holds when main starts.                                   *)
LEMMA InitIInv == Init => IInv
<1> SUFFICES ASSUME Init PROVE IInv
    OBVIOUS
<1>1. Safe
    BY InitSafe
<1>2. Position /\ PassedFunctionsClean /\ ExitClean /\ SupportKept
    BY DEF Init, Position, PassedFunctionsClean, ExitClean, SupportKept
<1> QED BY <1>1, <1>2 DEF IInv

(* An unused removable instruction belongs to no set that supports itself  *)
(* among the instructions still there.                                     *)
LEMMA DeadIsUnsupported ==
    ASSUME NEW S \in SUBSET alive, NEW i \in alive, isDead(i),
           Abs!SelfSupporting(prog, S)
    PROVE  i \notin S
BY DEF isDead, Users, Abs!SelfSupporting, Abs!Users

(* Erasing i makes only operands of i dead, and those are in its function. *)
LEMMA NewlyDead ==
    ASSUME prog \in Program, NEW i \in Instr, EraseDead(i), UNCHANGED prog,
           NEW j \in alive', isDead(j)'
    PROVE  isDead(j) \/ (j \in prog.ops[i] /\ prog.func[j] = prog.func[i])
BY DEF EraseDead, isDead, Users, Program

(* When the verifier is asked, nothing is dead any more.                   *)
LEMMA VerifyClean ==
    ASSUME IInv, pc = "verify"
    PROVE  \A i \in alive : ~isDead(i)
<1>1. prog \in Program /\ alive \in SUBSET Instr /\ cur = NumFunc + 1
    BY DEF IInv, Safe, TypeOK, Position
<1>2. \A i \in Instr : prog.func[i] \in 1 .. NumFunc
    BY <1>1 DEF Program
<1> QED BY <1>1, <1>2, NumFuncAssumption DEF IInv, PassedFunctionsClean

(* Every step of main keeps the invariant.                                 *)
LEMMA NextIInv == IInv /\ [Next]_vars => IInv'
<1> SUFFICES ASSUME IInv, [Next]_vars PROVE IInv'
    OBVIOUS
<1>1. Safe /\ Safe'
    BY NextSafe DEF IInv
<1>2. Position /\ PassedFunctionsClean /\ ExitClean /\ SupportKept
    BY DEF IInv
<1>3. prog \in Program /\ alive \in SUBSET Instr /\ worklist \subseteq alive
      /\ cur \in 1 .. NumFunc + 1
    BY <1>1 DEF Safe, TypeOK, WorklistAlive
<1>4. \A i \in Instr : prog.func[i] \in 1 .. NumFunc
    BY <1>3 DEF Program
<1> USE NumFuncAssumption
<1>5. ASSUME UNCHANGED <<prog, alive>>
      PROVE  SupportKept' /\ (\A i : isDead(i)' = isDead(i))
    BY <1>2, <1>5 DEF SupportKept, isDead, Abs!SelfSupporting
<1>6. CASE TooFewArguments
    BY <1>1, <1>2, <1>5, <1>6
    DEF TooFewArguments, Position, PassedFunctionsClean, ExitClean, IInv
<1>7. CASE DrainOne
  <2>1. PICK i \in worklist : EraseDead(i) \/ SkipUsed(i)
    BY <1>7 DEF DrainOne
  <2>2. UNCHANGED <<pc, prog, cur, out, status>> /\ pc = "drain"
    BY <1>7 DEF DrainOne
  <2>3. prog.func[i] = cur /\ i \in alive /\ i \in Instr
    BY <1>2, <1>3, <2>1 DEF Position
  <2>4. CASE EraseDead(i)
    <3>1. Position'
      BY <1>2, <1>3, <2>2, <2>3, <2>4 DEF Position, EraseDead, Program
    <3>2. PassedFunctionsClean'
      <4> SUFFICES ASSUME NEW j \in alive', isDead(j)'
                   PROVE  \/ prog.func[j] > cur
                          \/ (prog.func[j] = cur /\ j \in worklist')
          BY <2>2 DEF PassedFunctionsClean
      <4>1. isDead(j) \/ (j \in prog.ops[i] /\ prog.func[j] = prog.func[i])
          BY <1>3, <2>2, <2>3, <2>4, NewlyDead
      <4>2. j \in alive /\ j # i
          BY <2>4 DEF EraseDead
      <4>3. CASE isDead(j)
          BY <1>2, <2>2, <2>4, <4>2, <4>3 DEF PassedFunctionsClean, EraseDead
      <4>4. CASE j \in prog.ops[i] /\ prog.func[j] = prog.func[i]
          BY <2>3, <2>4, <4>4 DEF EraseDead
      <4> QED BY <4>1, <4>3, <4>4
    <3>3. ExitClean'
      BY <2>2 DEF ExitClean
    <3>4. SupportKept'
      <4> SUFFICES ASSUME NEW S \in SUBSET Instr, Abs!SelfSupporting(prog, S)'
                   PROVE  S \subseteq alive'
          BY DEF SupportKept
      <4>1. Abs!SelfSupporting(prog, S)
          BY <2>2 DEF Abs!SelfSupporting
      <4>2. S \in SUBSET alive
          BY <1>2, <4>1 DEF SupportKept
      <4>3. i \notin S
          BY <2>3, <2>4, <4>1, <4>2, DeadIsUnsupported DEF EraseDead
      <4> QED BY <2>4, <4>2, <4>3 DEF EraseDead
    <3> QED BY <1>1, <3>1, <3>2, <3>3, <3>4 DEF IInv
  <2>5. CASE SkipUsed(i)
    <3>1. UNCHANGED <<prog, alive>>
      BY <2>2, <2>5 DEF SkipUsed
    <3>2. Position' /\ PassedFunctionsClean' /\ ExitClean'
      BY <1>2, <1>5, <2>2, <2>5, <3>1
      DEF SkipUsed, Position, PassedFunctionsClean, ExitClean
    <3> QED BY <1>1, <1>5, <3>1, <3>2 DEF IInv
  <2> QED BY <2>1, <2>4, <2>5
<1>8. CASE OpenOutput
    BY <1>1, <1>2, <1>5, <1>8
    DEF OpenOutput, Position, PassedFunctionsClean, ExitClean, IInv
<1>9. CASE ParseFails
    BY <1>1, <1>2, <1>5, <1>9
    DEF ParseFails, Position, PassedFunctionsClean, ExitClean, IInv
<1>10. CASE ParseSucceeds
  <2>1. UNCHANGED <<prog, alive>> /\ pc' = "function" /\ cur' = 1
    BY <1>2, <1>10 DEF ParseSucceeds, Position
  <2>2. PassedFunctionsClean'
    BY <1>3, <1>4, <2>1 DEF PassedFunctionsClean
  <2>3. Position' /\ ExitClean'
    BY <1>2, <1>10 DEF ParseSucceeds, Position, ExitClean
  <2> QED BY <1>1, <1>5, <2>1, <2>2, <2>3 DEF IInv
<1>11. CASE ScanFunction
  <2>1. UNCHANGED <<prog, alive, cur>> /\ pc = "function" /\ pc' = "drain"
    BY <1>11 DEF ScanFunction
  <2>2. PassedFunctionsClean'
    BY <1>2, <1>3, <1>5, <1>11, <2>1
    DEF PassedFunctionsClean, ScanFunction, InstrsOf
  <2>3. Position' /\ ExitClean'
    BY <1>2, <1>11 DEF ScanFunction, Position, ExitClean, InstrsOf
  <2> QED BY <1>1, <1>5, <2>1, <2>2, <2>3 DEF IInv
<1>12. CASE FunctionDone
  <2>1. UNCHANGED <<prog, alive>> /\ pc = "drain" /\ pc' = "function"
        /\ worklist = {} /\ cur' = cur + 1
    BY <1>12 DEF FunctionDone
  <2>2. PassedFunctionsClean'
    BY <1>2, <1>3, <1>4, <1>5, <2>1 DEF PassedFunctionsClean
  <2>3. Position' /\ ExitClean'
    BY <1>2, <1>12 DEF FunctionDone, Position, ExitClean
  <2> QED BY <1>1, <1>5, <2>1, <2>2, <2>3 DEF IInv
<1>13. CASE ModuleDone
  <2>1. UNCHANGED <<prog, alive, cur, worklist>> /\ pc = "function"
        /\ pc' = "verify" /\ cur = NumFunc + 1
    BY <1>3, <1>13 DEF ModuleDone
  <2>2. PassedFunctionsClean'
    BY <1>2, <1>3, <1>4, <1>5, <2>1 DEF PassedFunctionsClean
  <2>3. Position' /\ ExitClean'
    BY <1>2, <2>1 DEF Position, ExitClean
  <2> QED BY <1>1, <1>5, <2>1, <2>2, <2>3 DEF IInv
<1>14. CASE Written \/ WriteFails \/ Rejected
  <2>1. UNCHANGED <<prog, alive, cur, worklist>> /\ pc = "verify"
        /\ pc' = "exit"
    BY <1>14 DEF Written, WriteFails, Rejected
  <2>2. \A i \in alive : ~isDead(i)
    BY <2>1, VerifyClean
  <2>3. ExitClean'
    BY <1>5, <2>1, <2>2 DEF ExitClean
  <2>4. Position' /\ PassedFunctionsClean'
    BY <1>2, <2>1 DEF Position, PassedFunctionsClean
  <2> QED BY <1>1, <1>5, <2>1, <2>3, <2>4 DEF IInv
<1>15. CASE UNCHANGED vars
  <2>1. UNCHANGED <<pc, prog, alive, worklist, cur, status>>
    BY <1>15 DEF vars
  <2>2. Position' /\ PassedFunctionsClean' /\ ExitClean'
    BY <1>2, <1>5, <2>1 DEF Position, PassedFunctionsClean, ExitClean
  <2> QED BY <1>1, <1>5, <2>1, <2>2 DEF IInv
<1>16. CASE Exited
    BY <1>15, <1>16 DEF Exited
<1> QED
    BY <1>6, <1>7, <1>8, <1>9, <1>10, <1>11, <1>12, <1>13, <1>14, <1>15, <1>16
    DEF Next

(* When nothing is dead, what is left supports itself; and every set that  *)
(* supports itself is part of it.                                          *)
LEMMA CleanIsResidue ==
    ASSUME IInv, \A i \in alive : ~isDead(i)
    PROVE  alive = Abs!Residue(prog)
<1>1. prog \in Program /\ alive \in SUBSET Instr
    BY DEF IInv, Safe, TypeOK
<1>2. Abs!SelfSupporting(prog, alive)
    BY DEF isDead, Abs!SelfSupporting, Users, Abs!Users
<1>3. alive \subseteq Abs!Residue(prog)
    BY <1>1, <1>2 DEF Abs!Residue
<1>4. Abs!Residue(prog) \subseteq alive
    BY DEF IInv, SupportKept, Abs!Residue
<1> QED BY <1>3, <1>4

(* That is so at the end of a run that returns 0.                          *)
LEMMA IInvResidue == IInv => ResidueLeft
BY CleanIsResidue DEF IInv, ExitClean, ResidueLeft

(***************************************************************************)
(* Dead code elimination is complete, removes nothing it should keep, and  *)
(* gives the same result for every order in which the worklist is drained: *)
(* what is left is a function of the module.                               *)
(***************************************************************************)
THEOREM ResidueCorrect == Spec => []ResidueLeft
BY InitIInv, NextIInv, IInvResidue, PTL DEF Spec

(* No instruction of a function the loop has left is or becomes dead.      *)
THEOREM NothingDeadBehind == Spec => []PassedFunctionsClean
<1>1. IInv => PassedFunctionsClean
    BY DEF IInv
<1> QED BY <1>1, InitIInv, NextIInv, PTL DEF Spec

(***************************************************************************)
(* The output file is settled only on the way out.  That zero stands for   *)
(* either outcome is decided by what the verifier is shown, the residue of *)
(* the module: IInv is needed for the second conjunct of the property.     *)
(***************************************************************************)
OutInv ==
    /\ pc # "exit" => out \in {"old", "open", "unopened"}
    /\ ZeroMeansWritten

(* Every step of main settles the output as OutInv says.                   *)
LEMMA NextOutInv == OutInv /\ IInv /\ [Next]_vars => OutInv'
<1> SUFFICES ASSUME OutInv, IInv, [Next]_vars PROVE OutInv'
    OBVIOUS
<1>1. CASE TooFewArguments \/ OpenOutput \/ ParseFails
    BY <1>1 DEF OutInv, ZeroMeansWritten, TooFewArguments, OpenOutput,
                ParseFails, Released
<1>2. CASE \/ ParseSucceeds \/ ScanFunction \/ DrainOne \/ FunctionDone
           \/ ModuleDone
    BY <1>2 DEF OutInv, ZeroMeansWritten, ParseSucceeds, ScanFunction, DrainOne,
                FunctionDone, ModuleDone
<1>3. CASE Written \/ WriteFails \/ Rejected
  <2>1. pc = "verify" /\ pc' = "exit" /\ UNCHANGED <<prog, alive>>
    BY <1>3 DEF Written, WriteFails, Rejected
  <2>2. alive = Abs!Residue(prog)
    BY <2>1, VerifyClean, CleanIsResidue
  <2>3. /\ Abs!Residue(prog)' = Abs!Residue(prog)
        /\ Verifies(prog, alive)' = Verifies(prog, alive)
    BY <2>1
  <2>4. Verifies(prog, alive) <=> alive \cap prog.bad = {}
    BY DEF IInv, Safe, OperandsAlive, Verifies
  <2>5. CASE Written
    BY <2>1, <2>2, <2>3, <2>4, <2>5 DEF Written, OutInv, ZeroMeansWritten
  <2>6. CASE WriteFails
    BY <2>1, <2>6 DEF WriteFails, Interrupted, OutInv, ZeroMeansWritten
  <2>7. CASE Rejected
    BY <2>1, <2>2, <2>3, <2>4, <2>7
    DEF Rejected, Released, OutInv, ZeroMeansWritten
  <2> QED BY <1>3, <2>5, <2>6, <2>7
<1>4. CASE Exited \/ UNCHANGED vars
    BY <1>4 DEF OutInv, ZeroMeansWritten, Exited, vars, Verifies, Intact
<1> QED BY <1>1, <1>2, <1>3, <1>4 DEF Next

(***************************************************************************)
(* Zero is returned with the output written exactly when no instruction    *)
(* that has to stay is ill-formed; what is written verifies, and no write  *)
(* that fails is reported as a success.                                    *)
(***************************************************************************)
THEOREM ZeroIsWritten == Spec => []ZeroMeansWritten
<1>1. Init => OutInv
    BY DEF Init, OutInv, ZeroMeansWritten
<1>2. OutInv => ZeroMeansWritten
    BY DEF OutInv
<1> QED BY <1>1, <1>2, InitIInv, NextIInv, NextOutInv, PTL DEF Spec

(***************************************************************************)
(* DCE_count is the number of erased instructions: each erasure concerns   *)
(* an instruction that was still there.                                    *)
(***************************************************************************)
THEOREM CountCorrect == Spec => []CountIsErased
<1>1. Init => CountIsErased
    BY FS_EmptySet DEF Init, CountIsErased
<1>2. CountIsErased /\ Safe /\ [Next]_vars => CountIsErased'
  <2> SUFFICES ASSUME CountIsErased, Safe, [Next]_vars
               PROVE  CountIsErased'
      OBVIOUS
  <2>1. CASE UNCHANGED <<alive, DCE_count>>
      BY <2>1 DEF CountIsErased
  <2>2. CASE DrainOne /\ ~UNCHANGED <<alive, DCE_count>>
    <3>1. PICK i \in worklist : EraseDead(i)
        BY <2>2 DEF DrainOne, SkipUsed
    <3>2. i \in alive /\ i \in Instr /\ alive \subseteq Instr
        BY <3>1 DEF Safe, TypeOK, WorklistAlive
    <3>3. Instr \ alive' = (Instr \ alive) \cup {i}
        BY <3>1, <3>2 DEF EraseDead
    <3>4. IsFiniteSet(Instr \ alive)
        BY InstrAssumption, FS_Subset
    <3>5. Cardinality(Instr \ alive') = Cardinality(Instr \ alive) + 1
        BY <3>2, <3>3, <3>4, FS_AddElement
    <3> QED BY <3>1, <3>5 DEF EraseDead, CountIsErased
  <2> QED
      BY <2>1, <2>2
      DEF Next, TooFewArguments, OpenOutput, ParseFails, ParseSucceeds,
          ScanFunction, FunctionDone, ModuleDone, Written,
             WriteFails, Rejected, Exited, vars
<1> QED BY <1>1, <1>2, Safety, PTL DEF Spec

(***************************************************************************)
(* The detailed elimination implements the abstract one: each step removes *)
(* one unused removable instruction, or changes nothing the abstract       *)
(* specification can see.                                                  *)
(***************************************************************************)
THEOREM Refinement == Spec => Refines
<1>1. Init => Abs!AbsInit
    BY ProgramsAssumption DEF Init, Abs!AbsInit, Abs!Program, Program, Opcode, Abs!Opcode
<1>2. Safe /\ [Next]_vars => [Abs!AbsNext]_(Abs!absVars)
  <2> SUFFICES ASSUME Safe, [Next]_vars, ~UNCHANGED <<prog, alive>>
               PROVE  Abs!AbsNext
      BY DEF Abs!absVars
  <2>1. DrainOne
      BY DEF Next, TooFewArguments, OpenOutput, ParseFails, ParseSucceeds,
             ScanFunction, FunctionDone, ModuleDone, Written,
             WriteFails, Rejected, Exited, vars
  <2>2. PICK i \in worklist : EraseDead(i) \/ SkipUsed(i)
      BY <2>1 DEF DrainOne
  <2>3. EraseDead(i) /\ UNCHANGED prog
      BY <2>1, <2>2 DEF DrainOne, SkipUsed
  <2>4. i \in alive /\ i \in Instr
      BY <2>2 DEF Safe, TypeOK, WorklistAlive
  <2>5. Abs!Remove(i)
      BY <2>3, <2>4
      DEF EraseDead, isDead, Abs!Remove, Abs!Unused, Users, Abs!Users
  <2> QED BY <2>4, <2>5 DEF Abs!AbsNext
<1> QED BY <1>1, <1>2, Safety, PTL DEF Spec, Refines, Abs!AbsSpec
=============================================================================
