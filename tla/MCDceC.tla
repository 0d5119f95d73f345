----------------------------- MODULE MCDceC -----------------------------
(* All modules with one instruction in the second function and three in    *)
(* the first, every operand graph, the opcodes shared out differently from *)
(* MCDceCpp.                                                               *)
EXTENDS DceC

CONSTANTS i1, i2, i3, i4

MCInstr == {i1, i2, i3, i4}

MCFunc == [i \in MCInstr |-> IF i = i4 THEN 2 ELSE 1]

MCOps == [{i1, i2, i3} -> SUBSET {i1, i2, i3}]

MCOpcodes == [{i1, i2, i3} -> {"compute", "fneg", "other"}]

MCPrograms ==
    {[func |-> MCFunc,
      ops |-> [i \in MCInstr |-> IF i = i4 THEN last ELSE ops[i]],
      op |-> [i \in MCInstr |-> IF i = i4 THEN lastOp ELSE op[i]],
      bad |-> bad] :
        ops \in MCOps, op \in MCOpcodes,
        last \in {{}, {i4}}, lastOp \in {"load", "volatileLoad"},
        bad \in {{}, {i1}}}
=============================================================================
