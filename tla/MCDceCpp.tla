----------------------------- MODULE MCDceCpp -----------------------------
(* All modules with three instructions in the first function and one in    *)
(* the second: every operand graph, self uses and cycles included.         *)
EXTENDS DceCpp

CONSTANTS i1, i2, i3, i4

MCInstr == {i1, i2, i3, i4}

MCFunc == [i \in MCInstr |-> IF i = i4 THEN 2 ELSE 1]

MCOps == [{i1, i2, i3} -> SUBSET {i1, i2, i3}]

MCOpcodes == [{i1, i2, i3} -> {"compute", "volatileLoad", "other"}]

MCPrograms ==
    {[func |-> MCFunc,
      ops |-> [i \in MCInstr |-> IF i = i4 THEN last ELSE ops[i]],
      op |-> [i \in MCInstr |-> IF i = i4 THEN lastOp ELSE op[i]],
      bad |-> bad] :
        ops \in MCOps, op \in MCOpcodes,
        last \in {{}, {i4}}, lastOp \in {"load", "fneg"},
        bad \in {{}, {i1}}}
=============================================================================
