--------------------------- MODULE MCExprCodegen ---------------------------
(* Programs over two identifiers; which is which makes no difference.      *)
EXTENDS ExprCodegen, TLC

CONSTANTS x, y

MCId == {x, y}

Renaming == Permutations(MCId)
=============================================================================
