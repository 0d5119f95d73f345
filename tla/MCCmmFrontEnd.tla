--------------------------- MODULE MCCmmFrontEnd ---------------------------
(* Two names and up to two files; inputs long enough for a function with a *)
(* nested block that redeclares a parameter.                               *)
EXTENDS CmmFrontEnd

CONSTANTS x, y

MCNames == {x, y}

MCParamLists == {<<x>>, <<y, y>>}
=============================================================================
