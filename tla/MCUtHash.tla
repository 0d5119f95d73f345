------------------------------ MODULE MCUtHash ------------------------------
(* Two items of one key, two of another and one of a third, with every way *)
(* of hashing the three keys to four values, two equal modulo two, four or *)
(* not at all; and five items of one key, which make expansion give up.    *)
EXTENDS UtHash, TLC

CONSTANTS e1, e2, e3, e4, e5

MCItem == {e1, e2, e3, e4, e5}

MCMixed == (e1 :> "x") @@ (e2 :> "x") @@ (e3 :> "y") @@ (e4 :> "y") @@ (e5 :> "z")

MCConfigurations ==
    {[key |-> MCMixed, hashv |-> h, log2 |-> 1, thresh |-> 3] :
        h \in [{"x", "y", "z"} -> {0, 1, 2, 4}]}
    \cup {[key |-> [i \in MCItem |-> "x"], hashv |-> [k \in {"x"} |-> 3],
           log2 |-> 0, thresh |-> 1]}
=============================================================================
