----------------------------- MODULE MCDomCache -----------------------------
(* One function of two or three blocks with every graph they can have, up  *)
(* to the names of blocks 2 and 3, or one of four blocks: nested loops, a  *)
(* diamond in a loop; and a small one that is asked about in between.      *)
EXTENDS DomCache, TLC

MCBlock == 1 .. 4

MCTargets == {<<>>, <<2>>, <<3>>, <<2, 3>>}

MCFirst ==
    {g \in [1 .. 2 -> {<<>>, <<2>>}] \cup [1 .. 3 -> MCTargets] :
        IsCfg(g) /\ g[1] \in {<<2>>, <<2, 3>>}}
    \cup {<< <<2>>, <<3, 4>>, <<3, 2>>, <<>> >>,
          << <<2>>, <<3, 4>>, <<2>>, <<>> >>}

MCFunctions ==
    {("f" :> g) @@ ("g" :> << <<2>>, <<>> >>) : g \in MCFirst}

(* What the first graphs and the one asked about in between become by up   *)
(* to MaxEdits changes.                                                    *)
MCGraphs ==
    LET after[n \in 0 .. MaxEdits] ==
            IF n = 0
            THEN {s[f] : s \in MCFunctions, f \in Fun}
            ELSE after[n - 1] \cup UNION {Changed(g) : g \in after[n - 1]}
    IN  after[MaxEdits]
=============================================================================
