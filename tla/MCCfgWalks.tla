----------------------------- MODULE MCCfgWalks -----------------------------
(* Every function of three blocks with up to two successors each, in any   *)
(* order, twice the same included; functions of four blocks without such   *)
(* repetitions; and some of four or five blocks with a switch, a loop with *)
(* two latches, a loop with a body, and two loops in a row.                *)
EXTENDS CfgWalks

MCThree == {<<>>, <<2>>, <<3>>, <<2, 3>>, <<3, 2>>, <<2, 2>>, <<3, 3>>}

MCFour == {<<>>, <<2>>, <<3>>, <<4>>, <<2, 4>>, <<3, 4>>}

MCGraphs ==
    {f \in [1 .. 3 -> MCThree] \cup [1 .. 4 -> MCFour] : IsCfg(f)}
    \cup {<< <<2>>, <<3, 4, 3>>, <<2, 4>>, <<>> >>,
          << <<2, 5>>, <<3, 4>>, <<2, 5>>, <<2, 5>>, <<>> >>,
          << <<2>>, <<3, 5>>, <<4>>, <<2>>, <<>> >>,
          << <<2>>, <<2, 3>>, <<4, 5>>, <<3>>, <<>> >>}
=============================================================================
