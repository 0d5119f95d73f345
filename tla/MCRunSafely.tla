---------------------------- MODULE MCRunSafely ----------------------------
(* Timeouts of none, one and three seconds; a program that survives any of *)
(* the signals it can; a process id that is reused, freed and reused.      *)
EXTENDS RunSafely
MCTimeouts == {0, 1, 3}
=============================================================================
