----------------------- MODULE MCRunSafelyAndStable -----------------------
(* Three runs of one to five seconds.                                      *)
EXTENDS RunSafelyAndStable
MCSeconds == 1 .. 5
=============================================================================
