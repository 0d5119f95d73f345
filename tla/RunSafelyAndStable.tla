------------------------ MODULE RunSafelyAndStable ------------------------
(***************************************************************************)
(* wolfbench/RunSafelyAndStable.sh.  Its text runs RunSafely.sh three      *)
(* times and picks the fastest run, but every run is started with exec:    *)
(* the first one takes the place of the script, and nothing after line 26  *)
(* is ever executed.                                                       *)
(***************************************************************************)
EXTENDS Integers
LOCAL INSTANCE FiniteSetsExt

CONSTANT Seconds    \* what a run may take

VARIABLES
    times,      \* what the program would take in its three runs
    process,    \* what the process of the script is executing
    outTime     \* the time in <outfile>.time, -1 before there is one

vars == <<times, process, outTime>>

Init ==
    /\ times \in [1 .. 3 -> Seconds]
    /\ process = "script"
    /\ outTime = -1

(* exec of the first run; a script that cannot be executed ends the shell  *)
(* as well.                                                                *)
FirstRun ==
    /\ process = "script"
    /\ process' \in {"RunSafely", "ended"}
    /\ UNCHANGED <<times, outTime>>

(* RunSafely.sh writes <outfile>.time and exits, and the process with it.  *)
RunEnds ==
    /\ process = "RunSafely"
    /\ outTime' = times[1]
    /\ process' = "ended"
    /\ UNCHANGED times

Ended == process = "ended" /\ UNCHANGED vars

Next == FirstRun \/ RunEnds \/ Ended

Spec == Init /\ [][Next]_vars /\ WF_vars(Next)

(* RunSafelyAndStable.sh:6-9: the script runs the program three times and  *)
(* "reports the smallest one"; "The <outfile>.time file will reflect the   *)
(* time and result code of the fastest run".                               *)
FastestReported ==
    process = "ended" /\ outTime # -1 =>
        outTime = Min({times[k] : k \in 1 .. 3})
=============================================================================
