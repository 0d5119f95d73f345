----------------------------- MODULE RunSafely -----------------------------
(***************************************************************************)
(* wolfbench/RunSafely.sh around TimedExec.sh, for a local run: a shell    *)
(* under time starts TimedExec.sh with its input and output redirected and *)
(* echoes the exit status into the .time file; RunSafely takes it from     *)
(* there, decides whether the test failed, writes that to the output file  *)
(* and returns 0.                                                          *)
(***************************************************************************)
EXTENDS TimedExec

VARIABLES
    rpc,        \* "start", "wait", "classify", "exit"
    exitval,    \* the status on the exit line of .time, or Missing
    EXITOK,     \* the <exitok> argument: 0 or 1
    fail        \* the verdict: "unknown", "yes", "no"

vars == <<timedVars, rpc, exitval, EXITOK, fail>>

(* There is no exit line in the .time file.                                *)
Missing == -1

Init ==
    /\ TimedInit
    /\ rpc = "start"
    /\ exitval = Missing
    /\ EXITOK \in {0, 1}
    /\ fail = "unknown"

(* The shell under time runs TimedExec.sh.                                 *)
Start ==
    /\ rpc = "start"
    /\ Launch
    /\ rpc' = "wait"
    /\ UNCHANGED <<exitval, EXITOK, fail>>

(* An input or output file that cannot be opened, or a TimedExec.sh that   *)
(* cannot be run: the shell goes on and echoes a status of its own.        *)
NotStarted ==
    /\ rpc = "start"
    /\ exitval' \in {1, 2, 126, 127}
    /\ rpc' = "classify"
    /\ UNCHANGED <<timedVars, EXITOK, fail>>

(* time or the shell under it cannot be run, and no one echoes anything.   *)
NoShell ==
    /\ rpc = "start"
    /\ rpc' = "classify"
    /\ UNCHANGED <<timedVars, exitval, EXITOK, fail>>

(* The shell gets the status of the program and echoes it, and the         *)
(* pipeline into awk ends; a full disk keeps the line out of the file.     *)
Wait ==
    /\ rpc = "wait"
    /\ Reap
    /\ exitval' \in {code, Missing}
    /\ rpc' = "classify"
    /\ UNCHANGED <<EXITOK, fail>>

(* The shell or time is killed, and the program goes on without a parent   *)
(* that waits for it.                                                      *)
ShellLost ==
    /\ rpc = "wait"
    /\ rpc' = "classify"
    /\ UNCHANGED <<timedVars, exitval, EXITOK, fail>>

(* A program without a parent is collected by init.                        *)
Adopted ==
    /\ rpc \in {"classify", "exit"}
    /\ Reap
    /\ UNCHANGED <<rpc, exitval, EXITOK, fail>>

(* Mutant: only 128 itself is taken for a signal.                          *)
Failed_noSignals(val) ==
    \/ val = Missing
    \/ val \in {126, 127, 128}
    \/ EXITOK # 0 /\ val # 0

Failed(val) ==
    \/ val = Missing
    \/ val \in {126, 127, 128}
    \/ val > 128
    \/ EXITOK # 0 /\ val # 0

Classify ==
    /\ rpc = "classify"
    /\ fail' = IF Failed(exitval) THEN "yes" ELSE "no"
    /\ rpc' = "exit"
    /\ UNCHANGED <<timedVars, exitval, EXITOK>>

runVars == <<rpc, exitval, EXITOK, fail>>

Next ==
    \/ (Watchdog \/ Environment) /\ UNCHANGED runVars
    \/ Start \/ NotStarted \/ NoShell
    \/ Wait \/ ShellLost \/ Adopted
    \/ Classify

(* The scheduler lets the watchdog and RunSafely run, time passes, and a   *)
(* shell that can exec does.  The program may run forever, and nobody need *)
(* ever reuse its id.                                                      *)
Fairness ==
    /\ WF_vars(Watchdog /\ UNCHANGED runVars)
    /\ WF_vars(Tick /\ UNCHANGED runVars)
    /\ WF_vars(Exec /\ UNCHANGED runVars)
    /\ WF_vars(Start \/ NotStarted \/ NoShell)
    /\ WF_vars(Wait) /\ WF_vars(Classify)

Spec == Init /\ [][Next]_vars /\ Fairness
-----------------------------------------------------------------------------
(* Type invariant of both scripts.                                         *)
TypeOK ==
    /\ TimedTypeOK
    /\ rpc \in {"start", "wait", "classify", "exit"}
    /\ exitval \in {Missing, 0, 1, 2, 126, 127, 128, 129, 137, 139, 143}
    /\ EXITOK \in {0, 1}
    /\ fail \in {"unknown", "yes", "no"}

(* No signal is sent before the program has had its full time, however the *)
(* watchdog and the program are scheduled.                                 *)
FullTime == sent # <<>> => age >= timeout

OrderOfSignals == <<"TERM", "HUP", "KILL">>

(* The signals come in the order TERM, HUP, KILL, and each is given two    *)
(* seconds to work before the next one.                                    *)
Escalation ==
    [][sent' # sent => /\ sent' = SubSeq(OrderOfSignals, 1, Len(sent) + 1)
                       /\ sent # <<>> => since = 2]_vars

(* Once the watchdog has found the process gone it never signals again:    *)
(* another process can be hit only if it got the id between two looks.     *)
NoSignalOnceGone == [][seenGone => sent' = sent]_vars

(* A program that was started does not outlive the watchdog's patience,    *)
(* even if it survives TERM and HUP and no one waits for it any more.      *)
ProgramEnds == program # "none" ~> program \in {"zombie", "gone"}

(* Every run ends with a verdict, and the watchdog does not stay behind.   *)
VerdictReached == <>(rpc = "exit" /\ wpc \in {"none", "exit"})

EndedBySignal == code \in {129, 137, 139, 143}

(* A program the watchdog or anyone killed, or that exec could not run, is *)
(* a failed test whatever EXITOK says, and so is one whose status was      *)
(* lost; one that returned 0 is a failed test only if that was lost.  One  *)
(* that was not started at all fails where EXITOK does, unless the status  *)
(* of the shell says that there was no command to run: with EXITOK zero an *)
(* INFILE that cannot be opened (status 1 or 2) passes.                    *)
Verdict ==
    rpc = "exit" =>
        /\ exitval = Missing => fail = "yes"
        /\ program # "none" =>
            /\ EndedBySignal \/ code \in {126, 127, 128} => fail = "yes"
            /\ code = 0 => (fail = "yes" <=> exitval = Missing)
            /\ code = 1 => (fail = "yes" <=> EXITOK = 1 \/ exitval = Missing)
        /\ program = "none" /\ exitval \in {1, 2} => (fail = "yes" <=> EXITOK = 1)
        /\ program = "none" /\ exitval \in {126, 127} => fail = "yes"
=============================================================================
