----------------------------- MODULE TimedExec -----------------------------
(***************************************************************************)
(* wolfbench/TimedExec.sh: the script starts itself again as a watchdog in *)
(* the background and then becomes the program (exec), so that the program *)
(* runs under the process id the watchdog was given.  The watchdog knows   *)
(* nothing but that number: it asks once a second whether a process of     *)
(* that number exists, and after the timeout signals it.                   *)
(*                                                                         *)
(* Program, watchdog, clock and the system that hands out process ids run  *)
(* concurrently.  A sleep lasts at least as long as it says; how long the  *)
(* watchdog then waits for the processor is open.                          *)
(***************************************************************************)
EXTENDS Integers, Sequences

CONSTANT Timeouts   \* the timeouts, in seconds, that callers use
ASSUME TimeoutsAssumption == Timeouts \subseteq Nat

Signals == {"TERM", "HUP", "KILL"}
Number == [TERM |-> 15, HUP |-> 1, KILL |-> 9]

VARIABLES
    timeout,    \* TIMEOUT
    program,    \* "none" before the script is started, "shell" before its
                \* exec, "running", "zombie", "gone"
    ignores,    \* the signals the program survives
    holder,     \* whose process id PARENT is: "program", "nobody", "other"
    code,       \* the exit status of the program, -1 before it ends
    age,        \* seconds since the script started, MaxAge at most
    wpc,        \* where the watchdog is, "none" before it is started
    SEC,        \* its counter
    timer,      \* seconds its sleep still lasts
    sent,       \* the signals it has sent
    since,      \* seconds since the last of them, 2 at most
    seenGone    \* a probe or a signal of its has found no process

programVars == <<program, ignores, holder, code>>
watchdogVars == <<wpc, SEC, timer, sent, since, seenGone>>
timedVars == <<timeout, programVars, age, watchdogVars>>

(* A counter for properties only; nothing depends on it past this bound.   *)
MaxAge == timeout + 1

TimedInit ==
    /\ timeout \in Timeouts
    /\ program = "none"
    /\ ignores \in SUBSET {"TERM", "HUP"}
    /\ holder = "nobody"
    /\ code = -1
    /\ age = 0
    /\ wpc = "none"
    /\ SEC = 0
    /\ timer = 0
    /\ sent = <<>>
    /\ since = 0
    /\ seenGone = FALSE

(* The script is started, and starts itself again in the background.       *)
Launch ==
    /\ program = "none"
    /\ program' = "shell"
    /\ holder' = "program"
    /\ wpc' = "loop"
    /\ UNCHANGED <<timeout, ignores, code, age, SEC, timer, sent, since, seenGone>>

Tick ==
    /\ age' = IF program # "none" /\ age < MaxAge THEN age + 1 ELSE age
    /\ timer' = IF timer > 0 THEN timer - 1 ELSE 0
    /\ since' = IF since < 2 THEN since + 1 ELSE 2
    /\ UNCHANGED <<timeout, programVars, wpc, SEC, sent, seenGone>>
-----------------------------------------------------------------------------
(* exec: the shell turns into the program, or fails with 126 or 127.       *)
Exec ==
    /\ program = "shell"
    /\ \/ program' = "running" /\ UNCHANGED code
       \/ program' = "zombie" /\ code' \in {126, 127}
    /\ UNCHANGED <<timeout, ignores, holder, age, watchdogVars>>

(* The program ends by itself, perhaps out of a handler of a signal it     *)
(* survives, or is killed by someone else.                                 *)
Finish ==
    /\ program = "running"
    /\ program' = "zombie"
    /\ code' \in {0, 1, 128, 139}
    /\ UNCHANGED <<timeout, ignores, holder, age, watchdogVars>>

(* Whoever waits for the program collects its status; the id is free then. *)
Reap ==
    /\ program = "zombie"
    /\ program' = "gone"
    /\ holder' = "nobody"
    /\ UNCHANGED <<timeout, ignores, code, age, watchdogVars>>

(* The system gives the number to another process, which may end in turn.  *)
ReuseId ==
    /\ program = "gone"
    /\ \/ holder = "nobody" /\ holder' = "other"
       \/ holder = "other" /\ holder' = "nobody"
    /\ UNCHANGED <<timeout, program, ignores, code, age, watchdogVars>>
-----------------------------------------------------------------------------
(* Mutant: the loop turns once too often.                                  *)
StartSleep_oneMore ==
    /\ wpc = "loop"
    /\ SEC <= timeout
    /\ timer' = 1
    /\ wpc' = "sleep"
    /\ UNCHANGED <<timeout, programVars, age, SEC, sent, since, seenGone>>

StartSleep ==
    /\ wpc = "loop"
    /\ SEC < timeout
    /\ timer' = 1
    /\ wpc' = "sleep"
    /\ UNCHANGED <<timeout, programVars, age, SEC, sent, since, seenGone>>

(* Mutant: the answer of kill -0 is not looked at.                         *)
Probe_blind ==
    /\ wpc = "sleep" /\ timer = 0
    /\ wpc' = "loop" /\ SEC' = SEC + 1
    /\ seenGone' = (seenGone \/ holder = "nobody")
    /\ UNCHANGED <<timeout, programVars, age, timer, sent, since>>

(* Mutant: SEC is not incremented.                                         *)
Probe_stuck ==
    /\ wpc = "sleep" /\ timer = 0
    /\ \/ holder # "nobody" /\ wpc' = "loop" /\ UNCHANGED seenGone
       \/ holder = "nobody" /\ wpc' = "exit" /\ seenGone' = TRUE
    /\ UNCHANGED <<timeout, programVars, age, SEC, timer, sent, since>>

(* kill -0: nothing is sent, a missing process ends the watchdog.          *)
Probe ==
    /\ wpc = "sleep" /\ timer = 0
    /\ \/ holder # "nobody" /\ wpc' = "loop" /\ SEC' = SEC + 1 /\ UNCHANGED seenGone
       \/ holder = "nobody" /\ wpc' = "exit" /\ seenGone' = TRUE /\ UNCHANGED SEC
    /\ UNCHANGED <<timeout, programVars, age, timer, sent, since>>

(* Mutant: the last second is not waited for.                              *)
TimeIsUp_oneShort ==
    /\ wpc = "loop"
    /\ SEC >= timeout - 1
    /\ wpc' = "TERM"
    /\ UNCHANGED <<timeout, programVars, age, SEC, timer, sent, since, seenGone>>

TimeIsUp ==
    /\ wpc = "loop"
    /\ SEC >= timeout
    /\ wpc' = "TERM"
    /\ UNCHANGED <<timeout, programVars, age, SEC, timer, sent, since, seenGone>>

(* What a signal does to whoever has the id.  The shell that is still to   *)
(* exec has no handlers; a zombie takes a signal and remains a zombie.     *)
Deliver(sig) ==
    /\ IF program = "shell" \/ (program = "running" /\ sig \notin ignores)
       THEN program' = "zombie" /\ code' = 128 + Number[sig]
       ELSE UNCHANGED <<program, code>>
    /\ UNCHANGED <<ignores, holder>>

NextStep == [TERM |-> "HUP", HUP |-> "KILL", KILL |-> "exit"]

(* Mutant: the pause before the next signal is forgotten.                  *)
Signal_noPause(sig) ==
    /\ wpc = sig /\ timer = 0
    /\ holder # "nobody"
    /\ Deliver(sig)
    /\ sent' = Append(sent, sig)
    /\ since' = 0
    /\ wpc' = NextStep[sig]
    /\ UNCHANGED <<timer, seenGone>>

(* Mutant: the third signal is a second hangup.                            *)
Signal_neverKill(sig) ==
    /\ wpc = sig /\ timer = 0
    /\ holder # "nobody"
    /\ Deliver(IF sig = "KILL" THEN "HUP" ELSE sig)
    /\ sent' = Append(sent, sig)
    /\ since' = 0
    /\ timer' = 2
    /\ wpc' = NextStep[sig]
    /\ UNCHANGED seenGone

(* kill -TERM && (sleep 2; kill -HUP) && (sleep 2; kill -KILL): the chain  *)
(* goes on as long as the process is there to be signalled.                *)
Signal(sig) ==
    /\ wpc = sig /\ timer = 0
    /\ holder # "nobody"
    /\ Deliver(sig)
    /\ sent' = Append(sent, sig)
    /\ since' = 0
    /\ timer' = IF sig = "KILL" THEN 0 ELSE 2
    /\ wpc' = NextStep[sig]
    /\ UNCHANGED seenGone

SignalFails(sig) ==
    /\ wpc = sig /\ timer = 0
    /\ holder = "nobody"
    /\ seenGone' = TRUE
    /\ wpc' = "exit"
    /\ UNCHANGED <<programVars, timer, sent, since>>

Escalate ==
    /\ \E sig \in Signals : Signal(sig) \/ SignalFails(sig)
    /\ UNCHANGED <<timeout, age, SEC>>

Watchdog == StartSleep \/ Probe \/ TimeIsUp \/ Escalate

Environment == Tick \/ Exec \/ Finish \/ ReuseId
-----------------------------------------------------------------------------
TimedTypeOK ==
    /\ timeout \in Timeouts
    /\ program \in {"none", "shell", "running", "zombie", "gone"}
    /\ ignores \subseteq {"TERM", "HUP"}
    /\ holder \in {"program", "nobody", "other"}
    /\ code \in {-1, 0, 1, 126, 127, 128, 129, 137, 139, 143}
    /\ age \in 0 .. MaxAge
    /\ wpc \in {"none", "loop", "sleep", "exit"} \cup Signals
    /\ SEC \in 0 .. timeout
    /\ timer \in 0 .. 2 /\ since \in 0 .. 2
    /\ sent \in Seq(Signals) /\ Len(sent) <= 3
    /\ seenGone \in BOOLEAN
=============================================================================
