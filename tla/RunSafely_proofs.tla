-------------------------- MODULE RunSafely_proofs --------------------------
(***************************************************************************)
(* Proofs about wolfbench/TimedExec.sh under RunSafely.sh for every        *)
(* timeout and every schedule of program, watchdog and clock.              *)
(***************************************************************************)
EXTENDS RunSafely, SequenceTheorems, TLAPS

(***************************************************************************)
(* The clock and the watchdog.  SEC never runs ahead of the seconds that   *)
(* have passed, and while the watchdog sleeps what is left of its sleep    *)
(* makes up the difference; age stops counting only past the timeout.      *)
(***************************************************************************)
Clock ==
    /\ program = "none" => wpc = "none"
    /\ wpc = "none" => SEC = 0
    /\ wpc = "loop" => age >= SEC
    /\ wpc = "sleep" => SEC < timeout /\ age + timer >= SEC + 1
    /\ wpc \in Signals \/ sent # <<>> => age >= timeout

(* Where the watchdog is, what it has sent, and how much is left of the    *)
(* pause, which began with the last signal.                                *)
Sent ==
    /\ wpc \in {"none", "loop", "sleep", "TERM"} => Len(sent) = 0
    /\ wpc = "HUP" => Len(sent) = 1 /\ since + timer >= 2
    /\ wpc = "KILL" => Len(sent) = 2 /\ since + timer >= 2
    /\ \A n \in 1 .. Len(sent) : sent[n] = OrderOfSignals[n]
    /\ wpc \in {"none", "loop", "TERM"} => timer = 0
    /\ seenGone => wpc = "exit"

(* The status RunSafely has is the one of a program that is gone, which    *)
(* does not change any more, or of a shell that started none, or it has    *)
(* none; the verdict is made of that.                                      *)
Collected ==
    /\ rpc = "start" => program = "none" /\ exitval = Missing
    /\ rpc = "wait" => program # "none" /\ exitval = Missing
    /\ rpc \in {"classify", "exit"} =>
          \/ exitval = Missing
          \/ program = "gone" /\ exitval = code
          \/ program = "none" /\ exitval \in {1, 2, 126, 127}
    /\ rpc = "exit" => fail = IF Failed(exitval) THEN "yes" ELSE "no"

Inv == TypeOK /\ Clock /\ Sent /\ Collected

(* The scripts start in such a state.                                      *)
LEMMA InitInv == Init => Inv
<1> SUFFICES ASSUME Init PROVE Inv
    OBVIOUS
<1> USE TimeoutsAssumption
<1>1. TypeOK
  <2>1. sent \in Seq(Signals) /\ Len(sent) <= 3
    BY DEF Init, TimedInit
  <2>2. timeout \in Nat
    BY DEF Init, TimedInit
  <2>3. program \in {"none", "shell", "running", "zombie", "gone"}
        /\ ignores \subseteq {"TERM", "HUP"}
        /\ holder \in {"program", "nobody", "other"}
        /\ wpc \in {"none", "loop", "sleep", "exit"} \cup Signals
    BY DEF Init, TimedInit
  <2>4. age \in 0 .. MaxAge /\ SEC \in 0 .. timeout
        /\ timer \in 0 .. 2 /\ since \in 0 .. 2
        /\ code \in {-1, 0, 1, 126, 127, 128, 129, 137, 139, 143}
    BY <2>2 DEF Init, TimedInit, MaxAge
  <2>5. timeout \in Timeouts /\ seenGone \in BOOLEAN
        /\ rpc \in {"start", "wait", "classify", "exit"}
        /\ exitval = Missing
        /\ EXITOK \in {0, 1} /\ fail \in {"unknown", "yes", "no"}
    BY DEF Init, TimedInit
  <2> QED BY <2>1, <2>3, <2>4, <2>5 DEF TypeOK, TimedTypeOK
<1>2. Clock /\ Sent /\ Collected
    BY DEF Init, TimedInit, Clock, Sent, Collected, Signals
<1> QED BY <1>1, <1>2 DEF Inv

(* What a step of the watchdog sends: the next of the three signals.       *)
LEMMA SignalSends ==
    ASSUME Inv, NEW sig \in Signals, Signal(sig)
    PROVE  /\ \/ wpc = "TERM" /\ wpc' = "HUP" /\ Len(sent) = 0 /\ timer' = 2
              \/ wpc = "HUP" /\ wpc' = "KILL" /\ Len(sent) = 1 /\ timer' = 2
              \/ wpc = "KILL" /\ wpc' = "exit" /\ Len(sent) = 2 /\ timer' = 0
           /\ sent' \in Seq(Signals) /\ Len(sent') = Len(sent) + 1
           /\ \A n \in 1 .. Len(sent') : sent'[n] = OrderOfSignals[n]
<1>1. \/ wpc = "TERM" /\ wpc' = "HUP" /\ Len(sent) = 0 /\ timer' = 2
      \/ wpc = "HUP" /\ wpc' = "KILL" /\ Len(sent) = 1 /\ timer' = 2
      \/ wpc = "KILL" /\ wpc' = "exit" /\ Len(sent) = 2 /\ timer' = 0
    BY DEF Inv, Sent, Signal, NextStep, Signals
<1>2. sent \in Seq(Signals) /\ sent' = Append(sent, sig) /\ wpc = sig
    BY DEF Inv, TypeOK, TimedTypeOK, Signal
<1>3. sent' \in Seq(Signals) /\ Len(sent') = Len(sent) + 1
    BY <1>2
<1>4. sig = OrderOfSignals[Len(sent) + 1]
    BY <1>1, <1>2 DEF OrderOfSignals
<1>5. \A n \in 1 .. Len(sent) : sent[n] = OrderOfSignals[n]
    BY DEF Inv, Sent
<1>6. \A n \in 1 .. Len(sent') : sent'[n] = OrderOfSignals[n]
    BY <1>2, <1>3, <1>4, <1>5
<1> QED BY <1>1, <1>3, <1>6

(* Delivery leaves a legal status, and none behind the back of a program   *)
(* that is gone.                                                           *)
LEMMA DeliverTypes ==
    ASSUME Inv, NEW sig \in Signals, Deliver(sig)
    PROVE  /\ program' \in {"none", "shell", "running", "zombie", "gone"}
           /\ code' \in {-1, 0, 1, 126, 127, 128, 129, 137, 139, 143}
           /\ program \in {"none", "gone"} => UNCHANGED <<program, code>>
           /\ program' = "none" => program = "none"
           /\ UNCHANGED <<ignores, holder>>
BY DEF Inv, TypeOK, TimedTypeOK, Deliver, Number, Signals

(* Every step of program, watchdog, clock and RunSafely keeps the          *)
(* invariant.                                                              *)
LEMMA NextInv == Inv /\ [Next]_vars => Inv'
<1> SUFFICES ASSUME Inv, [Next]_vars PROVE Inv'
    OBVIOUS
<1> USE TimeoutsAssumption DEF runVars
<1>1. TypeOK /\ Clock /\ Sent /\ Collected
    BY DEF Inv
<1>2. timeout \in Nat /\ SEC \in 0 .. timeout /\ age \in 0 .. timeout + 1
      /\ timer \in 0 .. 2 /\ since \in 0 .. 2
    BY <1>1 DEF TypeOK, TimedTypeOK, MaxAge
<1>3. CASE Tick /\ UNCHANGED runVars
  <2>1. TypeOK'
    BY <1>1, <1>2, <1>3
    DEF Tick, programVars, TypeOK, TimedTypeOK, MaxAge
  <2>2. Clock'
    BY <1>1, <1>2, <1>3 DEF Tick, programVars, Clock, MaxAge, Signals
  <2>3. Sent'
    BY <1>1, <1>2, <1>3 DEF Tick, Sent
  <2>4. Collected'
    BY <1>1, <1>3 DEF Tick, programVars, Collected, Failed
  <2> QED BY <2>1, <2>2, <2>3, <2>4 DEF Inv
<1>4. CASE (Exec \/ Finish \/ ReuseId) /\ UNCHANGED runVars
  <2>1. /\ UNCHANGED <<timeout, ignores, age, wpc, SEC, timer, sent, since,
                       seenGone, rpc, exitval, EXITOK, fail>>
        /\ program' \in {"none", "shell", "running", "zombie", "gone"}
        /\ holder' \in {"program", "nobody", "other"}
        /\ code' \in {-1, 0, 1, 126, 127, 128, 129, 137, 139, 143}
    BY <1>1, <1>4 DEF Exec, Finish, ReuseId, watchdogVars, TypeOK, TimedTypeOK
  <2>2. TypeOK'
    BY <1>1, <2>1 DEF TypeOK, TimedTypeOK, MaxAge
  <2>3. Clock' /\ Sent'
    BY <1>1, <1>4 DEF Exec, Finish, ReuseId, watchdogVars, Clock, Sent
  <2>4. Collected'
    BY <1>1, <1>4 DEF Exec, Finish, ReuseId, Collected, Failed
  <2> QED BY <2>2, <2>3, <2>4 DEF Inv
<1>5. CASE StartSleep /\ UNCHANGED runVars
  <2>1. TypeOK'
    BY <1>1, <1>5 DEF StartSleep, programVars, TypeOK, TimedTypeOK, MaxAge
  <2>2. Clock' /\ Sent'
    BY <1>1, <1>2, <1>5 DEF StartSleep, programVars, Clock, Sent, Signals
  <2>3. Collected'
    BY <1>1, <1>5 DEF StartSleep, programVars, Collected, Failed
  <2> QED BY <2>1, <2>2, <2>3 DEF Inv
<1>6. CASE Probe /\ UNCHANGED runVars
  <2>1. TypeOK'
    <3>1. /\ UNCHANGED <<timeout, program, ignores, holder, code, age, timer, sent,
                         since, rpc, exitval, EXITOK, fail>>
          /\ wpc' \in {"loop", "exit"} /\ seenGone' \in BOOLEAN
      BY <1>1, <1>6 DEF Probe, programVars, TypeOK, TimedTypeOK
    <3>2. SEC' \in 0 .. timeout
      BY <1>1, <1>2, <1>6 DEF Probe, Clock
    <3> QED BY <1>1, <3>1, <3>2 DEF TypeOK, TimedTypeOK, MaxAge
  <2>2. Clock' /\ Sent'
    BY <1>1, <1>2, <1>6 DEF Probe, programVars, Clock, Sent, Signals
  <2>3. Collected'
    BY <1>1, <1>6 DEF Probe, programVars, Collected, Failed
  <2> QED BY <2>1, <2>2, <2>3 DEF Inv
<1>7. CASE TimeIsUp /\ UNCHANGED runVars
  <2>1. TypeOK'
    BY <1>1, <1>7 DEF TimeIsUp, programVars, TypeOK, TimedTypeOK, MaxAge, Signals
  <2>2. Clock' /\ Sent'
    BY <1>1, <1>2, <1>7 DEF TimeIsUp, programVars, Clock, Sent, Signals
  <2>3. Collected'
    BY <1>1, <1>7 DEF TimeIsUp, programVars, Collected, Failed
  <2> QED BY <2>1, <2>2, <2>3 DEF Inv
<1>8. CASE Escalate /\ UNCHANGED runVars
  <2>1. UNCHANGED <<timeout, age, SEC, rpc, exitval, EXITOK, fail>>
    BY <1>8 DEF Escalate
  <2>2. ASSUME NEW sig \in Signals, Signal(sig) PROVE Inv'
    <3>1. /\ \/ wpc = "TERM" /\ wpc' = "HUP" /\ Len(sent) = 0 /\ timer' = 2
             \/ wpc = "HUP" /\ wpc' = "KILL" /\ Len(sent) = 1 /\ timer' = 2
             \/ wpc = "KILL" /\ wpc' = "exit" /\ Len(sent) = 2 /\ timer' = 0
          /\ sent' \in Seq(Signals) /\ Len(sent') = Len(sent) + 1
          /\ \A n \in 1 .. Len(sent') : sent'[n] = OrderOfSignals[n]
      BY <2>2, SignalSends
    <3>2. since' = 0 /\ UNCHANGED seenGone
      BY <2>2 DEF Signal
    <3>3. /\ program' \in {"none", "shell", "running", "zombie", "gone"}
          /\ code' \in {-1, 0, 1, 126, 127, 128, 129, 137, 139, 143}
          /\ program \in {"none", "gone"} => UNCHANGED <<program, code>>
          /\ program' = "none" => program = "none"
          /\ UNCHANGED <<ignores, holder>>
      BY <2>2, DeliverTypes DEF Signal
    <3>4. sent' \in Seq(Signals) /\ Len(sent') <= 3
      <4>1. Len(sent) \in {0, 1, 2}
        BY <3>1
      <4>2. \A k \in {0, 1, 2} : k + 1 <= 3
        OBVIOUS
      <4> QED BY <3>1, <4>1, <4>2
    <3>5. TypeOK'
      BY <1>1, <2>1, <3>1, <3>2, <3>3, <3>4 DEF TypeOK, TimedTypeOK, MaxAge, Signals
    <3>6. Clock' /\ Sent'
      <4>1. program' # "none"
        BY <1>1, <3>1, <3>3 DEF Clock
      <4>2. age' >= timeout'
        BY <1>1, <2>1, <3>1 DEF Clock, Signals
      <4>3. Clock'
        BY <3>1, <4>1, <4>2 DEF Clock
      <4>4. Sent'
        BY <1>1, <3>1, <3>2 DEF Sent
      <4> QED BY <4>3, <4>4
    <3>7. Collected'
      <4>1. program # "none" /\ program' # "none"
        BY <1>1, <3>1, <3>3 DEF Clock
      <4>2. rpc # "start"
        BY <1>1, <4>1 DEF Collected
      <4> QED BY <1>1, <2>1, <3>3, <4>1, <4>2 DEF Collected, Failed
    <3> QED BY <3>5, <3>6, <3>7 DEF Inv
  <2>3. ASSUME NEW sig \in Signals, SignalFails(sig) PROVE Inv'
    <3>1. TypeOK'
      BY <1>1, <2>1, <2>3 DEF SignalFails, programVars, TypeOK, TimedTypeOK, MaxAge
    <3>2. Clock' /\ Sent'
      BY <1>1, <2>1, <2>3 DEF SignalFails, programVars, Clock, Sent, Signals
    <3>3. Collected'
      BY <1>1, <2>1, <2>3 DEF SignalFails, programVars, Collected, Failed
    <3> QED BY <3>1, <3>2, <3>3 DEF Inv
  <2> QED BY <1>8, <2>2, <2>3 DEF Escalate
<1>9. CASE Start
  <2>1. /\ program = "none" /\ program' = "shell" /\ holder' = "program"
        /\ wpc = "none" /\ wpc' = "loop" /\ rpc' = "wait"
        /\ UNCHANGED <<timeout, ignores, code, age, SEC, timer, sent, since,
                       seenGone, exitval, EXITOK, fail>>
    BY <1>1, <1>9 DEF Start, Launch, Clock
  <2>2. TypeOK'
    BY <1>1, <2>1 DEF TypeOK, TimedTypeOK, MaxAge
  <2>3. Clock' /\ Sent'
    <3>1. sent = <<>>
      BY <1>1, <2>1, EmptySeq DEF TypeOK, TimedTypeOK, Sent
    <3>2. SEC = 0
      BY <1>1, <2>1 DEF Clock
    <3>3. Clock'
      BY <1>2, <2>1, <3>1, <3>2 DEF Clock, Signals
    <3>4. Sent'
      BY <1>1, <2>1 DEF Sent
    <3> QED BY <3>3, <3>4
  <2>4. Collected'
    BY <1>1, <1>9, <2>1 DEF Start, Collected
  <2> QED BY <2>2, <2>3, <2>4 DEF Inv
<1>10. CASE NotStarted \/ NoShell \/ ShellLost \/ Classify
  <2>1. UNCHANGED <<timeout, program, ignores, holder, code, age, wpc, SEC, timer,
                    sent, since, seenGone, EXITOK>>
    BY <1>10 DEF NotStarted, NoShell, ShellLost, Classify, timedVars, programVars,
                 watchdogVars
  <2>2. Clock' /\ Sent'
    BY <1>1, <2>1 DEF Clock, Sent
  <2>3. /\ rpc' \in {"classify", "exit"} /\ fail' \in {"unknown", "yes", "no"}
        /\ exitval' \in {exitval, 1, 2, 126, 127}
    BY <1>1, <1>10 DEF NotStarted, NoShell, ShellLost, Classify, TypeOK
  <2>4. TypeOK'
    BY <1>1, <2>1, <2>3 DEF TypeOK, TimedTypeOK, MaxAge
  <2>5. Collected'
    <3>1. CASE NotStarted
      BY <1>1, <2>1, <3>1 DEF NotStarted, Collected
    <3>2. CASE NoShell \/ ShellLost
      BY <1>1, <2>1, <3>2 DEF NoShell, ShellLost, Collected
    <3>3. CASE Classify
      <4>1. rpc = "classify" /\ rpc' = "exit" /\ UNCHANGED exitval
            /\ fail' = IF Failed(exitval) THEN "yes" ELSE "no"
        BY <3>3 DEF Classify
      <4> QED BY <1>1, <2>1, <4>1 DEF Collected, Failed
    <3> QED BY <1>10, <3>1, <3>2, <3>3
  <2> QED BY <2>2, <2>4, <2>5 DEF Inv
<1>11. CASE Wait \/ Adopted
  <2>1. /\ UNCHANGED <<timeout, ignores, code, age, wpc, SEC, timer, sent, since,
                       seenGone, EXITOK, fail>>
        /\ program = "zombie" /\ program' = "gone" /\ holder' = "nobody"
    BY <1>11 DEF Wait, Adopted, Reap, watchdogVars
  <2>2. rpc' \in {"classify", "exit"} /\ exitval' \in {exitval, code, Missing}
    BY <1>11 DEF Wait, Adopted
  <2>3. TypeOK'
    BY <1>1, <2>1, <2>2 DEF TypeOK, TimedTypeOK, MaxAge, Missing
  <2>4. Clock' /\ Sent'
    BY <1>1, <2>1 DEF Clock, Sent
  <2>5. Collected'
    BY <1>1, <1>11, <2>1 DEF Wait, Adopted, Collected, Failed
  <2> QED BY <2>3, <2>4, <2>5 DEF Inv
<1>12. CASE UNCHANGED vars
  <2>1. TypeOK'
    BY <1>1, <1>12
    DEF vars, timedVars, programVars, watchdogVars, TypeOK, TimedTypeOK, MaxAge
  <2>2. Clock' /\ Sent' /\ Collected'
    BY <1>1, <1>12
    DEF vars, timedVars, programVars, watchdogVars, Clock, Sent, Collected, Failed
  <2> QED BY <2>1, <2>2 DEF Inv
<1> QED
    BY <1>3, <1>4, <1>5, <1>6, <1>7, <1>8, <1>9, <1>10, <1>11, <1>12
    DEF Next, Watchdog, Environment

(* The state of both scripts keeps its types.                              *)
THEOREM TypeCorrect == Spec => []TypeOK
<1>1. Inv => TypeOK
    BY DEF Inv
<1> QED BY <1>1, InitInv, NextInv, PTL DEF Spec

(* No signal before the program has had its full time.                     *)
THEOREM FullTimeGiven == Spec => []FullTime
<1>1. Inv => FullTime
    BY DEF Inv, Clock, FullTime
<1> QED BY <1>1, InitInv, NextInv, PTL DEF Spec

(* The verdict agrees with the way the program ended, was not started, or  *)
(* was lost sight of.                                                      *)
THEOREM VerdictRight == Spec => []Verdict
<1>1. Inv => Verdict
    BY DEF Inv, TypeOK, Collected, Failed, Verdict, EndedBySignal, Missing
<1> QED BY <1>1, InitInv, NextInv, PTL DEF Spec

(* Only Escalate sends.                                                    *)
LEMMA WhoSends ==
    ASSUME Inv, [Next]_vars, sent' # sent
    PROVE  \E sig \in Signals : Signal(sig)
BY DEF Next, Watchdog, Environment, Tick, Exec, Finish, ReuseId, StartSleep,
       Probe, TimeIsUp, Escalate, SignalFails, Start, Launch, NotStarted, NoShell,
       Wait, ShellLost, Adopted, Reap, Classify, vars, timedVars, watchdogVars

(* TERM, HUP, KILL, in this order, two seconds apart.                      *)
THEOREM EscalationInOrder == Spec => Escalation
<1> DEFINE Step == sent' # sent =>
                        /\ sent' = SubSeq(OrderOfSignals, 1, Len(sent) + 1)
                        /\ sent # <<>> => since = 2
<1>1. Inv /\ [Next]_vars => [Step]_vars
  <2> SUFFICES ASSUME Inv, [Next]_vars, sent' # sent
               PROVE  /\ sent' = SubSeq(OrderOfSignals, 1, Len(sent) + 1)
                      /\ sent # <<>> => since = 2
      OBVIOUS
  <2>1. PICK sig \in Signals : Signal(sig)
      BY WhoSends
  <2>2. /\ \/ wpc = "TERM" /\ Len(sent) = 0
           \/ wpc = "HUP" /\ Len(sent) = 1
           \/ wpc = "KILL" /\ Len(sent) = 2
        /\ sent' \in Seq(Signals) /\ Len(sent') = Len(sent) + 1
        /\ \A n \in 1 .. Len(sent') : sent'[n] = OrderOfSignals[n]
      BY <2>1, SignalSends
  <2>3. sent' = SubSeq(OrderOfSignals, 1, Len(sent) + 1)
    <3>1. \A n \in 1 .. 3 : OrderOfSignals[n] \in Signals
      BY DEF OrderOfSignals, Signals
    <3>2. Len(sent) + 1 \in 1 .. 3
      <4>1. Len(sent) \in {0, 1, 2}
        BY <2>2
      <4>2. \A k \in {0, 1, 2} : k + 1 \in 1 .. 3
        OBVIOUS
      <4> QED BY <4>1, <4>2
    <3>3. /\ SubSeq(OrderOfSignals, 1, Len(sent) + 1) \in Seq(Signals)
          /\ Len(SubSeq(OrderOfSignals, 1, Len(sent) + 1)) = Len(sent) + 1
          /\ \A n \in 1 .. Len(sent) + 1 :
                SubSeq(OrderOfSignals, 1, Len(sent) + 1)[n] = OrderOfSignals[n]
      BY <3>1, <3>2, SubSeqProperties
    <3> QED BY <2>2, <3>3, SeqEqual
  <2>4. sent # <<>> => since = 2
    <3>1. timer = 0 /\ since \in 0 .. 2 /\ sent \in Seq(Signals) /\ wpc = sig
      BY <2>1 DEF Signal, Inv, TypeOK, TimedTypeOK
    <3> QED BY <2>2, <3>1 DEF Inv, Sent
  <2> QED BY <2>3, <2>4
<1> QED BY <1>1, InitInv, NextInv, PTL DEF Spec, Escalation

(* After it has found nobody there the watchdog sends no more.             *)
THEOREM SilentOnceGone == Spec => NoSignalOnceGone
<1>1. Inv /\ [Next]_vars => [seenGone => sent' = sent]_vars
  <2> SUFFICES ASSUME Inv, [Next]_vars, sent' # sent, seenGone
               PROVE  FALSE
      OBVIOUS
  <2>1. PICK sig \in Signals : Signal(sig)
      BY WhoSends
  <2> QED BY <2>1 DEF Inv, Sent, Signal, Signals
<1> QED BY <1>1, InitInv, NextInv, PTL DEF Spec, NoSignalOnceGone
=============================================================================
