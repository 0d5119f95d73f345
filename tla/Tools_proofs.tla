---------------------------- MODULE Tools_proofs ----------------------------
(***************************************************************************)
(* For any number of runs on any number of files: what a tool that returns *)
(* 0 has made, and what one that fails has left.                           *)
(***************************************************************************)
EXTENDS Tools, TLAPS

Content ==
    [kind : {"absent", "empty", "torn", "text", "assembly", "module"},
     ok   : BOOLEAN,
     by   : Seq(Tool)]

Types ==
    /\ files \in [Files -> Content]
    /\ was \in [Files -> Content]
    /\ module \in Content
    /\ tool \in Tool
    /\ in \in Files
    /\ out \in Files
    /\ opened \in BOOLEAN
    /\ pc \in {"idle", "open", "parse", "optimise", "write", "writing"}

(* Until it writes, a run has changed nothing but the file it opened.      *)
Untouched ==
    IF opened
    THEN tool \in OpensFirst /\ files = [was EXCEPT ![out] = Empty]
    ELSE files = was

(* What a tool that reads modules has in memory when it has read: what it  *)
(* found in its input, which is not what was there if it opened that       *)
(* first, or the null pointer that p0.c goes on with.                      *)
Fresh ==
    \/ Parses(Input) /\ module = Parsed(Input)
    \/ tool = "p0.c" /\ ~Parses(Input) /\ module = Absent

(* What a run has in memory when it writes.                                *)
Loaded ==
    IF tool \in Compilers
    THEN /\ module.kind = "module" /\ module.by = <<tool>>
         /\ was[in] = Absent \/ tool = "expr" \/ module = Made(was[in])
    ELSE \/ Fresh
         \/ /\ tool \in {"dce.c", "dce.cpp"} /\ Parses(Input) /\ ~Input.ok
            /\ module = Mended(Parsed(Input))

Inv ==
    /\ Types
    /\ pc = "idle" => ZeroMeansMade /\ FailureSpares
    /\ pc = "open" => tool \in OpensFirst /\ ~opened
    /\ pc \in {"open", "parse"} => module = Absent
    /\ pc \in {"open", "parse", "optimise", "write"} => Untouched
    /\ pc = "optimise" => tool \notin Compilers /\ Fresh
    /\ pc \in {"write", "writing"} => Loaded
    /\ pc = "writing" => /\ tool \notin OpensFirst /\ ~opened
                         /\ files = [was EXCEPT ![out] = Empty]
-----------------------------------------------------------------------------
(* The contents the tools write are contents.                              *)
LEMMA Contents ==
    ASSUME NEW ok \in BOOLEAN, NEW t \in Tool
    PROVE  /\ Absent \in Content /\ Empty \in Content /\ Torn \in Content
           /\ File("module", ok, <<t>>) \in Content
           /\ File("text", ok, <<>>) \in Content
           /\ File("assembly", ok, <<>>) \in Content
BY DEF Content, Absent, Empty, Torn, File

(* The same, when there is a tool at hand.                                 *)
LEMMA Simple == Absent \in Content /\ Empty \in Content /\ Torn \in Content
BY Contents DEF Tool, OpensFirst

(* What a tool parses becomes a module.                                    *)
LEMMA PassedOn ==
    ASSUME Types, NEW c \in Content
    PROVE  /\ Parsed(c) \in Content
           /\ Parsed(c).kind = "module" /\ Parsed(c).ok = c.ok
           /\ Mended(Parsed(c)) \in Content
           /\ Mended(Parsed(c)).kind = "module"
<1>1. /\ c.ok \in BOOLEAN /\ c.by \in Seq(Tool) /\ tool \in Tool
  BY DEF Types, Content
<1> DEFINE by == Append(c.by, tool)
<1>2. by \in Seq(Tool)
  BY <1>1
<1>3. Parsed(c) = [kind |-> "module", ok |-> c.ok, by |-> by]
  BY DEF Parsed, File
<1> HIDE DEF by
<1>4. Mended(Parsed(c)) = [kind |-> "module", ok |-> TRUE, by |-> by]
  BY <1>3 DEF Mended, File
<1>5. \A ok \in BOOLEAN :
         LET d == [kind |-> "module", ok |-> ok, by |-> by]
         IN  d \in Content /\ d.kind = "module"
  BY <1>2 DEF Content
<1>6. Parsed(c).ok = c.ok
  BY <1>3
<1> QED
  BY <1>1, <1>3, <1>4, <1>5, <1>6

(* The input as it is found, before anything is written.                   *)
LEMMA InputFound ==
    ASSUME Types, Untouched
    PROVE  files[in] = Input /\ Input \in Content
BY Simple DEF Types, Untouched, Input

LEMMA Initially == Init => Inv
<1> SUFFICES ASSUME Init PROVE Inv
  OBVIOUS
<1>1. Types
  <2>1. files \in [Files -> Content]
    <3> DEFINE Texts == {File(kind, ok, <<>>) :
                            kind \in {"text", "assembly"}, ok \in BOOLEAN}
    <3>1. \A kind \in {"text", "assembly"}, ok \in BOOLEAN :
                File(kind, ok, <<>>) \in Content
      BY Contents DEF Tool, OpensFirst
    <3>2. {Absent, Empty} \cup Texts \subseteq Content
      BY <3>1, Simple
    <3>3. files \in [Files -> {Absent, Empty} \cup Texts]
      BY DEF Init
    <3> QED
      BY <3>2, <3>3
  <2>2. /\ pc = "idle" /\ tool \in Tool /\ in = MainBc /\ out = MainBc
        /\ opened = FALSE /\ module = Absent /\ was = files
    BY DEF Init
  <2> QED
    BY <2>1, <2>2, Simple, MainBcAssumption DEF Types
<1> QED
  BY <1>1 DEF Init, Inv, ZeroMeansMade, FailureSpares

(* What is in memory is a module, or the null pointer p0.c goes on with.    *)
LEMMA LoadedIs ==
    ASSUME Types, Loaded \/ (Fresh /\ tool \notin Compilers)
    PROVE  \/ module.kind = "module" /\ module # Absent
           \/ tool = "p0.c" /\ ~Parses(Input) /\ module = Absent
<1>1. Input \in Content
  BY Simple DEF Types, Input
<1>2. /\ Parsed(Input).kind = "module"
      /\ Mended(Parsed(Input)).kind = "module"
  BY <1>1, PassedOn
<1>3. module.kind = "module" => module # Absent
  BY DEF Absent, File
<1>4. CASE Fresh
  BY <1>2, <1>3, <1>4 DEF Fresh
<1>5. CASE Loaded
  BY <1>2, <1>3, <1>4, <1>5 DEF Loaded
<1> QED
  BY <1>4, <1>5

(* A run that ends before it has written anything keeps the types.         *)
LEMMA ExitTypes ==
    ASSUME Types, NEW how, NEW left, left \in [Files -> Content], Exit(how, left)
    PROVE  Types'
BY DEF Types, Exit

(* What the two ways to give up do to the output.                          *)
LEMMA GivenUp ==
    ASSUME Inv, Untouched, NEW left \in Interrupted \cup {Released}
    PROVE  /\ left \in [Files -> Content]
           /\ \A f \in Files \ {out} : left[f] = was[f]
           /\ left[out] \in IF opened THEN {Absent}
                            ELSE {was[out]} \cup
                                 (IF tool \in OpensFirst THEN {Absent} ELSE {})
           /\ left = Released /\ ~opened => left[out] = was[out]
<1>0. Absent \in Content /\ Types
  BY Simple DEF Inv
<1>1. \/ left = Released
      \/ left = files /\ ~opened
      \/ left = Set(out, Absent) /\ tool \in OpensFirst
  BY DEF Interrupted, Untouched, Inv
<1> QED
  BY <1>0, <1>1 DEF Types, Untouched, Released, Set

(* Giving up on an input that does not parse is no harm, and neither is a  *)
(* fatal error later.                                                      *)
LEMMA GivingUp ==
    ASSUME Inv, pc # "open", Untouched, NEW left \in Interrupted \cup {Released},
           left = Released \/ module.kind = "module", Exit("1", left)
    PROVE  Inv'
<1>1. Types'
  BY GivenUp, ExitTypes DEF Inv
<1>2. ZeroMeansMade' /\ FailureSpares'
  BY GivenUp DEF Inv, Types, Exit, ZeroMeansMade, FailureSpares
<1> QED
  BY <1>1, <1>2 DEF Inv, Exit
-----------------------------------------------------------------------------
LEMMA StartStep ==
    ASSUME Inv, NEW t \in Tool, NEW from \in Files, NEW to \in Files, Start(t, from, to)
    PROVE  Inv'
<1>1. Types'
  BY Contents DEF Inv, Types, Start
<1> QED
  BY <1>1 DEF Inv, Types, Start, Untouched

LEMMA OpenStep ==
    ASSUME Inv, OpenOut
    PROVE  Inv'
<1>1. Empty \in Content
  BY Contents DEF Tool, OpensFirst
<1>2. Types'
  BY <1>1 DEF Inv, Types, OpenOut, Goto, Set
<1>3. Untouched'
  BY DEF Inv, OpenOut, Goto, Untouched, Set
<1> QED
  BY <1>2, <1>3 DEF Inv, OpenOut, Goto

LEMMA ParseStep ==
    ASSUME Inv, ParseModule
    PROVE  Inv'
<1> USE DEF Inv
<1>0. /\ pc = "parse" /\ tool \notin Compilers /\ Types /\ Untouched
      /\ Parses(files[in]) /\ module' = Parsed(files[in])
      /\ Goto("optimise") /\ UNCHANGED <<files, opened>>
  BY DEF ParseModule
<1>1. files[in] = Input /\ Input \in Content
  BY <1>0, InputFound
<1>2. Types'
  BY <1>0, <1>1, PassedOn DEF Types, Goto
<1>3. Fresh'
  BY <1>0, <1>1 DEF Fresh, Input, Parses, Parsed, Goto
<1> QED
  BY <1>0, <1>2, <1>3 DEF Goto, Untouched

LEMMA ParseFailsStep ==
    ASSUME Inv, ParseFails
    PROVE  Inv'
<1> USE DEF Inv
<1>0. /\ pc = "parse" /\ tool \notin Compilers /\ Types /\ Untouched
      /\ ~Parses(files[in]) /\ module = Absent
  BY DEF ParseFails
<1>1. files[in] = Input
  BY <1>0, InputFound
<1>2. CASE tool # "p0.c" /\ Exit("1", Released)
  BY <1>0, <1>2, GivingUp
<1>3. CASE tool = "p0.c" /\ Exit("killed", files)
  <2>1. files = was /\ ~opened
    BY <1>0, <1>3 DEF Untouched, OpensFirst
  <2>2. Types'
    BY <1>0, <1>3, ExitTypes DEF Types
  <2> QED
    BY <1>0, <1>3, <2>1, <2>2
       DEF Exit, ZeroMeansMade, FailureSpares, OpensFirst
<1>4. CASE /\ tool = "p0.c"
           /\ Goto("optimise") /\ UNCHANGED <<files, opened, module>>
  <2>1. Fresh'
    BY <1>0, <1>1, <1>4 DEF Fresh, Input, Parses, Goto
  <2> QED
    BY <1>0, <1>4, <2>1 DEF Goto, Types, Untouched
<1> QED
  BY <1>2, <1>3, <1>4 DEF ParseFails

LEMMA CompileStep ==
    ASSUME Inv, Compile
    PROVE  Inv'
<1> USE DEF Inv
<1>0. pc = "parse" /\ tool \in Compilers /\ Types /\ Untouched
  BY DEF Compile
<1>1. ~opened /\ files = was
  BY <1>0 DEF Untouched, Compilers, OpensFirst
<1> DEFINE Stdin == tool = "expr" \/ files[in] = Absent
           Accepts == IF Stdin THEN BOOLEAN
                      ELSE {files[in].kind = "text" /\ files[in].ok}
<1>2. PICK accepted \in Accepts :
        IF accepted
        THEN /\ \E ok \in IF tool = "expr" THEN BOOLEAN ELSE {TRUE} :
                    module' = File("module", ok, <<tool>>)
             /\ Goto("write")
             /\ UNCHANGED <<files, opened>>
        ELSE Exit(IF tool = "expr" THEN "0" ELSE "1", files)
  BY DEF Compile
<1>3. CASE accepted
  <2>1. PICK ok \in IF tool = "expr" THEN BOOLEAN ELSE {TRUE} :
            module' = File("module", ok, <<tool>>)
    BY <1>2, <1>3
  <2>2. Goto("write") /\ UNCHANGED <<files, opened>>
    BY <1>2, <1>3
  <2>3. module' \in Content
    BY <1>0, <2>1, Contents DEF Types
  <2>4. Types'
    BY <1>0, <2>2, <2>3 DEF Types, Goto
  <2>5. was[in] = Absent \/ tool = "expr" \/ (ok = TRUE /\ was[in].ok = TRUE)
    <3> SUFFICES ASSUME was[in] # Absent, tool # "expr"
                 PROVE  ok = TRUE /\ was[in].ok = TRUE
      OBVIOUS
    <3>1. ok = TRUE
      BY <2>1
    <3>2. was[in].ok
      BY <1>1, <1>3
    <3>3. was[in].ok \in BOOLEAN
      BY <1>0 DEF Types, Content
    <3> QED
      BY <3>1, <3>2, <3>3
  <2>6. Loaded'
    BY <1>0, <1>1, <2>1, <2>2, <2>5 DEF Goto, Loaded, Made, File
  <2> QED
    BY <1>0, <1>1, <2>2, <2>4, <2>6 DEF Goto, Untouched
<1>4. CASE ~accepted
  <2>1. Exit(IF tool = "expr" THEN "0" ELSE "1", files)
    BY <1>2, <1>4
  <2>2. Types'
    BY <1>0, <2>1, ExitTypes DEF Types
  <2> QED
    BY <1>0, <1>1, <2>1, <2>2
       DEF Exit, ZeroMeansMade, FailureSpares, OpensFirst, Compilers
<1> QED
  BY <1>3, <1>4

LEMMA OptimiseStep ==
    ASSUME Inv, Optimise
    PROVE  Inv'
<1> USE DEF Inv
<1>0. /\ pc = "optimise" /\ tool \notin Compilers /\ Types /\ Untouched /\ Fresh
      /\ Goto("write") /\ UNCHANGED <<files, opened>>
  BY DEF Optimise
<1>1. UNCHANGED Input /\ (\A c : Parsed(c)' = Parsed(c) /\ Parses(c)' = Parses(c))
  BY <1>0 DEF Goto, Input, Parsed, Parses
<1>2. CASE UNCHANGED module
  BY <1>0, <1>1, <1>2 DEF Goto, Types, Untouched, Loaded, Fresh
<1>3. CASE /\ ~module.ok /\ tool \in {"dce.c", "dce.cpp"}
           /\ module' = Mended(module)
  <2>1. Parses(Input) /\ module = Parsed(Input)
    BY <1>0, <1>3 DEF Fresh
  <2>2. Input \in Content
    BY <1>0, InputFound
  <2>3. module'  \in Content /\ ~Input.ok
    BY <1>0, <1>3, <2>1, <2>2, PassedOn
  <2>4. Loaded'
    BY <1>0, <1>1, <1>3, <2>1, <2>3 DEF Goto, Loaded
  <2> QED
    BY <1>0, <2>3, <2>4 DEF Goto, Types, Untouched
<1> QED
  BY <1>2, <1>3 DEF Optimise

LEMMA RejectsStep ==
    ASSUME Inv, Rejects
    PROVE  Inv'
<1> USE DEF Inv
<1>0. /\ pc = "optimise" /\ tool \notin Compilers /\ Types /\ Untouched /\ Fresh
      /\ ~module.ok
  BY DEF Rejects
<1>1. CASE tool = "p3" /\ \E left \in Interrupted : Exit("1", left)
  <2>1. module.kind = "module"
    BY <1>0, <1>1, LoadedIs
  <2> QED
    BY <1>0, <1>1, <2>1, GivingUp
<1>2. CASE tool \in {"dce.c", "dce.cpp"} /\ Exit("0", Released)
  <2>1. Types'
    BY <1>0, <1>2, GivenUp, ExitTypes
  <2>2. Parses(Input) /\ module = Parsed(Input) /\ Input \in Content
    BY <1>0, <1>2, InputFound DEF Fresh
  <2>3. ~Input.ok
    BY <1>0, <2>2, PassedOn
  <2>4. /\ \A f \in Files \ {out} : files'[f] = was[f]
        /\ files'[out] = IF opened THEN Absent ELSE was[out]
    BY <1>0, <1>2, GivenUp DEF Exit
  <2>5. ZeroMeansMade'
    BY <1>2, <2>2, <2>3, <2>4 DEF Exit, ZeroMeansMade, Parses, Input
  <2> QED
    BY <1>2, <2>1, <2>5 DEF Exit, FailureSpares
<1> QED
  BY <1>1, <1>2 DEF Rejects

LEMMA WriteKeptStep ==
    ASSUME Inv, WriteKept
    PROVE  Inv'
<1> USE DEF Inv
<1>0. pc = "write" /\ tool \in OpensFirst /\ Types /\ Untouched /\ Loaded
      /\ tool \notin Compilers /\ tool # "p0.c"
  BY DEF WriteKept, OpensFirst, Compilers
<1>1. CASE opened /\ Exit("0", Set(out, module))
  <2>1. Set(out, module) \in [Files -> Content] /\ Set(out, module)[out] = module
        /\ \A f \in Files \ {out} : Set(out, module)[f] = was[f]
    BY <1>0, <1>1 DEF Types, Set, Untouched
  <2>2. Types'
    BY <1>0, <1>1, <2>1, ExitTypes
  <2>3. \/ module = Made(Input)
        \/ /\ tool \in {"dce.c", "dce.cpp"} /\ Parses(Input) /\ ~Input.ok
           /\ module = Mended(Made(Input))
    BY <1>0 DEF Loaded, Fresh, Made
  <2>4. ZeroMeansMade'
    BY <1>1, <2>1, <2>3
       DEF Exit, ZeroMeansMade, Made, Parses, Parsed, Input
  <2> QED
    BY <1>1, <2>2, <2>4 DEF Exit, FailureSpares
<1>2. CASE \E left \in Interrupted : Exit("1", left)
  <2>1. module.kind = "module"
    BY <1>0, LoadedIs
  <2> QED
    BY <1>0, <1>2, <2>1, GivingUp
<1> QED
  BY <1>1, <1>2 DEF WriteKept

LEMMA OpenToWriteStep ==
    ASSUME Inv, OpenToWrite
    PROVE  Inv'
<1> USE DEF Inv
<1>0. pc = "write" /\ tool \notin OpensFirst /\ Types /\ Untouched /\ Loaded
  BY DEF OpenToWrite
<1>1. ~opened /\ files = was
  BY <1>0 DEF Untouched
<1>2. CASE /\ files' = Set(out, Empty)
           /\ Goto("writing")
           /\ UNCHANGED <<opened, module>>
  <2>1. Empty \in Content
    BY Contents DEF Tool, OpensFirst
  <2>2. Types'
    BY <1>0, <1>2, <2>1 DEF Types, Goto, Set
  <2>3. Loaded'
    BY <1>0, <1>2 DEF Loaded, Fresh, Input, Parses, Goto, Made, Parsed
  <2> QED
    BY <1>0, <1>1, <1>2, <2>2, <2>3 DEF Goto, Set
<1>3. CASE Exit(IF tool \in WritesByC THEN "0" ELSE "1", files)
  <2>1. Types'
    BY <1>0, <1>3, ExitTypes DEF Types
  <2> QED
    BY <1>0, <1>1, <1>3, <2>1 DEF Exit, ZeroMeansMade, FailureSpares
<1> QED
  BY <1>2, <1>3 DEF OpenToWrite

LEMMA WriteStep ==
    ASSUME Inv, Write
    PROVE  Inv'
<1> USE DEF Inv
<1>0. /\ pc = "writing" /\ tool \notin OpensFirst /\ ~opened /\ Types /\ Loaded
      /\ files = [was EXCEPT ![out] = Empty]
  BY DEF Write
<1>1. /\ \A f \in Files \ {out} : files[f] = was[f]
      /\ files[out] = Empty
  BY <1>0 DEF Types
<1>2. \/ module.kind = "module" /\ module # Absent
      \/ tool = "p0.c" /\ ~Parses(was[in]) /\ module = Absent
  BY <1>0, LoadedIs DEF Input
<1>3. CASE module = Absent /\ Exit("killed", files)
  <2>1. Types'
    BY <1>0, <1>3, ExitTypes DEF Types
  <2> QED
    BY <1>0, <1>1, <1>2, <1>3, <2>1
       DEF Exit, ZeroMeansMade, FailureSpares, Parses
<1>4. CASE module # Absent /\ Exit("0", Set(out, module))
  <2>1. Set(out, module) \in [Files -> Content] /\ Set(out, module)[out] = module
        /\ \A f \in Files \ {out} : Set(out, module)[f] = was[f]
    BY <1>0 DEF Types, Set
  <2>2. Types'
    BY <1>0, <1>4, <2>1, ExitTypes
  <2>3. \/ module = Made(Input)
        \/ /\ tool \in {"dce.c", "dce.cpp"} /\ Parses(Input) /\ ~Input.ok
           /\ module = Mended(Made(Input))
        \/ (was[in] = Absent \/ tool = "expr") /\ module.by = <<tool>>
    BY <1>0, <1>4 DEF Loaded, Fresh, Made, Input
  <2>4. ZeroMeansMade'
    BY <1>4, <2>1, <2>3
       DEF Exit, ZeroMeansMade, Made, Parses, Parsed, Input
  <2> QED
    BY <1>4, <2>2, <2>4 DEF Exit, FailureSpares
<1>5. CASE module # Absent /\ \E left \in {files, Set(out, Torn)} : Exit("1", left)
  <2>1. PICK left \in {files, Set(out, Torn)} : Exit("1", left)
    BY <1>5
  <2>2. /\ left \in [Files -> Content] /\ left[out] \in {Empty, Torn}
        /\ \A f \in Files \ {out} : left[f] = was[f]
    BY <1>0, <1>1, Simple DEF Types, Set
  <2>3. Types'
    BY <1>0, <2>1, <2>2, ExitTypes
  <2> QED
    BY <1>0, <1>2, <1>5, <2>1, <2>2, <2>3
       DEF Exit, ZeroMeansMade, FailureSpares
<1> QED
  BY <1>3, <1>4, <1>5 DEF Write

LEMMA SignalStep ==
    ASSUME Inv, Signal
    PROVE  Inv'
<1> USE DEF Inv
<1>0. pc # "idle" /\ Types
  BY DEF Signal
<1>1. PICK left \in Interrupted \cup UnderWay : Exit("killed", left)
  BY DEF Signal
<1>2. CASE pc # "writing" /\ left \in Interrupted
  <2>1. Untouched
    BY <1>0, <1>2 DEF Types
  <2>2. Types'
    BY <1>0, <1>1, <1>2, <2>1, GivenUp, ExitTypes
  <2>3. FailureSpares'
    BY <1>0, <1>1, <1>2, <2>1, GivenUp DEF Exit, Types, FailureSpares
  <2> QED
    BY <1>1, <2>2, <2>3 DEF Exit, ZeroMeansMade
<1>3. CASE pc # "writing" /\ left \in UnderWay
  <2>1. Untouched
    BY <1>0, <1>3 DEF Types
  <2>2. \/ left = files
        \/ /\ pc = "write" /\ opened /\ module # Absent
           /\ left \in {Set(out, Torn), Set(out, module)}
    BY <1>3 DEF UnderWay
  <2>3. /\ left \in [Files -> Content]
        /\ \A f \in Files \ {out} : left[f] = was[f]
    BY <1>0, <2>1, <2>2, Simple DEF Types, Untouched, Set
  <2>4. \/ left[out] = IF opened THEN Empty ELSE was[out]
        \/ opened /\ module.kind = "module" /\ left[out] \in {Torn, module}
    <3>1. CASE left = files
      BY <1>0, <2>1, <3>1 DEF Types, Untouched
    <3>2. CASE left # files
      <4>1. module.kind = "module"
        BY <1>0, <2>2, <3>2, LoadedIs
      <4> QED
        BY <1>0, <2>2, <3>2, <4>1 DEF Types, Set
    <3> QED
      BY <3>1, <3>2
  <2>5. Types'
    BY <1>0, <1>1, <2>3, ExitTypes
  <2>6. FailureSpares'
    BY <1>0, <1>1, <2>3, <2>4 DEF Exit, Types, FailureSpares
  <2> QED
    BY <1>1, <2>5, <2>6 DEF Exit, ZeroMeansMade
<1>4. CASE pc = "writing"
  <2>1. /\ tool \notin OpensFirst /\ ~opened /\ Loaded
        /\ files = [was EXCEPT ![out] = Empty]
    BY <1>4
  <2>2. /\ left \in [Files -> Content]
        /\ \A f \in Files \ {out} : left[f] = was[f]
        /\ \/ left[out] = Empty
           \/ module # Absent /\ left[out] \in {Torn, module}
    BY <1>0, <1>1, <2>1, Simple DEF Interrupted, UnderWay, Types, Set
  <2>3. \/ module.kind = "module" /\ module # Absent
        \/ tool = "p0.c" /\ ~Parses(was[in]) /\ module = Absent
    BY <1>0, <2>1, LoadedIs DEF Input
  <2>4. Types'
    BY <1>0, <1>1, <2>2, ExitTypes
  <2>5. FailureSpares'
    BY <1>1, <2>1, <2>2, <2>3 DEF Exit, FailureSpares, Parses
  <2> QED
    BY <1>1, <2>4, <2>5 DEF Exit, ZeroMeansMade
<1> QED
  BY <1>1, <1>2, <1>3, <1>4

LEMMA Step == Inv /\ [Next]_vars => Inv'
<1> SUFFICES ASSUME Inv, [Next]_vars PROVE Inv'
  OBVIOUS
<1>1. CASE UNCHANGED vars
  BY <1>1 DEF vars, Inv, Types, Untouched, Loaded, Fresh, Input, Parses, Parsed,
              Made, ZeroMeansMade, FailureSpares
<1> QED
  BY <1>1, StartStep, OpenStep, ParseStep, ParseFailsStep, CompileStep,
     OptimiseStep, RejectsStep, WriteKeptStep, OpenToWriteStep, WriteStep, SignalStep
     DEF Next, Finished
-----------------------------------------------------------------------------
LEMMA Always == Spec => []Inv
BY Initially, Step, PTL DEF Spec

LEMMA EndsWell == Inv => ZeroMeansMade /\ FailureSpares
BY DEF Inv, ZeroMeansMade, FailureSpares

(* A tool that returns 0 has made its output, and nothing else, from its   *)
(* input as it was when the run began, with the exceptions ZeroMeansMade   *)
(* names.                                                                  *)
THEOREM ZeroIsMade == Spec => []ZeroMeansMade
BY Always, EndsWell, PTL

(* A run that fails changes no file but its output, and that one only in   *)
(* the ways FailureSpares names.                                           *)
THEOREM FailureIsLocal == Spec => []FailureSpares
BY Always, EndsWell, PTL
=============================================================================
