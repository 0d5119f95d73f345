------------------------------- MODULE Tools -------------------------------
(***************************************************************************)
(* The main functions of the command line tools, one run after the other   *)
(* on the same files, with what the file system may do to them: a file     *)
(* that cannot be opened, a full disk, a signal at any moment.  The output *)
(* of one tool is the input of the next: tutorial 3 makes main.bc, project *)
(* 1 makes bitcode from text, the others rewrite bitcode.                  *)
(*                                                                         *)
(*   p0.c, p0.cpp    projects/tools/p0/main.c and main.cpp                 *)
(*   p1.c, p1.cpp    projects/tools/p1/C/main.c and p1/C++/main.cpp        *)
(*   p3              projects/tools/p3/main.cpp                            *)
(*   dce.c, dce.cpp  tutorial/5                                            *)
(*   expr            tutorial/3/C++, from standard input to main.bc        *)
(***************************************************************************)
EXTENDS Integers, Sequences

CONSTANTS
    Files,      \* paths
    MainBc,     \* the path that expr writes
    MaxRuns     \* bound: runs of tools

ASSUME MainBcAssumption == MainBc \in Files

(* These make a ToolOutputFile before anything is read, and read with      *)
(* parseIRFile.                                                            *)
OpensFirst == {"p0.cpp", "p3", "dce.cpp"}

(* LLVMWriteBitcodeToFile, its result ignored.                             *)
WritesByC == {"p0.c", "p1.c", "dce.c"}

(* The others write to a raw_fd_ostream made for the purpose.              *)
Compilers == {"p1.c", "p1.cpp", "expr"}

Tool == OpensFirst \cup WritesByC \cup Compilers

(* A file is not there or cannot be read, has no bytes, holds a part of a  *)
(* module, a text that project 1 accepts or no parser does, assembly, or a *)
(* module.  Of the last two it matters whether the verifier accepts them,  *)
(* and which tools they have passed.                                       *)
File(kind, ok, by) == [kind |-> kind, ok |-> ok, by |-> by]
Absent == File("absent", FALSE, <<>>)
Empty == File("empty", TRUE, <<>>)
Torn == File("torn", FALSE, <<>>)

VARIABLES
    files,      \* what is in each file
    pc,         \* "idle", "open", "parse", "optimise", "write", "writing"
    tool, in, out, \* the command line of the run
    opened,     \* does the tool hold a ToolOutputFile that could be opened?
    module,     \* the module in memory; Absent: a null pointer
    status,     \* how the last run ended: "none", "0", "1" or "killed"
    runs,       \* runs so far
    was         \* the files when the run began

vars == <<files, pc, tool, in, out, opened, module, status, runs, was>>

Init ==
    /\ files \in [Files -> {Absent, Empty} \cup
                            {File(kind, ok, <<>>) :
                                kind \in {"text", "assembly"}, ok \in BOOLEAN}]
    /\ pc = "idle"
    /\ tool \in Tool /\ in = MainBc /\ out = MainBc
    /\ opened = FALSE
    /\ module = Absent
    /\ status = "none"
    /\ runs = 0
    /\ was = files
-----------------------------------------------------------------------------
Set(f, content) == [files EXCEPT ![f] = content]

Exit(how, left) ==
    /\ pc' = "idle"
    /\ status' = how
    /\ files' = left
    /\ UNCHANGED <<tool, in, out, opened, module, runs, was>>

(* Mutant: the file is not removed on the way out.                         *)
Released_not == files

(* The destructor of a ToolOutputFile that was not told to keep its file.  *)
(* It leaves a file alone that could not be opened.  Here and below the    *)
(* directory is one that may be written.                                   *)
Released == IF opened THEN Set(out, Absent) ELSE files

(* A fatal error of LLVM, or a signal that can be caught, removes the file *)
(* that the constructor has registered before it tried to open it: one     *)
(* that is there and could not be opened may go as well.                   *)
Interrupted ==
    CASE tool \notin OpensFirst \/ pc = "open" -> {files}
      [] tool \in OpensFirst /\ pc # "open"    -> {Released, Set(out, Absent)}

Goto(next) ==
    /\ pc' = next
    /\ UNCHANGED <<tool, in, out, status, runs, was>>

Start(t, from, to) ==
    /\ pc = "idle"
    /\ runs < MaxRuns
    /\ t = "expr" => to = MainBc /\ from = MainBc
    /\ tool' = t /\ in' = from /\ out' = to
    /\ pc' = IF t \in OpensFirst THEN "open" ELSE "parse"
    /\ opened' = FALSE
    /\ module' = Absent
    /\ status' = "none"
    /\ runs' = runs + 1
    /\ was' = files
    /\ UNCHANGED files

(* Out.reset(new ToolOutputFile(...)): the file is empty from here on.  EC *)
(* says if that worked; no tool looks at it.                               *)
OpenOut ==
    /\ pc = "open"
    /\ \/ opened' = TRUE /\ files' = Set(out, Empty)
       \/ opened' = FALSE /\ UNCHANGED files
    /\ Goto("parse")
    /\ UNCHANGED module

(* LLVMParseBitcode takes bitcode.  parseIRFile takes what is no bitcode   *)
(* for assembly, and a file without a byte is the assembly of an empty     *)
(* module.                                                                 *)
Parses(c) == \/ c.kind = "module"
             \/ tool \in OpensFirst /\ c.kind \in {"assembly", "empty"}

Parsed(c) == File("module", c.ok, Append(c.by, tool))

ParseModule ==
    /\ pc = "parse"
    /\ tool \notin Compilers
    /\ Parses(files[in])
    /\ module' = Parsed(files[in])
    /\ Goto("optimise")
    /\ UNCHANGED <<files, opened>>

(* p0.c takes the wrong branch on an error, with nothing in either, and    *)
(* goes on without a module; a file it cannot read crashes it.             *)
ParseFails ==
    /\ pc = "parse"
    /\ tool \notin Compilers
    /\ ~Parses(files[in])
    /\ CASE tool # "p0.c" -> Exit("1", Released)
         [] tool = "p0.c" /\ files[in] = Absent -> Exit("killed", files)
         [] tool = "p0.c" /\ files[in] # Absent ->
                Goto("optimise") /\ UNCHANGED <<files, opened, module>>

(* yyparse.  p1 does not look at what fopen returns: without the file its  *)
(* scanner reads standard input.  An empty file is no text of project 1.   *)
(* expr returns 0 when it wrote nothing.  Not all code that it makes       *)
(* passes the verifier (ExprCodegen).                                      *)
Compile ==
    /\ pc = "parse"
    /\ tool \in Compilers
    /\ LET stdin == tool = "expr" \/ files[in] = Absent
       IN  \E accepted \in IF stdin THEN BOOLEAN
                           ELSE {files[in].kind = "text" /\ files[in].ok} :
            IF accepted
            THEN /\ \E ok \in IF tool = "expr" THEN BOOLEAN ELSE {TRUE} :
                        module' = File("module", ok, <<tool>>)
                 /\ Goto("write")
                 /\ UNCHANGED <<files, opened>>
            ELSE Exit(IF tool = "expr" THEN "0" ELSE "1", files)

(* Elimination has removed all that the verifier would have objected to.   *)
Mended(c) == File("module", TRUE, c.by)

(* The passes, with a verifier where there is one.  The eliminators end    *)
(* with it.                                                                *)
Optimise ==
    /\ pc = "optimise"
    /\ \/ /\ module.ok \/ tool \in {"p0.c", "p0.cpp"}
          /\ UNCHANGED module
       \/ /\ ~module.ok /\ tool \in {"dce.c", "dce.cpp"}
          /\ module' = Mended(module)
    /\ Goto("write")
    /\ UNCHANGED <<files, opened>>

(* p3 begins with the verifier, whose objection is a fatal error; the      *)
(* eliminators report that nothing was created, and return 0.              *)
Rejects ==
    /\ pc = "optimise"
    /\ ~module.ok
    /\ \/ tool = "p3" /\ \E left \in Interrupted : Exit("1", left)
       \/ tool \in {"dce.c", "dce.cpp"} /\ Exit("0", Released)

(* Mutant: keep() is not called.                                           *)
WriteKept_forgetsKeep ==
    /\ pc = "write"
    /\ tool \in OpensFirst
    /\ \/ opened /\ Exit("0", Released)
       \/ \E left \in Interrupted : Exit("1", left)

(* WriteBitcodeToFile and keep().  A stream that was not opened, or a full *)
(* disk, is a fatal error when the stream is destroyed.                    *)
WriteKept ==
    /\ pc = "write"
    /\ tool \in OpensFirst
    /\ \/ opened /\ Exit("0", Set(out, module))
       \/ \E left \in Interrupted : Exit("1", left)

(* The other tools open the file now.                                      *)
OpenToWrite ==
    /\ pc = "write"
    /\ tool \notin OpensFirst
    /\ \/ /\ files' = Set(out, Empty)
          /\ Goto("writing")
          /\ UNCHANGED <<opened, module>>
       \/ Exit(IF tool \in WritesByC THEN "0" ELSE "1", files)

(* A null module crashes the tool.  A full disk is a fatal error here too, *)
(* but nobody has registered the file.                                     *)
Write ==
    /\ pc = "writing"
    /\ IF module = Absent
       THEN Exit("killed", files)
       ELSE \/ Exit("0", Set(out, module))
            \/ \E left \in {files, Set(out, Torn)} : Exit("1", left)

(* A signal finds a file that is being written at any point of that.       *)
UnderWay ==
    {files} \cup
    (IF module # Absent /\ (pc = "writing" \/ (pc = "write" /\ opened))
     THEN {Set(out, Torn), Set(out, module)} ELSE {})

Signal ==
    /\ pc # "idle"
    /\ \E left \in Interrupted \cup UnderWay : Exit("killed", left)

Finished == pc = "idle" /\ UNCHANGED vars

Next ==
    \/ \E t \in Tool, from, to \in Files : Start(t, from, to)
    \/ OpenOut \/ ParseModule \/ ParseFails \/ Compile \/ Optimise \/ Rejects
    \/ WriteKept \/ OpenToWrite \/ Write
    \/ Signal
    \/ Finished

Spec == Init /\ [][Next]_vars
-----------------------------------------------------------------------------
(* The input as the tool finds it, and what it should make of that.        *)
Input == IF opened /\ in = out THEN Empty ELSE was[in]

Made(c) == IF tool \in Compilers
           THEN File("module", c.ok, <<tool>>)
           ELSE Parsed(c)

(* Exit status 0 means that argv[2], and nothing else, holds what the tool *)
(* made of argv[1] as it was when the run began, with these exceptions: an *)
(* eliminator that met a module the verifier rejects either mends it or    *)
(* creates nothing; one that writes with the C interface to a file it      *)
(* could not open leaves all as it was; what a compiler reads from         *)
(* standard input never was in argv[1]; and where both are one file, a     *)
(* tool that opens its output first replaces whatever it held by an empty  *)
(* module.                                                                 *)
ZeroMeansMade ==
    pc = "idle" /\ status = "0" =>
        /\ \A f \in Files \ {out} : files[f] = was[f]
        /\ \/ files[out] = Made(Input)
           \/ /\ tool \in {"dce.c", "dce.cpp"} /\ Parses(Input) /\ ~Input.ok
              /\ \/ files[out] = Mended(Made(Input))
                 \/ files[out] = IF opened THEN Absent ELSE was[out]
           \/ tool \in WritesByC /\ files = was
           \/ /\ was[in] = Absent \/ tool = "expr"
              /\ \/ files[out].by = <<tool>>
                 \/ tool = "expr" /\ files = was

(* A run that ended otherwise has changed no file but argv[2].  That one   *)
(* is gone if it was opened before anything was read, which is the end of  *)
(* the input when both are one; if it could not be opened it is left       *)
(* alone, or gone too when the run got past the input or met a signal.     *)
(* The tools that read first leave it alone until they write it.  Only a   *)
(* signal, and for those tools a full disk, leaves a part of a module; a   *)
(* signal may also come when all of it is there.                           *)
FailureSpares ==
    pc = "idle" /\ status \in {"1", "killed"} =>
        /\ \A f \in Files \ {out} : files[f] = was[f]
        /\ \/ opened /\ files[out] = Absent
           \/ ~opened /\ files[out] = was[out]
           \/ /\ files[out] = Absent /\ tool \in OpensFirst
              /\ status = "killed" \/ module.kind = "module"
           \/ files[out] = Empty /\ opened /\ status = "killed"
           \/ /\ files[out] = Empty /\ tool \notin OpensFirst
              /\ module.kind = "module" \/ (tool = "p0.c" /\ ~Parses(was[in]))
           \/ /\ files[out] = Torn /\ module.kind = "module"
              /\ tool \notin OpensFirst \/ (opened /\ status = "killed")
           \/ /\ files[out] = module /\ module.kind = "module"
              /\ tool \notin OpensFirst \/ opened
              /\ status = "killed"
=============================================================================
