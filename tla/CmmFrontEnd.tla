---------------------------- MODULE CmmFrontEnd ----------------------------
(***************************************************************************)
(* Project 2, the front end of C--: main, yywrap, the parts of the scanner *)
(* that decide where input comes from and when it ends, and the actions of *)
(* the grammar that change state.  The C version (projects/tools/p2/C) and *)
(* the C++ one (p2/C++) differ in few places; lang tells which one runs.   *)
(*                                                                         *)
(* Input is abstracted to the constructs the actions are attached to: a    *)
(* function header with its parameters, a local declaration, the braces,   *)
(* a statement, a global declaration, the //END mark, a token that cannot  *)
(* stand where it does, and a character no rule of the scanner matches.    *)
(* What a stream holds is chosen as it is read.                            *)
(***************************************************************************)
EXTENDS SymbolTable

CONSTANTS
    Names,      \* identifiers
    ParamLists, \* the parameter lists a function may have
    MaxFiles,   \* bound on the files of the command line
    MaxTokens   \* bound on the constructs of the whole input

ASSUME ParamListsAssumption == ParamLists \subseteq Seq(Names)
ASSUME BoundsAssumption == MaxFiles \in Nat /\ MaxTokens \in Nat
ASSUME NoSymbolAssumption == NoSymbol \notin [pos : Nat, arg : Nat]

STDIN == 0
NULL == -1

VARIABLES
    lang,           \* which version of the front end
    use_stdin,      \* -use-stdin was given
    infile,         \* the files of the command line: readable or not
    pc,             \* "start", "lex" (inside yyparse), "finish", "exit"
    infile_cnt,     \* files yywrap has tried
    currentFile,    \* the static variable of yywrap
    yyin,           \* the stream of the scanner
    open,           \* streams that are open
    drained,        \* streams that have been read to their end
    tokens,         \* the constructs read so far
    blocks,         \* what may come next in each open block, innermost first
    level,          \* what the parser is inside of
    declared,       \* an external declaration has been reduced
    head,           \* the scopes of the symbol table
    res,            \* the result of yyparse
    num_errors,     \* the error counter no action ever touches
    out,            \* the output file
    status          \* the exit status, -1 while main runs

cmdline == <<lang, use_stdin, infile>>
streams == <<infile_cnt, currentFile, yyin, open, drained>>
parser == <<tokens, blocks, level, declared, head>>
vars == <<cmdline, pc, streams, parser, res, num_errors, out, status>>

Construct ==
    [kind : {"header"}, names : ParamLists]
    \cup [kind : {"decl"}, names : {<<n>> : n \in Names}]
    \cup [kind : {"{", "}", "stmt", "global", "END", "bad", "char"}, names : {<<>>}]

(* The alloca made for the i-th name of the p-th construct of the input.   *)
Alloca(p, i) == [pos |-> p, arg |-> i]

Init ==
    /\ lang \in {"C", "C++"}
    /\ use_stdin \in BOOLEAN
    /\ infile \in UNION {[1 .. n -> {"readable", "missing"}] : n \in 0 .. MaxFiles}
    /\ pc = "start"
    /\ infile_cnt = 0
    /\ currentFile = NULL
    /\ yyin = NULL
    /\ open = {STDIN}
    /\ drained = {}
    /\ tokens = <<>>
    /\ blocks = <<>>
    /\ level = "external"
    /\ declared = FALSE
    /\ head = <<>>
    /\ res = NULL
    /\ num_errors = 0
    /\ out = "old"
    /\ status = -1
-----------------------------------------------------------------------------
(***************************************************************************)
(* yywrap opens the next file of the command line.  It gives up at the end *)
(* of the list and at the first file it cannot open, whatever follows it.  *)
(***************************************************************************)
ClosePrevious == IF currentFile # NULL THEN open \ {yyin} ELSE open

WrapStdin ==
    /\ use_stdin
    /\ yyin' = STDIN
    /\ UNCHANGED <<infile_cnt, currentFile, open>>

(* Mutant: infile_cnt is not incremented.                                  *)
WrapNextFile_sameAgain ==
    /\ ~use_stdin
    /\ infile_cnt < Len(infile)
    /\ infile[infile_cnt + 1] = "readable"
    /\ currentFile' = infile_cnt + 1
    /\ yyin' = infile_cnt + 1
    /\ open' = ClosePrevious \cup {infile_cnt + 1}
    /\ UNCHANGED infile_cnt

WrapNextFile ==
    /\ ~use_stdin
    /\ infile_cnt < Len(infile)
    /\ infile[infile_cnt + 1] = "readable"
    /\ currentFile' = infile_cnt + 1
    /\ yyin' = infile_cnt + 1
    /\ open' = ClosePrevious \cup {infile_cnt + 1}
    /\ infile_cnt' = infile_cnt + 1

WrapMissingFile ==
    /\ ~use_stdin
    /\ infile_cnt < Len(infile)
    /\ infile[infile_cnt + 1] = "missing"
    /\ currentFile' = NULL
    /\ open' = ClosePrevious
    /\ infile_cnt' = infile_cnt + 1
    /\ UNCHANGED yyin

(* Mutant: the last file is taken for the end of the list.                 *)
WrapNoMoreFiles_oneEarly ==
    /\ ~use_stdin
    /\ infile_cnt + 1 >= Len(infile)
    /\ open' = ClosePrevious
    /\ UNCHANGED <<infile_cnt, currentFile, yyin>>

WrapNoMoreFiles ==
    /\ ~use_stdin
    /\ infile_cnt = Len(infile)
    /\ open' = ClosePrevious
    /\ UNCHANGED <<infile_cnt, currentFile, yyin>>

(* Mutant: a file that cannot be opened does not end the input.            *)
yywrapContinues_pastMissing == WrapStdin \/ WrapNextFile \/ WrapMissingFile

yywrapContinues == WrapStdin \/ WrapNextFile
yywrapEnds == WrapMissingFile \/ WrapNoMoreFiles
-----------------------------------------------------------------------------
(* Without files and without -use-stdin main prints the usage.             *)
IncompleteCommandLine ==
    /\ pc = "start"
    /\ ~use_stdin /\ infile = <<>>
    /\ pc' = "exit"
    /\ status' = 1
    /\ UNCHANGED <<cmdline, streams, parser, res, num_errors, out>>

(* The C++ version opens, and so empties, its output before it reads.  The *)
(* first yywrap sets yyin; what it returns is not looked at.               *)
BeginParse ==
    /\ pc = "start"
    /\ use_stdin \/ infile # <<>>
    /\ yywrapContinues \/ yywrapEnds
    /\ pc' = "lex"
    /\ out' = IF lang = "C++" THEN "empty" ELSE out
    /\ UNCHANGED <<cmdline, drained, parser, res, num_errors, status>>

(* The scanner takes stdin when yyin is still unset.                       *)
ScannerDefault ==
    /\ pc = "lex"
    /\ yyin = NULL
    /\ yyin' = STDIN
    /\ UNCHANGED <<cmdline, pc, infile_cnt, currentFile, open, drained,
                   parser, res, num_errors, out, status>>

Accept ==
    /\ res' = 0
    /\ pc' = "finish"

(* yyerror prints a message and counts nothing; the grammar has no error   *)
(* production, so yyparse returns 1.                                       *)
SyntaxError ==
    /\ res' = 1
    /\ pc' = "finish"

(* The end of the last stream is the end of the translation unit.          *)
EndOfInput ==
    /\ \/ level = "external" /\ declared /\ Accept
       \/ ~(level = "external" /\ declared) /\ SyntaxError
    /\ UNCHANGED parser

(* A stream that has ended.  With -use-stdin yywrap returns 0 every time:  *)
(* an empty stdin is asked again and again.                                *)
EndOfStream ==
    /\ pc = "lex"
    /\ yyin # NULL
    /\ drained' = drained \cup {yyin}
    /\ \/ yywrapContinues /\ UNCHANGED <<pc, parser, res>>
       \/ yywrapEnds /\ EndOfInput
    /\ UNCHANGED <<cmdline, num_errors, out, status>>
-----------------------------------------------------------------------------
(***************************************************************************)
(* The parser's actions on one construct.  Each leaves the token stream    *)
(* where it is; Read below appends the construct to tokens.                *)
(***************************************************************************)
Here == Len(tokens) + 1

(* The parameters of a function, entered one by one.  The C version keeps  *)
(* them in a list it pushed them onto, and so enters the last one first.   *)
InsertParams(h, names) ==
    LET inserted(i) == [name |-> names[i], val |-> Alloca(Here, i)]
        n == Len(names)
        latestFirst == IF lang = "C" THEN [i \in 1 .. n |-> inserted(i)]
                                     ELSE [i \in 1 .. n |-> inserted(n + 1 - i)]
    IN  [h EXCEPT ![1] = latestFirst \o @]

FunctionHeader(t) ==
    /\ t.kind = "header" /\ level = "external"
    /\ head' = InsertParams(symbol_push_scope(head), t.names)
    /\ level' = "header"
    /\ UNCHANGED <<blocks, declared, pc, res>>

GlobalDeclaration(t) ==
    /\ t.kind = "global" /\ level = "external"
    /\ declared' = TRUE
    /\ UNCHANGED <<blocks, level, head, pc, res>>

FunctionBody(t) ==
    /\ t.kind = "{" /\ level = "header"
    /\ head' = symbol_push_scope(head)
    /\ blocks' = <<"declarations">>
    /\ level' = "body"
    /\ UNCHANGED <<declared, pc, res>>

LocalDeclaration(t) ==
    /\ t.kind = "decl" /\ level = "body" /\ Head(blocks) = "declarations"
    /\ head' = symbol_insert(head, t.names[1], Alloca(Here, 1))
    /\ UNCHANGED <<blocks, level, declared, pc, res>>

Statement(t) ==
    /\ t.kind = "stmt" /\ level = "body"
    /\ blocks' = <<"statements">> \o Tail(blocks)
    /\ UNCHANGED <<level, declared, head, pc, res>>

OpenBlock(t) ==
    /\ t.kind = "{" /\ level = "body"
    /\ head' = symbol_push_scope(head)
    /\ blocks' = <<"declarations", "statements">> \o Tail(blocks)
    /\ UNCHANGED <<level, declared, pc, res>>

CloseBlock(t) ==
    /\ t.kind = "}" /\ level = "body" /\ Len(blocks) > 1
    /\ head' = symbol_pop_scope(head)
    /\ blocks' = Tail(blocks)
    /\ UNCHANGED <<level, declared, pc, res>>

(* Mutant: the function's own scope, with its parameters, is left behind.  *)
EndFunction_keepsParams(t) ==
    /\ t.kind = "}" /\ level = "body" /\ Len(blocks) = 1
    /\ head' = symbol_pop_scope(head)
    /\ blocks' = <<>>
    /\ level' = "external"
    /\ declared' = TRUE
    /\ UNCHANGED <<pc, res>>

(* The last brace pops the scope of the body and then that of the          *)
(* parameters.                                                             *)
EndFunction(t) ==
    /\ t.kind = "}" /\ level = "body" /\ Len(blocks) = 1
    /\ head' = symbol_pop_scope(symbol_pop_scope(head))
    /\ blocks' = <<>>
    /\ level' = "external"
    /\ declared' = TRUE
    /\ UNCHANGED <<pc, res>>

EndMark(t) ==
    /\ t.kind = "END" /\ level = "external" /\ declared
    /\ Accept
    /\ UNCHANGED <<blocks, level, declared, head>>

(* Where each kind of construct may stand.                                 *)
Fits(t) ==
    CASE t.kind \in {"header", "global"} -> level = "external"
      [] t.kind = "{"    -> level # "external"
      [] t.kind \in {"}", "stmt"} -> level = "body"
      [] t.kind = "decl" -> level = "body" /\ Head(blocks) = "declarations"
      [] t.kind = "END"  -> level = "external" /\ declared
      [] OTHER -> FALSE

OutOfPlace(t) ==
    /\ t.kind # "char" /\ ~Fits(t)
    /\ SyntaxError
    /\ UNCHANGED <<blocks, level, declared, head>>

Parse(t) ==
    \/ FunctionHeader(t) \/ GlobalDeclaration(t) \/ FunctionBody(t)
    \/ LocalDeclaration(t) \/ Statement(t) \/ OpenBlock(t) \/ CloseBlock(t)
    \/ EndFunction(t) \/ EndMark(t) \/ OutOfPlace(t)

CanRead == /\ pc = "lex"
           /\ yyin # NULL
           /\ yyin \notin drained
           /\ Len(tokens) < MaxTokens

Read(t) ==
    /\ CanRead
    /\ Parse(t)
    /\ tokens' = Append(tokens, t)
    /\ UNCHANGED <<cmdline, streams, num_errors, out, status>>

(* lexical_error leaves through exit(-1): nothing is written, and the C++  *)
(* version leaves its output file empty, as no destructor runs.            *)
LexicalError ==
    /\ CanRead
    /\ pc' = "exit"
    /\ status' = 255
    /\ UNCHANGED <<cmdline, streams, parser, res, num_errors, out>>

(* The C++ version makes a constant with a builder it has only from the    *)
(* first function on: a global initialised before that is a crash.  The    *)
(* handler of the signal removes the output.                               *)
NullBuilder ==
    /\ CanRead
    /\ lang = "C++" /\ level = "external"
    /\ \A k \in DOMAIN tokens : tokens[k].kind # "header"
    /\ pc' = "exit"
    /\ status' = 139
    /\ out' = "deleted"
    /\ UNCHANGED <<cmdline, streams, parser, res, num_errors>>

FinishCpp ==
    /\ lang = "C++"
    /\ out' = IF res = 0 /\ num_errors = 0 THEN "written" ELSE "deleted"

(* Whether the file could be written is not looked at either.              *)
FinishC ==
    /\ lang = "C"
    /\ out' \in IF num_errors = 0 THEN {"written", out} ELSE {out}

Finish ==
    /\ pc = "finish"
    /\ FinishC \/ FinishCpp
    /\ pc' = "exit"
    /\ status' = IF num_errors = 0 THEN 0 ELSE 1
    /\ UNCHANGED <<cmdline, streams, parser, res, num_errors>>

Exited == pc = "exit" /\ UNCHANGED vars

Next ==
    \/ IncompleteCommandLine \/ BeginParse \/ ScannerDefault
    \/ EndOfStream \/ (\E t \in Construct : Read(t)) \/ LexicalError
    \/ NullBuilder \/ Finish \/ Exited

(* One thread.  Every stream ends: a file is finite, and whoever writes to *)
(* stdin stops; MaxTokens sees to it here.                                 *)
Fairness == WF_vars(Next)

Spec == Init /\ [][Next]_vars /\ Fairness
-----------------------------------------------------------------------------
(***************************************************************************)
(* Where a name declared by construct p is visible, read off the input: as *)
(* long as the nesting does not fall below that of the block it is in.  A  *)
(* header's names belong to its function, one level above its body.        *)
(***************************************************************************)
Count(kinds, p) == Cardinality({k \in 1 .. p : tokens[k].kind \in kinds})
Depth(p) == Count({"{"}, p) - Count({"}"}, p)

Visible(p) ==
    CASE tokens[p].kind = "decl" ->
            \A q \in p .. Len(tokens) : Depth(q) >= Depth(p)
      [] tokens[p].kind = "header" ->
            \A q \in p + 1 .. Len(tokens) : Depth(q) >= 1
      [] OTHER -> FALSE

Declares(p, n) == \E i \in DOMAIN tokens[p].names : tokens[p].names[i] = n

VisibleDecls(n) == {p \in DOMAIN tokens : Visible(p) /\ Declares(p, n)}

(* symbol_find always answers with the declaration C's scope rules pick:   *)
(* the innermost visible one, never one of a block that is closed or of an *)
(* earlier function, also when a function goes on in the next file.        *)
LookupIsLexical ==
    pc = "lex" => \A n \in Names :
        IF VisibleDecls(n) = {}
        THEN symbol_find(head, n) = NoSymbol
        ELSE /\ symbol_find(head, n) # NoSymbol
             /\ symbol_find(head, n).pos \in VisibleDecls(n)
             /\ \A p \in VisibleDecls(n) : p <= symbol_find(head, n).pos

(* A module that was accepted has no function left open, and with it no    *)
(* scope: is_global_scope holds again, whichever way the input ended.      *)
AcceptedIsComplete == res = 0 => is_global_scope(head) /\ blocks = <<>>

(* The scanner never reads from a stream yywrap has closed.                *)
ReadsOpenStream == pc = "lex" /\ yyin # NULL => yyin \in open

(* When every file could be read and no //END cut the input short, the     *)
(* compiler is through with a good program only after the last file.       *)
NothingSkipped ==
    /\ res = 0 /\ ~use_stdin
    /\ \A f \in DOMAIN infile : infile[f] = "readable"
    /\ \A k \in DOMAIN tokens : tokens[k].kind # "END"
    => DOMAIN infile \subseteq drained

(* The compiler ends, except that with -use-stdin it goes on asking an     *)
(* exhausted stdin for more.                                               *)
EndsUnlessStdinIsDry == <>(pc = "exit" \/ (use_stdin /\ STDIN \in drained))

(* main.c:79: "Return an error status if it failed".                       *)
StatusReportsFailure == status = 0 => res = 0
=============================================================================
