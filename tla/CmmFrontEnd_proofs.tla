------------------------- MODULE CmmFrontEnd_proofs -------------------------
(***************************************************************************)
(* Proofs about the front end of C--, both versions, for any names and     *)
(* parameter lists, any number of files and input of any length.           *)
(***************************************************************************)
EXTENDS CmmFrontEnd, FiniteSetTheorems, SequenceTheorems, WellFoundedInduction,
        TLAPS

Entry == [name : Names, val : [pos : Nat, arg : Nat]]

Scope == Seq(Entry)

Block == {"declarations", "statements"}

Types ==
    /\ lang \in {"C", "C++"}
    /\ use_stdin \in BOOLEAN
    /\ infile \in Seq({"readable", "missing"})
    /\ pc \in {"start", "lex", "finish", "exit"}
    /\ infile_cnt \in 0 .. Len(infile)
    /\ tokens \in Seq(Construct)
    /\ blocks \in Seq(Block)
    /\ level \in {"external", "header", "body"}
    /\ head \in Seq(Scope)

(* Where the scanner reads from: stdin, or the file yywrap opened last.    *)
ReadsCurrent ==
    /\ STDIN \in open
    /\ use_stdin => currentFile = NULL
    /\ pc = "start" => yyin = NULL /\ currentFile = NULL /\ infile_cnt = 0
    /\ pc = "lex" /\ currentFile = NULL => yyin \in {NULL, STDIN}
    /\ pc = "lex" /\ currentFile # NULL =>
            currentFile = infile_cnt /\ infile_cnt > 0
                /\ yyin = currentFile /\ yyin \in open

AllReadable == ~use_stdin /\ \A f \in DOMAIN infile : infile[f] = "readable"

(* As long as there is a file to open, all before it have been read.       *)
ReadInOrder ==
    pc = "lex" /\ AllReadable =>
        /\ currentFile # NULL
        /\ 1 .. infile_cnt - 1 \subseteq drained

(* The parser has no result before it ends, and ends well at the outside   *)
(* of all functions only.                                                  *)
ResultLast ==
    /\ pc \in {"start", "lex"} => res = NULL
    /\ res = 0 => level = "external"

(* A scope for each open block and one for the parameters.                 *)
ScopesBalance ==
    /\ level = "external" => head = <<>> /\ blocks = <<>>
    /\ level = "header" => Len(head) = 1 /\ blocks = <<>>
    /\ level = "body" => Len(head) = Len(blocks) + 1 /\ Len(blocks) > 0

Reading == pc \in {"start", "lex"}

(***************************************************************************)
(* Nesting and visibility as in Depth, Visible and Declares, but for any   *)
(* input q: the parser has read tokens of it.                              *)
(***************************************************************************)
CountIn(q, kinds, p) == Cardinality({k \in 1 .. p : q[k].kind \in kinds})

DepthIn(q, p) == CountIn(q, {"{"}, p) - CountIn(q, {"}"}, p)

(* The constructs that change the nesting.                                 *)
Opens(t) == t.kind = "{"

Closes(t) == t.kind = "}"

(* The block a construct declares names in, the function's scope being 0.  *)
NestIn(q, p) == IF q[p].kind = "header" THEN 0 ELSE DepthIn(q, p)

VisibleIn(q, p) ==
    \/ q[p].kind = "decl" /\ \A r \in p .. Len(q) : DepthIn(q, r) >= DepthIn(q, p)
    \/ q[p].kind = "header" /\ \A r \in p + 1 .. Len(q) : DepthIn(q, r) >= 1

DeclaresIn(q, p, n) == \E i \in DOMAIN q[p].names : q[p].names[i] = n

(* What a scope holds was declared in its block, which is open.            *)
HoldsVisible(q, h) ==
    \A s \in DOMAIN h : \A k \in DOMAIN h[s] :
        /\ h[s][k].val.pos \in DOMAIN q
        /\ VisibleIn(q, h[s][k].val.pos)
        /\ DeclaresIn(q, h[s][k].val.pos, h[s][k].name)
        /\ NestIn(q, h[s][k].val.pos) = Len(h) - s

(* Every visible declaration is in a scope.                                *)
Held(h, p, n) ==
    \E s \in DOMAIN h : \E k \in DOMAIN h[s] :
        h[s][k].name = n /\ h[s][k].val.pos = p

HoldsAll(q, h) ==
    \A p \in DOMAIN q, n \in Names :
        VisibleIn(q, p) /\ DeclaresIn(q, p, n) => Held(h, p, n)

(* From the first entry of the innermost scope on, entries get older.      *)
LatestFirst(h) ==
    /\ \A s \in DOMAIN h : \A j, k \in DOMAIN h[s] :
            j < k => h[s][j].val.pos >= h[s][k].val.pos
    /\ \A r, s \in DOMAIN h : r < s =>
            \A j \in DOMAIN h[r], k \in DOMAIN h[s] :
                h[r][j].val.pos > h[s][k].val.pos

(* The scopes h are those of an input q that ends d blocks deep.           *)
Represents(q, h, d) ==
    /\ DepthIn(q, Len(q)) = d
    /\ \A p \in DOMAIN q : q[p].kind = "decl" => DepthIn(q, p) > 0
    /\ HoldsVisible(q, h) /\ HoldsAll(q, h) /\ LatestFirst(h)

Scopes == pc \in {"start", "lex"} => Represents(tokens, head, Len(blocks))

Inv ==
    /\ Types /\ ReadsCurrent /\ ReadInOrder /\ ResultLast /\ ScopesBalance
    /\ Scopes /\ NothingSkipped
-----------------------------------------------------------------------------
(* A sequence with an element in front of it, and one without its first.   *)
LEMMA Prepended ==
    ASSUME NEW S, NEW e \in S, NEW q \in Seq(S)
    PROVE  /\ <<e>> \o q \in Seq(S)
           /\ Len(<<e>> \o q) = Len(q) + 1
           /\ (<<e>> \o q)[1] = e
           /\ \A n \in 1 .. Len(q) : (<<e>> \o q)[n + 1] = q[n]
<1>1. <<e>> \in Seq(S) /\ Len(<<e>>) = 1 /\ <<e>>[1] = e
  OBVIOUS
<1>2. /\ <<e>> \o q \in Seq(S)
      /\ Len(<<e>> \o q) = Len(<<e>>) + Len(q)
      /\ \A i \in 1 .. Len(<<e>>) + Len(q) :
            (<<e>> \o q)[i] = IF i <= Len(<<e>>) THEN <<e>>[i] ELSE q[i - Len(<<e>>)]
  BY <1>1, ConcatProperties
<1>3. Len(q) \in Nat
  OBVIOUS
<1>4. (<<e>> \o q)[1] = e
  BY <1>1, <1>2, <1>3
<1>5. ASSUME NEW n \in 1 .. Len(q)
      PROVE  (<<e>> \o q)[n + 1] = q[n]
  <2>1. n + 1 \in 1 .. 1 + Len(q) /\ ~(n + 1 <= 1) /\ (n + 1) - 1 = n
    BY <1>3
  <2> QED
    BY <1>1, <1>2, <2>1
<1> QED
  BY <1>1, <1>2, <1>3, <1>4, <1>5

LEMMA TailIs ==
    ASSUME NEW S, NEW q \in Seq(S), Len(q) > 0
    PROVE  /\ Tail(q) \in Seq(S)
           /\ Len(Tail(q)) = Len(q) - 1
           /\ \A n \in 1 .. Len(q) - 1 : Tail(q)[n] = q[n + 1]
           /\ Head(q) = q[1] /\ q[1] \in S
BY HeadTailProperties

LEMMA OneReplaced ==
    ASSUME NEW S, NEW q \in Seq(S), Len(q) = 1, NEW e \in S
    PROVE  [q EXCEPT ![1] = e] = <<e>>
OBVIOUS

(* The operations on the stack of scopes.                                  *)
LEMMA Pushed ==
    ASSUME NEW h \in Seq(Scope)
    PROVE  /\ symbol_push_scope(h) \in Seq(Scope)
           /\ Len(symbol_push_scope(h)) = Len(h) + 1
           /\ symbol_push_scope(h)[1] = <<>>
           /\ \A n \in 1 .. Len(h) : symbol_push_scope(h)[n + 1] = h[n]
<1>1. <<>> \in Scope
  BY DEF Scope
<1> QED
  BY <1>1, Prepended DEF symbol_push_scope

LEMMA Popped ==
    ASSUME NEW h \in Seq(Scope), Len(h) > 0
    PROVE  /\ symbol_pop_scope(h) \in Seq(Scope)
           /\ Len(symbol_pop_scope(h)) = Len(h) - 1
           /\ \A n \in 1 .. Len(h) - 1 : symbol_pop_scope(h)[n] = h[n + 1]
BY TailIs DEF symbol_pop_scope

LEMMA Inserted ==
    ASSUME NEW h \in Seq(Scope), Len(h) > 0, NEW n \in Names,
           NEW v \in [pos : Nat, arg : Nat]
    PROVE  LET e == [name |-> n, val |-> v]
           IN  /\ e \in Entry
               /\ symbol_insert(h, n, v) = [h EXCEPT ![1] = <<e>> \o @]
               /\ symbol_insert(h, n, v) \in Seq(Scope)
               /\ Len(symbol_insert(h, n, v)) = Len(h)
               /\ symbol_insert(h, n, v)[1] = <<e>> \o h[1]
               /\ \A s \in 2 .. Len(h) : symbol_insert(h, n, v)[s] = h[s]
<1> DEFINE e == [name |-> n, val |-> v]
<1>1. e \in Entry
  BY DEF Entry
<1>2. symbol_insert(h, n, v) = [h EXCEPT ![1] = <<e>> \o @]
  BY DEF symbol_insert, is_global_scope
<1>3. h[1] \in Scope /\ 1 \in 1 .. Len(h)
  OBVIOUS
<1>4. <<e>> \o h[1] \in Scope
  BY <1>1, <1>3, Prepended DEF Scope
<1> HIDE DEF e
<1>5. /\ [h EXCEPT ![1] = <<e>> \o @] \in Seq(Scope)
      /\ Len([h EXCEPT ![1] = <<e>> \o @]) = Len(h)
      /\ \A s \in 1 .. Len(h) : [h EXCEPT ![1] = <<e>> \o @][s] =
                                    IF s = 1 THEN <<e>> \o h[1] ELSE h[s]
  BY <1>3, <1>4, ExceptSeq
<1> QED
  BY <1>1, <1>2, <1>3, <1>5 DEF e

LEMMA DeclNames ==
    ASSUME tokens \in Seq(Construct), NEW t \in Construct, t.kind = "decl"
    PROVE  /\ t.names = <<t.names[1]>> /\ t.names[1] \in Names
           /\ Alloca(Here, 1) \in [pos : Nat, arg : Nat]
<1>1. PICK n \in Names : t.names = <<n>>
  BY DEF Construct
<1>2. Here \in Nat
  BY DEF Here
<1> QED
  BY <1>1, <1>2 DEF Alloca

(* The sequence of open blocks, after a statement and after a brace.       *)
LEMMA BlocksAre ==
    /\ <<>> \in Seq(Block) /\ Len(<<>>) = 0
    /\ <<"declarations">> \in Seq(Block) /\ Len(<<"declarations">>) = 1
    /\ \A b \in Seq(Block) : Len(b) > 0 =>
        /\ <<"statements">> \o Tail(b) \in Seq(Block)
        /\ Len(<<"statements">> \o Tail(b)) = Len(b)
        /\ <<"declarations", "statements">> \o Tail(b) \in Seq(Block)
        /\ Len(<<"declarations", "statements">> \o Tail(b)) = Len(b) + 1
<1>1. "statements" \in Block /\ "declarations" \in Block
  BY DEF Block
<1>2. ASSUME NEW b \in Seq(Block), Len(b) > 0
      PROVE  /\ <<"statements">> \o Tail(b) \in Seq(Block)
             /\ Len(<<"statements">> \o Tail(b)) = Len(b)
             /\ <<"declarations", "statements">> \o Tail(b) \in Seq(Block)
             /\ Len(<<"declarations", "statements">> \o Tail(b)) = Len(b) + 1
  <2>1. Tail(b) \in Seq(Block) /\ Len(Tail(b)) = Len(b) - 1 /\ Len(b) \in Nat
    BY <1>2, TailIs
  <2>2. <<"declarations", "statements">> \in Seq(Block)
        /\ Len(<<"declarations", "statements">>) = 2
    BY <1>1
  <2>3. <<"declarations", "statements">> \o Tail(b) \in Seq(Block)
        /\ Len(<<"declarations", "statements">> \o Tail(b)) = 2 + Len(Tail(b))
    BY <2>1, <2>2, ConcatProperties
  <2>4. <<"statements">> \o Tail(b) \in Seq(Block)
        /\ Len(<<"statements">> \o Tail(b)) = Len(Tail(b)) + 1
    BY <1>1, <2>1, Prepended
  <2> QED
    BY <2>1, <2>3, <2>4
<1> QED
  BY <1>1, <1>2

(* The parameters of a function, in either order.                          *)
Params(t) ==
    LET inserted(i) == [name |-> t.names[i], val |-> Alloca(Here, i)]
        n == Len(t.names)
    IN  IF lang = "C" THEN [i \in 1 .. n |-> inserted(i)]
                      ELSE [i \in 1 .. n |-> inserted(n + 1 - i)]

LEMMA ParamsAre ==
    ASSUME tokens \in Seq(Construct), NEW t \in Construct, t.kind = "header"
    PROVE  /\ t.names \in Seq(Names)
           /\ Params(t) \in Scope
           /\ Len(Params(t)) = Len(t.names)
           /\ \A k \in 1 .. Len(t.names) :
                /\ Params(t)[k].val.pos = Here
                /\ \E i \in 1 .. Len(t.names) : Params(t)[k].name = t.names[i]
                /\ \E i \in 1 .. Len(t.names) : Params(t)[i].name = t.names[k]
           /\ InsertParams(symbol_push_scope(<<>>), t.names) = <<Params(t)>>
<1> DEFINE inserted(i) == [name |-> t.names[i], val |-> Alloca(Here, i)]
           n == Len(t.names)
<1>0. Here \in Nat
  BY DEF Here
<1>1. t.names \in Seq(Names)
  BY ParamListsAssumption DEF Construct
<1>2. n \in Nat /\ \A i \in 1 .. n : t.names[i] \in Names
  BY <1>1
<1>3. \A i \in 1 .. n : inserted(i) \in Entry
  BY <1>0, <1>2 DEF Entry, Alloca
<1>4. \A i \in 1 .. n : inserted(i).name = t.names[i] /\ inserted(i).val.pos = Here
  BY DEF Alloca
<1>5. \A i \in 1 .. n : n + 1 - i \in 1 .. n /\ n + 1 - (n + 1 - i) = i
  BY <1>2
<1> HIDE DEF inserted, n
<1>6. Params(t) = IF lang = "C" THEN [i \in 1 .. n |-> inserted(i)]
                  ELSE [i \in 1 .. n |-> inserted(n + 1 - i)]
  BY DEF Params, inserted, n
<1>7. Params(t) \in Scope /\ Len(Params(t)) = n
  BY <1>2, <1>3, <1>5, <1>6 DEF Scope
<1>8. ASSUME NEW k \in 1 .. n
      PROVE  /\ Params(t)[k].val.pos = Here
             /\ \E i \in 1 .. n : Params(t)[k].name = t.names[i]
             /\ \E i \in 1 .. n : Params(t)[i].name = t.names[k]
  <2>1. CASE lang = "C"
    BY <1>4, <1>6, <2>1
  <2>2. CASE lang # "C"
    <3>1. /\ Params(t)[k] = inserted(n + 1 - k)
          /\ Params(t)[n + 1 - k] = inserted(k)
          /\ n + 1 - k \in 1 .. n
      BY <1>5, <1>6, <2>2
    <3> QED
      BY <1>4, <3>1
  <2> QED
    BY <2>1, <2>2
<1>9. InsertParams(symbol_push_scope(<<>>), t.names) = <<Params(t)>>
  <2> DEFINE h == symbol_push_scope(<<>>)
  <2>1. h = <<(<<>>)>>
    BY DEF symbol_push_scope
  <2>2. InsertParams(h, t.names) = [h EXCEPT ![1] = Params(t) \o @]
    BY DEF InsertParams, Params
  <2>3. h \in Seq(Scope) /\ Len(h) = 1 /\ h[1] = <<>>
    <3>1. <<>> \in Scope
      BY EmptySeq DEF Scope
    <3> HIDE DEF h
    <3> QED
      BY <2>1, <3>1
  <2>4. Params(t) \o h[1] = Params(t)
    BY <1>7, <2>3, ConcatEmptySeq DEF Scope
  <2> HIDE DEF h
  <2>5. [h EXCEPT ![1] = Params(t) \o @] = [h EXCEPT ![1] = Params(t)]
    BY <2>4
  <2>6. [h EXCEPT ![1] = Params(t)] = <<Params(t)>>
    BY <1>7, <2>3, OneReplaced
  <2> QED
    BY <2>2, <2>5, <2>6 DEF h
<1> QED
  BY <1>1, <1>7, <1>8, <1>9 DEF n

(* The result of an action of the parser on one construct.                 *)
LEMMA ParseTypes ==
    ASSUME tokens \in Seq(Construct), blocks \in Seq(Block), head \in Seq(Scope),
           level \in {"external", "header", "body"}, ScopesBalance, pc = "lex",
           NEW t \in Construct, Parse(t)
    PROVE  /\ pc' \in {"lex", "finish"}
           /\ blocks' \in Seq(Block)
           /\ level' \in {"external", "header", "body"}
           /\ head' \in Seq(Scope)
           /\ ScopesBalance'
<1>1. CASE FunctionHeader(t)
  <2>1. head = <<>> /\ blocks' = blocks /\ blocks = <<>> /\ level' = "header" /\ pc' = pc
    BY <1>1 DEF FunctionHeader, ScopesBalance
  <2>2. head' = <<Params(t)>> /\ Params(t) \in Scope
    BY <1>1, <2>1, ParamsAre DEF FunctionHeader
  <2>3. head' \in Seq(Scope) /\ Len(head') = 1
    BY <2>2
  <2> QED
    BY <2>1, <2>3 DEF ScopesBalance
<1>2. CASE GlobalDeclaration(t)
  BY <1>2 DEF GlobalDeclaration, ScopesBalance
<1>3. CASE FunctionBody(t)
  <2>1. head' = symbol_push_scope(head) /\ Len(head) = 1
        /\ blocks' = <<"declarations">> /\ level' = "body" /\ pc' = pc
    BY <1>3 DEF FunctionBody, ScopesBalance
  <2>2. /\ symbol_push_scope(head) \in Seq(Scope)
        /\ Len(symbol_push_scope(head)) = Len(head) + 1
    BY Pushed
  <2>3. head' \in Seq(Scope) /\ Len(head') = 2
    BY <2>1, <2>2
  <2> QED
    BY <2>1, <2>3, BlocksAre DEF ScopesBalance
<1>4. CASE LocalDeclaration(t)
  <2>1. t.names[1] \in Names /\ Alloca(Here, 1) \in [pos : Nat, arg : Nat]
    BY <1>4, DeclNames DEF LocalDeclaration
  <2>2. Len(head) > 0
    BY <1>4 DEF LocalDeclaration, ScopesBalance
  <2>3. head' \in Seq(Scope) /\ Len(head') = Len(head)
    BY <1>4, <2>1, <2>2, Inserted DEF LocalDeclaration
  <2> QED
    BY <1>4, <2>3 DEF LocalDeclaration, ScopesBalance
<1>5. CASE Statement(t)
  <2>1. blocks' \in Seq(Block) /\ Len(blocks') = Len(blocks)
    BY <1>5, BlocksAre DEF Statement, ScopesBalance
  <2> QED
    BY <1>5, <2>1 DEF Statement, ScopesBalance
<1>6. CASE OpenBlock(t)
  <2>1. level = "body" /\ level' = "body" /\ pc' = pc /\ Len(blocks) > 0
    BY <1>6 DEF OpenBlock, ScopesBalance
  <2>2. blocks' \in Seq(Block) /\ Len(blocks') = Len(blocks) + 1
    BY <1>6, <2>1, BlocksAre DEF OpenBlock
  <2>3. head' \in Seq(Scope) /\ Len(head') = Len(head) + 1
    BY <1>6, Pushed DEF OpenBlock
  <2>4. Len(head) = Len(blocks) + 1 /\ Len(blocks) \in Nat
    BY <2>1 DEF ScopesBalance
  <2> QED
    BY <2>1, <2>2, <2>3, <2>4 DEF ScopesBalance
<1>7. CASE CloseBlock(t)
  <2>1. /\ level = "body" /\ level' = "body" /\ pc' = pc /\ Len(blocks) > 1
        /\ head' = symbol_pop_scope(head)
        /\ blocks' = Tail(blocks)
    BY <1>7, Zenon DEF CloseBlock
  <2>2. Len(head) = Len(blocks) + 1
    BY <2>1 DEF ScopesBalance
  <2>3. Len(blocks) \in Nat
    BY LenProperties
  <2>4. Len(blocks) > 0 /\ Len(head) > 0
    BY <2>1, <2>2, <2>3
  <2>5. /\ symbol_pop_scope(head) \in Seq(Scope)
        /\ Len(symbol_pop_scope(head)) = Len(head) - 1
    BY <2>4, Popped
  <2>6. Tail(blocks) \in Seq(Block) /\ Len(Tail(blocks)) = Len(blocks) - 1
    BY <2>4, TailIs
  <2>7. Len(head') = Len(blocks') + 1 /\ Len(blocks') > 0
    BY <2>1, <2>2, <2>3, <2>5, <2>6
  <2> QED
    BY <2>1, <2>5, <2>6, <2>7 DEF ScopesBalance
<1>8. CASE EndFunction(t)
  <2>1. /\ level = "body" /\ Len(blocks) = 1
        /\ head' = symbol_pop_scope(symbol_pop_scope(head))
        /\ blocks' = <<>> /\ level' = "external" /\ pc' = pc
    BY <1>8, Zenon DEF EndFunction
  <2>2. Len(head) = 2
    BY <2>1 DEF ScopesBalance
  <2>3. PICK inner \in Seq(Scope) : inner = symbol_pop_scope(head) /\ Len(inner) = 1
    <3>1. Len(head) > 0
      BY <2>2
    <3>2. /\ symbol_pop_scope(head) \in Seq(Scope)
          /\ Len(symbol_pop_scope(head)) = Len(head) - 1
      BY <3>1, Popped
    <3> QED
      BY <2>2, <3>2
  <2>4. symbol_pop_scope(inner) \in Seq(Scope) /\ Len(symbol_pop_scope(inner)) = 0
    <3>1. Len(inner) > 0
      BY <2>3
    <3>2. /\ symbol_pop_scope(inner) \in Seq(Scope)
          /\ Len(symbol_pop_scope(inner)) = Len(inner) - 1
      BY <3>1, Popped
    <3> QED
      BY <2>3, <3>2
  <2>5. symbol_pop_scope(inner) = <<>>
    BY <2>4, EmptySeq
  <2>6. head' = <<>>
    BY <2>1, <2>3, <2>5
  <2>7. head' \in Seq(Scope)
    BY <2>6, EmptySeq
  <2> QED
    BY <2>1, <2>6, <2>7, BlocksAre DEF ScopesBalance
<1>9. CASE EndMark(t)
  BY <1>9 DEF EndMark, Accept, ScopesBalance
<1>10. CASE OutOfPlace(t)
  BY <1>10 DEF OutOfPlace, SyntaxError, ScopesBalance
<1> QED
  BY <1>1, <1>2, <1>3, <1>4, <1>5, <1>6, <1>7, <1>8, <1>9, <1>10 DEF Parse

(* What the parser leaves alone.                                           *)
LEMMA ReadKeeps ==
    ASSUME NEW t, Read(t)
    PROVE  /\ pc = "lex"
           /\ tokens' = Append(tokens, t)
           /\ Parse(t)
           /\ UNCHANGED <<lang, use_stdin, infile, infile_cnt, currentFile,
                          yyin, open, drained>>
BY DEF Read, CanRead, cmdline, streams

LEMMA TypesStep ==
    ASSUME Types, ScopesBalance, [Next]_vars
    PROVE  Types' /\ ScopesBalance'
<1> USE DEF cmdline, streams, parser
<1>1. CASE IncompleteCommandLine
  BY <1>1 DEF Types, IncompleteCommandLine, ScopesBalance
<1>2. CASE BeginParse
  BY <1>2 DEF Types, BeginParse, ScopesBalance, yywrapContinues, yywrapEnds,
         WrapStdin, WrapNextFile, WrapMissingFile, WrapNoMoreFiles
<1>3. CASE ScannerDefault
  BY <1>3 DEF Types, ScannerDefault, ScopesBalance
<1>4. CASE EndOfStream
  BY <1>4 DEF Types, EndOfStream, ScopesBalance, yywrapContinues, yywrapEnds,
         WrapStdin, WrapNextFile, WrapMissingFile, WrapNoMoreFiles, EndOfInput,
         Accept, SyntaxError
<1>5. ASSUME NEW t \in Construct, Read(t)
      PROVE  Types' /\ ScopesBalance'
  <2>1. /\ tokens \in Seq(Construct) /\ blocks \in Seq(Block) /\ head \in Seq(Scope)
        /\ level \in {"external", "header", "body"}
    BY DEF Types
  <2>2. tokens' \in Seq(Construct)
    BY <1>5, <2>1, ReadKeeps
  <2>3. /\ pc' \in {"lex", "finish"}
        /\ blocks' \in Seq(Block)
        /\ level' \in {"external", "header", "body"}
        /\ head' \in Seq(Scope)
        /\ ScopesBalance'
    BY <1>5, <2>1, ReadKeeps, ParseTypes
  <2> QED
    BY <1>5, <2>2, <2>3, ReadKeeps DEF Types
<1>6. CASE LexicalError \/ NullBuilder
  BY <1>6 DEF Types, LexicalError, NullBuilder, ScopesBalance
<1>7. CASE Finish
  BY <1>7 DEF Types, Finish, FinishC, FinishCpp, ScopesBalance
<1>8. CASE UNCHANGED vars
  BY <1>8 DEF Types, vars, ScopesBalance
<1> QED
  BY <1>1, <1>2, <1>3, <1>4, <1>5, <1>6, <1>7, <1>8 DEF Next, Exited
-----------------------------------------------------------------------------
(* What the actions of the parser do to its result.                        *)
LEMMA ParseResult ==
    ASSUME pc = "lex", NEW t \in Construct, Parse(t)
    PROVE  \/ pc' = "lex" /\ res' = res
           \/ pc' = "finish" /\ res' = 1
           \/ pc' = "finish" /\ res' = 0 /\ t.kind = "END" /\ level' = level
                /\ level = "external"
BY DEF Parse, FunctionHeader, GlobalDeclaration, FunctionBody, LocalDeclaration,
       Statement, OpenBlock, CloseBlock, EndFunction, EndMark, OutOfPlace, Accept,
       SyntaxError

Streams == ReadsCurrent /\ ReadInOrder /\ ResultLast /\ NothingSkipped

LEMMA BeginStep ==
    ASSUME Types, Streams, BeginParse
    PROVE  Streams'
<1> USE DEF Streams
<1>0. /\ pc = "start" /\ pc' = "lex" /\ res = NULL /\ res' = res
      /\ yyin = NULL /\ currentFile = NULL /\ infile_cnt = 0
      /\ UNCHANGED <<use_stdin, infile, level>>
      /\ STDIN \in open /\ (yywrapContinues \/ yywrapEnds)
      /\ use_stdin \/ infile # <<>>
  BY DEF BeginParse, ReadsCurrent, ResultLast, cmdline, parser
<1>1. ReadsCurrent'
  BY <1>0 DEF ReadsCurrent, yywrapContinues, yywrapEnds, WrapStdin, WrapNextFile,
              WrapMissingFile, WrapNoMoreFiles, ClosePrevious, STDIN, NULL
<1>2. ASSUME AllReadable'
      PROVE  currentFile' # NULL /\ infile_cnt' = 1
  <2>1. AllReadable /\ infile \in Seq({"readable", "missing"}) /\ infile # <<>>
    BY <1>0, <1>2 DEF AllReadable, Types
  <2>2. Len(infile) > 0 /\ infile[1] = "readable" /\ ~use_stdin
    BY <2>1 DEF AllReadable
  <2>3. WrapNextFile
    BY <1>0, <2>2 DEF yywrapContinues, yywrapEnds, WrapStdin, WrapMissingFile,
                      WrapNoMoreFiles
  <2> QED
    BY <1>0, <2>3 DEF WrapNextFile, NULL
<1>3. ReadInOrder' /\ ResultLast' /\ NothingSkipped'
  BY <1>0, <1>2 DEF ReadInOrder, ResultLast, NothingSkipped, NULL
<1> QED
  BY <1>1, <1>3

LEMMA EndOfStreamStep ==
    ASSUME Types, Streams, EndOfStream
    PROVE  Streams'
<1> USE DEF Streams
<1>0. /\ pc = "lex" /\ yyin # NULL /\ res = NULL
      /\ drained' = drained \cup {yyin}
      /\ UNCHANGED <<use_stdin, infile, level, tokens>>
      /\ \/ yywrapContinues /\ UNCHANGED <<pc, res>>
         \/ yywrapEnds /\ EndOfInput
      /\ infile_cnt \in Nat /\ infile_cnt <= Len(infile)
      /\ infile \in Seq({"readable", "missing"})
  BY DEF EndOfStream, ResultLast, cmdline, parser, Types, EndOfInput
<1>1. \/ pc' = "finish" /\ res' = 1
      \/ pc' = "finish" /\ res' = 0 /\ level = "external"
      \/ pc' = "lex" /\ res' = NULL
  BY <1>0 DEF EndOfInput, Accept, SyntaxError
<1>2. ResultLast'
  BY <1>0, <1>1 DEF ResultLast, NULL
<1>3. ReadsCurrent'
  <2>1. CASE yywrapContinues /\ UNCHANGED <<pc, res>>
    BY <1>0, <2>1 DEF ReadsCurrent, yywrapContinues, WrapStdin, WrapNextFile,
                      ClosePrevious, STDIN, NULL
  <2>2. CASE yywrapEnds /\ EndOfInput
    <3>1. pc' = "finish"
      BY <2>2 DEF EndOfInput, Accept, SyntaxError
    <3>2. UNCHANGED currentFile \/ (currentFile' = NULL /\ ~use_stdin)
      BY <2>2 DEF yywrapEnds, WrapMissingFile, WrapNoMoreFiles
    <3>3. STDIN \in open'
      BY <1>0, <2>2 DEF ReadsCurrent, yywrapEnds, WrapMissingFile,
                        WrapNoMoreFiles, ClosePrevious, STDIN, NULL
    <3> QED
      BY <1>0, <3>1, <3>2, <3>3 DEF ReadsCurrent
  <2> QED
    BY <1>0, <2>1, <2>2
<1>4. ASSUME AllReadable
      PROVE  /\ yyin = infile_cnt /\ infile_cnt > 0
             /\ 1 .. infile_cnt \subseteq drained'
             /\ WrapNextFile \/ WrapNoMoreFiles
             /\ yywrapEnds => WrapNoMoreFiles
             /\ yywrapContinues => WrapNextFile
  <2>1. currentFile # NULL /\ 1 .. infile_cnt - 1 \subseteq drained
    BY <1>0, <1>4 DEF ReadInOrder
  <2>2. yyin = infile_cnt /\ infile_cnt > 0
    BY <1>0, <2>1 DEF ReadsCurrent
  <2>3. 1 .. infile_cnt \subseteq drained'
    BY <1>0, <2>1, <2>2
  <2>4. ~WrapStdin
    BY <1>4 DEF WrapStdin, AllReadable
  <2>5. ~WrapMissingFile
    <3> SUFFICES ASSUME WrapMissingFile PROVE FALSE
      OBVIOUS
    <3>1. infile_cnt + 1 \in DOMAIN infile /\ infile[infile_cnt + 1] = "missing"
      BY <1>0 DEF WrapMissingFile
    <3> QED
      BY <1>4, <3>1 DEF AllReadable
  <2> QED
    BY <1>0, <2>2, <2>3, <2>4, <2>5 DEF yywrapContinues, yywrapEnds
<1>5. ReadInOrder'
  <2> SUFFICES ASSUME pc' = "lex", AllReadable'
               PROVE  currentFile' # NULL /\ 1 .. infile_cnt' - 1 \subseteq drained'
    BY DEF ReadInOrder
  <2>1. AllReadable
    BY <1>0 DEF AllReadable
  <2>2. yywrapContinues
    BY <1>0 DEF EndOfInput, Accept, SyntaxError
  <2>3. currentFile' = infile_cnt + 1 /\ infile_cnt' = infile_cnt + 1
    BY <1>4, <2>1, <2>2 DEF WrapNextFile
  <2> QED
    BY <1>0, <1>4, <2>1, <2>3 DEF NULL
<1>6. NothingSkipped'
  <2> SUFFICES ASSUME res' = 0, ~use_stdin,
                      \A f \in DOMAIN infile : infile[f] = "readable"
               PROVE  DOMAIN infile \subseteq drained'
    BY <1>0 DEF NothingSkipped
  <2>1. AllReadable
    BY DEF AllReadable
  <2>2. yywrapEnds
    BY <1>0 DEF NULL
  <2>3. infile_cnt = Len(infile)
    BY <1>4, <2>1, <2>2 DEF WrapNoMoreFiles
  <2> QED
    BY <1>0, <1>4, <2>1, <2>3
<1> QED
  BY <1>2, <1>3, <1>5, <1>6

LEMMA StreamsStep ==
    ASSUME Types, Streams, [Next]_vars
    PROVE  Streams'
<1>1. CASE IncompleteCommandLine
  BY <1>1 DEF Streams, ReadsCurrent, ReadInOrder, ResultLast, NothingSkipped,
              IncompleteCommandLine, cmdline, streams, parser
<1>2. CASE ScannerDefault
  <2>1. /\ pc = "lex" /\ yyin = NULL /\ yyin' = STDIN
        /\ UNCHANGED <<use_stdin, infile, pc, infile_cnt, currentFile, open, drained,
                       tokens, level, res>>
    BY <1>2 DEF ScannerDefault, cmdline, parser
  <2>2. ReadsCurrent'
    BY <2>1 DEF Streams, ReadsCurrent
  <2>3. ReadInOrder' /\ ResultLast' /\ NothingSkipped'
    BY <2>1 DEF Streams, ReadInOrder, AllReadable, ResultLast, NothingSkipped
  <2> QED
    BY <2>2, <2>3 DEF Streams
<1>3. ASSUME NEW t \in Construct, Read(t)
      PROVE  Streams'
  <2>1. /\ pc = "lex" /\ tokens' = Append(tokens, t) /\ Parse(t)
        /\ UNCHANGED <<use_stdin, infile, infile_cnt, currentFile, yyin, open, drained>>
        /\ res = NULL
    BY <1>3, ReadKeeps DEF Streams, ResultLast
  <2>2. \/ pc' = "lex" /\ res' = NULL
        \/ pc' = "finish" /\ res' = 1
        \/ pc' = "finish" /\ res' = 0 /\ t.kind = "END" /\ level' = "external"
    BY <2>1, ParseResult
  <2>3. ReadsCurrent'
    BY <2>1, <2>2 DEF Streams, ReadsCurrent
  <2>4. ReadInOrder'
    BY <2>1, <2>2 DEF Streams, ReadInOrder, AllReadable
  <2>5. ResultLast'
    BY <2>2 DEF ResultLast, NULL
  <2>6. ASSUME res' = 0
        PROVE  \E k \in DOMAIN tokens' : tokens'[k].kind = "END"
    <3>1. t.kind = "END"
      BY <2>2, <2>6 DEF NULL
    <3>2. tokens \in Seq(Construct)
      BY DEF Types
    <3>3. Len(tokens) + 1 \in DOMAIN tokens' /\ tokens'[Len(tokens) + 1] = t
      BY <2>1, <3>2, AppendProperties
    <3> QED
      BY <3>1, <3>3
  <2>7. NothingSkipped'
    BY <2>6 DEF NothingSkipped
  <2> QED
    BY <2>3, <2>4, <2>5, <2>7 DEF Streams
<1>4. CASE LexicalError \/ NullBuilder
  BY <1>4 DEF Streams, ReadsCurrent, ReadInOrder, ResultLast, NothingSkipped,
              LexicalError, NullBuilder, CanRead, cmdline, streams, parser
<1>5. CASE Finish
  BY <1>5 DEF Streams, ReadsCurrent, ReadInOrder, ResultLast, NothingSkipped,
              Finish, cmdline, streams, parser
<1>6. CASE UNCHANGED vars
  BY <1>6 DEF Streams, ReadsCurrent, ReadInOrder, AllReadable, ResultLast,
              NothingSkipped, vars, cmdline, streams, parser
<1> QED
  BY <1>1, <1>2, <1>3, <1>4, <1>5, <1>6, BeginStep, EndOfStreamStep DEF Next, Exited
-----------------------------------------------------------------------------
LEMMA InTokens ==
    ASSUME NEW p
    PROVE  /\ Depth(p) = DepthIn(tokens, p)
           /\ Visible(p) <=> VisibleIn(tokens, p)
           /\ \A n : Declares(p, n) <=> DeclaresIn(tokens, p, n)
<1>0. \A kinds, r : Count(kinds, r) = CountIn(tokens, kinds, r)
  BY Zenon DEF Count, CountIn
<1>1. \A r : Depth(r) = DepthIn(tokens, r)
  BY <1>0, Zenon DEF Depth, DepthIn
<1>2. \A n : Declares(p, n) <=> DeclaresIn(tokens, p, n)
  BY DEF Declares, DeclaresIn
<1>3. CASE tokens[p].kind = "decl"
  <2>1. Visible(p) <=> \A r \in p .. Len(tokens) : Depth(r) >= Depth(p)
    BY <1>3, Zenon DEF Visible
  <2>2. VisibleIn(tokens, p) <=>
            \A r \in p .. Len(tokens) : DepthIn(tokens, r) >= DepthIn(tokens, p)
    BY <1>3, Zenon DEF VisibleIn
  <2>3. ASSUME NEW r
        PROVE  (Depth(r) >= Depth(p)) = (DepthIn(tokens, r) >= DepthIn(tokens, p))
    BY <1>1, Zenon
  <2> QED
    BY <1>1, <1>2, <2>1, <2>2, <2>3
<1>4. CASE tokens[p].kind = "header"
  <2>1. Visible(p) <=> \A r \in p + 1 .. Len(tokens) : Depth(r) >= 1
    BY <1>4, Zenon DEF Visible
  <2>2. VisibleIn(tokens, p) <=> \A r \in p + 1 .. Len(tokens) : DepthIn(tokens, r) >= 1
    BY <1>4, Zenon DEF VisibleIn
  <2>3. ASSUME NEW r
        PROVE  (Depth(r) >= 1) = (DepthIn(tokens, r) >= 1)
    BY <1>1, Zenon
  <2> QED
    BY <1>1, <1>2, <2>1, <2>2, <2>3
<1>5. CASE tokens[p].kind \notin {"decl", "header"}
  BY <1>1, <1>2, <1>5 DEF Visible, VisibleIn
<1> QED
  BY <1>1, <1>2, <1>3, <1>4, <1>5

(* The nesting at a place does not depend on what comes after it, and      *)
(* changes there by what stands there.                                     *)
LEMMA CountAppended ==
    ASSUME NEW q \in Seq(Construct), NEW t \in Construct, NEW kinds
    PROVE  /\ \A p \in 0 .. Len(q) :
                /\ CountIn(q, kinds, p) \in Nat
                /\ CountIn(Append(q, t), kinds, p) = CountIn(q, kinds, p)
           /\ t.kind \in kinds => CountIn(Append(q, t), kinds, Len(q) + 1) =
                                        CountIn(q, kinds, Len(q)) + 1
           /\ t.kind \notin kinds => CountIn(Append(q, t), kinds, Len(q) + 1) =
                                        CountIn(q, kinds, Len(q))
<1> DEFINE L == Len(q)
           q1 == Append(q, t)
           At(r, p) == {k \in 1 .. p : r[k].kind \in kinds}
<1>0. /\ L \in Nat /\ q1[L + 1] = t
      /\ \A k \in 1 .. L : q1[k] = q[k]
  BY AppendProperties
<1> HIDE DEF L, q1
<1>1. ASSUME NEW p \in 0 .. L
      PROVE  /\ IsFiniteSet(At(q, p)) /\ Cardinality(At(q, p)) \in Nat
             /\ At(q1, p) = At(q, p)
  <2>1. IsFiniteSet(1 .. p)
    BY <1>0, FS_Interval
  <2>2. At(q, p) \in SUBSET (1 .. p)
    OBVIOUS
  <2>3. IsFiniteSet(At(q, p))
    BY <2>1, <2>2, FS_Subset
  <2>4. At(q1, p) = At(q, p)
    BY <1>0
  <2> QED
    BY <2>3, <2>4, FS_CardinalityType
<1>2. /\ t.kind \in kinds => Cardinality(At(q1, L + 1)) = Cardinality(At(q, L)) + 1
      /\ t.kind \notin kinds => Cardinality(At(q1, L + 1)) = Cardinality(At(q, L))
  <2>1. L \in 0 .. L
    BY <1>0
  <2>2. IsFiniteSet(At(q, L)) /\ Cardinality(At(q, L)) \in Nat
    BY <1>1, <2>1
  <2>3. CASE t.kind \in kinds
    <3>1. At(q1, L + 1) = At(q, L) \cup {L + 1}
      BY <1>0, <2>3
    <3>2. L + 1 \notin At(q, L)
      BY <1>0
    <3> HIDE DEF At
    <3> QED
      BY <2>2, <2>3, <3>1, <3>2, FS_AddElement
  <2>4. CASE t.kind \notin kinds
    <3>1. At(q1, L + 1) = At(q, L)
      BY <1>0, <2>4
    <3> HIDE DEF At
    <3> QED
      BY <2>2, <2>4, <3>1
  <2> QED
    BY <2>3, <2>4
<1>3. \A r, p : CountIn(r, kinds, p) = Cardinality(At(r, p))
  BY DEF CountIn
<1> HIDE DEF At
<1> QED
  BY <1>1, <1>2, <1>3 DEF L, q1

(* The input q1 goes on from q, of length L, with a construct t.           *)
Extends(q1, L, q, t) ==
    q \in Seq(Construct) /\ t \in Construct /\ L = Len(q) /\ q1 = Append(q, t)

LEMMA InputAppended ==
    ASSUME NEW q, NEW t, NEW q1, NEW L, Extends(q1, L, q, t)
    PROVE  /\ L \in Nat /\ L = Len(q) /\ Len(q1) = L + 1 /\ q1[L + 1] = t
           /\ DOMAIN q = 1 .. L /\ DOMAIN q1 = 1 .. L + 1
           /\ \A k \in 1 .. L : q1[k] = q[k]
BY AppendProperties DEF Extends

LEMMA DepthAppended ==
    ASSUME NEW q, NEW t, NEW q1, NEW L, Extends(q1, L, q, t)
    PROVE  /\ \A p \in 0 .. L : DepthIn(q, p) \in Int /\ DepthIn(q1, p) = DepthIn(q, p)
           /\ DepthIn(q, L) \in Int
           /\ DepthIn(q1, L + 1) \in Int
           /\ Opens(t) => DepthIn(q1, L + 1) = DepthIn(q, L) + 1
           /\ Closes(t) => DepthIn(q1, L + 1) = DepthIn(q, L) - 1
           /\ ~Opens(t) /\ ~Closes(t) => DepthIn(q1, L + 1) = DepthIn(q, L)
<1> DEFINE o(r, p) == CountIn(r, {"{"}, p)
           c(r, p) == CountIn(r, {"}"}, p)
<1>1. L \in 0 .. L
  BY InputAppended
<1>2. /\ \A p \in 0 .. L : o(q, p) \in Nat /\ o(q1, p) = o(q, p)
      /\ Opens(t) => o(q1, L + 1) = o(q, L) + 1
      /\ ~Opens(t) => o(q1, L + 1) = o(q, L)
  <2>1. Opens(t) <=> t.kind \in {"{"}
    BY Zenon DEF Opens
  <2> QED
    BY <2>1, CountAppended DEF Extends
<1>3. /\ \A p \in 0 .. L : c(q, p) \in Nat /\ c(q1, p) = c(q, p)
      /\ Closes(t) => c(q1, L + 1) = c(q, L) + 1
      /\ ~Closes(t) => c(q1, L + 1) = c(q, L)
  <2>1. Closes(t) <=> t.kind \in {"}"}
    BY Zenon DEF Closes
  <2> QED
    BY <2>1, CountAppended DEF Extends
<1>4. \A r, p : DepthIn(r, p) = o(r, p) - c(r, p)
  BY Zenon DEF DepthIn
<1> HIDE DEF o, c
<1>5. ASSUME NEW p \in 0 .. L
      PROVE  DepthIn(q, p) \in Int /\ DepthIn(q1, p) = DepthIn(q, p)
  <2>1. o(q, p) \in Nat /\ c(q, p) \in Nat
    BY <1>2, <1>3
  <2>2. DepthIn(q, p) = o(q, p) - c(q, p) /\ DepthIn(q1, p) = o(q, p) - c(q, p)
    BY <1>2, <1>3, <1>4, Zenon
  <2> QED
    BY <2>1, <2>2
<1>0. Opens(t) => ~Closes(t)
  BY Zenon DEF Opens, Closes
<1>6. PICK a \in Nat, b \in Nat : o(q, L) = a /\ c(q, L) = b /\ DepthIn(q, L) = a - b
  BY <1>1, <1>2, <1>3, <1>4
<1>7. ASSUME Opens(t)
      PROVE  DepthIn(q1, L + 1) = DepthIn(q, L) + 1 /\ DepthIn(q1, L + 1) \in Int
  <2>1. o(q1, L + 1) = a + 1 /\ c(q1, L + 1) = b
    BY <1>0, <1>2, <1>3, <1>6, <1>7
  <2>2. DepthIn(q1, L + 1) = (a + 1) - b
    BY <1>4, <2>1, Zenon
  <2>3. DepthIn(q, L) = a - b
    BY <1>6
  <2> DEFINE d == DepthIn(q, L)
             d1 == DepthIn(q1, L + 1)
  <2> HIDE DEF d, d1
  <2>4. d = a - b /\ d1 = (a + 1) - b
    BY <2>2, <2>3, Zenon DEF d, d1
  <2>5. d1 = d + 1 /\ d1 \in Int
    BY <2>4
  <2> QED
    BY <2>5 DEF d, d1
<1>8. ASSUME Closes(t)
      PROVE  DepthIn(q1, L + 1) = DepthIn(q, L) - 1 /\ DepthIn(q1, L + 1) \in Int
  <2>1. o(q1, L + 1) = a /\ c(q1, L + 1) = b + 1
    BY <1>0, <1>2, <1>3, <1>6, <1>8
  <2>2. DepthIn(q1, L + 1) = a - (b + 1)
    BY <1>4, <2>1, Zenon
  <2>3. DepthIn(q, L) = a - b
    BY <1>6
  <2> DEFINE d == DepthIn(q, L)
             d1 == DepthIn(q1, L + 1)
  <2> HIDE DEF d, d1
  <2>4. d = a - b /\ d1 = a - (b + 1)
    BY <2>2, <2>3, Zenon DEF d, d1
  <2>5. d1 = d - 1 /\ d1 \in Int
    BY <2>4
  <2> QED
    BY <2>5 DEF d, d1
<1>9. ASSUME ~Opens(t) /\ ~Closes(t)
      PROVE  DepthIn(q1, L + 1) = DepthIn(q, L) /\ DepthIn(q1, L + 1) \in Int
  <2>1. o(q1, L + 1) = a /\ c(q1, L + 1) = b
    BY <1>2, <1>3, <1>6, <1>9
  <2>2. DepthIn(q1, L + 1) = a - b
    BY <1>4, <2>1, Zenon
  <2>3. DepthIn(q, L) = a - b
    BY <1>6
  <2> DEFINE d == DepthIn(q, L)
             d1 == DepthIn(q1, L + 1)
  <2> HIDE DEF d, d1
  <2>4. d = a - b /\ d1 = a - b
    BY <2>2, <2>3, Zenon DEF d, d1
  <2>5. d1 = d /\ d1 \in Int
    BY <2>4
  <2> QED
    BY <2>5 DEF d, d1
<1>10. DepthIn(q, L) \in Int
  BY <1>1, <1>5
<1> QED
  BY <1>5, <1>7, <1>8, <1>9, <1>10

(* What stays as it was when a construct is read.                          *)
LEMMA KeptWhenAppended ==
    ASSUME NEW q, NEW t, NEW q1, NEW L, Extends(q1, L, q, t)
    PROVE  /\ \A p \in 1 .. L : DepthIn(q1, p) = DepthIn(q, p)
           /\ \A p \in 1 .. L : NestIn(q1, p) = NestIn(q, p)
           /\ \A p \in 1 .. L : \A n : DeclaresIn(q1, p, n) <=> DeclaresIn(q, p, n)
           /\ \A n : DeclaresIn(q1, L + 1, n) <=>
                        \E i \in DOMAIN t.names : t.names[i] = n
<1>0. /\ L \in Nat /\ L = Len(q) /\ Len(q1) = L + 1 /\ q1[L + 1] = t
      /\ DOMAIN q = 1 .. L /\ DOMAIN q1 = 1 .. L + 1
      /\ \A k \in 1 .. L : q1[k] = q[k]
  BY InputAppended
<1>1. /\ \A p \in 0 .. L : DepthIn(q, p) \in Int /\ DepthIn(q1, p) = DepthIn(q, p)
      /\ DepthIn(q1, L + 1) \in Int
  BY DepthAppended
<1>4. \A p \in 1 .. L : /\ p \in 0 .. L
                        /\ NestIn(q1, p) = NestIn(q, p)
                        /\ \A n : DeclaresIn(q1, p, n) <=> DeclaresIn(q, p, n)
  BY <1>0, <1>1 DEF NestIn, DeclaresIn
<1>5. \A n : DeclaresIn(q1, L + 1, n) <=> \E i \in DOMAIN t.names : t.names[i] = n
  BY <1>0 DEF DeclaresIn
<1>9. \A p \in 1 .. L : DepthIn(q, p) \in Int /\ DepthIn(q1, p) = DepthIn(q, p)
  <2>1. \A p \in 1 .. L : p \in 0 .. L
    BY <1>0
  <2> QED
    BY <1>1, <2>1
<1> QED
  BY <1>4, <1>5, <1>9

(* What a further construct does to the visibility of the earlier ones.    *)
LEMMA VisibleAppended ==
    ASSUME NEW q, NEW t, NEW q1, NEW L, Extends(q1, L, q, t)
    PROVE  /\ \A p \in 1 .. L :
                VisibleIn(q1, p) <=>
                    /\ VisibleIn(q, p)
                    /\ DepthIn(q1, L + 1) >= IF q[p].kind = "decl" THEN DepthIn(q, p) ELSE 1
           /\ VisibleIn(q1, L + 1) <=> t.kind \in {"decl", "header"}
<1>0. /\ L \in Nat /\ L = Len(q) /\ Len(q1) = L + 1 /\ q1[L + 1] = t
      /\ DOMAIN q = 1 .. L /\ DOMAIN q1 = 1 .. L + 1
      /\ \A k \in 1 .. L : q1[k] = q[k]
  BY InputAppended
<1>1. /\ \A p \in 0 .. L : DepthIn(q, p) \in Int /\ DepthIn(q1, p) = DepthIn(q, p)
      /\ DepthIn(q1, L + 1) \in Int
  BY DepthAppended
<1>2. ASSUME NEW p \in 1 .. L
      PROVE  VisibleIn(q1, p) <=>
                /\ VisibleIn(q, p)
                /\ DepthIn(q1, L + 1) >= IF q[p].kind = "decl" THEN DepthIn(q, p) ELSE 1
  <2>1. /\ q1[p] = q[p] /\ p \in 0 .. L
        /\ DepthIn(q, p) \in Int /\ DepthIn(q1, p) = DepthIn(q, p)
    BY <1>0, <1>1
  <2>2. CASE q[p].kind = "decl"
    <3>1. VisibleIn(q, p) <=> \A r \in p .. L : DepthIn(q, r) >= DepthIn(q, p)
      BY <1>0, <2>2, Zenon DEF VisibleIn
    <3>2. VisibleIn(q1, p) <=> \A r \in p .. L + 1 : DepthIn(q1, r) >= DepthIn(q1, p)
      BY <1>0, <2>1, <2>2 DEF VisibleIn
    <3>3. \A r \in p .. L + 1 : r \in p .. L \/ r = L + 1
      BY <1>0
    <3>4. \A r \in p .. L : r \in p .. L + 1 /\ r \in 0 .. L
      BY <1>0
    <3>5. L + 1 \in p .. L + 1
      BY <1>0
    <3> QED
      BY <1>1, <2>1, <2>2, <3>1, <3>2, <3>3, <3>4, <3>5
  <2>3. CASE q[p].kind = "header"
    <3>1. VisibleIn(q, p) <=> \A r \in p + 1 .. L : DepthIn(q, r) >= 1
      BY <1>0, <2>3, Zenon DEF VisibleIn
    <3>2. VisibleIn(q1, p) <=> \A r \in p + 1 .. L + 1 : DepthIn(q1, r) >= 1
      BY <1>0, <2>1, <2>3 DEF VisibleIn
    <3>3. \A r \in p + 1 .. L + 1 : r \in p + 1 .. L \/ r = L + 1
      BY <1>0
    <3>4. \A r \in p + 1 .. L : r \in p + 1 .. L + 1 /\ r \in 0 .. L
      BY <1>0
    <3>5. L + 1 \in p + 1 .. L + 1
      BY <1>0
    <3> QED
      BY <1>1, <2>3, <3>1, <3>2, <3>3, <3>4, <3>5
  <2>4. CASE q[p].kind \notin {"decl", "header"}
    BY <2>1, <2>4 DEF VisibleIn
  <2> QED
    BY <2>2, <2>3, <2>4
<1>3. VisibleIn(q1, L + 1) <=> t.kind \in {"decl", "header"}
  <2>1. CASE t.kind = "decl"
    <3>1. \A r \in L + 1 .. L + 1 : r = L + 1
      BY <1>0
    <3> QED
      BY <1>0, <1>1, <2>1, <3>1 DEF VisibleIn
  <2>2. CASE t.kind = "header"
    <3>1. \A r \in L + 1 + 1 .. L + 1 : FALSE
      BY <1>0
    <3> QED
      BY <1>0, <2>2, <3>1 DEF VisibleIn
  <2>3. CASE t.kind \notin {"decl", "header"}
    BY <1>0, <2>3 DEF VisibleIn
  <2> QED
    BY <2>1, <2>2, <2>3
<1> QED
  BY <1>2, <1>3

-----------------------------------------------------------------------------
(***************************************************************************)
(* The scopes go on representing the input as it gets longer, one lemma    *)
(* for each way the parser changes them.                                   *)
(***************************************************************************)

(* Where the nesting does not fall, nothing goes out of scope.             *)
LEMMA StillVisible ==
    ASSUME NEW q, NEW t, NEW q1, NEW L, Extends(q1, L, q, t),
           NEW h, NEW d \in Nat, Represents(q, h, d),
           NEW d1 \in Nat, DepthIn(q1, L + 1) = d1, d1 >= d, d1 >= 1
    PROVE  \A p \in 1 .. L : VisibleIn(q1, p) <=> VisibleIn(q, p)
<1> SUFFICES ASSUME NEW p \in 1 .. L, VisibleIn(q, p)
             PROVE  DepthIn(q1, L + 1) >= IF q[p].kind = "decl" THEN DepthIn(q, p) ELSE 1
  BY VisibleAppended
<1>0. L \in Nat /\ L = Len(q)
  BY InputAppended
<1>1. ASSUME q[p].kind = "decl"
      PROVE  DepthIn(q, p) \in Int /\ DepthIn(q, p) <= DepthIn(q, L)
  <2>1. L \in p .. L /\ L \in 0 .. L /\ p \in 0 .. L
    BY <1>0
  <2>2. DepthIn(q, L) \in Int /\ DepthIn(q, p) \in Int
    BY <2>1, DepthAppended
  <2>3. \A r \in p .. L : DepthIn(q, r) >= DepthIn(q, p)
    BY <1>0, <1>1, Zenon DEF VisibleIn
  <2> DEFINE a == DepthIn(q, p)
             b == DepthIn(q, L)
  <2> HIDE DEF a, b
  <2>4. b >= a /\ b \in Int /\ a \in Int
    BY <2>1, <2>2, <2>3 DEF a, b
  <2>5. a <= b /\ a \in Int
    BY <2>4
  <2> QED
    BY <2>5 DEF a, b
<1> DEFINE a == DepthIn(q, p)
<1>2. DepthIn(q, L) = d
  BY DEF Represents, Extends
<1> HIDE DEF a
<1>3. q[p].kind = "decl" => d1 >= a
  <2>1. q[p].kind = "decl" => a \in Int /\ a <= d
    BY <1>1, <1>2 DEF a
  <2> QED
    BY <2>1
<1>4. d1 >= IF q[p].kind = "decl" THEN a ELSE 1
  BY <1>3
<1> QED
  BY <1>4 DEF a

(* What the operations do to the stack, as Pushed, Popped and Inserted say. *)
IsPushed(h1, h) ==
    /\ h1 \in Seq(Scope) /\ Len(h1) = Len(h) + 1
    /\ h1[1] = <<>>
    /\ \A n \in 1 .. Len(h) : h1[n + 1] = h[n]

(* A brace opens a scope.                                                  *)
LEMMA PushRepresents ==
    ASSUME NEW q, NEW t, NEW q1, NEW L, Extends(q1, L, q, t), Opens(t),
           NEW h \in Seq(Scope), NEW d \in Nat, Represents(q, h, d),
           NEW h1, IsPushed(h1, h)
    PROVE  Represents(q1, h1, d + 1)
<1>0. /\ L \in Nat /\ DOMAIN q = 1 .. L /\ DOMAIN q1 = 1 .. L + 1 /\ Len(q1) = L + 1
      /\ q1[L + 1] = t
      /\ \A p \in 1 .. L : q1[p] = q[p]
  BY InputAppended
<1>1. DepthIn(q, L) = d
  BY DEF Represents, Extends
<1>2. DepthIn(q1, L + 1) = d + 1
  <2>1. DepthIn(q1, L + 1) = DepthIn(q, L) + 1
    BY DepthAppended
  <2> QED
    BY <1>1, <2>1, Zenon
<1>3. \A p \in 1 .. L :
            /\ VisibleIn(q1, p) <=> VisibleIn(q, p)
            /\ NestIn(q1, p) = NestIn(q, p)
            /\ DepthIn(q1, p) = DepthIn(q, p)
            /\ \A n : DeclaresIn(q1, p, n) <=> DeclaresIn(q, p, n)
  <2>1. d + 1 \in Nat /\ d + 1 >= d /\ d + 1 >= 1
    OBVIOUS
  <2>2. \A p \in 1 .. L : VisibleIn(q1, p) <=> VisibleIn(q, p)
    BY <1>2, <2>1, StillVisible
  <2>3. \A p \in 1 .. L : NestIn(q1, p) = NestIn(q, p) /\ DepthIn(q1, p) = DepthIn(q, p)
    BY KeptWhenAppended
  <2>4. \A p \in 1 .. L : \A n : DeclaresIn(q1, p, n) <=> DeclaresIn(q, p, n)
    BY KeptWhenAppended
  <2> QED
    BY <2>2, <2>3, <2>4
<1>4. ~VisibleIn(q1, L + 1)
  <2>1. t.kind \notin {"decl", "header"}
    BY Zenon DEF Opens
  <2> QED
    BY <2>1, VisibleAppended
<1>5. \A s \in DOMAIN h1 : \A k \in DOMAIN h1[s] :
            s - 1 \in DOMAIN h /\ h1[s] = h[s - 1] /\ k \in DOMAIN h[s - 1]
  <2> SUFFICES ASSUME NEW s \in DOMAIN h1, NEW k \in DOMAIN h1[s]
               PROVE  s - 1 \in DOMAIN h /\ h1[s] = h[s - 1] /\ k \in DOMAIN h[s - 1]
    OBVIOUS
  <2>0. h1 \in Seq(Scope) /\ Len(h1) = Len(h) + 1 /\ Len(h) \in Nat
    BY DEF IsPushed
  <2>1. s \in 1 .. Len(h) + 1
    BY <2>0
  <2>2. s # 1
    BY DEF IsPushed
  <2>3. s - 1 \in 1 .. Len(h) /\ (s - 1) + 1 = s
    BY <2>0, <2>1, <2>2
  <2>4. h1[(s - 1) + 1] = h[s - 1]
    BY <2>3 DEF IsPushed
  <2> QED
    BY <2>3, <2>4
<1>6. \A s \in DOMAIN h : s + 1 \in DOMAIN h1 /\ h1[s + 1] = h[s]
  <2>1. h1 \in Seq(Scope) /\ Len(h1) = Len(h) + 1 /\ Len(h) \in Nat
    BY DEF IsPushed
  <2>2. \A s \in 1 .. Len(h) : s + 1 \in 1 .. Len(h1)
    BY <2>1
  <2>3. DOMAIN h = 1 .. Len(h) /\ DOMAIN h1 = 1 .. Len(h1)
    BY <2>1
  <2> QED
    BY <2>2, <2>3 DEF IsPushed
<1>7. \A p \in DOMAIN q1 : q1[p].kind = "decl" => DepthIn(q1, p) > 0
  <2> SUFFICES ASSUME NEW p \in 1 .. L + 1, q1[p].kind = "decl" PROVE DepthIn(q1, p) > 0
    BY <1>0
  <2>0. t.kind # "decl"
    BY Zenon DEF Opens
  <2>1. p \in 1 .. L
    BY <1>0, <2>0
  <2>2. DepthIn(q, p) > 0 /\ DepthIn(q1, p) = DepthIn(q, p)
    BY <1>0, <1>3, <2>1 DEF Represents
  <2> QED
    BY <2>2
<1>8. HoldsVisible(q1, h1)
  <2> SUFFICES ASSUME NEW s \in DOMAIN h1, NEW k \in DOMAIN h1[s]
               PROVE  /\ h1[s][k].val.pos \in DOMAIN q1
                      /\ VisibleIn(q1, h1[s][k].val.pos)
                      /\ DeclaresIn(q1, h1[s][k].val.pos, h1[s][k].name)
                      /\ NestIn(q1, h1[s][k].val.pos) = Len(h1) - s
    BY DEF HoldsVisible
  <2> DEFINE e == h[s - 1][k]
  <2>1. h1[s][k] = e /\ s - 1 \in DOMAIN h /\ k \in DOMAIN h[s - 1]
    BY <1>5
  <2>2. /\ e.val.pos \in DOMAIN q /\ VisibleIn(q, e.val.pos)
        /\ DeclaresIn(q, e.val.pos, e.name)
        /\ NestIn(q, e.val.pos) = Len(h) - (s - 1)
    BY <2>1 DEF Represents, HoldsVisible
  <2> HIDE DEF e
  <2>3. e.val.pos \in 1 .. L /\ e.val.pos \in DOMAIN q1
    BY <1>0, <2>2
  <2>4. Len(h) - (s - 1) = Len(h1) - s
    <3>1. h1 \in Seq(Scope) /\ Len(h1) = Len(h) + 1 /\ Len(h) \in Nat
      BY DEF IsPushed
    <3>2. s \in Int
      BY <3>1
    <3> QED
      BY <3>1, <3>2
  <2> QED
    BY <1>3, <2>1, <2>2, <2>3, <2>4
<1>9. HoldsAll(q1, h1)
  <2> SUFFICES ASSUME NEW p \in DOMAIN q1, NEW n \in Names,
                      VisibleIn(q1, p), DeclaresIn(q1, p, n)
               PROVE  Held(h1, p, n)
    BY DEF HoldsAll
  <2>1. p \in 1 .. L
    BY <1>0, <1>4
  <2>2. Held(h, p, n)
    BY <1>0, <1>3, <2>1 DEF Represents, HoldsAll
  <2>3. PICK s \in DOMAIN h : \E k \in DOMAIN h[s] :
            h[s][k].name = n /\ h[s][k].val.pos = p
    BY <2>2 DEF Held
  <2>4. s + 1 \in DOMAIN h1 /\ h1[s + 1] = h[s]
    BY <1>6
  <2> QED
    BY <2>3, <2>4 DEF Held
<1>10. LatestFirst(h1)
  <2>1. ASSUME NEW s \in DOMAIN h1, NEW j \in DOMAIN h1[s], NEW k \in DOMAIN h1[s], j < k
        PROVE  h1[s][j].val.pos >= h1[s][k].val.pos
    <3>1. s - 1 \in DOMAIN h /\ h1[s] = h[s - 1]
      BY <1>5
    <3> QED
      BY <2>1, <3>1 DEF Represents, LatestFirst
  <2>2. ASSUME NEW r \in DOMAIN h1, NEW s \in DOMAIN h1, r < s,
               NEW j \in DOMAIN h1[r], NEW k \in DOMAIN h1[s]
        PROVE  h1[r][j].val.pos > h1[s][k].val.pos
    <3>1. /\ r - 1 \in DOMAIN h /\ h1[r] = h[r - 1]
          /\ s - 1 \in DOMAIN h /\ h1[s] = h[s - 1]
      BY <1>5
    <3>2. r - 1 < s - 1
      <4>1. h1 \in Seq(Scope)
        BY DEF IsPushed
      <4>2. r \in Int /\ s \in Int
        BY <4>1
      <4> QED
        BY <2>2, <4>2
    <3> QED
      BY <3>1, <3>2 DEF Represents, LatestFirst
  <2> QED
    BY <2>1, <2>2 DEF LatestFirst
<1> QED
  BY <1>0, <1>2, <1>7, <1>8, <1>9, <1>10 DEF Represents

(* What neither nests nor declares changes nothing inside a function.      *)
LEMMA StatementRepresents ==
    ASSUME NEW q, NEW t, NEW q1, NEW L, Extends(q1, L, q, t),
           ~Opens(t), ~Closes(t), t.kind \notin {"decl", "header"},
           NEW h \in Seq(Scope), NEW d \in Nat, d >= 1, Represents(q, h, d)
    PROVE  Represents(q1, h, d)
<1>0. /\ L \in Nat /\ DOMAIN q = 1 .. L /\ DOMAIN q1 = 1 .. L + 1 /\ Len(q1) = L + 1
      /\ q1[L + 1] = t
      /\ \A p \in 1 .. L : q1[p] = q[p]
      /\ L = Len(q)
  BY InputAppended
<1>1. DepthIn(q1, L + 1) = d
  <2>1. DepthIn(q, L) = d
    BY <1>0 DEF Represents
  <2>2. DepthIn(q1, L + 1) = DepthIn(q, L)
    BY DepthAppended
  <2> QED
    BY <2>1, <2>2, Zenon
<1>2. \A p \in 1 .. L : VisibleIn(q1, p) <=> VisibleIn(q, p)
  BY <1>1, StillVisible
<1>3. /\ \A p \in 1 .. L : DepthIn(q1, p) = DepthIn(q, p)
      /\ \A p \in 1 .. L : NestIn(q1, p) = NestIn(q, p)
      /\ \A p \in 1 .. L : \A n : DeclaresIn(q1, p, n) <=> DeclaresIn(q, p, n)
  BY KeptWhenAppended
<1>4. ~VisibleIn(q1, L + 1)
  BY VisibleAppended
<1>5. \A p \in DOMAIN q1 : p \in 1 .. L \/ p = L + 1
  BY <1>0
<1>6. 1 .. L \subseteq DOMAIN q1
  BY <1>0
<1>7. ASSUME NEW p \in DOMAIN q1, q1[p].kind = "decl"
      PROVE  DepthIn(q1, p) > 0
  <2>1. p \in 1 .. L
    BY <1>0, <1>5, <1>7
  <2>2. DepthIn(q, p) > 0 /\ DepthIn(q1, p) = DepthIn(q, p)
    BY <1>0, <1>3, <1>7, <2>1 DEF Represents
  <2> QED
    BY <2>2
<1>8. HoldsVisible(q1, h)
  <2>1. HoldsVisible(q, h)
    BY DEF Represents
  <2> QED
    BY <1>0, <1>2, <1>3, <1>6, <2>1, Zenon DEF HoldsVisible
<1>9. HoldsAll(q1, h)
  <2> SUFFICES ASSUME NEW p \in DOMAIN q1, NEW n \in Names,
                      VisibleIn(q1, p), DeclaresIn(q1, p, n)
               PROVE  Held(h, p, n)
    BY DEF HoldsAll
  <2>1. p \in 1 .. L
    BY <1>4, <1>5
  <2> QED
    BY <1>0, <1>2, <1>3, <2>1 DEF Represents, HoldsAll
<1> QED
  BY <1>0, <1>1, <1>7, <1>8, <1>9 DEF Represents

IsInserted(h1, h, e) ==
    /\ h1 \in Seq(Scope) /\ Len(h1) = Len(h) /\ Len(h) > 0
    /\ \A s \in 2 .. Len(h) : h1[s] = h[s]
    /\ Len(h1[1]) = Len(h[1]) + 1
    /\ h1[1][1] = e
    /\ \A k \in 1 .. Len(h[1]) : h1[1][k + 1] = h[1][k]

LEMMA InsertedEntries ==
    ASSUME NEW h \in Seq(Scope), NEW h1, NEW e, IsInserted(h1, h, e)
    PROVE  /\ h1 \in Seq(Scope) /\ Len(h) \in Nat /\ Len(h1) = Len(h) /\ Len(h) > 0
           /\ DOMAIN h = 1 .. Len(h) /\ DOMAIN h1 = 1 .. Len(h)
           /\ 1 \in DOMAIN h1 /\ 1 \in DOMAIN h1[1] /\ h1[1][1] = e
           /\ \A s \in DOMAIN h1 : s \in Int /\ s >= 1
           /\ \A s \in DOMAIN h1 : s # 1 => s > 1 /\ h1[s] = h[s]
           /\ \A k \in DOMAIN h1[1] : k # 1 =>
                    k > 1 /\ k - 1 \in DOMAIN h[1] /\ h1[1][k] = h[1][k - 1]
           /\ \A k \in DOMAIN h[1] : k + 1 \in DOMAIN h1[1] /\ h1[1][k + 1] = h[1][k]
<1>1. /\ h1 \in Seq(Scope) /\ Len(h) \in Nat /\ Len(h1) = Len(h) /\ Len(h) > 0
      /\ DOMAIN h = 1 .. Len(h) /\ DOMAIN h1 = 1 .. Len(h)
  BY DEF IsInserted
<1>2. 1 \in DOMAIN h1 /\ 1 \in DOMAIN h
  BY <1>1
<1>3. \A s \in DOMAIN h1 : s # 1 => s > 1 /\ s \in 2 .. Len(h)
  BY <1>1
<1>4. h1[1] \in Scope /\ h[1] \in Scope
  BY <1>1, <1>2
<1> DEFINE a == h[1]
           b == h1[1]
<1>5. /\ a \in Seq(Entry) /\ b \in Seq(Entry) /\ Len(b) = Len(a) + 1 /\ b[1] = e
      /\ \A k \in 1 .. Len(a) : b[k + 1] = a[k]
  BY <1>4 DEF Scope, IsInserted
<1> HIDE DEF a, b
<1>6. Len(a) \in Nat /\ DOMAIN a = 1 .. Len(a) /\ DOMAIN b = 1 .. Len(a) + 1
  BY <1>5
<1>7. 1 \in DOMAIN b /\ b[1] = e
  BY <1>5, <1>6
<1>8. ASSUME NEW k \in DOMAIN b, k # 1
      PROVE  k > 1 /\ k - 1 \in DOMAIN a /\ b[k] = a[k - 1]
  <2>1. k \in Int /\ k > 1 /\ k - 1 \in 1 .. Len(a) /\ (k - 1) + 1 = k
    BY <1>6, <1>8
  <2>2. b[(k - 1) + 1] = a[k - 1]
    BY <1>5, <2>1
  <2> QED
    BY <1>6, <2>1, <2>2
<1>9. \A k \in DOMAIN a : k + 1 \in DOMAIN b /\ b[k + 1] = a[k]
  BY <1>5, <1>6
<1>10. \A s \in DOMAIN h1 : s # 1 => h1[s] = h[s]
  BY <1>3 DEF IsInserted
<1>11. \A s \in DOMAIN h1 : s \in Int /\ s >= 1
  BY <1>1
<1> QED
  BY <1>1, <1>2, <1>3, <1>7, <1>8, <1>9, <1>10, <1>11 DEF a, b

(* A declaration is entered in front of the innermost scope.               *)
LEMMA InsertRepresents ==
    ASSUME NEW q, NEW t, NEW q1, NEW L, Extends(q1, L, q, t),
           t.kind = "decl", NEW n0 \in Names, t.names = <<n0>>,
           NEW h \in Seq(Scope), NEW d \in Nat, d >= 1, Len(h) = d + 1,
           Represents(q, h, d),
           NEW h1, NEW e, IsInserted(h1, h, e), e.name = n0, e.val.pos = L + 1
    PROVE  Represents(q1, h1, d)
<1>0. /\ L \in Nat /\ DOMAIN q = 1 .. L /\ DOMAIN q1 = 1 .. L + 1 /\ Len(q1) = L + 1
      /\ q1[L + 1] = t
      /\ \A p \in 1 .. L : q1[p] = q[p]
      /\ L = Len(q)
  BY InputAppended
<1>1. DepthIn(q1, L + 1) = d
  <2>1. DepthIn(q, L) = d
    BY <1>0 DEF Represents
  <2>2. ~Opens(t) /\ ~Closes(t)
    BY Zenon DEF Opens, Closes
  <2>3. DepthIn(q1, L + 1) = DepthIn(q, L)
    BY <2>2, DepthAppended
  <2> QED
    BY <2>1, <2>3, Zenon
<1>2. \A p \in 1 .. L : VisibleIn(q1, p) <=> VisibleIn(q, p)
  BY <1>1, StillVisible
<1>3. /\ \A p \in 1 .. L : DepthIn(q1, p) = DepthIn(q, p)
      /\ \A p \in 1 .. L : NestIn(q1, p) = NestIn(q, p)
      /\ \A p \in 1 .. L : \A n : DeclaresIn(q1, p, n) <=> DeclaresIn(q, p, n)
      /\ \A n : DeclaresIn(q1, L + 1, n) <=> \E i \in DOMAIN t.names : t.names[i] = n
  BY KeptWhenAppended
<1>4. VisibleIn(q1, L + 1)
  BY VisibleAppended
<1>5. \A n : DeclaresIn(q1, L + 1, n) <=> n = n0
  <2>1. \A n : (\E i \in DOMAIN t.names : t.names[i] = n) <=> n = n0
    OBVIOUS
  <2> QED
    BY <1>3, <2>1
<1>6. NestIn(q1, L + 1) = d
  BY <1>0, <1>1, Zenon DEF NestIn
<1>7. \A p \in DOMAIN q1 : p \in 1 .. L \/ p = L + 1
  BY <1>0
<1>8. 1 .. L \subseteq DOMAIN q1 /\ L + 1 \in DOMAIN q1
  BY <1>0
<1>9. ASSUME NEW p \in DOMAIN q1, q1[p].kind = "decl"
      PROVE  DepthIn(q1, p) > 0
  <2>1. CASE p \in 1 .. L
    <3>1. DepthIn(q, p) > 0 /\ DepthIn(q1, p) = DepthIn(q, p)
      BY <1>0, <1>3, <1>9, <2>1 DEF Represents
    <3> QED
      BY <3>1
  <2>2. CASE p = L + 1
    <3>1. d > 0
      OBVIOUS
    <3> QED
      BY <1>1, <2>2, <3>1, Zenon
  <2> QED
    BY <1>7, <2>1, <2>2
<1>10. /\ h1 \in Seq(Scope) /\ Len(h) \in Nat /\ Len(h1) = Len(h) /\ Len(h) > 0
       /\ DOMAIN h = 1 .. Len(h) /\ DOMAIN h1 = 1 .. Len(h)
       /\ 1 \in DOMAIN h1 /\ 1 \in DOMAIN h1[1] /\ h1[1][1] = e
       /\ \A s \in DOMAIN h1 : s \in Int /\ s >= 1
       /\ \A s \in DOMAIN h1 : s # 1 => s > 1 /\ h1[s] = h[s]
       /\ \A k \in DOMAIN h1[1] : k # 1 =>
                k > 1 /\ k - 1 \in DOMAIN h[1] /\ h1[1][k] = h[1][k - 1]
       /\ \A k \in DOMAIN h[1] : k + 1 \in DOMAIN h1[1] /\ h1[1][k + 1] = h[1][k]
  BY InsertedEntries
<1>11. DOMAIN h1 = DOMAIN h
  BY <1>10
<1>12. \A s \in DOMAIN h : \A k \in DOMAIN h[s] : h[s][k].val.pos \in 1 .. L
  BY <1>0 DEF Represents, HoldsVisible
<1>13. \A s \in DOMAIN h1 : \A k \in DOMAIN h1[s] :
            (s = 1 /\ k = 1) \/ \E k0 \in DOMAIN h[s] : h1[s][k] = h[s][k0]
  <2> SUFFICES ASSUME NEW s \in DOMAIN h1, NEW k \in DOMAIN h1[s], ~(s = 1 /\ k = 1)
               PROVE  \E k0 \in DOMAIN h[s] : h1[s][k] = h[s][k0]
    OBVIOUS
  <2>1. CASE s # 1
    <3>1. h1[s] = h[s]
      BY <1>10, <2>1
    <3> QED
      BY <3>1
  <2>2. CASE s = 1 /\ k # 1
    <3>1. k - 1 \in DOMAIN h[1] /\ h1[1][k] = h[1][k - 1]
      BY <1>10, <2>2
    <3> QED
      BY <2>2, <3>1
  <2> QED
    BY <2>1, <2>2
<1>14. HoldsVisible(q1, h1)
  <2> SUFFICES ASSUME NEW s \in DOMAIN h1, NEW k \in DOMAIN h1[s]
               PROVE  /\ h1[s][k].val.pos \in DOMAIN q1
                      /\ VisibleIn(q1, h1[s][k].val.pos)
                      /\ DeclaresIn(q1, h1[s][k].val.pos, h1[s][k].name)
                      /\ NestIn(q1, h1[s][k].val.pos) = Len(h1) - s
    BY DEF HoldsVisible
  <2>1. CASE s = 1 /\ k = 1
    <3>1. h1[s][k] = e /\ Len(h1) - s = d
      BY <1>10, <2>1
    <3> QED
      BY <1>4, <1>5, <1>6, <1>8, <3>1, Zenon
  <2>2. ASSUME NEW k0 \in DOMAIN h[s], h1[s][k] = h[s][k0]
        PROVE  /\ h1[s][k].val.pos \in DOMAIN q1
               /\ VisibleIn(q1, h1[s][k].val.pos)
               /\ DeclaresIn(q1, h1[s][k].val.pos, h1[s][k].name)
               /\ NestIn(q1, h1[s][k].val.pos) = Len(h1) - s
    <3>1. s \in DOMAIN h
      BY <1>11
    <3> DEFINE f == h[s][k0]
    <3>2. /\ f.val.pos \in 1 .. L /\ VisibleIn(q, f.val.pos)
          /\ DeclaresIn(q, f.val.pos, f.name)
          /\ NestIn(q, f.val.pos) = Len(h) - s
      BY <1>0, <3>1, Zenon DEF Represents, HoldsVisible
    <3>3. h1[s][k] = f /\ Len(h1) = Len(h)
      BY <1>10, <2>2
    <3> HIDE DEF f
    <3> QED
      BY <1>2, <1>3, <1>8, <3>2, <3>3, Zenon
  <2> QED
    BY <1>13, <2>1, <2>2
<1>15. HoldsAll(q1, h1)
  <2> SUFFICES ASSUME NEW p \in DOMAIN q1, NEW n \in Names,
                      VisibleIn(q1, p), DeclaresIn(q1, p, n)
               PROVE  Held(h1, p, n)
    BY DEF HoldsAll
  <2>1. CASE p = L + 1
    <3>1. e.name = n /\ e.val.pos = p
      BY <1>5, <2>1
    <3> QED
      BY <1>10, <3>1 DEF Held
  <2>2. CASE p \in 1 .. L
    <3>1. Held(h, p, n)
      BY <1>0, <1>2, <1>3, <2>2 DEF Represents, HoldsAll
    <3>2. PICK s \in DOMAIN h : \E k \in DOMAIN h[s] :
              h[s][k].name = n /\ h[s][k].val.pos = p
      BY <3>1 DEF Held
    <3>3. PICK k \in DOMAIN h[s] : h[s][k].name = n /\ h[s][k].val.pos = p
      BY <3>2
    <3>4. \E k1 \in DOMAIN h1[s] : h1[s][k1] = h[s][k]
      <4>1. CASE s = 1
        BY <1>10, <3>3, <4>1
      <4>2. CASE s # 1
        BY <1>10, <1>11, <3>3, <4>2
      <4> QED
        BY <4>1, <4>2
    <3> QED
      BY <1>11, <3>3, <3>4 DEF Held
  <2> QED
    BY <1>7, <2>1, <2>2
<1>16. LatestFirst(h1)
  <2>0. LatestFirst(h)
    BY DEF Represents
  <2>1. ASSUME NEW s \in DOMAIN h1, NEW j \in DOMAIN h1[s], NEW k \in DOMAIN h1[s], j < k
        PROVE  h1[s][j].val.pos >= h1[s][k].val.pos
    <3>1. CASE s # 1
      <4>1. s \in DOMAIN h /\ h1[s] = h[s]
        BY <1>10, <1>11, <3>1
      <4> QED
        BY <2>0, <2>1, <4>1 DEF LatestFirst
    <3>2. CASE s = 1 /\ j = 1
      <4>1. h1[s][j].val.pos = L + 1 /\ k # 1
        BY <1>10, <2>1, <3>2
      <4>2. k - 1 \in DOMAIN h[1] /\ h1[1][k] = h[1][k - 1] /\ 1 \in DOMAIN h
        BY <1>10, <1>11, <3>2, <4>1
      <4>3. h1[s][k].val.pos \in 1 .. L
        BY <1>12, <3>2, <4>2
      <4> QED
        BY <1>0, <4>1, <4>3
    <3>3. CASE s = 1 /\ j # 1
      <4>1. j \in DOMAIN h1[1] /\ k \in DOMAIN h1[1] /\ 1 \in DOMAIN h
        BY <1>10, <1>11, <3>3
      <4>2. j > 1 /\ j - 1 \in DOMAIN h[1] /\ h1[1][j] = h[1][j - 1]
        BY <1>10, <3>3, <4>1
      <4>3. j \in Int /\ k \in Int
        <5>1. h1[1] \in Seq(Entry)
          BY <1>10 DEF Scope
        <5> QED
          BY <4>1, <5>1
      <4>4. k # 1
        BY <2>1, <4>2, <4>3
      <4>5. k - 1 \in DOMAIN h[1] /\ h1[1][k] = h[1][k - 1] /\ j - 1 < k - 1
        BY <1>10, <2>1, <4>1, <4>3, <4>4
      <4> QED
        BY <2>0, <3>3, <4>1, <4>2, <4>5 DEF LatestFirst
    <3> QED
      BY <3>1, <3>2, <3>3
  <2>2. ASSUME NEW r \in DOMAIN h1, NEW s \in DOMAIN h1, r < s,
               NEW j \in DOMAIN h1[r], NEW k \in DOMAIN h1[s]
        PROVE  h1[r][j].val.pos > h1[s][k].val.pos
    <3>1. s # 1
      BY <1>10, <2>2
    <3>2. s \in DOMAIN h /\ r \in DOMAIN h /\ h1[s] = h[s]
      BY <1>10, <1>11, <3>1
    <3>3. h[s][k].val.pos \in 1 .. L /\ k \in DOMAIN h[s]
      BY <1>12, <3>2
    <3>4. CASE r = 1 /\ j = 1
      BY <1>0, <1>10, <3>2, <3>3, <3>4
    <3>5. ASSUME NEW k0 \in DOMAIN h[r], h1[r][j] = h[r][k0]
          PROVE  h1[r][j].val.pos > h1[s][k].val.pos
      BY <2>0, <2>2, <3>2, <3>3, <3>5 DEF LatestFirst
    <3> QED
      BY <1>13, <3>4, <3>5
  <2> QED
    BY <2>1, <2>2 DEF LatestFirst
<1> QED
  BY <1>0, <1>1, <1>9, <1>14, <1>15, <1>16 DEF Represents

IsPopped(h1, h) ==
    /\ h1 \in Seq(Scope) /\ Len(h1) = Len(h) - 1
    /\ \A n \in 1 .. Len(h) - 1 : h1[n] = h[n + 1]

(* The brace of an inner block takes away what its scope holds.            *)
LEMMA PopRepresents ==
    ASSUME NEW q, NEW t, NEW q1, NEW L, Extends(q1, L, q, t), Closes(t),
           NEW h \in Seq(Scope), NEW d \in Nat, d > 1, Len(h) = d + 1,
           Represents(q, h, d),
           NEW h1, IsPopped(h1, h)
    PROVE  Represents(q1, h1, d - 1)
<1>0. /\ L \in Nat /\ DOMAIN q = 1 .. L /\ DOMAIN q1 = 1 .. L + 1 /\ Len(q1) = L + 1
      /\ q1[L + 1] = t
      /\ \A p \in 1 .. L : q1[p] = q[p]
      /\ L = Len(q)
  BY InputAppended
<1>1. DepthIn(q1, L + 1) = d - 1 /\ DepthIn(q, L) = d
  <2>1. DepthIn(q, L) = d
    BY <1>0 DEF Represents
  <2>2. DepthIn(q1, L + 1) = DepthIn(q, L) - 1
    BY DepthAppended
  <2> QED
    BY <2>1, <2>2, Zenon
<1>2. /\ \A p \in 1 .. L : DepthIn(q1, p) = DepthIn(q, p)
      /\ \A p \in 1 .. L : NestIn(q1, p) = NestIn(q, p)
      /\ \A p \in 1 .. L : \A n : DeclaresIn(q1, p, n) <=> DeclaresIn(q, p, n)
  BY KeptWhenAppended
<1>3. t.kind \notin {"decl", "header"}
  BY Zenon DEF Closes
<1>4. ~VisibleIn(q1, L + 1)
  BY <1>3, VisibleAppended
<1>5. \A p \in DOMAIN q1 : p \in 1 .. L \/ p = L + 1
  BY <1>0
<1>6. 1 .. L \subseteq DOMAIN q1
  BY <1>0
<1>7. d - 1 >= 1 /\ d - 1 \in Nat
  OBVIOUS
<1>8. ASSUME NEW p \in 1 .. L
      PROVE  VisibleIn(q1, p) <=>
                VisibleIn(q, p) /\ (q[p].kind = "decl" => d - 1 >= NestIn(q, p))
  <2>1. VisibleIn(q1, p) <=>
            VisibleIn(q, p) /\ d - 1 >= IF q[p].kind = "decl" THEN DepthIn(q, p) ELSE 1
    BY <1>1, VisibleAppended, Zenon
  <2>2. CASE q[p].kind = "decl"
    <3>1. NestIn(q, p) = DepthIn(q, p)
      BY <2>2, Zenon DEF NestIn
    <3> QED
      BY <2>1, <2>2, <3>1, Zenon
  <2>3. CASE q[p].kind # "decl"
    BY <1>7, <2>1, <2>3, Zenon
  <2> QED
    BY <2>2, <2>3
<1>9. ASSUME NEW p \in 1 .. L, VisibleIn(q, p), q[p].kind # "decl"
      PROVE  NestIn(q, p) = 0
  BY <1>9, Zenon DEF VisibleIn, NestIn
<1>10. /\ h1 \in Seq(Scope) /\ Len(h1) = d /\ Len(h) = d + 1
       /\ DOMAIN h = 1 .. d + 1 /\ DOMAIN h1 = 1 .. d
       /\ \A s \in DOMAIN h1 : s + 1 \in DOMAIN h /\ h1[s] = h[s + 1] /\ s \in Int
       /\ \A s \in DOMAIN h : s # 1 => s - 1 \in DOMAIN h1 /\ h1[s - 1] = h[s]
  <2>1. /\ h1 \in Seq(Scope) /\ Len(h1) = d /\ Len(h) = d + 1
        /\ \A n \in 1 .. d : h1[n] = h[n + 1]
    BY DEF IsPopped
  <2>2. DOMAIN h = 1 .. d + 1 /\ DOMAIN h1 = 1 .. d
    BY <2>1
  <2>3. \A s \in DOMAIN h1 : s + 1 \in DOMAIN h /\ h1[s] = h[s + 1] /\ s \in Int
    BY <2>1, <2>2
  <2>4. ASSUME NEW s \in DOMAIN h, s # 1
        PROVE  s - 1 \in DOMAIN h1 /\ h1[s - 1] = h[s]
    <3>1. s - 1 \in 1 .. d /\ (s - 1) + 1 = s
      BY <2>2, <2>4
    <3>2. h1[s - 1] = h[(s - 1) + 1]
      BY <2>1, <3>1
    <3> QED
      BY <2>2, <3>1, <3>2
  <2> QED
    BY <2>1, <2>2, <2>3, <2>4
<1>11. ASSUME NEW p \in DOMAIN q1, q1[p].kind = "decl"
       PROVE  DepthIn(q1, p) > 0
  <2>1. p \in 1 .. L
    BY <1>0, <1>3, <1>5, <1>11
  <2>2. DepthIn(q, p) > 0 /\ DepthIn(q1, p) = DepthIn(q, p)
    BY <1>0, <1>2, <1>11, <2>1 DEF Represents
  <2> QED
    BY <2>2
<1>12. HoldsVisible(q1, h1)
  <2> SUFFICES ASSUME NEW s \in DOMAIN h1, NEW k \in DOMAIN h1[s]
               PROVE  /\ h1[s][k].val.pos \in DOMAIN q1
                      /\ VisibleIn(q1, h1[s][k].val.pos)
                      /\ DeclaresIn(q1, h1[s][k].val.pos, h1[s][k].name)
                      /\ NestIn(q1, h1[s][k].val.pos) = Len(h1) - s
    BY DEF HoldsVisible
  <2> DEFINE f == h[s + 1][k]
  <2>1. h1[s][k] = f /\ s + 1 \in DOMAIN h /\ k \in DOMAIN h[s + 1] /\ s \in 1 .. d
    BY <1>10
  <2>2. /\ f.val.pos \in 1 .. L /\ VisibleIn(q, f.val.pos)
        /\ DeclaresIn(q, f.val.pos, f.name)
        /\ NestIn(q, f.val.pos) = Len(h) - (s + 1)
    BY <1>0, <2>1, Zenon DEF Represents, HoldsVisible
  <2>3. Len(h) - (s + 1) = Len(h1) - s /\ d - 1 >= Len(h1) - s
    BY <1>10, <2>1
  <2> HIDE DEF f
  <2>4. NestIn(q, f.val.pos) = Len(h1) - s
    BY <2>2, <2>3, Zenon
  <2>5. d - 1 >= NestIn(q, f.val.pos)
    BY <2>3, <2>4, Zenon
  <2> QED
    BY <1>2, <1>6, <1>8, <2>1, <2>2, <2>4, <2>5, Zenon
<1>13. HoldsAll(q1, h1)
  <2> SUFFICES ASSUME NEW p \in DOMAIN q1, NEW n \in Names,
                      VisibleIn(q1, p), DeclaresIn(q1, p, n)
               PROVE  Held(h1, p, n)
    BY DEF HoldsAll
  <2>1. p \in 1 .. L
    BY <1>4, <1>5
  <2>2. VisibleIn(q, p) /\ (q[p].kind = "decl" => d - 1 >= NestIn(q, p))
    BY <1>8, <2>1
  <2>3. Held(h, p, n)
    BY <1>0, <1>2, <2>1, <2>2 DEF Represents, HoldsAll
  <2>4. PICK s \in DOMAIN h : \E k \in DOMAIN h[s] :
            h[s][k].name = n /\ h[s][k].val.pos = p
    BY <2>3 DEF Held
  <2>5. NestIn(q, p) = Len(h) - s
    BY <2>4 DEF Represents, HoldsVisible
  <2>6. s # 1
    <3> SUFFICES ASSUME s = 1 PROVE FALSE
      OBVIOUS
    <3> DEFINE a == NestIn(q, p)
    <3>1. a = d /\ (q[p].kind = "decl" => d - 1 >= a) /\ (q[p].kind # "decl" => a = 0)
      BY <1>9, <1>10, <2>1, <2>2, <2>5
    <3> HIDE DEF a
    <3> QED
      BY <3>1
  <2>7. s - 1 \in DOMAIN h1 /\ h1[s - 1] = h[s]
    BY <1>10, <2>6
  <2> QED
    BY <2>4, <2>7 DEF Held
<1>14. LatestFirst(h1)
  <2>0. LatestFirst(h)
    BY DEF Represents
  <2>1. ASSUME NEW s \in DOMAIN h1, NEW j \in DOMAIN h1[s], NEW k \in DOMAIN h1[s], j < k
        PROVE  h1[s][j].val.pos >= h1[s][k].val.pos
    <3>1. s + 1 \in DOMAIN h /\ h1[s] = h[s + 1]
      BY <1>10
    <3> QED
      BY <2>0, <2>1, <3>1 DEF LatestFirst
  <2>2. ASSUME NEW r \in DOMAIN h1, NEW s \in DOMAIN h1, r < s,
               NEW j \in DOMAIN h1[r], NEW k \in DOMAIN h1[s]
        PROVE  h1[r][j].val.pos > h1[s][k].val.pos
    <3>1. /\ r + 1 \in DOMAIN h /\ h1[r] = h[r + 1]
          /\ s + 1 \in DOMAIN h /\ h1[s] = h[s + 1]
          /\ r \in Int /\ s \in Int
      BY <1>10
    <3>2. r + 1 < s + 1
      BY <2>2, <3>1
    <3> QED
      BY <2>0, <3>1, <3>2 DEF LatestFirst
  <2> QED
    BY <2>1, <2>2 DEF LatestFirst
<1> QED
  BY <1>0, <1>1, <1>11, <1>12, <1>13, <1>14, Zenon DEF Represents

(* Where no block is open, nothing that came before is visible.            *)
LEMMA NothingVisible ==
    ASSUME NEW q, NEW t, NEW q1, NEW L, Extends(q1, L, q, t),
           DepthIn(q1, L + 1) = 0, NEW h, NEW d, Represents(q, h, d)
    PROVE  \A p \in 1 .. L :
                ~VisibleIn(q1, p) /\ (q1[p].kind = "decl" => DepthIn(q1, p) > 0)
<1>0. /\ L \in Nat /\ DOMAIN q = 1 .. L
      /\ \A p \in 1 .. L : q1[p] = q[p]
  BY InputAppended
<1> SUFFICES ASSUME NEW p \in 1 .. L
             PROVE  ~VisibleIn(q1, p) /\ (q1[p].kind = "decl" => DepthIn(q1, p) > 0)
  OBVIOUS
<1>1. DepthIn(q1, p) = DepthIn(q, p) /\ q1[p] = q[p] /\ p \in DOMAIN q
  BY <1>0, KeptWhenAppended
<1>2. q[p].kind = "decl" => DepthIn(q, p) > 0
  BY <1>1 DEF Represents
<1>3. VisibleIn(q1, p) =>
        DepthIn(q1, L + 1) >= IF q[p].kind = "decl" THEN DepthIn(q, p) ELSE 1
  BY VisibleAppended
<1>4. DepthIn(q, p) \in Int
  <2>1. p \in 0 .. L
    BY <1>0
  <2> QED
    BY <2>1, DepthAppended
<1> DEFINE a == DepthIn(q, p)
           b == DepthIn(q1, L + 1)
<1>5. b = 0
  OBVIOUS
<1> HIDE DEF a, b
<1>6. ~(b >= IF q[p].kind = "decl" THEN a ELSE 1)
  BY <1>2, <1>4, <1>5 DEF a
<1> QED
  BY <1>1, <1>2, <1>3, <1>6, Zenon DEF a, b

(* Outside all functions nothing is visible and no scope is there: after   *)
(* a global declaration and after the last brace of a function.            *)
LEMMA OutsideRepresents ==
    ASSUME NEW q, NEW t, NEW q1, NEW L, Extends(q1, L, q, t),
           t.kind \notin {"decl", "header"}, DepthIn(q1, L + 1) = 0,
           NEW h, NEW d, Represents(q, h, d)
    PROVE  Represents(q1, <<>>, 0)
<1>0. /\ L \in Nat /\ DOMAIN q = 1 .. L /\ DOMAIN q1 = 1 .. L + 1 /\ Len(q1) = L + 1
      /\ q1[L + 1] = t
  BY InputAppended
<1>1. \A p \in DOMAIN q1 : p \in 1 .. L \/ p = L + 1
  BY <1>0
<1>2. \A p \in 1 .. L :
        ~VisibleIn(q1, p) /\ (q1[p].kind = "decl" => DepthIn(q1, p) > 0)
  BY NothingVisible
<1>3. ~VisibleIn(q1, L + 1)
  BY VisibleAppended
<1>4. HoldsAll(q1, <<>>)
  BY <1>1, <1>2, <1>3 DEF HoldsAll
<1>5. HoldsVisible(q1, <<>>) /\ LatestFirst(<<>>)
  BY DEF HoldsVisible, LatestFirst
<1>6. \A p \in DOMAIN q1 : q1[p].kind = "decl" => DepthIn(q1, p) > 0
  BY <1>0, <1>1, <1>2
<1> QED
  BY <1>0, <1>4, <1>5, <1>6, Zenon DEF Represents

(* A scope that holds the names of construct p, a header, and no others.   *)
HoldsNames(ps, names, p) ==
    /\ ps \in Scope /\ Len(ps) = Len(names)
    /\ \A k \in 1 .. Len(names) :
        /\ ps[k].val.pos = p
        /\ \E i \in 1 .. Len(names) : ps[k].name = names[i]
        /\ \E i \in 1 .. Len(names) : ps[i].name = names[k]

(* A header's scope holds its parameters.                                  *)
LEMMA HeaderRepresents ==
    ASSUME NEW q, NEW t, NEW q1, NEW L, Extends(q1, L, q, t),
           t.kind = "header", t.names \in Seq(Names), Represents(q, <<>>, 0),
           NEW ps, HoldsNames(ps, t.names, L + 1)
    PROVE  Represents(q1, <<ps>>, 0)
<1>0. /\ L \in Nat /\ DOMAIN q = 1 .. L /\ DOMAIN q1 = 1 .. L + 1 /\ Len(q1) = L + 1
      /\ q1[L + 1] = t /\ L = Len(q)
  BY InputAppended
<1>1. DepthIn(q1, L + 1) = 0
  <2>1. DepthIn(q, L) = 0
    BY <1>0 DEF Represents
  <2>2. ~Opens(t) /\ ~Closes(t)
    BY Zenon DEF Opens, Closes
  <2>3. DepthIn(q1, L + 1) = DepthIn(q, L)
    BY <2>2, DepthAppended
  <2> QED
    BY <2>1, <2>3, Zenon
<1>2. \A p \in DOMAIN q1 : p \in 1 .. L \/ p = L + 1
  BY <1>0
<1>3. \A p \in 1 .. L :
        ~VisibleIn(q1, p) /\ (q1[p].kind = "decl" => DepthIn(q1, p) > 0)
  BY <1>1, NothingVisible
<1>4. VisibleIn(q1, L + 1)
  BY VisibleAppended
<1>5. \A n : DeclaresIn(q1, L + 1, n) <=> \E i \in DOMAIN t.names : t.names[i] = n
  BY KeptWhenAppended
<1>6. NestIn(q1, L + 1) = 0
  BY <1>0, Zenon DEF NestIn
<1>7. DOMAIN t.names = 1 .. Len(t.names) /\ DOMAIN ps = 1 .. Len(t.names)
  BY DEF Scope, HoldsNames
<1> DEFINE h == <<ps>>
<1>8. DOMAIN h = {1} /\ h[1] = ps /\ Len(h) = 1
  OBVIOUS
<1> HIDE DEF h
<1>9. L + 1 \in DOMAIN q1
  BY <1>0
<1>10. HoldsVisible(q1, h)
  <2> SUFFICES ASSUME NEW s \in DOMAIN h, NEW k \in DOMAIN h[s]
               PROVE  /\ h[s][k].val.pos \in DOMAIN q1
                      /\ VisibleIn(q1, h[s][k].val.pos)
                      /\ DeclaresIn(q1, h[s][k].val.pos, h[s][k].name)
                      /\ NestIn(q1, h[s][k].val.pos) = Len(h) - s
    BY DEF HoldsVisible
  <2>1. s = 1 /\ k \in 1 .. Len(t.names) /\ h[s][k] = ps[k] /\ Len(h) - s = 0
    <3>1. s = 1 /\ h[1] = ps /\ Len(h) = 1
      BY <1>8
    <3>2. k \in DOMAIN ps /\ h[s][k] = ps[k]
      BY <3>1, Zenon
    <3>3. 1 - 1 = 0
      OBVIOUS
    <3> QED
      BY <1>7, <3>1, <3>2, <3>3, Zenon
  <2>2. ps[k].val.pos = L + 1 /\ \E i \in 1 .. Len(t.names) : ps[k].name = t.names[i]
    BY <2>1 DEF HoldsNames
  <2> QED
    BY <1>4, <1>5, <1>6, <1>7, <1>9, <2>1, <2>2, Zenon
<1>11. HoldsAll(q1, h)
  <2> SUFFICES ASSUME NEW p \in DOMAIN q1, NEW n \in Names,
                      VisibleIn(q1, p), DeclaresIn(q1, p, n)
               PROVE  Held(h, p, n)
    BY DEF HoldsAll
  <2>1. p = L + 1
    BY <1>2, <1>3
  <2>2. PICK k \in 1 .. Len(t.names) : t.names[k] = n
    BY <1>5, <1>7, <2>1
  <2>3. PICK i \in 1 .. Len(t.names) : ps[i].name = t.names[k]
    BY DEF HoldsNames
  <2>4. ps[i].name = n /\ ps[i].val.pos = p
    BY <2>1, <2>2, <2>3 DEF HoldsNames
  <2> QED
    BY <1>7, <1>8, <2>4, Zenon DEF Held
<1>12. LatestFirst(h)
  <2>1. ASSUME NEW s \in DOMAIN h, NEW j \in DOMAIN h[s], NEW k \in DOMAIN h[s]
        PROVE  h[s][j].val.pos >= h[s][k].val.pos
    <3>1. h[s][j].val.pos = L + 1 /\ h[s][k].val.pos = L + 1
      BY <1>7, <1>8 DEF HoldsNames
    <3> QED
      BY <1>0, <3>1
  <2>2. ASSUME NEW r \in DOMAIN h, NEW s \in DOMAIN h, r < s
        PROVE  FALSE
    BY <1>8, <2>2
  <2> QED
    BY <2>1, <2>2 DEF LatestFirst
<1>13. \A p \in DOMAIN q1 : q1[p].kind = "decl" => DepthIn(q1, p) > 0
  BY <1>0, <1>2, <1>3
<1>14. Represents(q1, h, 0)
  BY <1>0, <1>1, <1>10, <1>11, <1>12, <1>13, Zenon DEF Represents
<1> QED
  BY <1>14 DEF h

(* Before anything is read.                                                *)
LEMMA NothingRead == Represents(<<>>, <<>>, 0)
<1>1. \A kinds : CountIn(<<>>, kinds, 0) = 0
  <2> SUFFICES ASSUME NEW kinds PROVE CountIn(<<>>, kinds, 0) = 0
    OBVIOUS
  <2>1. {k \in 1 .. 0 : (<<>>)[k].kind \in kinds} = {}
    OBVIOUS
  <2> QED
    BY <2>1, FS_EmptySet DEF CountIn
<1>2. DepthIn(<<>>, 0) = 0
  <2>1. DepthIn(<<>>, 0) = CountIn(<<>>, {"{"}, 0) - CountIn(<<>>, {"}"}, 0)
    BY Zenon DEF DepthIn
  <2>2. CountIn(<<>>, {"{"}, 0) = 0 /\ CountIn(<<>>, {"}"}, 0) = 0
    BY <1>1, Zenon
  <2>3. 0 - 0 = 0
    OBVIOUS
  <2> QED
    BY <2>1, <2>2, <2>3, Zenon
<1>3. HoldsAll(<<>>, <<>>) /\ HoldsVisible(<<>>, <<>>) /\ LatestFirst(<<>>)
  BY DEF HoldsVisible, LatestFirst, HoldsAll
<1>4. Len(<<>>) = 0 /\ DOMAIN <<>> = {}
  OBVIOUS
<1>5. DepthIn(<<>>, Len(<<>>)) = 0
  BY <1>2, <1>4, Zenon
<1> QED
  BY <1>3, <1>4, <1>5 DEF Represents
-----------------------------------------------------------------------------
(* The parser's actions keep the scopes in step with the input.            *)
LEMMA ParseRepresents ==
    ASSUME tokens \in Seq(Construct), blocks \in Seq(Block), head \in Seq(Scope),
           level \in {"external", "header", "body"}, ScopesBalance, pc = "lex",
           NEW t \in Construct, Parse(t), tokens' = Append(tokens, t),
           Represents(tokens, head, Len(blocks)), pc' = "lex"
    PROVE  Represents(tokens', head', Len(blocks'))
<1>0. Extends(tokens', Len(tokens), tokens, t)
  BY DEF Extends
<1>1. Len(tokens) \in Nat /\ Len(blocks) \in Nat
  OBVIOUS
<1>2. DepthIn(tokens, Len(tokens)) = Len(blocks)
  BY Zenon DEF Represents
<1>3. Len(<<>>) = 0
  OBVIOUS
<1>4. CASE FunctionHeader(t)
  <2>1. t.kind = "header" /\ level = "external" /\ UNCHANGED blocks
    BY <1>4, Zenon DEF FunctionHeader
  <2>2. head = <<>> /\ blocks = <<>>
    BY <2>1 DEF ScopesBalance
  <2>3. head' = <<Params(t)>>
    BY <1>4, <2>2, ParamsAre DEF FunctionHeader
  <2>4. t.names \in Seq(Names) /\ HoldsNames(Params(t), t.names, Len(tokens) + 1)
    BY <2>1, ParamsAre DEF Here, HoldsNames
  <2>5. Represents(tokens, <<>>, 0)
    BY <1>3, <2>2, Zenon
  <2>6. Represents(tokens', <<Params(t)>>, 0)
    BY <1>0, <2>1, <2>4, <2>5, HeaderRepresents
  <2> QED
    BY <1>3, <2>1, <2>2, <2>3, <2>6, Zenon
<1>5. CASE GlobalDeclaration(t)
  <2>1. t.kind = "global" /\ level = "external" /\ UNCHANGED <<blocks, head>>
    BY <1>5, Zenon DEF GlobalDeclaration
  <2>2. head' = <<>> /\ blocks' = <<>> /\ blocks = <<>>
    BY <2>1 DEF ScopesBalance
  <2>3. ~Opens(t) /\ ~Closes(t) /\ t.kind \notin {"decl", "header"}
    BY <2>1, Zenon DEF Opens, Closes
  <2>4. DepthIn(tokens', Len(tokens) + 1) = 0
    <3>1. DepthIn(tokens', Len(tokens) + 1) = DepthIn(tokens, Len(tokens))
      BY <1>0, <2>3, DepthAppended
    <3> QED
      BY <1>2, <1>3, <2>2, <3>1, Zenon
  <2>5. Represents(tokens', <<>>, 0)
    BY <1>0, <2>3, <2>4, OutsideRepresents
  <2> QED
    BY <1>3, <2>2, <2>5, Zenon
<1>6. CASE FunctionBody(t)
  <2>1. Opens(t) /\ level = "header" /\ head' = symbol_push_scope(head)
        /\ blocks' = <<"declarations">>
    BY <1>6, Zenon DEF FunctionBody, Opens
  <2>2. Len(blocks) = 0 /\ Len(blocks') = 1
    BY <2>1, BlocksAre DEF ScopesBalance
  <2>3. IsPushed(head', head)
    BY <2>1, Pushed DEF IsPushed
  <2>4. Represents(tokens', head', Len(blocks) + 1)
    BY <1>0, <1>1, <2>1, <2>3, PushRepresents
  <2>5. Len(blocks') = Len(blocks) + 1
    BY <2>2
  <2> QED
    BY <2>4, <2>5, Zenon
<1>7. CASE LocalDeclaration(t)
  <2>1. /\ t.kind = "decl" /\ level = "body" /\ UNCHANGED blocks
        /\ head' = symbol_insert(head, t.names[1], Alloca(Here, 1))
    BY <1>7, Zenon DEF LocalDeclaration
  <2>2. Len(head) = Len(blocks) + 1 /\ Len(blocks) >= 1 /\ Len(head) > 0
    BY <1>1, <2>1 DEF ScopesBalance
  <2>3. /\ t.names = <<t.names[1]>> /\ t.names[1] \in Names
        /\ Alloca(Here, 1) \in [pos : Nat, arg : Nat]
    BY <2>1, DeclNames
  <2>4. PICK n0 \in Names, v \in [pos : Nat, arg : Nat] :
            n0 = t.names[1] /\ v = Alloca(Here, 1)
    BY <2>3
  <2> DEFINE e == [name |-> n0, val |-> v]
  <2>5. /\ e \in Entry
        /\ symbol_insert(head, n0, v) \in Seq(Scope)
        /\ Len(symbol_insert(head, n0, v)) = Len(head)
        /\ symbol_insert(head, n0, v)[1] = <<e>> \o head[1]
        /\ \A s \in 2 .. Len(head) : symbol_insert(head, n0, v)[s] = head[s]
    BY <2>2, Inserted
  <2>6. e.name = n0 /\ e.val.pos = Len(tokens) + 1
    BY <2>4 DEF Alloca, Here
  <2> HIDE DEF e
  <2>7. /\ Len(<<e>> \o head[1]) = Len(head[1]) + 1
        /\ (<<e>> \o head[1])[1] = e
        /\ \A n \in 1 .. Len(head[1]) : (<<e>> \o head[1])[n + 1] = head[1][n]
    <3>1. PICK sc \in Seq(Entry) : sc = head[1]
      BY <2>2 DEF Scope
    <3>2. /\ Len(<<e>> \o sc) = Len(sc) + 1
          /\ (<<e>> \o sc)[1] = e
          /\ \A n \in 1 .. Len(sc) : (<<e>> \o sc)[n + 1] = sc[n]
      BY <2>5, Prepended
    <3> QED
      BY <3>1, <3>2, Zenon
  <2>8. head' = symbol_insert(head, n0, v)
    BY <2>1, <2>4, Zenon
  <2>9. IsInserted(head', head, e)
    BY <2>2, <2>5, <2>7, <2>8, Zenon DEF IsInserted
  <2>10. Represents(tokens', head', Len(blocks))
    <3>1. t.names = <<n0>>
      BY <2>3, <2>4, Zenon
    <3> QED
      BY <1>0, <1>1, <2>1, <2>2, <2>6, <2>9, <3>1, InsertRepresents
  <2> QED
    BY <2>1, <2>10, Zenon
<1>8. CASE Statement(t)
  <2>1. /\ t.kind = "stmt" /\ level = "body" /\ UNCHANGED head
        /\ blocks' = <<"statements">> \o Tail(blocks)
    BY <1>8, Zenon DEF Statement
  <2>2. Len(blocks) > 0
    BY <2>1 DEF ScopesBalance
  <2>3. Len(blocks') = Len(blocks)
    BY <2>1, <2>2, BlocksAre
  <2>4. ~Opens(t) /\ ~Closes(t) /\ t.kind \notin {"decl", "header"}
    BY <2>1, Zenon DEF Opens, Closes
  <2>5. Len(blocks) >= 1
    BY <1>1, <2>2
  <2>6. Represents(tokens', head, Len(blocks))
    BY <1>0, <1>1, <2>4, <2>5, StatementRepresents
  <2> QED
    BY <2>1, <2>3, <2>6, Zenon
<1>9. CASE OpenBlock(t)
  <2>1. Opens(t) /\ level = "body" /\ head' = symbol_push_scope(head)
        /\ blocks' = <<"declarations", "statements">> \o Tail(blocks)
    BY <1>9, Zenon DEF OpenBlock, Opens
  <2>2. Len(blocks) > 0
    BY <2>1 DEF ScopesBalance
  <2>3. Len(blocks') = Len(blocks) + 1
    BY <2>1, <2>2, BlocksAre
  <2>4. IsPushed(head', head)
    BY <2>1, Pushed DEF IsPushed
  <2>5. Represents(tokens', head', Len(blocks) + 1)
    BY <1>0, <1>1, <2>1, <2>4, PushRepresents
  <2> QED
    BY <2>3, <2>5, Zenon
<1>10. CASE CloseBlock(t)
  <2>1. Closes(t) /\ level = "body" /\ Len(blocks) > 1
        /\ head' = symbol_pop_scope(head) /\ blocks' = Tail(blocks)
    BY <1>10, Zenon DEF CloseBlock, Closes
  <2>2. Len(head) = Len(blocks) + 1
    BY <2>1 DEF ScopesBalance
  <2>3. Len(blocks) > 0 /\ Len(head) > 0
    BY <1>1, <2>1, <2>2
  <2>4. Len(blocks') = Len(blocks) - 1
    BY <2>1, <2>3, TailIs
  <2>5. IsPopped(head', head)
    BY <2>1, <2>3, Popped DEF IsPopped
  <2>6. Represents(tokens', head', Len(blocks) - 1)
    BY <1>0, <1>1, <2>1, <2>2, <2>5, PopRepresents
  <2> QED
    BY <2>4, <2>6, Zenon
<1>11. CASE EndFunction(t)
  <2>1. Closes(t) /\ level = "body" /\ Len(blocks) = 1 /\ blocks' = <<>>
        /\ level' = "external" /\ head' = symbol_pop_scope(symbol_pop_scope(head))
    BY <1>11, Zenon DEF EndFunction, Closes
  <2>2. head' = <<>>
    BY ParseTypes, <2>1 DEF ScopesBalance
  <2>3. t.kind \notin {"decl", "header"}
    BY <2>1, Zenon DEF Closes
  <2>4. DepthIn(tokens', Len(tokens) + 1) = 0
    <3>1. DepthIn(tokens', Len(tokens) + 1) = DepthIn(tokens, Len(tokens)) - 1
      BY <1>0, <2>1, DepthAppended
    <3>2. 1 - 1 = 0
      OBVIOUS
    <3> QED
      BY <1>2, <2>1, <3>1, <3>2, Zenon
  <2>5. Represents(tokens', <<>>, 0)
    BY <1>0, <2>3, <2>4, OutsideRepresents
  <2> QED
    BY <1>3, <2>1, <2>2, <2>5, Zenon
<1>12. CASE EndMark(t)
  BY <1>12, Zenon DEF EndMark, Accept
<1>13. CASE OutOfPlace(t)
  BY <1>13, Zenon DEF OutOfPlace, SyntaxError
<1> QED
  BY <1>4, <1>5, <1>6, <1>7, <1>8, <1>9, <1>10, <1>11, <1>12, <1>13 DEF Parse
-----------------------------------------------------------------------------
(* The least of some numbers, which symbol_find looks for.                 *)
LEMMA MinIs ==
    ASSUME NEW S \in SUBSET Nat, S # {}
    PROVE  Min(S) \in S /\ \A y \in S : Min(S) <= y
<1>1. PICK x \in S : \A y \in S : ~(<<y, x>> \in OpToRel(<, Nat))
  BY NatLessThanWellFounded, WFMin
<1>2. \A y \in S : x <= y
  <2> SUFFICES ASSUME NEW y \in S PROVE x <= y
    OBVIOUS
  <2>1. x \in Nat /\ y \in Nat
    OBVIOUS
  <2>2. ~(y < x)
    BY <1>1, <2>1 DEF OpToRel
  <2> QED
    BY <2>1, <2>2
<1> QED
  BY <1>2 DEF Min

(* What the scopes represent is what a lookup finds.                       *)
LEMMA LookupFinds ==
    ASSUME tokens \in Seq(Construct), head \in Seq(Scope), NEW d,
           Represents(tokens, head, d), NEW n \in Names
    PROVE  IF VisibleDecls(n) = {}
           THEN symbol_find(head, n) = NoSymbol
           ELSE /\ symbol_find(head, n) # NoSymbol
                /\ symbol_find(head, n).pos \in VisibleDecls(n)
                /\ \A p \in VisibleDecls(n) : p <= symbol_find(head, n).pos
<1> DEFINE S == ScopesWith(head, n)
<1>1. VisibleDecls(n) =
        {p \in DOMAIN tokens : VisibleIn(tokens, p) /\ DeclaresIn(tokens, p, n)}
  BY InTokens, Zenon DEF VisibleDecls
<1>2. ASSUME NEW p \in VisibleDecls(n)
      PROVE  \E s \in S : \E k \in Entries(head[s], n) : head[s][k].val.pos = p
  <2>1. Held(head, p, n)
    <3>1. p \in DOMAIN tokens /\ VisibleIn(tokens, p) /\ DeclaresIn(tokens, p, n)
      BY <1>1
    <3> QED
      BY <3>1, Zenon DEF Represents, HoldsAll
  <2>2. PICK s \in DOMAIN head : \E k \in DOMAIN head[s] :
            head[s][k].name = n /\ head[s][k].val.pos = p
    BY <2>1 DEF Held
  <2>3. PICK k \in DOMAIN head[s] : head[s][k].name = n /\ head[s][k].val.pos = p
    BY <2>2
  <2>4. k \in Entries(head[s], n)
    BY <2>3 DEF Entries
  <2>5. s \in S
    BY <2>4 DEF ScopesWith
  <2> QED
    BY <2>3, <2>4, <2>5
<1>3. CASE S = {}
  BY <1>2, <1>3 DEF symbol_find
<1>4. CASE S # {}
  <2> DEFINE s == Min(S)
             E == Entries(head[s], n)
             k == Min(E)
             e == head[s][k]
  <2>1. S \in SUBSET Nat
    BY DEF ScopesWith
  <2>2. s \in S /\ \A y \in S : s <= y
    BY <1>4, <2>1, MinIs
  <2> HIDE DEF s
  <2>3. s \in DOMAIN head /\ E # {} /\ head[s] \in Seq(Entry)
    BY <2>2 DEF ScopesWith, Scope
  <2>4. E \in SUBSET Nat
    BY <2>3 DEF Entries
  <2>5. k \in E /\ \A y \in E : k <= y
    BY <2>3, <2>4, MinIs
  <2> HIDE DEF k
  <2>6. k \in DOMAIN head[s] /\ e.name = n /\ e \in Entry
    BY <2>3, <2>5 DEF Entries
  <2>7. symbol_find(head, n) = e.val
    BY <1>4 DEF symbol_find, s, k
  <2>8. e.val \in [pos : Nat, arg : Nat] /\ e.val.pos \in Nat /\ e.val # NoSymbol
    BY <2>6, NoSymbolAssumption DEF Entry
  <2>9. e.val.pos \in VisibleDecls(n)
    BY <1>1, <2>3, <2>6 DEF Represents, HoldsVisible
  <2>10. ASSUME NEW p \in VisibleDecls(n)
         PROVE  p <= e.val.pos
    <3>0. PICK r \in S : \E j \in Entries(head[r], n) : head[r][j].val.pos = p
      BY <1>2
    <3>1. PICK j \in Entries(head[r], n) : head[r][j].val.pos = p
      BY <3>0
    <3>2. r \in DOMAIN head /\ j \in DOMAIN head[r] /\ r \in Nat
      BY <2>1, <3>1 DEF ScopesWith, Entries
    <3>3. p \in Nat
      <4>1. head[r] \in Seq(Entry)
        BY <3>2 DEF Scope
      <4>2. head[r][j] \in Entry
        BY <3>2, <4>1
      <4> QED
        BY <3>1, <4>2 DEF Entry
    <3>4. LatestFirst(head)
      BY DEF Represents
    <3>5. CASE s < r
      <4>1. e.val.pos > head[r][j].val.pos
        BY <2>3, <2>6, <3>2, <3>4, <3>5 DEF LatestFirst
      <4> QED
        BY <2>8, <3>1, <3>3, <4>1
    <3>6. CASE s = r
      <4>1. k <= j /\ k \in Nat /\ j \in Nat
        BY <2>4, <2>5, <3>1, <3>6
      <4>2. CASE k = j
        BY <2>8, <3>1, <3>6, <4>2
      <4>3. CASE k < j
        <5>1. head[s][k].val.pos >= head[s][j].val.pos
          BY <2>3, <2>6, <3>2, <3>4, <3>6, <4>3 DEF LatestFirst
        <5> QED
          BY <2>8, <3>1, <3>3, <3>6, <5>1
      <4> QED
        BY <4>1, <4>2, <4>3
    <3>7. s <= r /\ s \in Nat
      BY <2>1, <2>2
    <3> QED
      BY <3>2, <3>5, <3>6, <3>7
  <2> HIDE DEF e
  <2> QED
    BY <2>7, <2>8, <2>9, <2>10
<1> QED
  BY <1>3, <1>4
-----------------------------------------------------------------------------
LEMMA Initially == Init => Inv
<1> SUFFICES ASSUME Init PROVE Inv
  OBVIOUS
<1>1. infile \in Seq({"readable", "missing"})
  BY DEF Init
<1>2. Types
  <2>1. /\ lang \in {"C", "C++"} /\ use_stdin \in BOOLEAN /\ pc = "start"
        /\ infile_cnt = 0 /\ tokens = <<>> /\ blocks = <<>> /\ level = "external"
        /\ head = <<>>
    BY DEF Init
  <2>2. infile_cnt \in 0 .. Len(infile)
    BY <1>1, <2>1
  <2>3. tokens \in Seq(Construct) /\ blocks \in Seq(Block) /\ head \in Seq(Scope)
    BY <2>1
  <2> QED
    BY <1>1, <2>1, <2>2, <2>3 DEF Types
<1>3. ReadsCurrent /\ ReadInOrder /\ ResultLast /\ ScopesBalance /\ NothingSkipped
  BY DEF Init, ReadsCurrent, ReadInOrder, ResultLast, ScopesBalance, NothingSkipped,
         NULL, STDIN
<1>4. Scopes
  <2>1. tokens = <<>> /\ head = <<>> /\ Len(blocks) = 0
    BY DEF Init
  <2> QED
    BY <2>1, NothingRead, Zenon DEF Scopes
<1> QED
  BY <1>2, <1>3, <1>4 DEF Inv

(* Only reading a construct moves the input and the scopes.                *)
LEMMA ScopesStep ==
    ASSUME Inv, [Next]_vars
    PROVE  Scopes'
<1>1. CASE \E t \in Construct : Read(t)
  <2> SUFFICES ASSUME pc' \in {"start", "lex"}
               PROVE  Represents(tokens', head', Len(blocks'))
    BY DEF Scopes
  <2>1. PICK t \in Construct : Read(t)
    BY <1>1
  <2>2. pc = "lex" /\ tokens' = Append(tokens, t) /\ Parse(t)
    BY <2>1, ReadKeeps
  <2>3. /\ tokens \in Seq(Construct) /\ blocks \in Seq(Block) /\ head \in Seq(Scope)
        /\ level \in {"external", "header", "body"} /\ ScopesBalance
    BY DEF Inv, Types
  <2>4. Represents(tokens, head, Len(blocks))
    BY <2>2 DEF Inv, Scopes
  <2>5. pc' = "lex"
    BY <2>2, ParseResult
  <2> QED
    BY <2>2, <2>3, <2>4, <2>5, ParseRepresents
<1>2. CASE ~\E t \in Construct : Read(t)
  <2>1. UNCHANGED <<tokens, head, blocks>> /\ (pc' \in {"start", "lex"} => pc \in {"start", "lex"})
    BY <1>2 DEF Next, IncompleteCommandLine, BeginParse, ScannerDefault, EndOfStream,
           EndOfInput, LexicalError, NullBuilder, CanRead, Finish, Exited, vars,
           parser
  <2> QED
    BY <2>1, Zenon DEF Inv, Scopes
<1> QED
  BY <1>1, <1>2

LEMMA Step == Inv /\ [Next]_vars => Inv'
<1> SUFFICES ASSUME Inv, [Next]_vars PROVE Inv'
  OBVIOUS
<1>1. Types' /\ ScopesBalance'
  BY TypesStep DEF Inv
<1>2. ReadsCurrent' /\ ReadInOrder' /\ ResultLast' /\ NothingSkipped'
  BY StreamsStep DEF Inv, Streams
<1> QED
  BY <1>1, <1>2, ScopesStep DEF Inv

LEMMA Invariance == Spec => []Inv
<1>1. Init => Inv
  BY Initially
<1>2. Inv /\ [Next]_vars => Inv'
  BY Step
<1> QED
  BY <1>1, <1>2, PTL DEF Spec
-----------------------------------------------------------------------------
(* However the braces of the input nest and whatever shadows what, at any  *)
(* place of it, symbol_find answers with the latest declaration that is    *)
(* still visible there by the rules of C, and with NULL when there is none.*)
THEOREM LookupRight == Spec => []LookupIsLexical
<1>1. Inv => LookupIsLexical
  <2> SUFFICES ASSUME Inv, pc = "lex", NEW n \in Names
               PROVE  IF VisibleDecls(n) = {}
                      THEN symbol_find(head, n) = NoSymbol
                      ELSE /\ symbol_find(head, n) # NoSymbol
                           /\ symbol_find(head, n).pos \in VisibleDecls(n)
                           /\ \A p \in VisibleDecls(n) : p <= symbol_find(head, n).pos
    BY Zenon DEF LookupIsLexical
  <2>1. tokens \in Seq(Construct) /\ head \in Seq(Scope)
    BY DEF Inv, Types
  <2>2. Represents(tokens, head, Len(blocks))
    BY DEF Inv, Scopes
  <2> QED
    BY <2>1, <2>2, LookupFinds
<1> QED
  BY <1>1, Invariance, PTL

(* A module is accepted at the outside of all functions only: every scope  *)
(* pushed has been popped, whether //END or the end of the input came.     *)
THEOREM AcceptedAtTheEnd == Spec => []AcceptedIsComplete
<1>1. Inv => AcceptedIsComplete
  BY DEF Inv, ResultLast, ScopesBalance, AcceptedIsComplete, is_global_scope
<1> QED
  BY <1>1, Invariance, PTL

(* Whatever files are missing, yywrap never leaves yyin at a stream it has *)
(* closed while the scanner may still read from it.                        *)
THEOREM NeverReadsClosed == Spec => []ReadsOpenStream
<1>1. Inv => ReadsOpenStream
  BY DEF Inv, ReadsCurrent, ReadsOpenStream, NULL, STDIN
<1> QED
  BY <1>1, Invariance, PTL

(* With every file readable and no //END, the translation unit is accepted *)
(* only when the last of the files has been read to its end.               *)
THEOREM EveryFileRead == Spec => []NothingSkipped
<1>1. Inv => NothingSkipped
  BY DEF Inv
<1> QED
  BY <1>1, Invariance, PTL
=============================================================================
