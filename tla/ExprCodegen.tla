---------------------------- MODULE ExprCodegen ----------------------------
(***************************************************************************)
(* tutorial/3/C++/expr.y: one pass from the source text to LLVM code.  An  *)
(* action is a reduction of the parser with the code it emits; the         *)
(* reductions of a program come in the order of its postfix form, so the   *)
(* scanner and precedence do not show.  Beside the parser runs an          *)
(* interpreter that says what the program just read means.                 *)
(***************************************************************************)
EXTENDS Cfg

CONSTANTS
    Id,             \* identifiers
    Imm,            \* immediates
    Op,             \* binary operators, named as LLVM's instructions
    Undef,          \* the value of what was never assigned, and of x / 0
    MaxReductions,  \* bound: reductions of one parse
    MaxValues,      \* bound: expressions waiting on the parser's stack
    MaxOpen         \* bound: nesting of statements

ASSUME EntryAssumption == Entry = 1

(* NULL is no block: blocks are numbered in the order they are made.       *)
ASSUME NoBlockAssumption == NoBlock \notin Nat

ASSUME OpAssumption == Op \subseteq {"add", "sub", "mul", "sdiv"}

VARIABLES
    code,       \* the blocks of TheFunction, instructions in each
    at,         \* Builder's insert point: the end of this block
    idMap,      \* the alloca of each identifier assigned so far
    values,     \* the semantic values of the expressions on the parser's stack
    open,       \* the statements whose bodies are being read, with $<bb>5
    status,     \* "parsing", "accepted", "rejected" or "crashed"
    reductions, \* number of reductions so far
    env,        \* the interpreter's variables
    meant,      \* what it makes of the expressions on the parser's stack
    defined,    \* does the source say what happens up to here?
    home,       \* the if statements around the first assignment of each identifier
    escaped,    \* was an identifier mentioned outside the innermost of them?
    result      \* what the program returns

parser == <<code, at, idMap, values, open, status, reductions>>
source == <<env, meant, defined, home, escaped, result>>
exprVars == <<parser, source>>

ExprInit ==
    /\ code = << <<>> >>
    /\ at = Entry
    /\ idMap = <<>>
    /\ values = <<>>
    /\ open = <<>>
    /\ status = "parsing"
    /\ reductions = 0
    /\ env = [id \in Id |-> Undef]
    /\ meant = <<>>
    /\ defined = TRUE
    /\ home = <<>>
    /\ escaped = FALSE
    /\ result = Undef
-----------------------------------------------------------------------------
(* Operands: a constant, or the instruction at a place <<block, n>>.       *)
Const(n) == [imm |-> n]
Register(place) == [reg |-> place]
IsConst(v) == "imm" \in DOMAIN v

(* std::map's operator[] =.                                                *)
Put(f, x, y) == [z \in DOMAIN f \cup {x} |-> IF z = x THEN y ELSE f[z]]

Instruction(op, args, to) == [op |-> op, args |-> args, to |-> to]

(* The instruction that is put at the insert point next.                   *)
Here == Register(<<at, Len(code[at]) + 1>>)

Emit(instructions) == code' = [code EXCEPT ![at] = @ \o instructions]

(* sdiv rounds towards zero; every operator hands Undef on.                *)
Compute(op, a, b) ==
    CASE Undef \in {a, b} -> Undef
      [] op = "add" -> a + b
      [] op = "sub" -> a - b
      [] op = "mul" -> a * b
      [] op = "eq" -> IF a = b THEN 1 ELSE 0
      [] b = 0 -> Undef
      [] a * b >= 0 -> (IF a < 0 THEN -a ELSE a) \div (IF b < 0 THEN -b ELSE b)
      [] OTHER -> -((IF a < 0 THEN -a ELSE a) \div (IF b < 0 THEN -b ELSE b))

Reduce ==
    /\ status = "parsing"
    /\ reductions < MaxReductions
    /\ reductions' = reductions + 1

(* IRBuilder folds an operator on constants.                               *)
Operate(op, a, b, below) ==
    IF IsConst(a) /\ IsConst(b)
    THEN /\ values' = Append(below, Const(Compute(op, a.imm, b.imm)))
         /\ UNCHANGED code
    ELSE /\ values' = Append(below, Here)
         /\ Emit(<<Instruction(op, <<a, b>>, <<>>)>>)

(* Is the statement that is being read executed?                           *)
Reached == \A n \in DOMAIN open : open[n].taken

(* The if statements whose bodies are being read, by the blocks behind.    *)
Ifs == {open[n].bb : n \in DOMAIN open} \ {NoBlock}

Mention(id) ==
    IF id \in DOMAIN home
    THEN /\ escaped' = (escaped \/ ~(home[id] \subseteq Ifs))
         /\ UNCHANGED home
    ELSE /\ home' = Put(home, id, Ifs)
         /\ UNCHANGED escaped
-----------------------------------------------------------------------------
(* expr: IDENTIFIER.  Looking up an identifier that idMap does not have    *)
(* puts a null pointer there, which CreateLoad dereferences.               *)
Identifier(id) ==
    /\ Reduce
    /\ Len(values) < MaxValues
    /\ IF id \in DOMAIN idMap
       THEN /\ values' = Append(values, Here)
            /\ Emit(<<Instruction("load", <<idMap[id]>>, <<>>)>>)
            /\ UNCHANGED status
       ELSE /\ status' = "crashed"
            /\ UNCHANGED <<values, code>>
    /\ meant' = Append(meant, env[id])
    /\ Mention(id)
    /\ UNCHANGED <<at, idMap, open, env, defined, result>>

(* expr: IMMEDIATE.                                                        *)
Immediate(n) ==
    /\ Reduce
    /\ Len(values) < MaxValues
    /\ values' = Append(values, Const(n))
    /\ meant' = Append(meant, n)
    /\ UNCHANGED <<code, at, idMap, open, status, env, defined, home, escaped, result>>

(* expr: expr PLUS expr and the other three.                               *)
Binary(op) ==
    /\ Reduce
    /\ Len(values) >= 2
    /\ Operate(op, Last(Front(values)), Last(values), Front(Front(values)))
    /\ meant' = Append(Front(Front(meant)),
                      Compute(op, Last(Front(meant)), Last(meant)))
    /\ UNCHANGED <<at, idMap, open, status, env, defined, home, escaped, result>>

(* expr: MINUS expr, a subtraction from 0; expr: NOT expr, icmp and select *)
(* in one.                                                                 *)
Negate ==
    /\ Reduce
    /\ values # <<>>
    /\ Operate("sub", Const(0), Last(values), Front(values))
    /\ meant' = Append(Front(meant), Compute("sub", 0, Last(meant)))
    /\ UNCHANGED <<at, idMap, open, status, env, defined, home, escaped, result>>

Not ==
    /\ Reduce
    /\ values # <<>>
    /\ Operate("eq", Last(values), Const(0), Front(values))
    /\ meant' = Append(Front(meant), Compute("eq", Last(meant), 0))
    /\ UNCHANGED <<at, idMap, open, status, env, defined, home, escaped, result>>
-----------------------------------------------------------------------------
(* Mutant: a new place is made on the stack for every assignment.          *)
Assign_alwaysAllocates(id) ==
    /\ Reduce
    /\ Len(values) = 1
    /\ idMap' = Put(idMap, id, Here)
    /\ Emit(<<Instruction("alloca", <<>>, <<>>),
              Instruction("store", <<values[1], Here>>, <<>>)>>)
    /\ values' = <<>>
    /\ env' = IF Reached THEN [env EXCEPT ![id] = meant[1]] ELSE env
    /\ meant' = <<>>
    /\ Mention(id)
    /\ UNCHANGED <<at, open, status, defined, result>>

(* stmt: IDENTIFIER ASSIGN expr SEMI.  The first assignment of the text    *)
(* makes a place on the stack, at the insert point.                        *)
Assign(id) ==
    /\ Reduce
    /\ Len(values) = 1
    /\ IF id \in DOMAIN idMap
       THEN /\ Emit(<<Instruction("store", <<values[1], idMap[id]>>, <<>>)>>)
            /\ UNCHANGED idMap
       ELSE /\ Emit(<<Instruction("alloca", <<>>, <<>>),
                      Instruction("store", <<values[1], Here>>, <<>>)>>)
            /\ idMap' = Put(idMap, id, Here)
    /\ values' = <<>>
    /\ env' = IF Reached THEN [env EXCEPT ![id] = meant[1]] ELSE env
    /\ meant' = <<>>
    /\ Mention(id)
    /\ UNCHANGED <<at, open, status, defined, result>>

(* Mutant: the arms of the branch are swapped.                             *)
If_swapped ==
    /\ Reduce
    /\ Len(values) = 1
    /\ Len(open) < MaxOpen
    /\ LET then == Len(code) + 1
           join == Len(code) + 2
       IN  /\ code' = Append(Append(
                        [code EXCEPT ![at] = Append(@,
                            Instruction("condbr", values, <<join, then>>))],
                        <<>>), <<>>)
           /\ at' = then
           /\ open' = Append(open, [bb |-> join, taken |-> meant[1] # 0])
    /\ values' = <<>>
    /\ defined' = (defined /\ (Reached => meant[1] # Undef))
    /\ meant' = <<>>
    /\ UNCHANGED <<idMap, status, env, home, escaped, result>>

(* The action in the middle of stmt: IF LPAREN expr RPAREN ..., a          *)
(* reduction of its own before the body is read.                           *)
If ==
    /\ Reduce
    /\ Len(values) = 1
    /\ Len(open) < MaxOpen
    /\ LET then == Len(code) + 1
           join == Len(code) + 2
       IN  /\ code' = Append(Append(
                        [code EXCEPT ![at] = Append(@,
                            Instruction("condbr", values, <<then, join>>))],
                        <<>>), <<>>)
           /\ at' = then
           /\ open' = Append(open, [bb |-> join, taken |-> meant[1] # 0])
    /\ values' = <<>>
    /\ defined' = (defined /\ (Reached => meant[1] # Undef))
    /\ meant' = <<>>
    /\ UNCHANGED <<idMap, status, env, home, escaped, result>>

(* stmt: WHILE LPAREN expr RPAREN LBRACE stmtlist RBRACE has no action: of *)
(* the parser only the value of the condition goes.  The interpreter gives *)
(* up at a while that it reaches.                                          *)
While ==
    /\ Reduce
    /\ Len(values) = 1
    /\ Len(open) < MaxOpen
    /\ open' = Append(open, [bb |-> NoBlock, taken |-> TRUE])
    /\ values' = <<>>
    /\ defined' = (defined /\ ~Reached)
    /\ meant' = <<>>
    /\ UNCHANGED <<code, at, idMap, status, env, home, escaped, result>>

(* The brace that ends a body, of an if or of a while.                     *)
EndBody ==
    /\ Reduce
    /\ values = <<>>
    /\ open # <<>>
    /\ IF Last(open).bb # NoBlock
       THEN /\ Emit(<<Instruction("br", <<>>, <<Last(open).bb>>)>>)
            /\ at' = Last(open).bb
       ELSE UNCHANGED <<code, at>>
    /\ open' = Front(open)
    /\ UNCHANGED <<idMap, values, status, source>>

(* program: LBRACE stmtlist RETURN expr SEMI RBRACE; main writes the code. *)
Return ==
    /\ Reduce
    /\ Len(values) = 1
    /\ open = <<>>
    /\ Emit(<<Instruction("ret", values, <<>>)>>)
    /\ status' = "accepted"
    /\ result' = meant[1]
    /\ UNCHANGED <<at, idMap, values, open, env, meant, defined, home, escaped>>

(* yyerror: main writes nothing.                                           *)
SyntaxError ==
    /\ status = "parsing"
    /\ status' = "rejected"
    /\ UNCHANGED <<code, at, idMap, values, open, reductions, source>>

Stopped == status # "parsing" /\ UNCHANGED exprVars

ExprNext ==
    \/ \E id \in Id : Identifier(id) \/ Assign(id)
    \/ \E n \in Imm : Immediate(n)
    \/ \E op \in Op : Binary(op)
    \/ Negate \/ Not
    \/ If \/ While \/ EndBody \/ Return
    \/ SyntaxError
    \/ Stopped

ExprSpec == ExprInit /\ [][ExprNext]_exprVars
-----------------------------------------------------------------------------
Successors == [b \in DOMAIN code |-> Last(code[b]).to]

(* What the verifier asks for: a terminator at the end of each block and   *)
(* nowhere else, and each operand computed on every path to its use.       *)
IsTerminator(i) == i.op \in {"br", "condbr", "ret"}

WellFormed ==
    /\ \A b \in DOMAIN code :
        /\ code[b] # <<>>
        /\ \A n \in DOMAIN code[b] :
            IsTerminator(code[b][n]) <=> n = Len(code[b])
    /\ \A b \in DOMAIN code : \A n \in DOMAIN code[b] :
        \A v \in {a \in ToSet(code[b][n].args) : ~IsConst(a)} :
            IF v.reg[1] = b
            THEN v.reg[2] < n
            ELSE Dominates(Successors, v.reg[1], b)

(* A machine for the code: the place it is at, what the registers hold and *)
(* the places on the stack.  It stays at a ret.                            *)
Start == [place |-> <<Entry, 1>>, registers |-> <<>>, stack |-> <<>>]

Held(m, v) == IF IsConst(v) THEN v.imm ELSE m.registers[v.reg]

Jump(m, b) == [m EXCEPT !.place = <<b, 1>>]

Advance(m) == [m EXCEPT !.place = <<@[1], @[2] + 1>>]

Execute(i, m) ==
    CASE i.op = "ret" -> m
      [] i.op = "br" -> Jump(m, i.to[1])
      [] i.op = "condbr" -> Jump(m, IF Held(m, i.args[1]) # 0 THEN i.to[1] ELSE i.to[2])
      [] i.op = "alloca" -> [Advance(m) EXCEPT !.stack = Put(@, m.place, Undef)]
      [] i.op = "load" ->
            [Advance(m) EXCEPT !.registers = Put(@, m.place, m.stack[i.args[1].reg])]
      [] i.op = "store" ->
            [Advance(m) EXCEPT !.stack = Put(@, i.args[2].reg, Held(m, i.args[1]))]
      [] OTHER ->
            [Advance(m) EXCEPT !.registers =
                Put(@, m.place, Compute(i.op, Held(m, i.args[1]), Held(m, i.args[2])))]

At(place) == code[place[1]][place[2]]

(* No reduction emits more than two instructions, none is executed twice.  *)
Ran ==
    LET ran[n \in Nat] ==
            IF n = 0
            THEN Start
            ELSE LET m == ran[n - 1] IN Execute(At(m.place), m)
    IN  ran[2 * reductions]

(* The code main writes is well formed if, and only if, the program        *)
(* mentions each variable only where the if statements around its first    *)
(* assignment are still open: the place on the stack is made in the block  *)
(* of that assignment.  A program that assigns a variable in an if and     *)
(* again behind it, before any use, is turned into code LLVM rejects.      *)
WellFormedUnlessEscaped ==
    status = "accepted" => (WellFormed <=> ~escaped)

(* Well-formed code returns what the program returns, unless the program   *)
(* comes to a while or depends on a variable that was never assigned.      *)
ReturnsWhatTheSourceSays ==
    status = "accepted" /\ WellFormed /\ defined /\ result # Undef =>
        At(Ran.place).op = "ret" /\ Held(Ran, At(Ran.place).args[1]) = result
=============================================================================
