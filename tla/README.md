# Formal models of the ECE 566 compiler projects

The repository holds the course material of a compiler class: small tools built
on LLVM, the libraries their students link against, and a benchmark harness.
`simple/` repeats `projects/` with plain Makefiles instead of CMake (same C, C++,
yacc and lex sources), and seven directories hold a copy of `uthash.h`; each is
modelled once, with the line numbers of `projects/`. Benchmarks and generated
autoconf files come from elsewhere.

## Inventory

| component | source | state it keeps | operations | what makes it hard |
|---|---|---|---|---|
| Dead code elimination, C++ | `tutorial/5/C++/dce.cpp` | instructions of the module, a worklist for each function, `DCE_count`, the output file | scan, drain, erase; open, parse, verify, write | raw pointers in the worklist, erasures that make others dead, address order, PHI cycles |
| Dead code elimination, C | `tutorial/5/C/dce.c` | the same, one worklist for the module | the same | as above; ignored results |
| Worklist | `tutorial/5/C/worklist.cpp`, `projects/lib/utils/worklist.cpp` | `std::set<Value*>` behind a handle | create, insert, top, pop, empty, fill, destroy | address order, dangling members, `destroy` frees something else |
| Value map | `projects/lib/utils/valmap.cpp` | `ValueMap` behind a handle | insert, check, find | entries vanish or move with their values |
| C-- front end | `projects/tools/p2/C`, `p2/C++` | scope stack, function under construction, input streams, error count, output | main, `yywrap`, grammar actions, symbol table | input switched by callbacks inside the parser, unbalanced scopes, errors nobody counts |
| Hash table | `projects/tools/p2/C/uthash.h` | table, buckets with counts and multipliers, list of all items | add, find, delete, replace, clear, expand | two lists and four counts for one item; growth during an addition; duplicates |
| Command line scanner | `p2/*/cmdline.lex` | scanner state, `infile[]`, position in `argv` | one rule per option | bounded buffers, an offset that stays 0 |
| Watchdog, runner | `wolfbench/TimedExec.sh`, `RunSafely.sh` | processes, timers, exit status, `.time` file | probe, signal, wait, classify | concurrency, process id reuse, signals survived |
| Repeated runs | `wolfbench/RunSafelyAndStable.sh` | three `.time` files | run, choose the fastest | `exec` |
| Dominance interface | `projects/lib/analysis/dominance.cpp` | `Current`, `DT`, `PDT`, `LI` | update, queries | a cache that is never invalidated |
| CFG, loop interfaces | `cfg.cpp`, `loop.cpp` | none; loop handles | iterators | iteration by value of the last answer |
| Summary, CSE | `summary.cpp`, `CSE_*.c*` | global counters | count, call passes | stubs for students |
| Drivers | `main` of `tools/p0`, `p1`, `p3`, tutorials 3 and 5 | input, output, module in memory | open, parse, optimise, write | files opened too early or not at all, results ignored, signals |
| Tutorial code generators | `tutorial/1` to `4` | builder position, `regCnt`, `idMap` | emit per production | definition before use, control flow in a one pass translation |
| Statistics scripts | `wolfbench/*.py` | none | format | sequential |

How they interact: the p2 front end calls the scanner, the scanner calls
`yywrap` back, the grammar's actions call the symbol table and the LLVM builder.
The eliminators call the worklist, and LLVM's use lists answer `isDead`. The C
interfaces (worklist, value map, dominance, CFG, loops) share LLVM objects with
their callers, who may change or delete them. The symbol table keeps the names of a
scope in a hash table. The output file of one driver is the input of the next. `RunSafelyAndStable.sh` runs
`RunSafely.sh`, which runs `TimedExec.sh`, which forks a watchdog and becomes the
program.

What makes each correct is stated as properties below, or in the plan.

## Modules

* **`IR`**: the instructions of a module as dead code elimination sees them. A
  program gives each instruction its function, the instructions among its operands
  and the kind of its opcode. `Users` is the use list restricted to instructions
  still present. LLVM is external: `Program` states its SSA rule that
  operands are of the same function, and no more, since a PHI and any
  instruction of an unreachable block may use itself or later ones. Parsing does not
  verify: `bad` holds the instructions the verifier would object to, as in what
  tutorial 3 makes of a variable that escapes its `if`. `Verifies` asks that no
  instruction has lost an operand (`Intact`) and that no bad one is left.
* **`AbstractDCE`**: the promise. Remove an unused removable instruction, one at a
  time. `Residue(p)` is the union of all self-supporting sets (each member is
  unremovable or used by a member), defined without any algorithm.
* **`DceCpp`**: `main`, `isDead` and `RunDeadCodeElimination` of `dce.cpp`.
  `EraseDead` is the body of the `if (isDead(*i))` in the drain loop with the
  removal from the worklist before it, `SkipUsed` the turn without it. The scan
  of a function changes no instruction and is one step. `main` opens its output first and
  ignores the error code (`OpenOutput`); it ends in one of `ParseFails`, `Rejected` (the
  verifier objects: no output, and status 0), `Written` and `WriteFails` (the stream finds
  its error when it is destroyed, which is fatal). `Released` is what the destructor of
  a `ToolOutputFile` leaves, `Interrupted` what a fatal error leaves.
* **`Worklist`**: the operations of `worklist.cpp` that `dce.c` calls, on a set;
  `worklist_pop` yields every member the address order may put first.
* **`DceC`**: `dce.c`. All functions are scanned before the first erasure, FNeg is
  not removable, an unreadable input is reported before any output is touched,
  too few arguments return 0, and the result of the write is ignored
  (`VerifyAndWrite`), unless it is a full disk, which ends the program (`WriteFails`).
* **`AbstractTable`**: what a hash table promises: stored items are found by
  key, which of several with one key is open.
* **`UtHash`**: the macros of `uthash.h` the repository uses, on a table with its
  two linked lists as sequences. `HASH_EXPAND_BUCKETS` turns chains over, which the
  order of searches shows. It implements `AbstractTable`.
* **`SymbolTable`**: `symbol.c`; a stack of scopes as sequences, latest entry
  first, which is how `UtHash` searches until it expands (`NewestUntilExpanded`;
  scopes with more than ten names in one chain are beyond `SymbolTable`).
* **`CmmFrontEnd`**: `main`, `yywrap`, the input side of the scanner and every
  grammar action that changes state. `lang` chooses the version; it decides the
  order in which parameters are entered, what is asked before writing, and when
  the output is opened. The grammar is abstracted to the constructs its actions
  hang on: a header, a declaration, braces, a statement, a global declaration,
  `//END`, a token out of place, an unmatched character. A statement inside
  `if`, `while` or the like is a statement or a block like any other, as these
  productions have no action. `EndOfStream` is the scanner's end of file with the
  call of `yywrap` it makes; `ScannerDefault` is flex's rule that an unset `yyin`
  is stdin (external). `num_errors` is kept as the variable it is, though nothing
  changes it; the branch that needs more than 100 errors can then not be reached
  and is left out. `NullBuilder` is the crash of the C++ version at a global that is
  initialised before the first function (`cmm.y:395`).
* **`TimedExec`**: the program and the watchdog as two processes, the clock
  (`Tick`) and the system's reuse of process ids. A `sleep` ends no sooner than it says; the
  watchdog may be scheduled any time later.
* **`RunSafely`**: composes `TimedExec` with the script that starts the program (`Start`),
  waits for it (`Wait`) and classifies the status it finds in the `.time` file. The
  status takes a long way there: a redirection that fails gives one of the shell's
  (`NotStarted`), a shell or `time` that is missing or killed gives none (`NoShell`,
  `ShellLost`; the program may then go on, and init collects it, `Adopted`), nor does a
  full disk (`Wait` again).
* **`RunSafelyAndStable`**: the two steps the script can take.
* **`Cfg`**: control flow graphs and what LLVM's analyses mean: dominators, natural
  loops, predecessors, each defined by paths. All of it is external.
* **`ListByValue`**: "the element after the one that equals `last`", the search every
  iterator of `cfg.cpp`, `dominance.cpp` and `loop.cpp` does.
* **`DomCache`**: `dominance.cpp`. Every call begins with `UpdateDominators`
  but `LLVMGetLoopNestingDepth`, which calls it only when there is no tree at all.
  A question records whether the answer is what the function's graph says at that
  moment. Clients change graphs (`Edit`) and walk over the children of
  a block, one call per step, while others ask about other functions.
* **`CfgWalks`**: `cfg.cpp` and `loop.cpp` as a client's loops: over the edges of a
  block, or over the outermost loops with the worklists of their blocks or exits.
* **`ExprCodegen`**: the grammar of `tutorial/3/C++/expr.y`. One action per
  reduction, with the code it emits into the blocks. Beside it an interpreter
  follows the source text (`env`, `meant`, `defined`), and `home` and `escaped` note where
  a variable is mentioned against the `if` statements around its first assignment. A
  machine with a place, registers and a stack executes the code (`Execute`); `Ran` is where it
  is after two steps for each reduction, which is enough, as no reduction emits more
  than two instructions and none is executed twice. The properties compare the two.
* **`Tools`**: the `main` functions of nine programs on shared files: when each
  opens, reads, writes, keeps and deletes them, with failures of the file system and
  signals at any moment. What a file holds is abstracted to what the readers tell apart
  (`Parses`): an empty file is an empty module to `parseIRFile`, though not to
  `LLVMParseBitcode`, and assembly likewise. `Released` and `Interrupted` are those of
  `DceCpp`: the destructor removes only a file it could open, a fatal error or a signal any
  file whose name was registered.
* **`DceCpp_proofs`**, **`DceC_proofs`**, **`CmmFrontEnd_proofs`**,
  **`UtHash_proofs`**, **`DomCache_proofs`**, **`RunSafely_proofs`**,
  **`Tools_proofs`**: theorems about the modules they are named after. **`Cfg_proofs`**:
  theorems about `Cfg` and the two modules built on it, `CfgWalks` and `ExprCodegen`.

Operators whose comment starts with *Mutant* are plausible mistakes in the code,
one at least for each property: with the mutant in the place of the original TLC
finds the property violated. No specification uses them.

## Runs

| run | checks | bounds, and why they are enough |
|---|---|---|
| `dce_cpp` | `WorklistAlive` (no use after free), `OperandsAlive` (no dangling operand), `PassedFunctionsClean`, `ResidueLeft` (complete, nothing needed removed, independent of the order), `CountIsErased`, `ZeroMeansWritten`, `Refines`, `Terminates` | All 512 operand graphs over three instructions of one function, with removable, volatile and unremovable ones, and a second function of one instruction: chains, diamonds, double uses, self uses and cycles of two and three; each with all instructions well-formed and with one that is not. The theorems remove the bound for all but `Terminates`. |
| `dce_c` | `WorklistAlive`, `OperandsAlive`, `AgreesWithCpp`, `Refines`, `Terminates` | The same graphs, with FNeg in the first function. |
| `front_end` | `LookupIsLexical`, `AcceptedIsComplete`, `ReadsOpenStream`, `NothingSkipped`, `EndsUnlessStdinIsDry` | Seven constructs hold a function with a parameter redeclared in its body and again in a nested block that is closed; two files, each missing or not, give every switch `yywrap` can make, inside a function too; two names, with a list of parameters that holds one twice. |
| `front_end_status` | `StatusReportsFailure`, violated | One file of three constructs. |
| `uthash` | `Fsck` (chains, counts and the list of all items agree), `NewestUntilExpanded`, `ChainsBounded`, `Refines` | Five items, two keys twice, with every way of hashing three keys to 0, 1, 2 and 4, so that keys collide in tables of 2, of 4 or for good; threshold 3 instead of 10 and 2 initial buckets instead of 32, so that an addition may expand twice. Five items of one key and a threshold of 1 make expansion give up. A table of 32 buckets (`MaxLog2` = 5) takes no more additions. The theorems remove the bounds. |
| `dominance_cache` | `FreshUnlessEdited`, `CrashOnlyAfterEdit`, `WalkComplete` | Two functions, one with every graph of two or three blocks up to renaming and two of four (nested loops, a diamond in a loop), `MaxEdits` = 1: rebuilt and stale trees, new blocks, unreachable blocks. The theorems remove the bounds. |
| `dominance_after_edit` | `TestsDominance`, violated | The same. |
| `cfg_walks` | `WalkComplete`, `EndsUnlessRepeated` | All graphs of three blocks, with repeated edges, of four blocks without, and four more with a switch, two latches, two loops: every kind of list the search by value can meet. |
| `expr_codegen` | `WellFormedUnlessEscaped`, `ReturnsWhatTheSourceSays` | Ten reductions: an assignment in an `if`, and a use behind it. Two identifiers (symmetric: nothing orders them), immediates 0 and 1, subtraction and division (not commutative, and not defined for all operands), three operands waiting (`a - (b - c)`), two statements open. The theorems remove the bounds. |
| `tools` | `ZeroMeansMade` (status 0 means the output is what the tool makes of the input), `FailureSpares` (a failed run changes the output file only, and says how) | Three runs on two files: a chain of compiler, optimiser and another, the same file for both included, each file at first missing, empty, text or assembly, good or bad; modules and torn ones come from earlier runs. |
| `run_safely` | `FullTime`, `Escalation`, `NoSignalOnceGone`, `ProgramEnds`, `VerdictReached`, `Verdict` | Timeouts 0, 1 and 3: no loop, one turn, several turns. `age` and `since` saturate where the properties stop telling values apart, so time itself is not bounded. EXITOK 0 and 1, and exit statuses for each branch of the verdict. |
| `stable_fastest` | `FastestReported`, violated | Runs of one to five seconds. |

`dce_cpp`, `dce_c` and `run_safely` also check `TypeOK`.

`LookupIsLexical` compares `symbol_find`, which walks the scope stack, with the
scope rules of C read off the sequence of constructs (`Visible`). Where one
parameter list holds a name twice, it asks for one of that header's allocas: the
two versions of the front end pick different ones.

`WellFormedUnlessEscaped` is an equivalence: the code is rejected by LLVM's verifier
exactly if a variable is mentioned outside the `if` its first assignment stands in. The
alloca is emitted at that assignment, and does not dominate a use behind the `if`.
`ReturnsWhatTheSourceSays` excepts programs whose result depends on a division by zero or a
variable never assigned, and those that reach a `while`: its production has no action, so
the interpreter gives up there (`defined`).

`ZeroMeansWritten` is nearly one: `dce.cpp` returns 0 with and without an output, but when
it returns 0 the output is there exactly if no ill-formed instruction is needed by what may
not be removed, whatever the order of the worklist. Dead ill-formed code is removed before
the verifier sees it.

`ZeroMeansMade` names what status 0 does not mean. The eliminators return 0 without an
output for a module that stays ill-formed; the C interface's write to a file that cannot be
opened is not noticed; `p1` takes a missing file for standard input. Where input and output
are one file, `p0.cpp`, `p3` and `dce.cpp` find the file they have just emptied, read an
empty module from it, write that and return 0.

`FailureSpares` says what a failed run may do to its output. The three tools that open it
first lose it; also one they could not open may be removed by a fatal error or a signal,
as its name was registered before the attempt. A part of a module is left by a full disk
where nobody registered the file, and by a signal that cannot be caught.

`Verdict` follows the status where it goes: a lost one fails the test, also if the program
returned 0; a program that was not started fails where EXITOK does, or with 126 and 127.

`EndsUnlessRepeated` is an equivalence: the client's loop ends exactly if no element is
on its list twice; two edges to one successor send it back to the first of the two for
ever.

### What disagrees with its documentation

* **`StatusReportsFailure`.** `main.c:79` says "Return an error status if it
  failed". `num_errors` is what decides, and nothing increments it: `yyerror`
  prints and returns. A syntax error in the C version writes the module built so
  far, unfinished function included, and returns 0. The C++ version looks at
  `yyparse`'s result before it writes, but returns 0 as well.
* **`TestsDominance`.** `dominance.cpp:56` says "Test if a dom b".
  `UpdateDominators` (line 37) builds new trees only for a function other than the
  last: after an edit the answers are those of the old graph.
* **`FastestReported`.** `RunSafelyAndStable.sh:6-9` promises three runs and the
  time of the fastest. Line 26 starts the first one with `exec`.

One more is part of `Verdict`, which says what the code does. `RunSafely.sh:17-20` says that
with EXITOK zero those statuses count as a failure that indicate "that the program could not
be executed normally". If the input file cannot be opened the shell of line 142 does not
start the program and echoes 1 or 2, which nothing tells from a status of the program: the
test passes.

## Fairness

The eliminators and the front end are one thread: `WF_vars(Next)` says that main
takes its next step when it has one. For the front end it also relies on streams that end
(`MaxTokens`); with `-use-stdin` an exhausted stdin is asked again for ever, which
`EndsUnlessStdinIsDry` excepts. In `run_safely` the watchdog, RunSafely (`Start` or its
failures, `Wait`, `Classify`), the `exec` and the clock are each weakly fair: the kernel schedules processes that
are ready, and time passes. Nothing is assumed of the program, which may run
forever, nor of the reuse of process ids. In `cfg_walks` the client is one thread
that goes on with its loop, `WF_vars(Next)`. The other runs check safety only.

## Proofs

### `DceCpp`

`DceCpp_proofs` proves, for every finite set of instructions, every set of
programs of `IR!Program` and every number of functions:

| theorem | property |
|---|---|
| `TypeCorrect`, `NoUseAfterFree`, `NoDanglingOperand` | `TypeOK`, `WorklistAlive`, `OperandsAlive` |
| `ResidueCorrect` | `ResidueLeft` |
| `NothingDeadBehind` | `PassedFunctionsClean` |
| `ZeroIsWritten` | `ZeroMeansWritten` |
| `CountCorrect` | `CountIsErased` |
| `Refinement` | `Refines` |

The assumptions are those of the modules: `Instr` is finite, `NumFunc` a natural
number, `Programs` a set of programs in SSA form.

The argument has two layers. `Safe` is the conjunction of the type invariant and
the two memory properties. `WorklistAlive` alone is not inductive, since
`EraseDead` queues operands: these are alive only because `OperandsAlive` holds, and
are not the erased instruction itself only because it has no user
(`UnusedIsNoOperand`). `OperandsAlive` in turn survives an erasure because the
instruction is unused (`EraseUnused`).

`IInv` adds what `ResidueLeft` needs. `SupportKept` says no self-supporting set
has lost a member: a dead instruction belongs to none of the remaining ones
(`DeadIsUnsupported`). `PassedFunctionsClean` says where dead instructions may
be, and is inductive because an erasure makes only operands of the erased
instruction dead (`NewlyDead`), which lie in the same function, the one the loop
is at (`Position`), and are queued in the same step. When the verifier is asked nothing is dead
(`VerifyClean`), so what is left supports itself, and by `SupportKept` contains
every set that does: it is `Residue` (`CleanIsResidue`). That makes the verifier's answer a
function of the module, from which `ZeroIsWritten` follows with an invariant on the state of
the output (`OutInv`): no operand is missing, so the verifier objects just if `Residue` has a
bad member.

### `DceC`

| theorem | property |
|---|---|
| `TypeCorrect`, `NoUseAfterFree`, `NoDanglingOperand` | `TypeOK`, `WorklistAlive`, `OperandsAlive` |
| `Agreement` | `AgreesWithCpp` |
| `Refinement` | `Refines` |

The same assumptions, and the same two layers. `DrainCases` reduces a turn of the
drain loop to the value that was popped. `DeadIsListed` takes the place
of `PassedFunctionsClean`: a dead instruction is on the worklist or in a function
the scan has yet to come to; operands of other functions in the list do not
matter. For `Agreement`, `SupportKept` is stated with the opcodes the C++ version
removes: an instruction dead for this version is dead for that one too
(`DeadIsUnsupported`), so what it loses the C++ version loses as well, and where FNeg
does not occur an empty worklist leaves a self-supporting set.

### `CmmFrontEnd`

| theorem | property |
|---|---|
| `LookupRight` | `LookupIsLexical` |
| `AcceptedAtTheEnd` | `AcceptedIsComplete` |
| `NeverReadsClosed` | `ReadsOpenStream` |
| `EveryFileRead` | `NothingSkipped` |

For both versions, any names and parameter lists, any number of files and any length of
the input. `LookupIsLexical` compares a stack with the text read so far, so its
invariant says what the stack stands for (`Represents`): the nesting depth of
the text is the number of open blocks; what a scope holds was declared in
the block at its height and is still visible (`HoldsVisible`); every visible declaration is in
a scope (`HoldsAll`); within a scope later entries come first (`LatestFirst`). Each is
a statement about a text `q`, so that a construct is a text that is one longer:
what was visible stays visible but for the blocks just closed, and an entry's height
is the depth its block was opened at. From these, a search from the innermost scope
outwards finds the latest visible declaration (`LookupFinds`). `ScopesBalance` counts
the scopes at each level of the grammar, `ReadsCurrent` says which stream `yyin` is, and
`ReadInOrder` that all files before the current one are drained. One assumption is
new in the module: NULL is not a symbol (`NoSymbolAssumption`).

### `UtHash`

| theorem | property |
|---|---|
| `TableIntact` | `Fsck` |
| `LatestFound` | `NewestUntilExpanded` |
| `NoLongChain` | `ChainsBounded` |
| `ImplementsTable` | `Refines` |

For any items, keys and hash values, any initial size, any threshold but 0 and any number
of expansions (`MaxLog2` is any value). The assumptions say that hash values are natural
numbers, keys are those of items, and NULL is not an item; that a size is a power of two
is how the header defines it.

`Placed` is the heart of `Inv`: the chain of a bucket lists, without repetition, the items
in the table whose hash belongs there (`Lists`). An expansion keeps it because the bucket
in the doubled table decides the one in the old (`OldBucket`), so the items of a new chain
were all on one old chain, whose items are taken over one by one (`MoverLists`). With
`Placed` the counts are the sizes of disjoint sets that make up the table, so they add up
(`SumOfParts`). The sums are the community modules' folds, whose recursive function is
shown to exist and to be independent of the order (`SumIsFolded`, `SumRemove`).

`ChainsBounded` is not inductive: an expansion could start from a table so full that the
average chain is longer than the threshold. `Bounded` adds that a bucket with a multiplier
is strictly below its bound, and that the multipliers of all buckets together are no
more than there are buckets. Then there are, with the new item, at most twice as many
items as buckets times the threshold (`RoomLeft`), the ideal length is at most the
threshold (`IdealChain`), and every new bucket is within its bound (`NewBucketIs`); the
new multipliers, each at most its count over the ideal length, again add up to no
more than the number of buckets (`ExpandBounded`). `NewestFirst`, the order of a chain
against the order of addition, holds while the table has its initial size.

### `DomCache`

| theorem | property |
|---|---|
| `AnswersRight` | `FreshUnlessEdited` |
| `CrashNeedsEdit` | `CrashOnlyAfterEdit` |
| `WalksComplete` | `WalkComplete` |

For any functions, any finite set of blocks, any set of graphs and any number of
changes. What LLVM computes enters by the named assumptions of the module, of which
`IdomAssumption` matters most: an immediate dominator is a block the entry reaches.
`Inv` joins four things: `CacheFresh` (the trees show the function they were built
for unless it was changed; the loops of a function analysed once likewise),
`EditsSeen` (without edits nothing counts as changed), the types, and
`WalkInOrder`: a walk that was not disturbed is where it would be had it kept its
position, what it has seen being the first children and `cur` the next. The last
is why a search by value works at all: the list holds no child twice
(`ChildrenListed`), so it finds the position (`NextIsNext`). A walk cannot crash without an
edit because only a live block has a child (`ParentIsLive`).

### `CfgWalks`

In `Cfg_proofs`:

| theorem | property |
|---|---|
| `WholeWalk` | `WalkComplete` |
| `NoEndIfRepeated` | the safety half of `EndsUnlessRepeated` |

For any set of finite graphs. What LLVM means by a loop is proved about here, not
assumed. `Cfg!Reachable` is a recursive function; an induction over the number of edges
(`WithinGrows`, from `Induction`, which follows from the least element of a set of
numbers) shows it to be the least set with its starting blocks that is closed under edges
(`ReachableLeast`), and everything else uses only that. For two headers: not both
dominate each other (`DominanceAntisymmetric`); if their loops share a block one of
them dominates the other (`SharedBlock`), and then its loop contains the other loop
(`LoopInside`). So loops are disjoint or nested (`LoopsNest`), and a block in some
loop is in one outermost loop and no second (`OneOutermost`, by a loop of most
blocks). That is why walking the outermost loops meets each block once
(`BlocksOfLoops` counts them). The invariant says where the client is: in a list
without repetition at the place behind what it was given (`EdgesInOrder`,
`LoopsDone`), and with a repetition always ahead of the first one (`EdgesForEver`).

### `ExprCodegen`

| theorem | property |
|---|---|
| `ExprWellFormed` | `WellFormedUnlessEscaped` |
| `ExprReturns` | `ReturnsWhatTheSourceSays` |
| `ExprShape`, `ExprSimulation` | the invariants they rest on |

In `Cfg_proofs`, for any identifiers and immediates and any bound on the length of a
program, the depth of its expressions and the nesting of its statements. The
assumptions: `Entry` is block 1, `NoBlock` is no number, and the operators are among the
four of the grammar.

`ExprShape` needs no run of the code. `ShapeInv` says that a function `nest` gives every
block the joins of the `if` statements around it such that the blocks have the
`Structure` of nested `if` statements (`Joins`, `Terminated`, `Finished`, `Made`, and
`Waiting` for the blocks still without a terminator), and that operands are where the
parser's stacks say (`Uses`), with `escaped` exactly if one of them is too far from
its use (`Strays`). `escaped` alone is not inductive: it speaks of identifiers, the
verifier of operands, and `Places` connects them through `idMap` and `home`. Dominance is
defined by paths; among these blocks one dominates another just if it is above it in the
nesting (`DominatesIsAbove`, from `ReachableLeast` above), so finished code is well formed
just if no operand strays (`WellFormedIsNear`).

`ExprSimulation` is a simulation between the machine and the interpreter, for a text that
is only partly read. As long as the interpreter has not given up and no variable has
escaped, the machine has executed the code written so far in at most two steps
per reduction (`Runs`), and what it has executed is not written again (`RunsStay`). It then
stands where the next instruction will be written or, while the body of an `if` is read
that is not executed, at the join of the outermost such `if` (`Placed`). The registers of
waiting values hold what the interpreter makes of them (`Agree`), and a variable whose
first assignment was reached has its value on the stack (`Stacked`). At the end the machine
is at the `ret` with the interpreter's result (`Returned`). That `Ran`, a recursive
function, is this state is an induction over the number of steps (`RanIs`, from
`Induction`).

### `RunSafely`

| theorem | property |
|---|---|
| `TypeCorrect` | `TypeOK` |
| `FullTimeGiven` | `FullTime` |
| `VerdictRight` | `Verdict` |
| `EscalationInOrder` | `Escalation` |
| `SilentOnceGone` | `NoSignalOnceGone` |

For any set of timeouts. `FullTime` is not inductive: `Clock` relates `SEC` to the
seconds that have passed, and during a sleep to what is left of it
(`age + timer >= SEC + 1`). `Sent` says what has been sent at each place of the
script, and that the pause since the last signal and the rest of the timer
make two seconds. `Collected` says where the status comes from that RunSafely has: from a
program that is gone, so that it does not change any more, from a shell that started
none, or from nowhere.

### `Tools`

| theorem | property |
|---|---|
| `ZeroIsMade` | `ZeroMeansMade` |
| `FailureIsLocal` | `FailureSpares` |

For any files and any number of runs. `Inv` follows a run: until it writes it has changed
nothing but an output it opened first, which is empty (`Untouched`); what it has read is what
its input held at that moment, an emptied file if both are one (`Fresh`, `Input`); and what
it holds when it writes is what it should make of that, or the same module mended by an
eliminator (`Loaded`). A lemma for each way to end (`ParseFailsStep`, `RejectsStep` and the
others) derives both properties from there.

### Only model-checked

Liveness (`Terminates`, `EndsUnlessStdinIsDry`, `EndsUnlessRepeated`, `ProgramEnds`,
`VerdictReached`) is out of the prover's reach. `TestsDominance`, `StatusReportsFailure`
and `FastestReported` are violated. Every other property of a run is stated by a theorem.

## Plan

What is left, in this order:

1. **`CmdLine`**: states of the scanner, `myinput` with a small buffer, `infile`
   with a small bound, composed with `CmmFrontEnd`'s choice of files.
2. **`Lifetimes`**: handles of worklist and value map while instructions are
   erased and replaced.

## Not modelled

* The command line scanner: for now; the front end starts from the list of files it
  delivers. The value map: nobody calls it.
* The summary: one pass that counts. The CSE passes: stubs. Statistics scripts:
  formatting. Benchmarks: programs of others.
* Of the front end: printing and verbosity, line numbers, types of values, the bodies of
  expressions, for which the grammar has no actions.
* Of `uthash.h`: sorting, selection, the Bloom filter, and the hash functions
  themselves (a key has any hash).
* Of `dominance.cpp`: the local dominance frontier and its closure. Of `loop.cpp`:
  preheaders, invariance and containment, which are passed on to LLVM. Of `cfg.cpp`:
  cloning and the skipping of PHIs.
* Of tutorial 3: scanner, precedence, overflow at 32 bits, the loop a `while` does not
  make: the code runs its body once, and `ReturnsWhatTheSourceSays` excepts programs that come
  to one. Tutorials 1, 2 and 4 are earlier stages of it or a fixed function.
* Of project 3: `-summary` and the passes it runs, which are LLVM's.
* Of `RunSafely.sh`: the `rsh` branch, resource limits and core files.
* Of the file system in `Tools`: the directory is one that may be written, a torn file is
  rejected by every reader, and nobody else changes the files.
