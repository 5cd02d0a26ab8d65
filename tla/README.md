# A verification development for Varuna

Varuna is a small ahead-of-time compiler: one process compiles one `.va` file
to an object file and a *module file* (`.vamod`, what an `import` of it reads).
This directory holds TLA+ specifications of the compiler, the TLC
configurations that check them on small instances, and proofs checked by TLAPS.

All paths below are relative to the repository; `src/src/` is where its
compiler lives.

## 1. The system

| Part | Code | State it keeps | Operations |
|------|------|----------------|------------|
| Command line, `main()` | `Main.cpp`, `CLI.cpp`, `util/ProgramOptions.*` | the options, a process-wide record read without a lock | parse, check, write the options, choose the exit code |
| Runner and thread pool | `Runner.cpp`, `Runner.h`, `Dispatcher.h`, `util/ThreadPool.h` | the pool (CTPL), two chained futures | `run`, `runFile`, `runCodegen`, `successTask`, `failedTask` |
| Frontend | `core/Frontend.cpp` | the AST, the file and its warnings | `runLexer`, `runParser` |
| Lexer and locations | `core/lexer/*`, `util/SourceLocation.*` | a cursor into the text, line and column, the tokens | next token, comments, literals |
| Expression parser | `core/parser/ParseExpression.cpp`, `Parser.cpp` | two stacks, a count of parentheses, the token cursor | `parseExpression` and the parsers it calls |
| Statement parser | `core/parser/ParseStatement.cpp`, `ParserHandle.cpp` | the cursor, the AST, the error flag | `parse`, `handle*`, `parseIfStatement`, ... |
| AST | `ast/*` | nodes and parent links | visitors |
| Code generation visitor | `codegen/CodegenVisitor*.cpp` | the symbol table, the types, the current block | `visit` per node, import and export |
| Symbol table, types | `codegen/SymbolTable.h`, `Symbol.h`, `Type*.cpp` | scopes of symbols, the known types | `find`, `addBlock`, `removeTopBlock`, insertion; casts, operations |
| Back end pipeline | `codegen/Codegen.cpp`, `util/TmpFile.cpp`, `util/Process.cpp` | files on disk | prepare, generate, `finish` (optimise), `write` |
| Module files | `codegen/ModuleFile.cpp` | the exported symbols | `write`, `read` |
| Files and utilities | `util/*` | the cache of files, loggers | reading, logging, paths |

How they interact: `main()` calls `CLI::run`, which builds a `Runner`. Its
`run` reads the file and pushes a *file task* to the pool; the file task lexes
and parses and, when that went well, pushes a *code generation task* whose
future it returns. The main thread waits for the first future and then for the
one inside it. The code generation task visits the AST (reading `.vamod` files
of the imports, writing its own), prints LLVM IR to a temporary file, runs the
optimiser and, for the requested output, `llvm-as` or `llc` as child
processes. Failure travels as an error flag, a `bool`, a null pointer or an
exception, depending on where it starts.

What is hard to get right here:

* two threads, a chain of futures and an exception that may start on either
  thread, while options are plain globals (`CLI.cpp:181`);
* files: temporary ones removed by destructors on every way out, a module file
  rewritten in place while another compiler may import it, external tools that
  fail half way (`Codegen.cpp`, `ModuleFile.cpp`);
* a hand-written operator-precedence parser whose two stacks, counter and
  cursor must stay in step through nested calls (`ParseExpression.cpp`);
* errors of the parser that are only remembered in a flag while parsing goes on;
* a code generator that walks the tree with one insertion point and one stack of
  scopes, both moved by the visits of nested statements
  (`CodegenVisitorVisit.cpp`);
* a lexer whose cursor also moves backwards, over line breaks of which it
  remembers one, and whose error messages read around the cursor
  (`LexerGetNextToken.cpp`, `SourceLocation.cpp`);
* rules of types spread over a class per operation, some of which ask the type
  of an operand, some its alias, some nobody (`TypeOperation.cpp`).

For each part, what makes it correct: the exit code tells the truth and the
process ends; tasks never share the AST and never see half-written options; a
successful compilation leaves its output and a module file of the same
compilation, a rejected one leaves the old output alone, and no path leaves a
temporary file; an importer never reads the interface of a module that was not
accepted; the parser returns, never fails without an error and builds the tree
the operators' precedences ask for; the tokens are the lexemes of the text, all
of them, where they stand; the generated blocks run the program they were made
from, names in them mean what the scoping rules say, and what the language
forbids of types ends in an error.

## 2. The modules

| Module | Models | Checked in, proved in |
|--------|--------|-----------------------|
| `Compilation` | the promise of one invocation: stages in order, each once, a truthful exit status | refined by `Runner` |
| `Runner` | main thread, thread pool, tasks, futures, exit codes | `MCRunner`, `RunnerProofs` |
| `Codegen` | the back end's steps and the files they leave, several invocations in one directory | `MCCodegen`, `CodegenProofs` |
| `SourceLocation` | a place in a text that moves both ways, and what a message reads there | extended by `Lexer` |
| `Lexer` | characters to tokens, comments, numbers, literals, errors | `MCLexer`, `LexerProofs` |
| `LexicalPlaces` | where the cursor and the tokens stand, what is undefined | `MCLexer`, `LexerProofs` |
| `LexicalGrammar` | what the tokens of a text are, without a cursor | `MCLexer`, `LexerProofs` |
| `ExprParser` | `Parser::parseExpression`: stacks, counter, cursor, nested calls | `MCExprParser`, `ExprParserProofs` |
| `ExprGrammar` | what an expression means, without stacks | `MCExprParser` |
| `StatementParser` | `Parser::run`: top-level statements, functions, the statements in them, recovery; composes `ExprParser` | `MCStatementParser`, `StatementProofs` |
| `StatementGrammar` | what a program is, without a cursor | `MCStatementParser`, `StatementProofs` |
| `SourceProgram` | what a tree means: scoping rules, order of events | extended by `CodegenVisitor` |
| `CodegenVisitor` | the walk over the tree: scopes, symbols, basic blocks | `MCCodegenVisitor`, `GeneratedCodeProofs` |
| `GeneratedCode` | what the blocks must be | `MCCodegenVisitor`, `GeneratedCodeProofs` |
| `Types` | which casts and operators a type has, aliases, equality | extended by `ExpressionVisitor` |
| `ExpressionVisitor` | what the visitor makes of expressions and of the values of statements | `MCTypes`, `TypeProofs` |
| `TypeRules` | what the guide says of types, and where the code is known to differ | `MCTypes`, `TypeProofs` |
| `StackFacts` | lemmas about sequences used as stacks | used by five of the other proof modules |

Each module is one component; definitions that are marked *Mutant* in a comment
are deliberately wrong variants of the definition below them. They are used by
no specification; each is there to show that a property notices it.

### Runner and Compilation

`pc` is where the main thread is, from `main()` through `CLI::run`, the
constructor of `Runner`, `Runner::run` with its two `get()`s, the destructor and
back. `thread[w]` is the stage a worker is in. `queue` and `done` are the state
of the pool, `outer` and `inner` the two futures. `optsSet` says that all of the
program options are written. `phase` is a history variable: the last stage of
the request that was completed; it is what `Compilation` calls `progress`.
Every stage may succeed, report (return false or null) or throw, because each
of them can in the code.

The pool is CTPL, a git submodule that is not in the repository. It is modelled
from its use and marked external: a FIFO queue, and a destructor that calls
`stop(true)`, which lets the workers empty the queue and joins them. `-j` may be
any integer; a negative one is rejected (`CLI.cpp:174`), zero is not. Exits that
LLVM's option parser takes by itself (`-help`, an unknown option) and a crash of
the process are not modelled; a program option other than the four that decide
the control flow has no place in the model.

### Codegen

`disk` maps each path of the shared directory to what it holds: nothing, an empty,
partial or whole file, and which invocation made it (`Nobody` for what was there
before). Paths are pairs of a stem and an ending, so that the stem of an output
given with `-o` can be the stem of another source. `pc[i]` follows
`Codegen::prepare`, the visitor, `ModuleFile::write`, `Codegen::finish`,
`Codegen::write` and the destructor. Every step that can fail does: a temporary
file cannot be created, a module file is missing or cut short (cereal throws on
truncated input), a tool cannot be run, is killed, or fails having left its output
as it was, half written or removed (LLVM's tools remove what they have begun); the
process may be killed between any two steps. An import takes two steps,
`OpenImport` and `FinishImport`: `reading` is the file with what it held when it
was opened, and what follows may have been written anew since, so that an importer
can get the parts of two versions. `imported` remembers who wrote the parts. Two
faults are given as constants, because the code does not notice them: the
invocations whose `rename` may fail (`RenameCanFail`), and those whose last
buffered write may be lost when the stream is closed (`DiskCanFill`). The two
properties that such a fault breaks speak of the other invocations, everything
else of all of them.

Two invocations that write the same file never overlap (`MayStart`), as a build
tool would schedule them; an importer and its exporter may. A GUID makes the
name of a temporary file unique and different from every other name
(`GuidAssumption`).

### SourceLocation, Lexer, LexicalPlaces and LexicalGrammar

`it` is the cursor of `Lexer`, a `SourceLocation`: position, line, column, and the
column the last line break was at, the only one the code remembers for going back.
`mode` is the loop of `getNextToken` under way (a word, a number and its suffix, a
literal, an operator, a line comment, a nested comment with its
`openCommentCount`); one step is one turn of it. A character is a value; of those
that the code treats alike a few are in the alphabet. `start` and `spans` are
history variables: where each token began and ended, which the code does not keep
(it goes back from the end by the length of the token's value). `getErrorMessage`
puts a line of text together between two iterators; `MessageDefined` says when
they neither pass each other nor leave the text. If they do, or `run()` looks at
the last of no tokens, the mode is `undefined`; so it is when the second pass over
a literal reads behind its last character (`Escaped`'s `past`). The default build
has assertions (`CMakeLists.txt:129-146`), and without them what they guard
against is undefined, so one that fails is `undefined` too: a prefix at the end of
the text (`BarePrefix`, `Lexer.cpp:33`) and a report at its end (`Unreported`,
`SourceLocation.cpp:168`). Numbers and escapes are read but not converted.

`LexicalPlaces` says where the cursor and the tokens are, and when something
undefined happens. `LexicalGrammar` says of intervals of the text what
a lexeme is and what may stand between two of them. An interval is blank when it
can be cut (`Pieces`) into single spaces and comments; comments nest by the
function `Nested`, recursive over intervals, which says of `(* ... *)` that its
inside can be cut into comments and characters that open or close none. No
operator is `RECURSIVE`, so both modules can be proved about. Where the code
is known to differ the difference has a name (`TakenUnseen`, `IsByte`, `EndsElsewhere`)
and the property excepts it by that name.

### ExprParser and ExprGrammar

`frames` is the call stack of `parseExpression`: each frame has its operator
stack, its operand stack, `parenCount`, the place its expression began, and who
called it (a statement, an argument list, a subscript, a variable definition).
One step is one turn of the loop, or the application of one operator. Tokens are
classes: any identifier is `x`, a good literal `1`, a literal its parser refuses
`bad`, and each precedence has a representative operator. A node carries the
position of its token, so a tree says which operator got which operand. What
the C++ leaves undefined (popping an empty `vector`, reading past the last
token) ends the parse with the outcome `undefined`.

`ExprGrammar` defines when a tree is the reading of an interval of tokens, by
precedence, associativity, parentheses, calls and subscripts, with `RECURSIVE`
`Derives`. It shares only the precedence table with the parser.

Builds with `assert()` enabled are not modelled: there `createOperator`
(`ParseExpression.cpp:63`) asserts that the token type is below 700 and is called
for `(`, which is 800, so such a build stops at every parenthesis.

### StatementParser and StatementGrammar

`calls` holds the parse functions under way (`parseFunctionDefinitionStatement`,
`parseBlockStatement`, `parseIfStatement`, ...), each with the point it has
reached and the nodes it has made. When a function needs an expression it starts
`ExprParser`, whose variables are shared (`E == INSTANCE ExprParser`), and goes
on when `outcome` says how it ended. Inside a function definition an error
hands a null pointer from caller to caller without any other effect, so `Reject`
empties `calls` at once and moves the cursor as the top-level handler does: one
token further, except under `export`. `logged` remembers the errors that are
logged without setting `Parser::error`. `result` is how `Parser::run` ended:
it returned, it threw, or it did something undefined (read past the token list,
or followed a null node when the parent links were set).

A node knows the tokens it was made of. `StatementGrammar` says of a list of
top-level nodes that it is a program for the whole token list: the nodes tile
it, blocks are closed by their own brace, an `else` belongs to the innermost
`if`, and no token is left over. The rule of a node looks at its kids, one level
down; `Level` gives the nodes so many levels below the top-level ones, and the
rules are asked of all of them. What is inside an expression is the business of
`ExprGrammar`; here only the tokens that no expression has are excluded.
`CorrectIsAccepted` goes the other way, for the programs that the comments on the
syntax of each statement and the guide allow (`Correct`): all of them are accepted
but those that hold one of the five forms of `Refused`, and those never are.

### CodegenVisitor, SourceProgram and GeneratedCode

`tree` maps the path of each node to its kind, name and type. `visits` is the
stack of visit functions under way, each with the number of kids it has visited
and the blocks it holds in local variables; one action is the piece of a visit
function between two `accept` calls. `scopes` is `SymbolTable::list`, `code` the
basic blocks in the order of their creation (`fn` is `Detached` until a block is
put into a function), `cur` the block of the builder's insertion point.
Instructions are the ones that matter to control flow and names: an evaluation,
which remembers the declaration its name was found to be, a store, a branch, a
return, `unreachable`. The allocation of a local variable stands in the entry
block and is left out. An instruction after a terminator is emitted as in the
code and goes when `Stripped` is applied at the end.

`ProgramsAssumption` says what the parser hands over: a definition has a body, a
statement has the kids of its kind, functions and globals stand at the top, a
prototype has parameters and nothing else, and the tree is one: what a path leads
through are nodes, kid by kid. A definition has its parameters and then one block,
its body (`FunctionStmt.h`), and there are no parameters elsewhere; a condition,
and each of the three expressions in the head of a `for`, is a value, as the types
of the members say (`ControlStmt.h`). The values of `let`, `return` and a global
are single expressions; `let x = let y = 1;`, which the parser takes, is left out.

Expressions are single reads, constants and calls: no operation creates a block,
so their nesting has no effect on what is modelled. Types are one bit of a
signature; wherever the code compares types, `Refuse` may end the walk, for the
reasons that `ExpressionVisitor` has. An `import` inserts declarations, as `decl`
does. Reading a function like a variable (also as the initial value of a global,
`LoadsFunction`), and declaring a function that has the name of a global variable,
end in `undefined`. `main`'s rules, exports, mangling and debug information are
left out.

`SourceProgram` says the same without a table and without blocks: `Resolve` gives
the declaration of a name from the paths alone, `EventFrom` the next thing that
happens. `FollowsSource` compares every pair of consecutive events, for both
outcomes of each condition; as the first event agrees too, every run of the code
is a run of the program.

### Types, ExpressionVisitor and TypeRules

A type is a name, a kind and the type its alias chain ends in. `Types` says
which casts and which operators exist for which kind and which of them end in a
null pointer, class by class of `TypeCast.cpp` and `TypeOperation.cpp`.
`ExpressionVisitor` runs over the nodes of one function in the order in which
the visitor finishes them, with the stack of values it keeps on the C++ stack: a
value has a type, a category, a mutability, the variable a `load` read it from,
and a term, which stands for what it is when the code runs. `memory` is what
each variable holds at that point of the code. `types` and `symbols` grow with
`use` and `let`. The result is `generated`, `rejected` (an error was reported)
or `undefined` (a null pointer was used).

`TypeRules` reads the same nodes by the guide: `Rule` is what it asks of each
node, `Lenient` where the code is known to go on with what the guide forbids,
`Withheld` where it refuses, or crashes on, what the guide allows. The three
together leave nothing over: TLC finds no program on which the code differs
otherwise.

## 3. The runs

| Run | Instance | Shows |
|-----|----------|-------|
| `runner` | pools of -1 (rejected), 1, 2, 3 threads; every command line; fair | exit codes tell the truth; tasks see settled options; the AST has one owner; nothing is left when `main()` returns; every invocation ends; the driver implements `Compilation` |
| `runner_nothreads` | 0 threads | **violated**: `-j=0` hangs |
| `codegen` | two invocations, one with every output type, `-o`, `-o=-`, `-no-module`, the other compiling the same source again or one that imports it; an import in two reads; crashes; a disk that fills for the first, a `rename` that fails for the second | importers read accepted interfaces; success means the output and a module file of the same compilation; no temporary files; rejected programs; what success leaves lasts, whatever the other does |
| `codegen_rename` | one invocation, `rename` may fail | **violated**: reported as success |
| `lexer` | 23835 texts: all of two characters, all of three from fifteen, and longer ones of words, comments, numbers, literals, operators and errors | tokens are the longest lexemes, lines and columns, what is refused, it ends, when it reads outside of the text or stops at an assertion |
| `expr` | 10615 token lists: all of up to 3 tokens, all of 4 from nine, two or more tokens after each beginning of a nested construct; 4759 expression statements | both stacks and the counter in step, no silent failure, the parser returns; the tree is the one the grammar gives |
| `expr_sign` | a sign, an operand, and more | **violated**: `-a + b` is read as `-(a + b)` |
| `expr_parens` | a prefix operator inside parentheses | **violated**: two operands are popped, one is there |
| `statements` | 13598 token lists: three tokens of top-level statements, two more tokens after each of 14 beginnings, and programs of nested statements, also in the forms the code refuses | the parser ends; what is accepted without a message is a program, no token lost; of the forms the documents list exactly five are refused |
| `statements_eof` | an error in the last statement | **violated**: the cursor passes EOF and `Parser::run` throws |
| `types` | 14426 programs of one to three statements: every operand in every operator, cast, call, definition and statement | what the guide forbids is rejected, what it allows is generated, the code computes what the program says |
| `visitor` | 9498 programs: bodies of one or two statements nested up to four deep, with and without a global; up to three of 14 top-level definitions | the code runs the program, LLVM's rules hold, names and scopes, no read before the store |

Bounds, and why they are enough:

* *Runner*: there are never more than two tasks, and the second is pushed by the
  first, so a third thread can only wait; three threads show that. TLAPS proves
  the safety properties for any number.
* *Codegen*: the properties relate one invocation with its own files, or an
  importer with an exporter; two invocations and two stems give both, and a
  rebuild in a directory that is empty or full. TLAPS proves them for any number.
* *Lexer*: it looks at the current character and at most two more (two before, for
  an escaped quote), and each loop has a handful of states; all short texts, and up
  to eight characters of each kind of lexeme, reach each of them, comments opened
  four deep, and messages on the first lines and at the end of a text.
* *Expressions*: the loop looks at one token, the token before, the token after
  and the top of each stack. Lists of four tokens and continued beginnings reach
  every branch, nested calls included, and sentences of three operators hold every
  comparison of a precedence with the one below it on the stack.
* *Statements*: a statement function looks at its current token and the next and
  calls at most one other at a time; every pair of tokens after every point where
  a function decides, and statements nested three deep, reach every branch, every
  error and every recovery (TLC's coverage shows no action that never fires).
* *Types*: a type object is asked about one or two operands, a value keeps what an
  operator one level below made of it; 18 leaves of every kind of type in every
  operator, two operators deep, with two aliases given and more defined, reach
  every class of operation.
* *Visitor*: a visit function sees its own kids and what they did to the scopes
  and the insertion point; each statement occurs around every other, in every
  position, before and after others, and three top-level definitions give every
  order of a declaration, a definition and a conflict. Of the programs
  2857 are accepted, the others break a rule of names on purpose.

Fairness: `Runner` assumes that the operating system runs every thread that can
run (weak fairness for the main thread and for each worker); `Lexer`,
`ExprParser` and `StatementParser` are a single thread that is not interrupted.
`Codegen` has no liveness property: a
child process may hang.

Deadlock is checked in every run except the one with `-j=0`, in which the main
thread really waits for ever, and `types`, where a program's end is the end.

## 4. The proofs

### The driver

`RunnerProofs` proves, for every finite set of workers and every set of job
counts (`WorkerAssumption`, `JobsAssumption`):

* `TypeCorrect`, `ExitCodeIsSound`, `OptionsAreSettled`, `AstHasOneOwner`,
  `ShutdownIsClean`: `Spec => []...` of the invariants `runner` checks;
* `DriverImplementsCompilation`: `Spec => ImplementsCompilation`.

None of the invariants is inductive. What makes them true is that at most one
task is alive at any time, wherever it is. `IInv` says where: the single token
of control is in the queue, on one worker, or in a resolved future, and the
main thread waits for it meanwhile (`QueueInv`, `MainInv`, `FileInv`,
`InnerInv`); a resolved future agrees with `phase` (`ResultInv`); no task
exists before the options do (`OptionsInv`). `InitInductive`, `MainInductive`
(one step per action of the main thread) and `WorkerInductive` (one per worker
action, for any worker) show that it is inductive; `NothingElseRuns` is the
lemma both rest on. The refinement maps `pc`, `exitCode` and `phase` to
`status` and `progress`; a step that completes a stage maps to `Advance`, the
step to `exited` to `End` (by `ExitCodeSound`), every other one stutters.

### The back end's files

`CodegenProofs` proves all six invariants of `codegen` and the action property
`SuccessLasts` for any set of invocations, sources, jobs and faults, from
`JobsAssumption`, `FaultAssumption`, `NobodyAssumption` and `GuidAssumption`. The
argument has two halves. What a step writes belongs to its invocation
(`WritesOwn`), and the files of two invocations under way never overlap
(`Exclusive`, kept by `MayStart`); so what an invocation finds on disk is what its
own last step left there. `IInv` says what that is at each control point: the
temporary files (`TmpInv`), the module file after the export (`ExportInv`), the
output before it is written (`OutputInv`). An importer is the one that does read
what another invocation writes. Whatever part of a module file is anybody's, its
writer was accepted before it opened the file (`ModuleInv`); that no crash undoes,
and it holds of what is in the importer's hands (`reading`) as of what is on disk.
For `SuccessLasts` each step is compared with the files it may change: its own
temporary ones, the two it was asked for, and the `.ll` file of `RunAs`
(`TakesAway`), the exception the property names.

### The expression parser

`ExprParserProofs` proves `TypeOK`, `ParensCounted`, `StackSorted` and
`NullMeansError` for every list of tokens. The invariant is one of frames: each
frame's operator stack is sorted between its parentheses and made of tokens
read, and while it scans, its counter is the number of parentheses on it. Why
`parseParenthesis` never reports `Parenthesis mismatch` follows. An inner call
must leave the frames below alone, and a frame that failed must have reported
before it goes, so `FramesInv` speaks of all of them.

### The statement parser

`StatementProofs` proves `TypeOK` and `AcceptedIsProgram` for every set of token
lists (`InputsAssumption`). It stands on the proofs of the expression parser, which
it instantiates (`EP == INSTANCE ExprParserProofs`): a step of the expression under
way is a step of `ExprParser` and keeps its invariant.

`IInv` is the types of the variables (`TypeInv`), what is known of a parse that ran
to its end (`Finished`) and, as long as nothing was reported, `Whole`:

* the expression that a function waits for has eaten, since it began, only tokens
  that an expression may have (`EatenInv`);
* each function under way has read exactly the tokens its point in the code
  promises, with the nodes it has made in their places, and the function it calls
  begins where it stands (`ShapesInv`); the one called by a definition is its
  body's block (`BodyInv`);
* every node made so far, on whatever level, is a leaf or a statement that keeps
  its rule (`NodesInv`);
* the top-level nodes tile what lies before the statement under way (`TopInv`).

`Whole` is what makes it inductive: `AcceptedIsProgram` itself says nothing before
the end. `Going`, `Evaluating`, `Rejecting`, `Calling`, `Returning`, `Topped` and
`Started` say once what has to be shown for the moves that the parse functions are
made of; then there is one lemma for each function, by its points. At the end
`Level` is unfolded without induction, by the least level at which a node breaks
its rule.

### The code generation visitor

The first part of `GeneratedCodeProofs` proves `TypeOK` and `ScopesNest` for
every program the parser hands over (`ProgramsAssumption`): after every step
there is one scope for the module and one for each visit under way that opened
one, whatever is nested in what, and no branch, symbol or visit refers to
something that does not exist. The invariant says of each visit how many blocks
it has saved at the point it has reached (`BlocksSaved`), since a visit function
indexes them after the statements inside it have made blocks of their own, and
that inside a function there is an insertion point (`BlockInv`). Every action
ends a visit or begins one; `Entering` and `Leaving` say once what that does to
the scopes, and what is left is one lemma per action.

The second part proves `NamesResolve` on top of that invariant. The walk is
always at a place of the tree, `Pos`: in front of a node, or behind one of its
kids (`ChainInv`: each visit is of the kid the one below has come to). `TableInv`
says that the symbol table holds exactly the declarations visible at that place
(`Vis`), one scope of the table for each statement with a scope around it, and in
a scope, of several declarations of one name, the first. What a visit function
does to the table by hand is then compared with what the place's move does to the
visible declarations: going into a kid (`EnterPlace`) and out of it
(`ReturnPlace`, `NothingEscapes`). From it `find` gives what `Resolve` gives
(`TableHere`), so what was emitted refers to the right declaration
(`EvalInv`), every node behind the walk keeps its rule (`RulesInv`), and a node at
which the walk stops without a type error breaks one.

The third part proves `WellFormedCode`, from `FlowInv`. The point of it is the
blocks that a visit function has made and not finished: the ones it is still to
put into the function (`Puts`), the ones it is still to close (`Owes`), and the
one that is current although others were made since (`StandsOK`). `HoldsAt` says
what is true of the saved blocks of each visit at the point it has reached;
`ClosedBut`, that in a function without a result every other block has its
terminator but the one being written; `JumpOK`, that each branch goes to a block
that is in the branch's function, behind its first one, or is promised to be. A
function whose body ends in a `return` gets no other terminator
(`FunctionStmt`'s visit looks at the last statement only), hence the last
conjunct: behind such a statement the current block is closed. When a function
is through nothing is promised or owed (`Finished`). That what can be reached
stays within the function is then a fact about `Reached`, by unfolding the
recursive function at each of its steps (`StaysWithin`).

The fourth part proves `StoredBeforeRead`. What makes it true is a set of
variables for each block, `In`, of which it is known that they have been stored to
whenever control enters the block. `CodeFed` says that this is a solution of the
data flow equations: a branch goes only where what is known before it covers what
the target claims, the first block of a function claims nothing, and a read is of
something known. `SInv` says that there is such a solution at every step, for the
blocks made so far; a new block gets the variables that are visible at the place of
the tree where it will be entered (`Locals`): all of those before the statement for
the block behind it, also those of the condition for a body. `Feeding` adds that the
current block has stored to the variables visible at `Pos`, and `FrameFed` what a
visit has to remember for the branches it emits only when it ends: `EndFor` goes back
to four blocks that were left open before the body was visited. A block's claim is
made when it is created and kept from then on, so each step extends `In`
(`Extends`). The variables visible at a place only ever grow from one kid to the
next within a statement (`LocalsWithin`, `LocalsBehind`), which is why the step's
branch back to the condition carries enough. `Lasting` leaves out the one
definition that the property leaves out too. That the program then runs as claimed
is again `StaysWithin`, with the blocks that do not claim the variable.

### The lexer

`LexerProofs` proves `TypeOK`, `LocationsExact`, `UndefinedOnlyWhen`, `TokensTile`
and `RefusedForCause` for every text (`TextsAssumption`: it consists of characters
of the alphabet). None of them is inductive. For the first three: `createToken`
finds where a token begins by going back from its end, and a `SourceLocation`
remembers the length of one line only. `Exact`
says that the remembered column is that of the last line break, and `BackSpot`
that going back then gives the right line and column if it meets at most one line
break, at the farthest character. That this is so is what `LoopInv` is
for, loop by loop: what was read since `start` has no line break in it, apart from
the first digit after a prefix, which may be any character. A literal's value
may be shorter than what was read, since escapes become one character, never
longer (`EscapedLength`). `MessageFacts` says at which
places a message cannot be made; in each loop that reports something,
`UndefinedOnlyWhen` names them. Its cases are six; that the second pass leaves a
literal only when it ends right after an escape with digits left to read
(`ShortEscape`) comes from unfolding that pass at the escape it is at.

`TInv`, on top of that invariant, is for the other two. It says what the text behind
the cursor is, seen from the grammar:

* each token so far is the lexeme the grammar names, as long as it can be, and
  between two of them the text is blank (`TiledInv`);
* behind the last token, up to the cursor or to the comment under way, it is blank
  too (`BetweenInv`). A nested comment has `openCommentCount` openings that wait for
  their ends. `CommentInv` keeps them as a chain: each opening has pieces behind it
  up to the next one, and whatever end the outermost comment may have, there is a
  chain of ends, one for each opening, within it. The second half is what decides
  that a comment the code ends is the one the grammar ends, and that one cut off by
  the end of the text has none;
* the loop under way has read a beginning of its lexeme (`LexemeInv`): `ReadWord`,
  `ReadOperator`, `ReadNumber`, `ReadSuffix`, `ReadLiteral`. `ReadSuffix` also
  says that the suffixes that may still be read from here are those that may be
  read from the end of the digits, since the grammar speaks of the longest choice
  of them and the code takes one at a time;
* at the end, either the text was refused at a place where no lexeme begins, or
  where `TakenUnseen` or `IsByte` says which one it is, or EOF is the last token
  (`EndInv`).

There is one lemma for each action; under them are lemmas about the text alone: what
the first piece of the inside of a comment can be (`InnerFirst`), what a turn of the
comment loop does to the two chains (`CommentGoes`, `CommentDeepens`,
`CommentCloses`), that where a number begins no other number does (`OnlyNumber`).

Going back, taking escapes out and `Nested` are recursive functions. They are
unfolded without induction, by the least `n` that breaks what is claimed
(`LeastExists` of `StackFacts`).

### Types

`TypeProofs` proves `TypeOK`, `ForbiddenIsRejected`, `AllowedIsGenerated` and
`RunsAsWritten` for every program and all the types, variables and functions that
are there before it; `RunsAsWritten` itself says nothing of a program that uses
the value of an assignment (`Chained`), where the code does something else. The
assumptions say what the code ensures before a body is visited: the built-in types
are in the type table and an alias ends in one of them (`TypesAssumption`),
variables have a type that is known and not `void` (`NamesAssumption`), parameters
likewise (`FunctionsAssumption`); a program is what the parser makes, the operands
of each node being visited before it (`ProgramsAssumption`).

The visitor and the guide's reading of a program go hand in hand. `IInv` relates
the two after the same number of nodes: the tables hold the same types and
variables (`Tables`), operand by operand the value has the type, category and
variable the reading gives it (`Agree`), and, in programs without an assignment
used as an operand, the same term (`Terms`). When the visitor has stopped, the
node it stopped at breaks a rule, or is one of the deviations by
name (`Blamed`). There is one lemma for each kind of node: `Rule`,
`Lenient` and `Withheld` together leave no case over, for all types rather than
those of the run.

`StackFacts` has the lemmas about sequences that all of these but the first two rest
on: what
`Append`, `Front` and `Last` do to a sequence of anything, and that a set of
numbers that is not empty has a least one.

### Only model-checked

* Liveness (`Termination` of four modules): out of the prover's reach.
* `ReadAsExpected` of `ExprGrammar`: the grammar, `Derives`, is a `RECURSIVE` operator,
  of which the provers know nothing. It could be a recursive function that gives the
  trees of each interval; the theorem would then be about every list that the grammar
  reads and in which no binary operator follows a prefix operator's operand (the code
  misreads those, `expr_sign`), and its proof an induction over the derivation that
  follows the two stacks. That is not done.
* `CorrectIsAccepted` of `StatementGrammar`: that nothing correct is refused, for
  the programs of the constant `Correct` but the five forms of `Refused`. It is a
  statement about those lists; for all correct programs it would be an induction
  over the grammar's nesting.
* `FollowsSource` of `GeneratedCode`: it compares two recursive functions over
  paths, the one through the tree and the one through the blocks, so a proof is an
  induction over both.

## 5. Where the code and its documents disagree

The runs marked *violated* are disagreements with a document, a test or an
error message of the repository, listed in `PROJECT.json`. Others were met while
reading and have no run of their own:

* options are written after the pool's threads were spawned (`CLI.cpp:179-191`),
  against the comment in `ProgramOptions.h:77`. No task can tell: `OptionsSettled`;
* with a full disk, the module file is reported as written (`ModuleFile.cpp:56-66`
  never looks at the stream again): `SuccessMeansModuleFile` would fail for the
  invocations in `DiskCanFill`;
* an argument list cut off by the end of the file moves the cursor past EOF
  (`ParseExpression.cpp:462`); so do a parameter's type (`ParseStatement.cpp:543`)
  and the definition after `for` (`ParseExpression.cpp:316`). The next read is
  undefined, unless the top-level loop comes first and throws. The report of a
  missing operand is such a read (`ParseExpression.cpp:258`, `:273`);
* a global variable without its semicolon becomes a null node
  (`ParserHandle.cpp:86`), which the parent solver dereferences
  (`Parser.cpp:26-27`): the model's `EndGlobal` and `Return`;
* `import a import b;` and `export` before anything but a definition are logged as
  errors, but `Parser::error` is not set (`ParseStatement.cpp:162`,
  `ParserHandle.cpp:143`): compilation goes on without the statement, hence
  `~logged` in `AcceptedIsProgram`;
* a parameter's type may be any token, and the first token of a `for`'s definition
  is taken for `let` unseen: `def f(a: ;)` and `for x a = 1, , ) ;` are accepted;
* of what the comments on the syntax of statements list, five forms are refused
  (`Refused`; `CorrectIsAccepted` says no others are): `if` and `while` without
  their optional condition, `if () ...` (`ParseStatement.cpp:258`, `:317` against
  `:270`, `:329`); `for () ...` (`:370-375` against `:448`); a `for` whose head
  has the semicolons of the comment (`:449`), for the code asks for commas; `let
  x;`, with neither a type nor a value (`ParseExpression.cpp:310` against `:374`);
  and the guide's `var`, which no part of the lexer or parser knows: it is read as
  a name, so that in a function `var c = true;` is an expression that drops an
  operand, and at the top level, or with a type, an error;
* the guide says that leaving out the parentheses of a condition "sometimes" is an
  error (`quick-guide.md`): they are optional, each for itself; it is an error when
  the statement begins with a token that ends no expression (`if a return b;`);
* `Parenthesis mismatch in expression` is never reported: `ParensCounted`;
* a failed literal or variable definition inside an expression is treated like
  an unknown token: the expression goes on, only the error flag is set;
* a definition that is the whole then-branch is visible in the else-branch,
  uninitialised: `if a let x = 1; else f(x);` (`CodegenVisitorVisit.cpp:37`, one
  scope for all of the `if`): the exception `LeaksIntoElse` in `StoredBeforeRead`;
* a missing `return` in a function with a result is no error: its end is
  `unreachable` (`CodegenVisitor.cpp:189`, with a TODO); `return;` in such a
  function is accepted too (`CodegenVisitorVisit.cpp:817`);
* a second definition of a function with the same signature, and a second parameter
  of the same name, are accepted silently; the first one counts. A function named
  like a global variable uses a destroyed symbol (`CodegenVisitor.cpp:274`);
* instructions behind a terminator are erased one after the other
  (`CodegenVisitor.cpp:178`) while later ones, which use their values, still stand;
  LLVM's own assertions, where it has them, stop there;
* `1 2;` drops an operand, `1 2 +;` is accepted, `a[1 + 2]` is rejected;
* when the optimiser or `llc` fails, the module file on disk is already the new
  one; when `llvm-as` cannot be run, a `.ll` file the invocation never wrote is
  removed (`Codegen.cpp:269`), another invocation's output perhaps: `TakesAway`,
  the exception of `SuccessLasts`. An importer that reads while a module file is
  written anew may get a mixture of two accepted versions (`ModuleFile.cpp:57`);
  with `-o=-` LLVM IR is printed before optimisation.

Of the lexer:

* an error message is undefined when the place is a line break (of a literal that
  the end of its line cuts off, or behind a number with a wrong suffix, as in
  `a 1z`) or the end of a text that ends in one, or on line 2 when line 1 is empty
  (`SourceLocation.cpp:168`, `:239`, `:261`); and when the first token is an error,
  `run()` looks at the last of no tokens (`Lexer.cpp:96`). A message shows the last
  line of a text without its last character;
* a report at the end of a text that has no newline there breaks the precondition
  of `SourceLocation.h:44`, and the assertion at `SourceLocation.cpp:168` stops the
  program: a block comment that is not closed, a wrong suffix, a literal with an
  escape that the end of the text cuts off;
* a text that ends in a prefix (`0x`) stops at the assertion of `Lexer.cpp:33`;
* the second pass over a literal dereferences `buf.end()` when the literal ends in
  `\x`, in `\o` or in one digit of such an escape (`LexerStringMatch.cpp:159`, `:168`,
  `:180`). `UndefinedOnlyWhen` has exactly these and the three items before;
* the location of a literal, or of a number with a prefix, is not where it begins:
  the code goes back by the length of the value, without quotes or prefix;
* the guide's suffix `o` makes `0o` a byte (`quick-guide.md:27`); the code reads
  the prefix of an octal number, and takes any character for its first digit
  (`0x;`). So `0o+a`, where the lexeme `0o` begins, is refused: `TakenUnseen`;
* the guide's `0b01010101b`, "type byte, value 85" (`quick-guide.md:64`), is refused at
  its suffix (`LexerGetNextToken.cpp:189-218`): `IsByte`;
* whether a quote is escaped is decided by two characters: after three
  backslashes it ends the literal. `\"` in a character literal loses its quote. A
  literal that the end of the text cuts off is accepted;
* a float may have several dots, a number several suffixes.

Of types:

* unary `+` looks up a type `int`, which does not exist unless the program defines
  it (`TypeOperation.cpp:135`); the guide says it casts to `i32`;
* a cast to or from `bool` compares with a null pointer; `f32` to `f64` and back,
  and `byte` to `byte` or a float, are refused;
* `=` to a `bool`, float, `string` or `cstring` variable does not compare the types
  (`TypeOperation.cpp:538`), against "No implicit conversions between any of the
  types are allowed"; a `byte` variable cannot be assigned at all;
* `not` is accepted for integers; `==` is not for `byte` and `string`, `<` not for
  `bool` and `char`;
* an alias becomes its underlying type implicitly, not the other way; so
  `let x: my;` without an initialiser is always refused. An alias of `void` counts
  as sized, and its initial value is a null pointer;
* an undeclared type in a `let` is a null pointer behind an `assert`
  (`CodegenVisitor.cpp:364`); a function's name read as a variable, or given as the
  initial value of a global, is loaded from;
* calling a function without a result gives its value a name, which LLVM forbids
  (`TypeOperation.cpp:862`);
* an assignment used as an operand gives the value from before it: `a = b = 1`
  stores the old `b`. `and` and `or` evaluate both sides;
* two functions may get one mangled name: a repeated built-in type is written
  `S_`, whichever it repeats, so that `f(i32, i8, i8)` and `f(i32, i8, i32)` are
  both `_Z1fiaS_` (`CodegenVisitor.cpp:495`); read, not modelled.

## 6. What is not modelled, and the plan

Not modelled yet, and worth doing next: what a **module file** holds: which symbols
are exported and inserted again by an import, under which mangled names; `main`'s
rules; the names of files derived from `-o` and from the input (`Codegen.cpp:22`,
`CodegenVisitor.cpp:409`).

Not planned: debug information, logging and error formatting, conversions of
numbers and escapes, the declaration of the options, the AST's dump, serialiser
and parent solver (traversals without decisions: the paths of `SourceProgram`
stand for the parent links, which `CodegenVisitor` follows), LLVM itself, what a
platform other than Unix does, vendored code.
