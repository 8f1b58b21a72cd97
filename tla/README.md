# Verification of the lilang compiler

lilang (`src/`) compiles a small imperative language to LLVM IR. The program is
one C++ process without threads: flex makes tokens, a backtracking parser makes
a tree, `TypecheckerVisitor` walks the tree, `CodegenVisitor` walks it again and
drives LLVM's `IRBuilder`, and LLVM's verifier has the last word; the script
`driver.sh` runs it, `llc` and `clang` in a row. What is hard here is seldom
interleaving. It is agreement: the characters are cut into tokens by rules that
overlap; the parser undoes by hand what a failed alternative consumed; two
visitors keep track of the same names, types and blocks in different ways, each
in state that outlives the visit that changed it; what the generated program does
is fixed by the order in which instructions are inserted; and the script's
intermediate files outlive an invocation that failed. The modules state what each
stage must establish for the next one, let TLC try everything within bounds, and
prove the central agreements for every program.

## Inventory

| component | state it keeps | operations | how it meets the others |
| --- | --- | --- | --- |
| lexer (`lexer.l`) | the input position, `tokenVal` | one rule per token | fills the token buffer |
| parser (`parser.cpp`) | `tokens`, `curTok`, `curTokIdx`, `curVal` (globals) | one `parse...` function per production, each of which may fail and leave the position to its caller | builds the tree |
| AST (`baseast.*`) | the nodes; `result` (typechecker) and `llvmVal` (code generator) in each | `accept`, `createValue` | read and annotated by the visitors |
| tokens (`consts.hpp`) | none | predicates on operators and types | used by parser and visitors |
| symbol table (`symtab.*`) | a chain of tables, each owning its parent | `addSymbol`, `addFnSymbol`, `hasSymbol`, `getFnProto`, `getEnclosingFnProto` | used by the typechecker |
| typechecker (`typecheckervisitor.cpp`) | `_symTab` | a `visit` per node, `EnterScope`, `LeaveScope` | throws on a bad program; leaves `result` in expressions |
| code generator (`codegenvisitor.cpp`) | `_NamedValues`, `_scope`, `_arrayDecls`, the `IRBuilder`'s insertion point, the module | a `visit` per node | reads the tree; throws when verification fails |
| settings (`utils.hpp`) | an unordered set of option strings | `isOn`, `getOptionValue`, `getWidth` | read by `main` and the code generator |
| AST printer (`printvisitor.cpp`) | `_depth` | a `visit` per node | output only |
| `main` (`parser.cpp`) | none | reads the file, runs the stages, catches `Exception`, writes the IR | |
| runtime (`runtime.c`) | none | input, print, abort, power | called by the generated program |
| generated program | its stack, variables and arrays | the instructions that the code generator made | |
| driver (`driver.sh`) | the files `a.ll`, `a.o`, `a.out`, from one invocation to the next | `lilang`, `llc`, `clang`, `rm` in a row | |

What makes each one correct:

* **Lexer**: the buffer holds the tokens that were written, whatever blanks,
  comments and continued lines are between them.
* **Parser**: it ends, stays within the buffer, accepts the grammar of the README,
  and builds a tree that says what the tokens say.
* **Symbol table and typechecker**: scopes are entered and left in pairs; no
  scope shadows another; a return finds the prototype of its own function; the
  type in `result` is that of the value.
* **Code generator**: a name finds the alloca of the declaration that is in
  scope; every basic block ends once; each block's arrays are released when the
  block ends, and no others; uses are dominated by their allocas.
* **Both visitors**: a program the typechecker accepts compiles.
* **Generated program and runtime**: it does what its source says.
* **AST printer**: the output is an outline of the tree.
* **Settings, `main` and driver**: what is reported as built is the source that was
  read, with the width that was asked for.

No part of the compiler runs concurrently with another. The concurrency there is
is with the user: the source may change, and an invocation may be interrupted,
between any two steps of the driver, which keeps files from one invocation to the
next. The other hazards (`PROJECT.json`, `hazards`) are long legal sequences of
statements that lead one visitor's state away from the other's, state that is stale
when used, the order in which rules, alternatives and instructions are tried or
inserted, loops that need not end, and widths.

## The modules

```
Lexer <- Writing <- MCLexer

LilTypes <- Grammar <- Parser <- Parsing <- Sentences <- MCParser
                                 Parsing <- Spans, Sentences <- ParserProofs <- SpanProofs

LilTypes <- SymbolTable <- AST <- Typechecker --+
                           AST <- Codegen ------+-- Compiler <- Scoping <- MCCompiler
                    IRFunction <- Codegen           |   Scoping <- OpenBlocks <- Flow
                                                    |
                                                    |   SeqLemmas, OpenBlocks <- TypecheckProofs
                                                    |   TypecheckProofs, Flow <- CompilerProofs <- ArrayProofs
               IRFunction, Words <- Machine  -------+
                           Words <- Meaning  -------+-- Generated <- MCGenerated

Printer <- MCPrinter, PrinterProofs  Building -- Driver <- MCDriver, DriverProofs
```

(`<-` is EXTENDS, `--` INSTANCE.) `PROJECT.json`, `map`, has the lines that each
definition models. The mutated forms of definitions (`MineOnce`, `BranchAlways`, ...)
stand before the definition they replace; no specification uses them, and they show
for each property a plausible slip in the code that breaks it.

### From characters to tokens

* `Lexer`: `Rules` are the rules of `lexer.l` in their order, each with the strings it
  matches and the token it returns; `Match` is one round of `yylex()`, with flex's
  longest match; `tokenVal` is the loop that makes a string's value from its text;
  `EndOfFile` is what `main()` appends.
* `Writing`: someone writes a file. `Words` and `Piece` are the README's spelling,
  not the lexer's. Between two tokens stands one of the gaps of the selection.

### From tokens to the tree

* `Parser`: the recursive descent. `calls` is the stack of parse functions that are
  running, each with the index it was given, how far it has got and the nodes it has
  built; an action is the stretch of a function between two calls. Nothing undoes the
  position but the functions themselves, as in the code. The buffer is complete before
  the parser starts, but nothing depends on a token that has not been looked at, so
  `ReadToken` chooses it then.
* `Grammar`: the README's grammar as `Rules`, and the program text that a node stands
  for as `Text`, a function of the fields of the node classes. A tree is represented by
  its text, a null child by a hole.
* `Parsing`: the properties, for every buffer. `Sentences`: the buffers of a goal. A goal
  is a sentence of the grammar, or a beginning of one that goes on with any tokens.
  `Spans`: the inductive invariant of `Faithful`.

### From the tree to a verified function

* `LilTypes`: the type tokens, symbol types, conversions, operator predicates,
  and the typing of binary and unary operators.
* `SymbolTable`: the chain of tables as a sequence, outermost first. A symbol
  carries the declaration it comes from, which the code does not store and the
  properties need.
* `AST`: the program as the sequence of its nodes in the order both visitors pass
  through them, its departures from the class hierarchy (in the module's header),
  and the phases of `main`.
* `Typechecker`: the recursion of the visitor is `visiting`, the sequence of the
  visits in progress. An action is the stretch of one `visit` between two
  `accept()` calls, so an exception or a failed assertion in the middle of a
  visit stops it there. The program is not fixed in advance: the next node is
  chosen when the visitor gets there, among those the parser can build, so that
  one run covers every program within its bounds. `DeclareFunctions`,
  `EnterFunction`, `LeaveFunction` are `visit(Program)`; `VisitX`/`FinishX` the
  parts of `visit(X)`; `EnterBlock`/`LeaveStmtBlock` the accept of a block.
* `IRFunction`: what LLVM does with the instructions, as the code uses it: blocks,
  an insertion point, `getTerminator`, and the two conditions of `verifyFunction`
  that a program's shape can break (each block has its one terminator, last; uses
  are dominated). Also the stack saves outstanding along the paths of a function.
* `Codegen`: one action per node, with `named` for `_NamedValues`, `scopes` for
  `_scope` together with the visits that pushed its blocks, `arrayDecls` for
  `_arrayDecls`, `ir` for function and builder, `val` for the LLVM types of the
  `llvmVal`s. Each instruction keeps its operator, its operands and the node it is
  made for. `err` collects what the verifier would refuse. A GEP through a null
  or wrongly typed alloca is the ending `crash`.
* `Compiler`: the two in a row, as in `main`, and the properties.
* `Scoping`, `OpenBlocks`, `Flow`: the inductive invariants of the proofs, in named parts.

The variable `trail` is a history variable: the chain the typechecker had before
each node. `decl` in symbols and allocas and `base` in visits are of the same
kind. They are written and never guard a step.

### The function when it runs

* `Words`: integers of `Bits` bits in two's complement.
* `Machine`: what the instructions do: one action per kind of instruction, with the
  functions that wait for their callee, the variables and values of the one that runs, the
  stack of arrays, the pointers to them (which say when their array has been given back), the
  saved stack pointers and the functions of `runtime.c`. What LLVM leaves undefined (an
  access to what is not allocated or has been released, a quotient that does not exist, one
  call too many for the stack) ends the run as `undefined`.
* `Meaning`: the abstract specification, what a program means to one who reads its
  source: a walk over the nodes, with a variable for each declaration of the function it is
  in and an array for each array in scope, no blocks, no branches, no stack. Array variables
  and parameters refer to arrays, which are known by the call and the declaration that made
  them; a reference outlives its array as one to an array that is gone, with its size. Of
  what the source promises `Meaning` leaves open only what the README does not settle or the
  code does not keep: a `bool` starts with any value, a variable keeps its value when its
  declaration is passed again, any call may be one too many, and a negative exponent, a
  quotient that does not exist, an array of negative size and an element of an array that is
  gone have no meaning.
* `Generated`: `Compiler`, and then `Machine` on the module it has made. `Source` is the
  refinement mapping: the node that the source, or a call that waits, is at is that of the
  next instruction which does a node's work; a variable is the memory of its alloca, an array
  what the stack holds for it while its scope lasts, a reference the pointer, the turns of a
  `for` its counter. The history variable `functions` keeps the `ir` of each function that was
  finished, which is the module.

### Beside the pipeline

* `Printer`: each visit is a row of items, in the order of the code: a line, a `_depth++`, a
  `_depth--`, or children of a sort. An action does the next item of the innermost visit, so
  a raise and the lowering that is to undo it are two steps, with whatever is accepted between them.
* `Driver`: the steps of `driver.sh`, with those of `main()` that read options and files.
  Each may fail, an interrupt may come between any two, the source may change at any time,
  and the files stay for the next invocation. The iteration order of the unordered set of
  options is any order.
* `Building`: the abstract specification of an invocation, without intermediate files.

## Properties and runs

Deadlock is checked in every run. Every specification has an `Ended` that stutters in
the final states of the stage and nowhere else, so a passing run also shows that no
visit, parse, reading or run of the generated program gets stuck halfway.

| run | module | bounds | distinct states | shows |
| --- | --- | --- | --- | --- |
| `lexer` | `MCLexer` | any two tokens of the language; up to four of those that share characters; strings of up to two pieces; every kind of gap | 341 000 | `ReadAsWritten`, `LinesKept` |
| `parser` | `MCParser` | every sentence for each kind of phrase up to 17 to 23 tokens, and every continuation of a beginning up to 13 to 18 | 950 000 | `TypeOK`, `WithinBuffer`, `NullsKnown`, `Faithful`, `Accepted`, `RoundTrip`, `TerminatesOrSpins` |
| `spin` | `MCParser` | bodies of array declarations, 12 tokens | violated | `Terminates` |
| `control` | `MCCompiler` | 3 names (one begins `lilfn_`), `void main()`, 9 nodes: array declarations, element reads and writes, if/else, while, bare blocks, returns, aborts | 719 000 | `ArraysOwned`, `SavesBalanced`, `TameProgramsCompile`, `ReturnFindsItsFunction`, `NoReleasedArrayUsed` |
| `scopes` | `MCCompiler` | 3 names, `main` with an array parameter, 9 nodes: int and bool declarations, uses, assignments, bare blocks, for, if/else, return | 168 000 | `TypeOK`, `NoShadowing`, `ScopesMatch`, `BindingAgreement`, `TameProgramsCompile` |
| `expressions` | `MCCompiler` | 4 names, ten lists of prototypes (recursive, two functions sharing a parameter name, no `main`, repeated names, a runtime function's name), 5 nodes: every expression, call, return, print, abort; one operator of each typing class | 965 000 | `ValueTypes`, `TameProgramsCompile`, `BindingAgreement` |
| `names` | `MCCompiler` | 5 nodes | violated | `NamesChecked` |
| `width` | `MCCompiler` | 5 nodes, `-width=32` | violated | `WidthCompiles` |
| `execution` | `MCGenerated` | 3 bits, stack for 2 calls, eight selections of the language: branches, loops and variables (9 nodes); `for` over written arrays (15); arrays in blocks and loops (8); expressions (8); copies of array variables, out of inner blocks (14) and by choice (11); recursion (10 and 5); an array written to by the function it is passed to (6 and 9) | 273 000 | `Implements` |
| `zeroinit` | `MCGenerated` | 6 nodes | violated | `NoneUninitialised` |
| `printer` | `MCPrinter` | 6 nodes of every class, and the children they must have | 221 000 | `TypeOK`, `Restored`, `Outline` |
| `driver` | `MCDriver` | 3 programs, command lines of up to 2 arguments, all failures and interrupts | 110 000 | `TypeOK`, `Implements` |

* `ReadAsWritten`: the tokens in the buffer are those that were written, if and only if no
  two of them stand together in a pair of `RunTogether` (two words; a minus or a number and a
  number; two marks that begin as another one does) and no string has an escape other than
  `\n`. The second is a divergence from `README.md:58`, which gives `\"`, `\t` and `\\` as
  well: of `\"` the quote is dropped and the backslash kept, `\t` stays two characters,
  and the `n` after `\\` is read as `\n`. `LinesKept`: no end of a line is lost or made.
* `WithinBuffer`: no function looks beyond `End`. `NullsKnown`: a child that could not be parsed makes its
  parent fail, but at the four places in `KnownHoles`. `Faithful`: an accepted program has
  the tree that was written, though it may have a null child in four places; for programs in
  which each `else` has its block, every bracket is closed, and a name and its `[` follow
  wherever the parser asks for the name of an array (`NameDue`: after `array` at the beginning
  of a line or after a block, and after the commas outside brackets of that line), as it
  passes over tokens otherwise. `Accepted`, `RoundTrip`: what the README's grammar derives is accepted,
  with its own tree. `TerminatesOrSpins`: the parse ends, unless in the loop of
  `parseArrayDecls`.
* `NoShadowing`, `ScopesMatch`: the scope chain. A name occurs once on it, and it is
  as deep at each statement of a block as when the block was entered.
* `ReturnFindsItsFunction`: `getEnclosingFnProto` guesses the function's scope from
  its size and a prefix. The guess is right, or a variable named `lilfn_...` stops it.
* `BindingAgreement`: `_NamedValues` is one flat map that forgets nothing when a block
  ends; wherever it is read for a visible name, it holds the alloca of the
  declaration the typechecker resolved the name to, with its type.
* `ValueTypes`: the type of every LLVM value is the one the typechecker computed.
* `ArraysOwned`, `SavesBalanced`, `NoReleasedArrayUsed`: the array stack is released
  block by block, whatever returns and aborts do; on every path of a verified
  function saves and restores pair up, and no array is addressed after its release.
  The last is for programs in which every indexed name is an array in scope, which
  the typechecker does not ensure.
* `TameProgramsCompile`: a typechecked program compiles, if it is *tame*. The
  definition of `Tame` is the list of what an accepted program can do that code
  generation cannot follow, and the property says the list is complete within the
  bounds: a return or an abort inside a loop's body or a bare block of which more
  follows; an abort after an array declaration in its block; returning an array;
  void variables and void choices; indexing what is no array; `sizeof` or `for` over
  anything but a name; the name of a runtime function.
* `Implements` of `Generated`: every step of the generated program is the work of the node
  its source is at, or no node's work. The programs that are run index only
  arrays in scope, and their `main` has no parameters.
* `Implements` of `Driver`: what an invocation with a plain command line reports as built is
  the executable of the source it has read, of a width that was asked for, whatever
  earlier invocations left behind. A command line is plain if it has no `--help` and no
  `--print-ir` of its own: with one of these an `a.ll` left by another invocation may be
  compiled.
* `Restored`, `Outline`: at each line of a visit of the printer, and when it returns, each
  `_depth++` it has passed is undone by a `_depth--` of its own, whatever was accepted in
  between and whichever parts the tree lacks; one that is missing breaks both. And the last line above a line that is less indented is the one that heads its part of the tree,
  `else` parts (printed at the depth of the `if`'s own line) and bare blocks excepted.

**Bounds.** *Compiler:* a name clash, a re-declaration after a block, a lookup that could
meet a stale entry and an early return all need at most two or three names and two nested
blocks, which nine nodes hold with a declaration and a use in each. Expressions are
typed one node at a time; five nodes hold an operator over operators inside a
statement. `MaxArgs` is the number of arguments of an abort, which the code
generator never looks at. `MaxNodes` bounds where a statement or a compound
expression may begin; what was begun is always finished, so no run ends in the
middle of a program. The lists of a declaration or a print with several items are
several nodes. *Lexer:* a token is decided by itself and the characters after it, so
two tokens in every combination, four of those that share characters, and the four kinds
of gap between any two cover the rules' conflicts; `DIGIT` and `ALPHA` hold the characters
of the words tried. Strings have up to two pieces; none is left open or goes over several
lines. *Parser:* the phrases of `AllGoals`, each around one kind of backtracking: the
longest alternative of each production and a second item in each list fit in the 13 to 23
tokens. *Execution:* three bits hold a negative, a zero, a size, an index beyond the
end and an overflow; each selection of `MCGenerated` gives one group of
constructs the size it needs (`for` needs a declaration, a store, the loop and its body: 15
nodes) and says how often each kind of node may occur (and, for the copies out of inner
blocks, what the program begins with); two calls on the stack are a
function that calls itself, and a third one is refused. *Driver:* three programs (one always refused, one at 32
bits only), every command line of two arguments and every pair of options of one name.
*Printer:* six nodes, and beyond these the children a node cannot be without, hold a statement
with its children inside another one, an `else` part, and two statements or arguments one after the other.
Mutants of the mapped definitions show that the cases happen.

**Fairness.** Only the parser's runs have it: `WF` of the whole next step of the sentence.
One thread runs, nothing waits for anything, and the file ends, so the step that
is possible is taken. The visitors, the printer and the lexer consume their input with every
step but those on the way to the next, and that they do not get stuck is the absence of
deadlock. The generated program may loop for ever if its source does; the driver may be left
idle for ever.

**Refinements.** `Driver` implements `Building` (checked and proved). `Generated` implements
`Meaning` (checked only: the mapping follows branches with a recursive operator, which the
prover does not have, and `Meaning` finds the next node the same way).

## What the violation runs show

1. `names`: a function's name used as a variable passes the typechecker and fails the
   assertion of `createValue` (`baseast.cpp:36`). The property is violated in two more ways, seen
   as exceptions in the passing runs: a return in a block whose only declaration is a
   variable `lilfn_...` fails the assertion of `getEnclosingFnProto` (`symtab.hpp:105`),
   and `visit(ArrayExpr)` never looks its name up, so `x[0]` is accepted for anything, though
   the check for assignments says "Only arrays can be indexed using [] operator"
   (`typecheckervisitor.cpp:128`).
2. `width`: with `-width=32` a declaration of a variable is enough for the module not
   to verify (`parser.cpp:35`).
3. `spin`: `array 5` keeps `parseArrayDecls` in its loop for ever, where the tests expect a
   refusal (`parser.cpp:327`).
4. `zeroinit`: a `bool` variable is cleared with a length of 1 / 8 = 0 bytes, and read before
   it is written, where `README.md:67` promises 0 (`codegenvisitor.cpp:80`).

Other departures are stated as exceptions where the passing properties are: `Tame`,
`EscapesUnderstood`, `KnownHoles`, `ElsesHaveBlocks`, `ArraysNamed`, `IsPlain`.

## Proofs

| theorem | module | states |
| --- | --- | --- |
| `TypeCorrect` | `CompilerProofs` | `Spec => []TypeOK` |
| `Unshadowing` | `CompilerProofs` | `Spec => []NoShadowing` |
| `ScopesLeft` | `CompilerProofs` | `Spec => []ScopesMatch` |
| `BindingsAgree` | `CompilerProofs` | `Spec => []BindingAgreement` |
| `EnclosingFound` | `CompilerProofs` | `Spec => []ReturnFindsItsFunction` |
| `Inductive` | `CompilerProofs` | `Spec => []IndInv`, the invariant the others about the compiler rest on |
| `ValuesTyped` | `CompilerProofs` | `Spec => []ValueTypes` |
| `ArraysReleased` | `ArrayProofs` | `Spec => []ArraysOwned` |
| `SavesPaired` | `ArrayProofs` | `Spec => []SavesBalanced` |
| `BufferKept` | `ParserProofs` | `Spec => []WithinBuffer` |
| `Nesting` | `ParserProofs` | `Spec => []CallsNest` |
| `TypeCorrect` | `ParserProofs` | `Spec => []TypeOK` |
| `NullsPlaced` | `ParserProofs` | `Spec => []NullsKnown` |
| `TreeFaithful` | `SpanProofs` | `Spec => []Faithful` |
| `GoalsParsed` | `ParserProofs` | `SentenceSpec => Spec`: what holds of any tokens holds of every goal's |
| `TypeCorrect` | `DriverProofs` | `Spec => []TypeOK` |
| `Promise` | `DriverProofs` | `Spec => Implements`, the refinement of `Building` |
| `DepthUnsigned` | `PrinterProofs` | `Spec => []TypeOK` |
| `DepthRestored` | `PrinterProofs` | `Spec => []Restored` |
| `LinesOutline` | `PrinterProofs` | `Spec => []Outline` |

The assumptions are those named in the modules: identifiers contain no space
(`NamesAssumption`), `NoName` is no identifier, prototypes are well formed, the
operators and types tried are among the language's, bounds are natural numbers; the
driver's command lines are sequences of arguments and its programs are none of the words for
"no file". The proofs hold for every set of names, list of prototypes, set of node kinds,
operators and types, and every bound and width; for every buffer of tokens; and for every
set of programs, command lines and numerals.

**The visitors.** None of the properties is inductive. `ScopesMatch` needs to know how
the depth at every open block relates to that of the block around it (`StackInv`,
`DepthInv`): a `for` opens two scopes, a function three. `NoShadowing` needs that every
chain of the history is free of shadowing (`TrailUnshadowed`). `BindingAgreement` is
about a state long after the typechecker has gone, so it is proved in two halves. The first,
while typechecking, is about the trail: every symbol after a node was there before it at
the same level or is the node's own (`LinkInv`, `Sourced`), and a declaration finds its
name on no table (`Fresh`). The second, during code generation, is `AgreeInv`: the map agrees
with *every* variable on the chain the typechecker had at `pc`, not only with the one
looked up next. A declaration overwrites one name, and by `Fresh` that name was not
visible, so no other agreement is lost; a block's end takes symbols away and leaves the
map alone. What an early return hides from the code generator would break this, and
`DeadInv` and `LookupInv` say why it does not: what was declared behind a return is out of scope
wherever the code generator still looks. `TypeOK` needs the operands recorded in visits to
be nodes and prototypes to be in range (`FrameInv`, `ProtoInv`), and that the results of
the operands of a binary operator agree. `ReturnFindsItsFunction` needs one invariant more,
`MarkerInv`: the second scope holds the function's marker alone, and no scope above it a marker
or a prototype. Every step inside a function leaves an entry where it is or makes one above
the second scope (`Grown`), and inside a function there are at least four scopes, which
`StackInv` and `DepthInv` know. The walk then ends at the second scope, or at a scope with a single
`lilfn_` name, which has no prototype.

`ValueTypes` relates the two visitors once more, by way of the tree. `TypedInv` is what the
typechecker leaves in each node for the code generator to rely on: the result of a leaf is that
of its class, a name's the type it was resolved to, a call's its callee's, and an operator's
what the rule for it makes of the results of its operands, which are earlier nodes and live
whenever the operator is. The last part is what needs an invariant of its own (`OperandInv`),
about the visits in progress: an operand is recorded long before the node it belongs to is
there, and is live because nothing between the two can return. The code generator's half is
then one case per class, with `BindingAgreement` for names.

`ArraysOwned` speaks of nothing but the code generator, and yet it rests on the tree: that the
loop of a block's end pops the right arrays depends on every push of a scope having its pop,
with the returns, after which the rest of a block is passed over, in between. Its invariant
(`OpenBlocks`) is that the tree has a history: a stack of open blocks before each node, changed by
each node in one way (`Through`), in which a node that opens, closes or leaves a block
is where it may be and is live exactly if no block around it has been returned from (`Placed`).
While typechecking, the history ends with the blocks being visited (`Matches`); during code
generation, the scopes are the history's blocks at `pc` up to the first that a return
has ended (`Scoped`). What is passed over happens above that block, so the scopes stay; what is
not passed over finds all of the open blocks on the stack. The arrays then have their scopes in
order (`Owners`). A `while` is the hard case: its scope is pushed with the header, before
its block exists, and no array may belong to it until then.

`SavesBalanced` is about paths, and a set of paths is no invariant. `FlowInv` (`Flow`) says in its
stead that there is a labelling: for each basic block the one stack of saves with which it is
entered, such that the instructions of a block take its label to that of every block it branches
to (`Labelled`, `Runs`). Where the builder is, they take it to the saves of `arrayDecls`. So a branch
may be added if its target has that label. The targets made beforehand, the block after a
statement and the two parts of an `if`, are still empty, and have been promised the saves of the
arrays declared outside the statement, as has the header of a loop (`Awaits`, `Outside`); no two
scopes wait for the same block (`AllAwait`). A scope's end releases its own arrays and no
other, as the scopes of the arrays outside are not among those from it on, so what is left is what was
promised. A return is no exception: its block ends early, with the releases of its own arrays,
and the `ret` behind them leads nowhere; what the blocks around it still add runs by the same labels. That the
end meets the scope that the statement's beginning made, an `else` an `if` that has one, and a
`whilebody` its `while`, is the history's business again: the form of a block in `OpenBlocks`.
`FlowInv` does not need the function to verify, nor to be at its end.

`SeqLemmas` has lemmas on sequences and on recursive functions over them; `TypecheckProofs` the types of the symbol table's
operators, that each way a step of the typechecker changes visits, chain and trail
preserves the scope invariants, and one step per action of the typechecker, for the scopes and for the history of blocks;
`CompilerProofs` one per action of the code generator, with the theorems that need no more, and
at its end what an instruction or a scope does to a labelling; `ArrayProofs` the actions again
for `ArrayInv` and `FlowInv`, with `ArraysReleased` and `SavesPaired`.

**The parser.** That `curTok` never passes `End` is not inductive: going back sets the
position to an index that some function was given, so the invariant needs all of those
within the buffer, and no caller's beyond its callee's (`CallsNest`); and going forward is
safe because each function that consumes a token has seen that it is not `End`. The proof
has one step per parse function.

What the parser builds (`TypeOK`, `NullsKnown`) rests on `TreeInv`: a parse function that is
at a given item has one child for each call before it (`Built`, a table that `RowsFit` shows
to agree with the rows), the operator or type once it has passed the token
(`HoldsFrom`), and no null child unless it is one of the functions that keep them
(`KeepsNull`); a function with a callee is at an item that calls (`Waits`), so what comes
back has its place. The one function that may hold the text of `End` is `parseArrayDecls`, and
only while `End` is the token. `Text` joins the children by recursive functions;
`Recursion` and `Upward` of `SeqLemmas` show that they exist and that what each value hands on
holds of the last, which types `Text` without an induction theorem.

`Faithful` is a property of the last state, of the whole buffer and the whole tree. Its
invariant, `SpanInv`, gives each call in progress a span of the buffer, from the token it was
given to the one its callee was given (or `curTok`), and says that what the call has built so far
says what the span says (`SaysSo`), with the null children filled in as `Faithful` does; and that
a call which has returned said its own span (`Result`), or is undone: for null, `parseExpr` is
back at the token it was given. So it does not matter
how often the parser has been over a token, nor what the alternatives that failed made of it.
The spans of a caller and its callee join, and with a `Clean` span (no end of a line within) a
name or a comma is told apart from one that begins a declaration, which is how `Said` tells the
commas that no tree has. It is all an implication, for the parser passes over tokens in two
places: in `parseArrayDecls` and at the `else` of a statement without a block. The invariant
may only give up once the buffer, as far as it has been *looked at*, shows that it is one of those
that `Faithful` excludes, as the rest can turn out to be anything. That is `PassedOver`, which
stays so as the buffer grows; or a bracket that the span leaves open (`Unclosed`), which a
span around it may close again only by one too many elsewhere, so that `Depth` is not zero at the
end. `AtHead` is the case in between: at the `(` after `array f` the declarations of variables
stop and the function's head is parsed over again. The condition `ArraysNamed` owes its
form to the proof: a declaration's line may also begin right after the `}` of a block, with no end
of a line between, and a comma inside brackets asks for no name. Without the first, a case of the
proof does not close, and the program behind it is among the goals of `parser`. The proof has one lemma for each kind of step
(`MatchTokenSays`, ..., `ArrayDeclsSays`), and the lemmas at the end of `ParserProofs` show that the
text of a node, filled, is what the items of its row say, one after the other (`RowFilled`).
What is proved is about any tokens; `GoalsParsed` carries it over to the sentences TLC tries.

**The driver.** The invariant says what the intermediate files hold at the steps of a plain
invocation (`OwnFiles`): `a.ll` the module of `input` and `width` when `llc` is to run, `a.o`
when `clang` is; and how far `input` and `width` are set (`Stages`). Between invocations
nothing is said of the files, which is the point. With it every step maps to a step of `Building` or a stutter.

**The printer.** `Level` says of each item of a visit by how much the visit has raised the
depth when it comes to it; that the levels are what the raises and lowers up to the item come
to, that they are 0 at lines and at the end, 1 at children, and -1 in an else part only, is
shown of each visit by itself (`Rows`). The invariant is about the stack of visits: `Chain`
says that each visit was called at the depth its caller had reached, and that the depth now is
that at which the innermost was called, and its level. The else part, visited one *lower*
than its caller's other children, has an `if` around it that was itself raised, and `Floors`
says that it goes no lower than the lines of that `if`. For `Outline`, `Headed` says of every open visit
that since its heading nothing was printed at the heading's depth or less (`Heads`), and
`Latest` where that heading is while the visit has just printed it. Both are kept by a new
line as long as it is printed at the depth of the innermost visit or one deeper, and no open visit is
that deep but the one it is printed under.

**Only model-checked:** `NoReleasedArrayUsed`, which is about the values on paths through the
generated function, and `TameProgramsCompile`, which is about the end of whole programs; the lexer's properties; `Accepted`, `RoundTrip` and the
termination of the parser (that the grammar's sentences are accepted, and that a parse ends); and `Implements` of `Generated`. Liveness, `ENABLED`, recursive operators and induction over
data are outside the prover's reach and stay with TLC.

## Not modelled, and the plan

In order of importance:

1. **An abstract environment**: a stack of blocks with declarations, of which the symbol
   table and the flat map are each shown to be a refinement.
2. **Null children in the visitors**: the parser lets a null expression through at four
   places (`KnownHoles`); the first `accept()` on it is a null dereference, which `Typechecker`
   does not have among its inputs.

Left out for good: the wording of messages and printed lines, the numbers of lines in tokens
(only a message shows them), the values of integer literals as `atoi` reads them, the
shell's splitting of `$@`, `CMakeLists.txt`, and LLVM, `llc`, `clang` and flex beyond what the
code uses of them.
