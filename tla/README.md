# A TLA+ model of tipc

`tipc` (directory `src/`) compiles TIP programs to LLVM bitcode. It is a
sequential program; what makes it hard are recursive algorithms that change the
structure they walk over, solvers whose result must not depend on the order of
their inputs, and analyses that trust the result of an earlier one. This
directory models the solvers of the semantic analysis, each as a state machine
of its own, the front end from tokens to an AST and back to text, the whole path
of a program from its parse tree to its run, and the driver with the files it
leaves; checks them with TLC, and proves what matters most about the solvers, the order
of inference, the call graph, the walks of the front end and the driver with TLAPS.

## Inventory

| component (files) | state | operations | must hold | status |
|---|---|---|---|---|
| Unifier (`semantic/types/solver/Unifier.cpp`) | constraints, a union-find | `add`, `solve`, `unify`, `close`, `inferred` | accepts exactly the typable programs, in any order of constraints and number of stages; ends on recursive types; a closed type is that of the solution | `Unifier`; what `close` returns in `PolyTypes` |
| UnionFind (`.../UnionFind.cpp`) | `edges`: term to parent | `add`, `find`, `quick_union`, `connected` | a forest; one edge per term | `UnionFindOps` |
| Type terms (`semantic/types/concrete`) | immutable terms | `==`, `doMatch` | matching is by constructor and arity | `TypeTerms`, `TypeConstraints` |
| TypeInference (`semantic/types/TypeInference.cpp`) | DFS globals `sorted`, `unmarked` | `run`, `topoSortNonRecursive`, ... | callees are solved before callers; recursive functions and their callers are left to the monomorphic pass; ends; the verdict does not depend on addresses | `PolyInference`, `PolyTypes` |
| CubicSolver (`semantic/cfa/CubicSolver.cpp`) | graph of solver nodes, `dagmapping` | three `add...Constraint`, `getPossibleFunctionsForExpr` | the least solution; acyclic graph; ends | `CubicSolver` |
| CFAnalyzer, CallGraph, CallGraphBuilder (`semantic/cfa`) | scope stack; maps of callees, a list of edges | visit the AST; queries | lists every call that can happen; a query does not change the answer of the next | `CallAnalysis`, `CallGraph` |
| Constraint visitors, AbsentFieldChecker (`semantic/types/constraints`) | handler, scope | one `endVisit` per node kind | a typable program does not go wrong; no absent field is read | `TypeConstraints`, `PolyTypes` |
| Substituter, Copier, FreshAlphaCopier, TypeVars | visitor stacks | substitution on terms | closed result, distinct instances | `PolyTypes` |
| SymbolTable, CheckAssignable | maps of names | `build`, `check` | every name resolves; only l-values are assigned | `Symbols` |
| FrontEnd, grammar, ASTBuilder (`frontend`, `tipg4`) | static registers `visitedX` | `parse`; one `visitX` per rule | the AST is that of the text | `Grammar`, `ASTBuilder`, `FrontEnd`, `ReadBack` |
| PreOrderIterator, PrettyPrinter, ASTVisualizer | stacks of subtrees, of texts, of parents | `++`; `endVisit`; `process_node` | order; balanced stacks; what is printed reads back | `TreeIterator`, `PrettyPrinter`, `FrontEnd`, `ReadBack` |
| CodeGenFunctions (`codegen`) | globals `lValueGen`, `allocFlag`, `NamedValues`, tables | `codegen` per node | generated code means what the source means; loops end | `CodeGen`, run by `Machine` |
| AST (`frontend/ast/treetypes`) | immutable nodes | `accept` | every node is visited once, in a fixed order | `TipAST`, `TreeVisits` |
| SemanticAnalysis, runtime library | phases | run the phases | an error in a phase stops the later ones | `Compiler`, `Machine` |
| driver, CodeGenerator, Optimizer, `bin/build.sh` | options; files, which stay from run to run | `main`, `optimize`, `emit`; link | code on the disk just when the run succeeds; what is asked for is done; what is linked is what was generated | `Driver` |
| loguru, PicoSHA2, cmake, tests, docs | - | - | - | not modelled: third-party code, no program logic |

How they interact: the driver calls the front end, then `SemanticAnalysis`,
which builds the symbol table, checks assignability, builds the call graph
(CFAnalyzer adds constraints to CubicSolver, CallGraphBuilder reads the
answers) and runs type inference. With `--pi`, inference reads the call graph
to order its stages, and each stage reads the types the previous ones left in
the one Unifier. Code generation reads the symbol table. Everything is a direct
call in one thread; errors are exceptions that end the compilation.

The hard behaviours are listed, each at its line, under `hazards` in
`PROJECT.json`.

## Modules

| module | models | composed of |
|---|---|---|
| `TypeTerms` | terms, `doMatch`, and what a solution of type equations is | |
| `UnionFindOps` | the forest as a function, its operations, its classes | `TypeTerms` |
| `Unifier` | `add`, `solve` and the recursion of `unify`, as a state machine | `UnionFindOps` |
| `TypeTheory` | the abstract equation solver | |
| `CubicSolver` | the solver of the control flow analysis | |
| `PolyInference` | the ordering of the stages of polymorphic inference | |
| `CallGraph` | the builder of the call graph and the queries over it | |
| `Driver` | `main` of tipc, `Optimizer`, `CodeGenerator`, `build.sh`, over several invocations | |
| `TipAST` | syntax trees, their nodes and the paths to them | |
| `TreeVisits` | the order in which a visitor sees a program | `TipAST` |
| `Grammar` | tokens to parse tree | `TipAST` |
| `ASTBuilder` | parse tree to AST through the registers | `TreeVisits` |
| `PrettyPrinter` | the text of a node, from the stack of texts | `TipAST` |
| `TreeIterator` | the pre-order iterator | `TipAST` |
| `FrontEnd` | print and draw a program, given what its text is parsed to | `PrettyPrinter`, `TreeIterator` |
| `ReadBack` | how a text is parsed; which texts read back | `FrontEnd`, `Grammar`, `ASTBuilder` |
| `Symbols` | symbol table, weeding | `TreeVisits` |
| `CallAnalysis` | constraints of CFAnalyzer, calls of CallGraphBuilder | `Symbols` |
| `TypeConstraints` | terms, constraints of TypeConstraintVisitor, AbsentFieldChecker | `Symbols` |
| `PolyTypes` | `close` and the visitors of types, PolyTypeConstraintVisitor, both modes of TypeInference | `TypeConstraints` |
| `CodeGen` | what every `codegen` method emits | `Symbols` |
| `Machine` | how the emitted code runs: integers, memory, calls, runtime library | |
| `Compiler` | the phases in order, then the run | `ASTBuilder`, `Symbols`, `CallAnalysis`, `PolyTypes`, `CodeGen`, `Machine` |
| `TestPrograms` | the programs compiled and run | `TipAST` |
| `UnifierProofs` | theorems about `Unifier` | `Unifier` |
| `CubicSolverProofs`, `CubicSolutionProofs` | theorems about `CubicSolver`: its structure; its answers | `CubicSolver`, `ProofFacts` |
| `PolyInferenceProofs` | theorems about `PolyInference` | `PolyInference`, `ProofFacts` |
| `FrontEndProofs` | theorems about `FrontEnd` | `FrontEnd`, `ProofFacts` |
| `CallGraphProofs`, `DriverProofs` | theorems about `CallGraph` and `Driver` | these |
| `ProofFacts` | lemmas about numbers, finite sets and sequences | |
| `MCUnifier`, `MCCubicSolver`, `MCPolyInference`, `MCCompiler`, `MCFrontEnd`, `MCDriver` | instances for TLC (`CallGraph` is its own) | |

A definition whose comment begins with "Slip" is not used by the specification:
it is a plausible mistake in the definition after it, kept to show that the
properties notice it (`mutants` in `PROJECT.json` pairs each with a property).

### Unifier

`edges` is the map of the union-find, `constraints` the list of the unifier,
`next` the position of the loop in `solve`. The recursion of `unify` is the
stack `todo` of calls still to be made: `unify` does nothing but return after
its last recursive call, so the calls left on the C++ stack are exactly these.
Each round of the two `find` loops is a step (`Climb1`, `Climb2`), the branches
of `unify` are `AlreadyEqual`, `BindLeft`, `BindRight`, `Decompose` and
`Clash`. C++ compares terms structurally everywhere, so structurally equal
terms are one value; that the map has one edge per term is the code's own
assertion (`UnionFind::invariant`). `smart_insert` returns the parent of a known
term, so `find` starts there. `quick_union` looks for the two roots again, which
are the roots already found.

`Add` and `Solve` may come in any order and number: monomorphic inference is one
`Add` and one `Solve`, polymorphic inference one of each per stage. After an
exception the compilation is over (`pc = "failed"` has no successor, hence
`CHECK_DEADLOCK FALSE`). Between stages `Close` adds a copy of a constructor to the
forest, as `Unifier::close` does when the next stage asks for a generic type;
which copies these are is the matter of `PolyTypes`, here they are any.

The reference is semantic. A *typing* maps terms to types such that only
matching constructors with equal arguments are identified; equations are
solvable when a typing solves them. Infinite (recursive) types are solutions, as
in the code, which has no occurs check.

`TypeTheory` is what a client relies on: equations come, the solver learns
equalities every solution has, and its verdict is right. `Unifier` refines it
with `eqs` the constraints, `theory` the classes of the forest.

### CubicSolver

One solver node per AST node, named by it (the node `make_shared` makes for it);
`graph.of` is `dagmapping`. The recursion of `propagateNodeChanges` is `stack`,
one frame per call with the position of both of its loops; `killing` holds the
locals of `killCyclesAt`, `findPath` (breadth first search, way back) and
`mergePath`. A `std::set` of shared pointers iterates in the order of addresses,
so nodes are numbers. Nothing relates the addresses to the program but the
allocator; the inputs are all constraints over the numbers.

Two outcomes are not ordinary: `status = "spinning"` is the `while` loop of the
way back when it makes no progress (it appends to the path until memory ends),
and a frame whose iterator stands on an erased element (`iter` is not `"valid"`)
is undefined behaviour: it may continue from the memory's new or old contents or
crash.

`Least` is the least solution of the constraints by iteration, the reference
for `Sound` and `CompleteAtRest`.

### CallGraph

The builder visits the functions and their calls in any order (C++ visits them
in the order of the text; nothing it keeps depends on it), then the queries come in
any order. What they change is in the model: `getEdges` and `existEdge` append to
`edges`, and a subscript inserts what it does not find into `mayCall` or `funMap`.
Functions are identified with their names, which the symbol table has made unique.

### PolyInference

`chain` is the stack of `mayIndirectlyCall`, `visiting` that of `topoVisit`,
`scan` and `inner` the positions of the loops of `recursiveFuncs`,
`topoSortNonRecursive` and `runPoly`. The call graph and the order of
declaration are chosen at the start. Once a call of `mayIndirectlyCall` has
found the goal, its callers make no further call and return true; the model pops
them in one step. A `Stage` succeeds or throws; what it does to the constraints
is the module `Unifier`, and what constraints it has `PolyTypes`. `MaxDepth` is the size of the call stack; since more
calls than functions repeat one of them with the same goal, every overflow
stands for an endless recursion.

### The front end

`FrontEnd` takes as constants what the parser and the builder make of a text: whether it
is a program (`Readable`), its AST (`AstOf`) and the nodes of that (`NodesIn`), of which
it assumes only that every node has as many children as its kind asks for. `ReadBack`
defines them: `Grammar` reads a sequence of tokens by recursive descent with the precedence
levels ANTLR gives the alternatives of the left recursive rule `expr`; `Build`
makes the AST of what was read; `MCFrontEnd` gives `FrontEnd` these. `PrettyPrinter` has one operator per `endVisit`,
from the stack of texts to the stack of texts, and `FrontEnd` calls them in the
order of `accept`, one visit per step, with the indentation that some visits
deepen and their `endVisit` restores. `TreeIterator` is the iterator's stack of
subtrees still to come; ASTVisualizer's loop is one step per node, with its
own stack of parents, which is right only while the two are in step. A text is
tokens, line ends and units of indentation; characters, positions in the text
and labels of vertices are left out.

`PrinterInStep` says what the stack of texts holds at each node: a text for every child
finished of every node on the way there, which are as many as the children before each
step of the path. `GraphIsTree` says that the vertices are the places of the tree, in
pre-order, and the edges those from parents. `ReadsBackOrKnown` reads the printed text
again with the same grammar: it is the same program, or it has one of the
expressions listed there (an operator without parentheses in an operand of another,
`[E of E]`, whose operands are swapped).

### Closed types and polymorphic inference

`Close` follows `Unifier::close` case by case: the set of variables being closed,
the representative of each variable, a `TipMu` around what contains its own
variable, the substitution into constructors, one free variable after another.
A term keeps the order of its arguments, so `FlattenSeq` over them is the order
of the visitors. Three things a copy does are kept because they matter: a
copied alpha loses its context (`Copier`, `Substituter`, `TypeVars`), a fresh one
keeps its name, and an alpha made by `close` for an open variable has none.

`RunPoly` is the staged loop: each stage reads the generic types of the poly
functions its calls may reach from the forest of the stages before
(`Instantiated`), and its equations join those. `TopoSortNonRecursive` is what
`PolyInference` computes step by step; the order of callees is that of their
addresses, so `Orders` is one order per arrangement of the functions in memory,
and `Compiler` takes each. Where the search for recursion would not end
(`SearchesForever`) the verdict is `recursion`.

`Positions` compares a closed type with the solution as trees, unfolding both:
`TooGeneral` when the type is open where the solution is not or lets two
variables differ that are one, `TooSpecific` the other way round. These are the
reference for `ClosedAsSolved`, and delimit `WrongOnlyIfUntyped`,
`PolyRejectsOnlyIf` and `VerdictIsDetermined` with `--pi`, where inference is neither
sound nor more permissive than without: the programs `BoxedFive` and `Mentioned`
are accepted and use an integer as a Boolean, since a generic type forgets what
a copied alpha stands for, or is read before the function it mentions is solved
(whether it is depends on addresses).

### The compiler, from tree to run

`Compiler` chooses a program as it is written (`source`), builds its AST
(`program`) and takes that through the phases of
`SemanticAnalysis::analyze`, `ASTProgram::codegen` and `main` of the runtime
library, one action per phase, each of which may reject it; then `Run` makes one
step of `Machine` at a time. `doPoly` is the option `--pi`, `order` the order of the
stages, which is chosen when the call graph is built.

A phase is an operator over the tree, because its visitor reads the tree and
writes its own result only: `SymbolTable`, `AssignabilityError`, `MayCall`,
`TypeInference`. C++ identifies a node by its address; here it is its place in the
program, and a variable is its declaration, which is what `getCanonical` and
`astToVar` make of it. The two solvers appear as what they compute: `MayCall` is
the least solution of the constraints, which `CubicSolver` is compared with, and
`Unify` is the run of `Unifier` to its end. (So the findings about `CubicSolver`
do not mask those about the constraints given to it.)

`Build` carries the six static registers of `ASTBuilder` from visit to visit: a
visit returns nothing, and a caller reads the register of the child it has just
visited. The parse tree is what ANTLR makes of a text with parentheses around
every compound operand. A literal above `MaxLiteral` (the largest `int`) makes
`std::stoi` throw, which ends the compilation. The grammar has operators `|` and
`&` (rule `nonShortCircuiting`) that the builder does not know: it builds the
second operand alone. `BuiltAsWritten` says that apart from them the AST is the
program as written.

`Gen` carries the state of the generator, the globals `lValueGen` and
`allocFlag` included, from node to node in the order of the C++ code and from
function to function. The LLVM code becomes code of a stack machine: a value
that `codegen()` returns lies on the operand stack, blocks are laid out in one
sequence. `Machine` executes it. All values of tipc are 64-bit integers; in the
model they keep the kind of thing they stand for, so that a wrong use shows as
a `status`:

| status | meaning |
|---|---|
| `exited`, `error`, `nomain`, `arguments` | `main` returned; `_tip_error`; `_tip_main_undefined`; wrong number of arguments |
| `null`, `dangling`, `divide`, `negative`, `overflow` | what a typed program may still do: use null, use a record or variable of a function that returned, divide by zero, make an array of negative size, exhaust the stack |
| `badaddress`, `badoperand`, `badcall`, `unset` | what typing is to exclude: an address that is none, an operand or callee of another kind, a field the record was not built with |

Initialised memory is `zero`, which stands for 0, false, null and the first
function alike. Programs assign a variable before they use it (but for
`NullRecord`).

### The driver

`Driver` is `main` statement by statement (`pc`), between invocations that a user
may make at will with any of `Requests`, on a source of which the phases find any
of `Verdicts`, and with files that cannot be opened (`Locks`). `disk` remembers
which run wrote each file, `passes` what the optimizer put into its pipeline.
Every way to fail goes through `Fail`: the exceptions `main` catches, `std::exit`,
and what ends the process otherwise (an uncaught exception, an assertion, LLVM's
fatal error when the output could not be written); to a shell they are all a
status that is not 0. A run by `build.sh` goes on with the link step. The source
is always `x.tip`: two invocations on it are two versions of a program.

## Runs

Bounds: `MaxConstraints` (constraints a unifier or a cubic solver is given),
`MaxDepth`, `MaxQueries` (of a call graph), `MaxRuns` (invocations of the driver), and in `Machine` the width `Bits` of an integer, what a user enters
(`Inputs`) and the size `MaxFrames` of the call stack; `MaxLiteral` is the
largest literal. Everything else is the
size of the instance.

| run | shows |
|---|---|
| `unifier` | three variables, int, bool (which `doMatch` does not list) and two function types; eight batches of equations, up to three equations in any order, repeated, staged, with closed copies added between stages. Recursive types (`a = (a)->b`) and clashes in the second argument occur. Every step is a step of `TypeTheory`. |
| `cubic_solver` | four nodes, two functions, seven inclusions, four conditionals, six constraints: merges of cycles inside running loops, activation chains, invalid iterators and endless ways back included; what holds even then. Among them, all sequences without a conditional: their answers are complete. |
| `cubic_missed` | **violated**: with a conditional constraint a function is missed. |
| `cubic_spin` | **violated**: a call never returns. |
| `poly` | all call graphs on three functions in all orders: the right set of recursive functions, the right set of polymorphic ones, callees first; without recursion it ends. A function that calls a recursive one without being recursive never gets as far as the filter (finding 3), so what these invariants say of a run that does not overflow is about the remaining programs. |
| `poly_recursive` | **violated**: `main` calling a recursive function makes the search endless. |
| `callgraph` | two functions, two calls, every caller and every set of callees, every sequence of three queries: answers do not depend on the queries before. |
| `frontend` | 6617 texts: every operator in every operand of every other, with and without parentheses; statements three deep; two whole programs; twelve texts that are none. |
| `compiler` | 18 values (of every type, and every expression without a type) x 8 ways to get into a variable (assignment, call, pointer, cell, field, element, loop, conditional) x 16 uses; with a poly function between (288 of them); and 38 other programs, among them 15 selftests and two polytests of `test/system`; each with and without `--pi`, in every order of its stages; 8-bit integers, two inputs, eight frames. The AST is the program written, values have the inferred types, calls are among the predicted ones, nothing goes wrong, or the program contains one of the nodes the violated runs are about; tests pass; runs end. |
| `compiler_types` | **violated**: a well-typed program goes wrong. |
| `compiler_poly` | **violated**: `--pi` rejects what is accepted without. |
| `driver` | two invocations; 48 requests about files, 8 about what is printed, 16 about optimisations; six verdicts; five sets of locked files. |

`HasUntypedNode` lists the five kinds of nodes whose types the rules leave open
or get wrong: the result of `-E` and of `not E` when nothing else decides it,
`[]`, a record with a field initialised twice, and a function name whose address
is taken or that is assigned to. `HasFunctionInData` lists the places a function
can go through unseen by CFAnalyzer. `WrongOnlyIfUntyped`, `ValuesHaveTypes` and
`NamedCallsPredicted` say that there is nothing else, and with `--pi` calls without
predicted callees, which get no equation, and generic types that are too general.
`ValuesHaveTypes` follows the contents of cells, arrays and records to the depth
`Depth` (3).

Why small instances suffice for the questions asked: a type error needs a chain
of links through at most two constructor levels to distinguish early from late
linking; a merge inside a loop needs a node with two supersets and a cycle among
or beyond them, which is four nodes; a typing rule goes wrong between the making
of one value, one transport and one use, which is what the family enumerates;
recursion to depth four and arrays of three elements exercise frames and bounds,
and 8 bits the wrapping of sums; whether an operand is printed right is decided
by it and the two operators around it; a file of an earlier invocation needs two;
what one query leaves behind shows in the next, and a third for what the second
leaves; the order of three functions covers a
caller, a callee and a recursion beside or below them.

### Findings

The violated runs are disagreements between the code and what its comments
say; each counterexample is a small TIP program or the constraints of one, given in
the MC modules and in `PROJECT.json` (`findings`).

1. `findPath` can loop for ever (plain `tipc`, since the call graph is always built;
   `cubic_spin`).
2. A merge under a running loop can make the solver miss a function, depending on
   the order of addresses (`cubic_missed`).
3. `mayIndirectlyCall` recurses for ever on a cycle that avoids its goal (`--pi`;
   `poly_recursive`).
4. With `--pi` a program is rejected that is accepted without it: a recursive generic
   type fails an assertion or is rejected against its own unfolding, and the open types
   of absent fields become one (`compiler_poly`).
5. The result of a negation, `[]`, a field initialised twice and `&f` of a function
   `f` are not typed as they are generated, so a program that passes type
   inference may use a value as something it is not (`compiler_types`).

Other gaps the models show have no run of their own; the properties that hold except
them, by name:

- The merge of finding 2 can also erase the element a loop stands on (undefined
  behaviour). `CubicSolver` keeps this as a state of the iterator and follows every
  outcome.
- Functions in records, arrays, cells and conditional expressions, assigned
  through a pointer, or returned by a function without parameters are unknown to
  the call graph (`HasFunctionInData` in `NamedCallsPredicted`).
- `build.sh` links the bitcode of an earlier program after `-o` or `-asm`
  (`LinkedIsGenerated`).
- The option `licm` is accepted and adds no pass; a file for the AST that cannot be
  opened leaves the status at success (`SuccessMeansDone`).
- `getEdges` returns its edges as many times as it or `existEdge` was called, and
  `getASTFun` gives a null pointer for a function without a call edge
  (`AnswersAreOfTheProgram`).
- The printed text of some nested operators, and of `[E of E]`, is that of another
  program (`ReadsOtherwise` in `ReadsBackOrKnown`).
- A program may still make an array of negative size, or use a record or variable of
  a function that has returned: no property forbids the statuses `negative` and
  `dangling`, since typing does not.

`Sound`, `InclusionsKept` and `Mirrored` hold in `cubic_solver` also in the
situation of finding 2, erased iterators included: nothing wrong is added and no
constraint is dropped, propagation alone is incomplete.

### Fairness

`Unifier`, `CubicSolver` and `PolyInference` assume weak fairness of their own
steps only: the compiler is one thread that runs until it returns. No fairness
is assumed of the calls (`Add`, `Solve`, the three constraints): the analysis may
stop asking. `CallsEnd` counts an endless way back and a crash as ends, because
those are finding 1 and the erased iterator; it excludes every other endless run, in particular
endless recursion. `Compiler` assumes weak fairness of `Run` only: a program
that was started is executed until it stops; the compiler itself need not go on.
`EveryRunEnds` therefore speaks of started programs, none of which loops by
intent. `FrontEnd` assumes weak fairness of its own steps once a text is parsed: the
walks through the tree are loops of one thread. `Driver` and `CallGraph` assume none
and state no liveness; a user may stop at any time, hence `CHECK_DEADLOCK FALSE`.

## Proofs

Each theorem holds for every value of the module's constants: all terms and equations,
all AST nodes, functions and constraints, all programs and options.

| module | theorem | property | inductive invariant |
|---|---|---|---|
| `UnifierProofs` | `TypeCorrect` | `TypeOK` | itself |
| | `ForestInvariant` | `ForestInv` | `Shape` |
| | `ProperRepresentativeInvariant` | `ProperRepresentative` | `Shape` |
| | `NoFalseTypeErrorInvariant` (no `Mu` terms) | `NoFalseTypeError` | `SolutionsRespected` |
| | `NoDebtForgottenInvariant` | `NoDebtForgotten` | `DebtInv` |
| | `ConclusionsAreKept` | `ConclusionsKept` | `Shape`, `DebtInv` |
| | `SolvedMeansTypableInvariant` (no `Mu` terms) | `SolvedMeansTypable` | `DebtInv` |
| | `SolverImplementsTheory` (no `Mu` terms) | `ImplementsTheory` | all of these |
| `CubicSolverProofs` | `CubicTypeCorrect` | `TypeOK` | `CubicInv` |
| | `MirroredInvariant` | `Mirrored` | `CubicInv` |
| | `AcyclicInvariant` | `AcyclicWhenPropagating` | `CubicInv` |
| `CubicSolutionProofs` | `SoundInvariant` | `Sound` | `SoundInv` |
| | `InclusionsKeptInvariant` | `InclusionsKept` | `KeptInv` |
| | `CompleteInvariantAtRest` | `CompleteWithoutConditionals` | `CompleteInv` |
| `PolyInferenceProofs` | `PolyInferenceTypeCorrect` | `TypeOK` | `PolyInv` |
| | `PolymorphicFunctionsAreExact` | `PolymorphicExactly` | `PolyInv` |
| | `CalleesAreSolvedFirst` | `CalleesSolvedFirst` | `PolyInv` |
| `FrontEndProofs` | `PrinterInStepInvariant` | `PrinterInStep` | `FrontEndInv` |
| | `GraphIsTreeInvariant` | `GraphIsTree` | `FrontEndInv` |
| `CallGraphProofs` | `AnswersInvariant` | `AnswersAreOfTheProgram` | `GInv` |
| `DriverProofs` | `DriverTypeCorrect` | `TypeOK` | `DInv` |
| | `RejectedLeavesNoTraceInvariant` | `RejectedLeavesNoTrace` | `DInv` |
| | `SuccessMeansDoneInvariant` | `SuccessMeansDone` | `DInv` |
| | `LinkedIsGeneratedInvariant` | `LinkedIsGenerated` | `DInv` |

`ProofFacts` has what several proofs need of numbers, finite sets and sequences.
Induction over the numbers, or over the subsets of a finite set, is stated there of the
set of those for which the claim holds, and proved by a least counterexample: the
library's induction theorems take an operator, which the provers cannot instantiate.

Assumptions are those of the modules, and TLC evaluates them on the instances: variables
and proper terms are disjoint, arguments are terms, batches are sequences of equations;
a program has finitely many functions, and at least one, calls and AST nodes; a node's
address is a positive number, and functions are numbered from 1; the call stack holds more
calls than there are functions; the nodes of an AST have their children among them, as
many as their kind asks for, and no program is a child (`AstAssumption`, which the run
`frontend` evaluates for what `Grammar` and `ASTBuilder` make of each of its texts).

### The unifier

*Forest and representatives.* `ShapeStep` summarises what a step does to `edges`: it
inserts roots or gives one root another known term that is a root as its parent. A
closed set of terms without a root would have had one without the new link, and the
other root is then in it.

*No false type error.* `NoFalseTypeError` is not inductive. The strengthening is: every
typing that solves the equations maps each known term and its parent to the same type
(*respects* the forest) and both sides of every call on the stack. A link preserves it
because the two roots are reached from the two sides of the call; the arguments' calls
preserve it because a typing that identifies two constructors identifies their
arguments. At a `Clash` the two roots have the same type in every such typing and do not
match, so there is none. With `Mu` terms the last step fails, which is finding 4.

*No debt forgotten.* A link joins two classes before the arguments of their constructors
are unified, so that the claim must speak of the classes there will be: those of the
forest with the calls on the stack as further links, which is what `SaturatedByCalls`
says without building them. Replacing a call by its effect, a link or the calls of its
arguments, separates nothing there that was joined. `DebtInv` adds that the running
finds are in the classes of the call's two sides, that each call is an equation or a
pair of arguments of two constructors in one class, and that the equations solve has
passed are among those classes. A variable that goes below a root joins no two
constructors, because a class that a variable represents has none: that is
`ProperRepresentative`.

*Typable.* When solve returns the stack is empty: the classes satisfy the equations and
decompose. `Closure` adds the terms that are built alike from the same types; that it
still decomposes, and joins no constructors that do not match, gives a typing.

*Refinement.* The classes only ever join what follows from the equations (`Derived`
calls), an exception means that there is no typing, a normal return that there is one:
every step is a step of `TypeTheory` or a stutter.

`Close` adds a root and leaves every other parent, so it is one of the steps of
`ShapeStep` and disturbs none of the theorems.

Three theorems assume that there are no `Mu` terms. That is the unifier of monomorphic
inference: `Mu` terms come from `close` only, which it does not call before the last
constraint is solved. With them `NoFalseTypeError` is false (finding 4).

### The cubic solver

*Types, mirrors, cycles.* `CubicInv` describes every data structure at every step of
`addSubseteqConstraint`, `propagateNodeChanges`, `killCyclesAt`, `findPath` and
`mergePath`, merges half done included. Its core says where cycles may be:
`CyclesAtHome`, every set of nodes in use each of which has a superset in the set
contains the node `killCyclesAt` was called with, or one of the path it merges.
`NoWayBack`, about the supersets the loop is done with, makes the loop cover all of
them: each is in a set that is closed under supersets and avoids the node, namely what
the breadth first search that failed has visited. A merge keeps
`CyclesAtHome` because a set of that kind in the merged graph is one in the graph
before, with two nodes for the one, and after the path was merged the loop starts again.
Cycles are stated through sets, not through paths, so that no step needs an induction.
The distances say that `findPath`, on its way back, always finds a node of the distance
one less, or spins (finding 1).

*Sound.* Instead of the least solution `SoundInv` speaks of every solution of the
constraints: what the graph, the lists of conditional constraints, the running calls and
a path being merged say is so in each. A path from the node back to itself is a cycle of
inclusions, so that its nodes have the same functions in every solution and may be
merged. The least solution is one of them: its rounds grow, there are as many as
answers, so the last is a fixed point (`LeastIsSolution`, `LeastIsLeast`).

*Inclusions kept.* The merges erase and move the lists that conditional constraints wait
in, while calls walk along copies of them. `KeptInv` follows each constraint: it is an
edge, or in the list of a running call, or waits in its node; and if the function it
waits for is there, then a call of `propagateNodeChanges` at that node is yet to look,
or `killCyclesAt` is to start one.

*Complete.* `CompleteInv` follows each edge: either the functions of its lower end are
in the upper one, or a call is still to pass them on. A conditional constraint that is
activated breaks it, which is finding 2; hence the condition on `given[3]` in the
property.

### The order of polymorphic inference

*What a search answers.* "Reaches" is the least set of functions closed under calls. A
yes is right because every function on the stack of `mayIndirectlyCall` is reached from
the first. For a no, `PolyInv` says of each callee that a loop on the stack has passed
that it neither is the goal nor reaches it, or is the call above: a call that returns
false has passed all its callees, and a function reaches the goal only through one of
them. Nothing is needed of termination: a search that does not end has no answer, and one
that overflows leaves the states the property is about. The two loops then collect, for
the functions before their position, the recursive ones and those that reach none.

*Callees first.* An unmarked, a visited and a sorted function are three disjoint cases,
and together they are the polymorphic functions. A callee that is neither unmarked nor
sorted would be on the stack, hence reach the visitor, hence itself: but a polymorphic
function reaches no recursive one. So what the loop of a visitor has passed is sorted or
is the call above it, and the order is one in which every function has its callees
before it. The stages follow the order.

### The front end

The theorems are about every AST, of whatever size and depth: no induction over trees is
needed, because `FrontEndInv` speaks of the place a walk is at and of the path there.
TLC checked it before it was proved, on texts of one and two operators and statements.

*Printing.* A visit makes the path one longer and starts at its first child, so that the
children before it are those before the node. An `endVisit` takes the last step off: the
children of the node are no longer counted, the node itself is. That is one text for
each child popped and one pushed, whatever the kind of node (`EndVisitPushes`, by cases).
The counts are cardinalities of sets of children, where a step more adds those before it
(`ChildrenBeforeCount`) and a level more adds at most itself (`IndentedOnLonger`).

*Drawing.* `FrontEndInv` says of the vertices and of the iterator's stack that each
vertex has its children among the two, that each place of the two has its parent among
the vertices, that each vertex comes before everything on the stack in pre-order, and
that what is deeper in the stack is to the right. Replacing the top by its children
keeps this: they come after it and after all that it came after, and they are to the left
of what was to its right. The stack of parents has an entry for each place on the stack
but the root, its parent. Once the stack is empty the vertices are closed under children
and parents, which makes them the places of the tree. That no node is drawn twice follows
from the order, in which no place comes before itself.

### The call graph and the driver

`GInv` says what the maps hold after each visit: what was collected so far, and nothing
but entries a query has made. `DInv` adds to the three properties what holds between the
statements of `main`: which phase may have thrown, and which files of the disk are this
run's.

### Only model-checked

- Liveness (`SolveTerminates`, `CallsEnd`, `EveryRunEnds`, the ends of the front end's
  walks and of inference): out of the prover's reach.
- `Compiler` and `ReadsBackOrKnown`, which reach the recursive operators of `Grammar`,
  `ASTBuilder`, `TreeVisits`, `Symbols`, `CallAnalysis`, `PolyTypes` and `CodeGen`: the
  prover cannot reason about these, and what they compute for every program is an
  induction over syntax trees. That includes that a parsed text satisfies `AstAssumption`.
- What the runs that expect a violation show, which is a counterexample each.

## Plan

1. `CubicSolver` as the implementation of an abstract inclusion solver, where no
   conditional constraint is given.

## Not modelled

- What LLVM does to a module: its passes, its bitcode and the linker. The code is
  run as it is generated; a pass that changes what a program means is not seen.
- Printing of types, symbols, call graphs, ASTs (beyond the tree that is drawn) and
  log messages: formatting, on which nothing depends.
- Characters and positions in the text, the hash that names a program
  (`externals/PicoSHA2`) and the logger (`externals/loguru`): third-party code.
- `TypeConstraintUnifyVisitor` with `ConstraintUnifier`: a second handler that unifies as
  it goes, used by a unit test only.
- The wrapper `Iterator`, which forwards to `PreOrderIterator`.
- Two programs in one process (the globals of the code generator are never
  cleared): nothing in the repository does it.
