------------------------------ MODULE Compiler ------------------------------
(***************************************************************************)
(* tipc from a parse tree to its run (src/tipc.cpp): AST, symbol table,     *)
(* weeding, call graph, type inference, code generation, and then the      *)
(* machine.  Every phase may reject the program; what it finds is kept for *)
(* the phases after it.                                                    *)
(***************************************************************************)
EXTENDS Symbols, ASTBuilder, Machine

CONSTANT Programs   \* the programs to compile, as they are written

VARIABLES
  source,    \* the program as it was written
  doPoly,    \* the option --pi: infer polymorphic types
  program,   \* its AST
  phase,     \* the next phase
  table,     \* its symbol table
  mayCall,   \* its call graph
  order,     \* the functions with a stage of their own in polymorphic inference
  types      \* the types inferred for its variables

Calls     == INSTANCE CallAnalysis
Types     == INSTANCE PolyTypes
Generator == INSTANCE CodeGen

results == <<table, mayCall, order, types>>
vars    == <<source, doPoly, program, phase, results, code, arguments, frames, memory, called, status>>

NoTable == [functions |-> [x \in {} |-> 0], locals |-> <<>>, fields |-> <<>>]
NoTypes == [d \in {} |-> ""]

Init ==
  /\ source \in Programs /\ doPoly \in BOOLEAN
  /\ program = <<>>
  /\ phase = "build"
  /\ table = NoTable /\ mayCall = [at \in {} |-> {}] /\ order = <<>> /\ types = NoTypes
  /\ code = <<>> /\ arguments = <<>> /\ frames = <<>> /\ memory = <<>>
  /\ called = {} /\ status = "compiling"

Reject(reason) ==
  /\ status' = reason
  /\ UNCHANGED <<source, doPoly, program, phase, results, code, arguments, frames, memory, called>>

Phase(now) == status = "compiling" /\ phase = now

GoOn(next) ==
  /\ phase' = next
  /\ UNCHANGED <<source, doPoly, arguments, frames, memory, called, status>>

-----------------------------------------------------------------------------
(* FrontEnd::parse.  Nothing catches what std::stoi throws.                *)
BuildAst ==
  /\ Phase("build")
  /\ IF HasLongLiteral(source) THEN Reject("literal")
     ELSE GoOn("symbols") /\ program' = Build(Parsed(source)) /\ UNCHANGED <<results, code>>

(* SemanticAnalysis::analyze.                                              *)
BuildSymbolTable ==
  /\ Phase("symbols")
  /\ IF SymbolError(program) THEN Reject("symbolerror")
     ELSE GoOn("weeding") /\ table' = SymbolTable(program) /\ UNCHANGED <<program, mayCall, order, types, code>>

CheckAssignable ==
  /\ Phase("weeding")
  /\ IF AssignabilityError(program) THEN Reject("weedingerror")
     ELSE GoOn("callgraph") /\ UNCHANGED <<program, results, code>>

(* The order of the stages is that of addresses, which are settled by now. *)
BuildCallGraph ==
  /\ Phase("callgraph")
  /\ mayCall' = Calls!MayCall(program, table)
  /\ order' \in IF doPoly THEN Types!Orders(program, mayCall') ELSE {<<>>}
  /\ GoOn("types") /\ UNCHANGED <<program, table, types, code>>

(* TypeInference::run.                                                     *)
Inference == Types!TypeInference(program, table, mayCall, doPoly, order)

InferTypes ==
  /\ Phase("types")
  /\ LET found == Inference
     IN  IF found.verdict # "ok" THEN Reject(found.verdict)
         ELSE /\ types' = Types!InferredTypes(table, found.edges)
              /\ GoOn("codegen") /\ UNCHANGED <<program, table, mayCall, order, code>>

(* CodeGenerator::generate.                                                *)
Generate ==
  /\ Phase("codegen")
  /\ LET generated == Generator!Generated(program).code
     IN  code' = [f \in DOMAIN program |->
                   [code   |-> generated[f],
                    arity  |-> Len(program[f].formals),
                    fields |-> Len(table.fields)]]
  /\ GoOn("launch") /\ UNCHANGED <<program, results>>

-----------------------------------------------------------------------------
(* main of the runtime library: it wants as many arguments as the program's*)
(* main has formals, reads them and calls it.                              *)
WrongArguments == Phase("launch") /\ Reject("arguments")

Launch ==
  /\ Phase("launch")
  /\ \E f \in DOMAIN program :
       /\ program[f].name = "main"
       /\ arguments' \in [DOMAIN program[f].formals -> Inputs]
       /\ frames' = <<Frame(f, <<>>)>>
  /\ phase' = "run" /\ status' = "running"
  /\ UNCHANGED <<source, doPoly, program, results, code, memory, called>>

(* _tip_main_undefined.                                                    *)
LaunchWithoutMain ==
  /\ Phase("launch")
  /\ \A f \in DOMAIN program : program[f].name # "main"
  /\ Reject("nomain")

Run == Step /\ UNCHANGED <<source, doPoly, program, phase, results>>

Done == status \notin {"compiling", "running"} /\ UNCHANGED vars

Next ==
  \/ BuildAst \/ BuildSymbolTable \/ CheckAssignable \/ BuildCallGraph \/ InferTypes
  \/ Generate \/ WrongArguments \/ Launch \/ LaunchWithoutMain \/ Run \/ Done

(* A compiled program, once started, runs on its own.                      *)
Spec == Init /\ [][Next]_vars /\ WF_vars(Run)

-----------------------------------------------------------------------------
Going  == {"compiling", "running"}
Errors == {"literal", "symbolerror", "weedingerror", "typeerror", "recursion", "assertion"}
Ends   == {"exited", "error", "nomain", "arguments"}
Faults == {"null", "dangling", "divide", "negative", "overflow"}
Wrong  == {"badaddress", "badoperand", "badcall", "unset"}

IsValue(v) ==
  /\ v.kind \in {"int", "bool", "fun", "ref", "zero", "unset"}
  /\ v.kind = "int" => v.n \in -(2 ^ (Bits - 1)) .. 2 ^ (Bits - 1) - 1
  /\ v.kind = "ref" => v.object \in DOMAIN memory

(* Integers wrap around within their width, references are to objects, and *)
(* the variables of a frame are live.                                      *)
TypeOK ==
  /\ status \in Going \cup Errors \cup Ends \cup Faults \cup Wrong
  /\ Len(frames) <= MaxFrames
  /\ \A o \in DOMAIN memory : \A i \in DOMAIN memory[o].cells : IsValue(memory[o].cells[i])
  /\ \A i \in DOMAIN frames : \A x \in DOMAIN frames[i].vars : memory[frames[i].vars[x]].live

(* The AST is the program as it was written, whatever the registers of the *)
(* builder held before: ASTBuilder.cpp:70, "These are overwritten by every *)
(* visit call".  But | and &, which are in the grammar, are dropped.       *)
BuiltAsWritten == phase # "build" => program = source \/ HasUnbuiltOperator(source)

(* What runs is well typed: a value is never used as something it is not.  *)
(* Unifier.cpp:115, "The logic in this method is enough to conclude the    *)
(* type safety of a program."                                              *)
WellTypedNeverWrong == status \notin Wrong

(* A call only reaches functions the call graph has for it: CallGraph.h:62,*)
(* "Return the set of functions that may be called at an application expr".*)
CallsPredicted == \A c \in called : c[2] \in mayCall[c[1]]

(* A generic type was copied that forgets what its function's type is: what*)
(* its alphas were bound to for another call, or the type of a function    *)
(* that was inferred later.                                                *)
TooGeneralIn(found) ==
  \E g \in found.generics :
    Types!TooGeneral(found.edges, Declaration(g.fun, program[g.fun].name), g.type)

(* Or a call was not checked, having no or not all its callees.            *)
Unchecked == doPoly /\ ({} \in Range(mayCall) \/ ~CallsPredicted \/ TooGeneralIn(Inference))

Untyped == Types!HasUntypedNode(program, table, Inference.edges) \/ Unchecked

(* What runs never goes wrong but for programs with a node the equations   *)
(* leave untyped or, with --pi, an unchecked call.                         *)
WrongOnlyIfUntyped == status \in Wrong \ {"unset"} => Untyped

(* A variable always holds a value of the type inferred for it, and so do  *)
(* the cells, elements and fields it leads to.                             *)
HasShape(v, con) ==
  \/ v.kind = "zero" \/ con \in {"var", "alpha"}
  \/ con \in {"int", "bool"} /\ v.kind = con
  \/ con = "function" /\ v.kind = "fun"
  \/ con = "ref" /\ v.kind = "ref"
  \/ con \in {"array", "record"} /\ v.kind = "ref" /\ v.n = 0 /\ memory[v.object].shape = con

Contents(v, type) ==
  LET cells == memory[v.object].cells
  IN  CASE type.con = "ref"    -> {<<cells[v.n + 1], type.args[1]>>}
        [] type.con = "array"  -> {<<cells[i], type.args[1]>> : i \in 2..Len(cells)}
        [] type.con = "record" -> {<<cells[i], type.args[i]>> : i \in DOMAIN cells}
        [] OTHER               -> {}

Depth == 3   \* bound: how far a value is followed

RECURSIVE HasType(_, _, _)
HasType(v, closed, depth) ==
  LET type == Types!Unfolded(closed)
  IN  /\ HasShape(v, type.con)
      /\ depth > 0 /\ v.kind = "ref" /\ memory[v.object].live =>
           \A c \in Contents(v, type) : c[1] = Unset \/ HasType(c[1], c[2], depth - 1)

VariablesAsInferred ==
  \A i \in DOMAIN frames : \A x \in DOMAIN frames[i].vars :
    HasType(memory[frames[i].vars[x]].cells[1], types[Declaration(frames[i].fun, x)], Depth)

(* The same but for the same programs.                                     *)
ValuesHaveTypes == VariablesAsInferred \/ Untyped

(* The same but for programs that keep functions in data, and for calls    *)
(* without callees, of which polymorphic inference asks nothing.           *)
NamedCallsPredicted ==
  \/ \A c \in called : c[2] \in mayCall[c[1]] \/ (doPoly /\ mayCall[c[1]] = {})
  \/ Types!HasFunctionInData(program, table, Inference.edges)

(* No field is read that the record was not built with: the purpose of     *)
(* AbsentFieldChecker.  It does not look at the copies of a generic type.  *)
NoAbsentFieldRead ==
  status = "unset" => doPoly /\ Types!FieldLeftOpen(program, table, Inference.edges)

(* Inference with --pi accepts what it accepts without:                    *)
(* PolyTypeConstraintVisitor.cpp:28, "this makes it possible for a function*)
(* to match distinct argument and return value typings".                   *)
MonoAccepts == Types!RunMono(program, table).verdict = "ok"

PolyAcceptsMore == doPoly /\ status \in {"typeerror", "assertion"} => ~MonoAccepts

(* The same but when a generic type is recursive, or fixes what is open.   *)
GenericTooSpecific ==
  LET found == Inference
  IN  \E g \in found.generics :
        \/ Types!IsRecursive(g.type)
        \/ Types!TooSpecific(found.edges, Declaration(g.fun, program[g.fun].name), g.type)

PolyRejectsOnlyIf == PolyAcceptsMore \/ GenericTooSpecific

(* Whether a program is accepted does not depend on where its functions    *)
(* are in memory, as long as no generic type mentions a function that is   *)
(* inferred later.                                                         *)
VerdictIsDetermined ==
  Phase("types") /\ doPoly =>
    LET finds == {Types!TypeInference(program, table, mayCall, TRUE, o) :
                    o \in Types!Orders(program, mayCall)}
    IN  Cardinality({f.verdict : f \in finds}) = 1 \/ \E f \in finds : TooGeneralIn(f)

(* A closed type is the type of the solution.  Only copies of alphas lose  *)
(* what is known of them, and only a variable and the alphas of one node   *)
(* are mistaken for each other.                                            *)
ClosedAsSolved ==
  phase = "codegen" =>
    LET edges == Inference.edges
    IN  \A d \in DOMAIN types :
          /\ ~Types!TooGeneral(edges, d, types[d]) \/ doPoly
          /\ ~Types!TooSpecific(edges, d, types[d]) \/ doPoly \/ Types!HasAlphaBesideVar(program, table)

(* Every program started comes to an end: a generated loop moves on.       *)
EveryRunEnds == status = "running" ~> status \notin Going
=============================================================================
