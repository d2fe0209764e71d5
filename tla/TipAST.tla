------------------------------- MODULE TipAST -------------------------------
(***************************************************************************)
(* The abstract syntax trees of tipc (src/frontend/ast/treetypes).         *)
(*                                                                         *)
(* A node has a kind, a name (of a variable, operator, field or update),   *)
(* a number and its children, in the order accept() visits them.  The C++  *)
(* code identifies nodes by address; here a node of a program is           *)
(* identified by its place, the path <<function, statement, child, ...>>.  *)
(***************************************************************************)
EXTENDS Integers, Sequences, FiniteSets, SequencesExt

Node(kind, name, number, kids) ==
  [kind |-> kind, name |-> name, number |-> number, kids |-> kids]

(* Expressions.                                                            *)
NumberExpr(n)        == Node("Number", "", n, <<>>)
BoolExpr(b)          == Node("Bool", "", IF b THEN 1 ELSE 0, <<>>)
VariableExpr(x)      == Node("Variable", x, 0, <<>>)
InputExpr            == Node("Input", "", 0, <<>>)
NullExpr             == Node("Null", "", 0, <<>>)
BinaryExpr(op, l, r) == Node("Binary", op, 0, <<l, r>>)
NotExpr(e)           == Node("Not", "", 0, <<e>>)
NegExpr(e)           == Node("Neg", "", 0, <<e>>)
FunAppExpr(f, as)    == Node("FunApp", "", 0, <<f>> \o as)
AllocExpr(e)         == Node("Alloc", "", 0, <<e>>)
RefExpr(e)           == Node("Ref", "", 0, <<e>>)
DeRefExpr(e)         == Node("DeRef", "", 0, <<e>>)
TernaryExpr(c, t, e) == Node("Ternary", "", 0, <<c, t, e>>)
ArrayExpr(es)        == Node("Array", "", 0, es)
ArrayOfExpr(n, e)    == Node("ArrayOf", "", 0, <<n, e>>)
IndexingExpr(a, i)   == Node("Indexing", "", 0, <<a, i>>)
ArrayLenExpr(a)      == Node("ArrayLen", "", 0, <<a>>)
RecordExpr(fs)       == Node("Record", "", 0, fs)
FieldExpr(x, e)      == Node("Field", x, 0, <<e>>)
AccessExpr(r, x)     == Node("Access", x, 0, <<r>>)

(* Statements.  A for statement either ranges, with or without a step, or  *)
(* iterates over an array; its name tells which.                           *)
AssignStmt(l, r)     == Node("Assign", "", 0, <<l, r>>)
UpdateStmt(e, op)    == Node("Update", op, 0, <<e>>)
BlockStmt(ss)        == Node("Block", "", 0, ss)
WhileStmt(c, s)      == Node("While", "", 0, <<c, s>>)
ForEach(x, a, s)     == Node("For", "each", 0, <<x, a, s>>)
ForRange(x, a, b, s) == Node("For", "range", 0, <<x, a, b, s>>)
ForStep(x, a, b, i, s) == Node("For", "step", 0, <<x, a, b, i, s>>)
IfStmt(c, s)         == Node("If", "", 0, <<c, s>>)
IfElse(c, s, t)      == Node("If", "", 0, <<c, s, t>>)
OutputStmt(e)        == Node("Output", "", 0, <<e>>)
ErrorStmt(e)         == Node("Error", "", 0, <<e>>)
ReturnStmt(e)        == Node("Return", "", 0, <<e>>)

(* A function has a name, formals, declarations of locals, each a sequence *)
(* of names, and a body that ends with its only return statement.  It may  *)
(* be marked "poly".  A program is a sequence of functions.                *)
Function(name, formals, decls, body) ==
  [name |-> name, formals |-> formals, poly |-> FALSE, decls |-> decls, body |-> body]

Locals(fn) == FlattenSeq(fn.decls)

Actuals(n) == Tail(n.kids)

(* A function and a program as nodes: the names it declares come first.    *)
DeclNode(x)  == Node("DeclNode", x, 0, <<>>)
DeclNodes(xs) == [i \in DOMAIN xs |-> DeclNode(xs[i])]
DeclStmt(xs) == Node("DeclStmt", "", 0, DeclNodes(xs))

FunctionNode(fn) ==
  Node("Function", "", IF fn.poly THEN 1 ELSE 0,
       DeclNodes(<<fn.name>> \o fn.formals)
         \o [i \in DOMAIN fn.decls |-> DeclStmt(fn.decls[i])] \o fn.body)

ProgramNode(p) == Node("Program", "", 0, [f \in DOMAIN p |-> FunctionNode(p[f])])

(* No node: a null pointer.                                                *)
Nothing == Node("Nothing", "", 0, <<>>)

-----------------------------------------------------------------------------
(* The nodes on a path of child numbers, after k of its steps, and the one *)
(* that it leads to.                                                       *)
NodesOnPath(n, path) ==
  LET node[k \in 0 .. Len(path)] == IF k = 0 THEN n ELSE node[k - 1].kids[path[k]] IN node

NodeAt(n, path) == NodesOnPath(n, path)[Len(path)]

(* The kinds of nodes, by the number of their children.                    *)
WellFormed(n) ==
  LET k == Len(n.kids)
  IN  \/ n.kind \in {"Number", "Bool", "Variable", "Input", "Null", "DeclNode"} /\ k = 0
      \/ n.kind \in {"Alloc", "Ref", "DeRef", "Not", "Neg", "ArrayLen", "Field", "Access"} /\ k = 1
      \/ n.kind \in {"Update", "Output", "Error", "Return"} /\ k = 1
      \/ n.kind \in {"Binary", "Indexing", "ArrayOf", "Assign", "While"} /\ k = 2
      \/ n.kind = "Ternary" /\ k = 3
      \/ n.kind = "If" /\ k \in 2 .. 3
      \/ n.kind = "For" /\ k \in 3 .. 5
      \/ n.kind \in {"FunApp", "Function"} /\ k >= 1
      \/ n.kind \in {"Array", "Record", "Block", "DeclStmt", "Program"}
=============================================================================
