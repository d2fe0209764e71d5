----------------------------- MODULE ASTBuilder -----------------------------
(***************************************************************************)
(* From a parse tree to the AST (src/frontend/ast/ASTBuilder.cpp).  A      *)
(* visit method returns nothing: it leaves what it built in one of six     *)
(* static registers, overwritten by every visit below it, and its caller   *)
(* must have read the register before it visits the next child.  The       *)
(* registers are never cleared, neither between functions nor programs.    *)
(*                                                                         *)
(* A node of a parse tree is written as one of the AST.  Its kinds are     *)
(* those of the AST and NegNumber, Paren and NonShort, which the AST lacks.*)
(***************************************************************************)
EXTENDS TreeVisits

CONSTANT MaxLiteral   \* the largest int: std::stoi throws above it

Registers == [expr |-> Nothing, field |-> Nothing, stmt |-> Nothing,
              name |-> "", declaration |-> <<>>, function |-> Function("", <<>>, <<>>, <<>>)]

Leave(t, r, kids)     == [r EXCEPT !.expr = Node(t.kind, t.name, t.number, kids)]
LeaveStmt(t, r, kids) == [r EXCEPT !.stmt = Node(t.kind, t.name, t.number, kids)]

-----------------------------------------------------------------------------
(* visit(), which dispatches on the node, and a loop that visits each of   *)
(* some children and pushes back the register it reads after each.         *)
RECURSIVE Visit(_, _), VisitEach(_, _, _, _)

VisitEach(kids, register, r, built) ==
  IF Len(built) = Len(kids) THEN [r |-> r, built |-> built]
  ELSE LET after == Visit(kids[Len(built) + 1], r)
       IN  VisitEach(kids, register, after, Append(built, after[register]))

(* Numbers, and the expressions without operands.                          *)
VisitNumExpr(t, r)   == [r EXCEPT !.expr = NumberExpr(t.number)]
VisitNegNumber(t, r) == [r EXCEPT !.expr = NumberExpr(-t.number)]
VisitBoolExpr(t, r)  == [r EXCEPT !.expr = BoolExpr(t.number = 1)]
VisitVarExpr(t, r)   == [r EXCEPT !.expr = VariableExpr(t.name)]
VisitInputExpr(r)    == [r EXCEPT !.expr = InputExpr]
VisitNullExpr(r)     == [r EXCEPT !.expr = NullExpr]

(* One operand: the register holds it, then the expression made of it.     *)
VisitAllocExpr(t, r)    == [Visit(t.kids[1], r) EXCEPT !.expr = AllocExpr(@)]
VisitRefExpr(t, r)      == [Visit(t.kids[1], r) EXCEPT !.expr = RefExpr(@)]
VisitDeRefExpr(t, r)    == [Visit(t.kids[1], r) EXCEPT !.expr = DeRefExpr(@)]
VisitArrayLenExpr(t, r) == [Visit(t.kids[1], r) EXCEPT !.expr = ArrayLenExpr(@)]
VisitNotExpr(t, r)      == [Visit(t.kids[1], r) EXCEPT !.expr = NotExpr(@)]
VisitNegExpr(t, r)      == [Visit(t.kids[1], r) EXCEPT !.expr = NegExpr(@)]
VisitAccessExpr(t, r)   == [Visit(t.kids[1], r) EXCEPT !.expr = AccessExpr(@, t.name)]

(* Slip: the left operand is read when both have been visited.             *)
VisitBinaryExprLate(t, r) ==
  LET rhs == Visit(t.kids[2], Visit(t.kids[1], r)) IN Leave(t, rhs, <<rhs.expr, rhs.expr>>)

VisitBinaryExpr(t, r) ==
  LET lhs == Visit(t.kids[1], r)
      rhs == Visit(t.kids[2], lhs)
  IN  Leave(t, rhs, <<lhs.expr, rhs.expr>>)

VisitArrayIndexingExpr(t, r) ==
  LET arr == Visit(t.kids[1], r)
      idx == Visit(t.kids[2], arr)
  IN  [idx EXCEPT !.expr = IndexingExpr(arr.expr, idx.expr)]

VisitArrayOfExpr(t, r) ==
  LET first  == Visit(t.kids[1], r)
      second == Visit(t.kids[2], first)
  IN  [second EXCEPT !.expr = ArrayOfExpr(first.expr, second.expr)]

VisitTernaryExpr(t, r) ==
  LET cond == Visit(t.kids[1], r)
      then == Visit(t.kids[2], cond)
      else == Visit(t.kids[3], then)
  IN  Leave(t, else, <<cond.expr, then.expr, else.expr>>)

(* A call visits its function and its arguments, an array its elements.    *)
VisitFunAppExpr(t, r) ==
  LET each == VisitEach(t.kids, "expr", r, <<>>)
  IN  [each.r EXCEPT !.expr = FunAppExpr(Head(each.built), Tail(each.built))]

VisitArrayLiteral(t, r) ==
  LET each == VisitEach(t.kids, "expr", r, <<>>) IN [each.r EXCEPT !.expr = ArrayExpr(each.built)]

VisitRecordExpr(t, r) ==
  LET each == VisitEach(t.kids, "field", r, <<>>) IN Leave(t, each.r, each.built)

(* The expression below may hold a record, whose fields use the register.  *)
VisitFieldExpr(t, r) ==
  LET after == Visit(t.kids[1], r)
  IN  [after EXCEPT !.field = FieldExpr(t.name, after.expr)]

VisitParenExpr(t, r) == Visit(t.kids[1], r)

(* The grammar has | and &, the builder no method for them: the inherited  *)
(* visitChildren visits both operands and the register keeps the second.   *)
VisitChildren(t, r) == VisitEach(t.kids, "expr", r, <<>>).r

-----------------------------------------------------------------------------
(* Statements.                                                             *)
VisitBlockStmt(t, r) ==
  LET each == VisitEach(t.kids, "stmt", r, <<>>) IN LeaveStmt(t, each.r, each.built)

VisitWhileStmt(t, r) ==
  LET cond == Visit(t.kids[1], r)
      body == Visit(t.kids[2], cond)
  IN  LeaveStmt(t, body, <<cond.expr, body.stmt>>)

(* The number of its expressions tells the forms of a for apart.           *)
ForForm(exprs) == CASE exprs = 2 -> "each" [] exprs = 3 -> "range" [] exprs = 4 -> "step"

VisitForStmt(t, r) ==
  LET each == VisitEach(Front(t.kids), "expr", r, <<>>)
      body == Visit(Last(t.kids), each.r)
  IN  [body EXCEPT !.stmt = Node("For", ForForm(Len(t.kids) - 1), 0, Append(each.built, body.stmt))]

VisitIfStmt(t, r) ==
  LET cond     == Visit(t.kids[1], r)
      branches == VisitEach(Tail(t.kids), "stmt", cond, <<>>)
  IN  LeaveStmt(t, branches.r, <<cond.expr>> \o branches.built)

VisitUpdateStmt(t, r) == LET e == Visit(t.kids[1], r) IN [e EXCEPT !.stmt = UpdateStmt(e.expr, t.name)]
VisitOutputStmt(t, r) == LET e == Visit(t.kids[1], r) IN [e EXCEPT !.stmt = OutputStmt(e.expr)]
VisitErrorStmt(t, r)  == LET e == Visit(t.kids[1], r) IN [e EXCEPT !.stmt = ErrorStmt(e.expr)]
VisitReturnStmt(t, r) == LET e == Visit(t.kids[1], r) IN [e EXCEPT !.stmt = ReturnStmt(e.expr)]

VisitAssignStmt(t, r) ==
  LET lhs == Visit(t.kids[1], r)
      rhs == Visit(t.kids[2], lhs)
  IN  LeaveStmt(t, rhs, <<lhs.expr, rhs.expr>>)

Visit(t, r) ==
  CASE t.kind = "Number"    -> VisitNumExpr(t, r)
    [] t.kind = "NegNumber" -> VisitNegNumber(t, r)
    [] t.kind = "Bool"      -> VisitBoolExpr(t, r)
    [] t.kind = "Variable"  -> VisitVarExpr(t, r)
    [] t.kind = "Input"     -> VisitInputExpr(r)
    [] t.kind = "Null"      -> VisitNullExpr(r)
    [] t.kind = "Alloc"     -> VisitAllocExpr(t, r)
    [] t.kind = "Ref"       -> VisitRefExpr(t, r)
    [] t.kind = "DeRef"     -> VisitDeRefExpr(t, r)
    [] t.kind = "ArrayLen"  -> VisitArrayLenExpr(t, r)
    [] t.kind = "Not"       -> VisitNotExpr(t, r)
    [] t.kind = "Neg"       -> VisitNegExpr(t, r)
    [] t.kind = "Access"    -> VisitAccessExpr(t, r)
    [] t.kind = "Binary"    -> VisitBinaryExpr(t, r)
    [] t.kind = "Indexing"  -> VisitArrayIndexingExpr(t, r)
    [] t.kind = "ArrayOf"   -> VisitArrayOfExpr(t, r)
    [] t.kind = "Ternary"   -> VisitTernaryExpr(t, r)
    [] t.kind = "FunApp"    -> VisitFunAppExpr(t, r)
    [] t.kind = "Array"     -> VisitArrayLiteral(t, r)
    [] t.kind = "Record"    -> VisitRecordExpr(t, r)
    [] t.kind = "Field"     -> VisitFieldExpr(t, r)
    [] t.kind = "Paren"     -> VisitParenExpr(t, r)
    [] t.kind = "NonShort"  -> VisitChildren(t, r)
    [] t.kind = "Block"     -> VisitBlockStmt(t, r)
    [] t.kind = "While"     -> VisitWhileStmt(t, r)
    [] t.kind = "For"       -> VisitForStmt(t, r)
    [] t.kind = "If"        -> VisitIfStmt(t, r)
    [] t.kind = "Assign"    -> VisitAssignStmt(t, r)
    [] t.kind = "Update"    -> VisitUpdateStmt(t, r)
    [] t.kind = "Output"    -> VisitOutputStmt(t, r)
    [] t.kind = "Error"     -> VisitErrorStmt(t, r)
    [] t.kind = "Return"    -> VisitReturnStmt(t, r)

-----------------------------------------------------------------------------
(* Declarations and functions.  A function's parse tree has its names (its *)
(* own and the formals'), mark, declarations, statements and return.       *)
Reading(VisitOne(_, _), register, ts, r) ==
  FoldLeft(LAMBDA sofar, t : LET after == VisitOne(t, sofar.r)
                             IN  [r |-> after, built |-> Append(sofar.built, after[register])],
           [r |-> r, built |-> <<>>], ts)

VisitNameDeclaration(x, r) == [r EXCEPT !.name = x]

VisitDeclaration(xs, r) ==
  LET each == Reading(VisitNameDeclaration, "name", xs, r)
  IN  [each.r EXCEPT !.declaration = each.built]

VisitFunction(t, r) ==
  LET names == Reading(VisitNameDeclaration, "name", t.names, r)
      decls == Reading(VisitDeclaration, "declaration", t.declarations, names.r)
      stmts == VisitEach(t.statements, "stmt", decls.r, <<>>)
      last  == Visit(t.returnStmt, stmts.r)
  IN  [last EXCEPT !.function =
         [name |-> Head(names.built), formals |-> Tail(names.built), poly |-> t.poly,
          decls |-> decls.built, body |-> Append(stmts.built, last.stmt)]]

Build(tree) == Reading(VisitFunction, "function", tree, Registers).built

-----------------------------------------------------------------------------
(* The parse tree of the text of a program, in which every compound        *)
(* operand is in parentheses.                                              *)
RECURSIVE ParseTree(_)

Statements == {"Assign", "Update", "Block", "While", "For", "If", "Output", "Error", "Return"}

ParseTree(n) ==
  LET kids == [i \in DOMAIN n.kids |-> ParseTree(n.kids[i])]
  IN  CASE n.kind = "Number" /\ n.number < 0 -> Node("NegNumber", "", -n.number, <<>>)
        [] n.kind = "For" -> Node("For", "", 0, kids)
        [] n.kind = "Binary" /\ n.name \in {"|", "&"} -> Node("Paren", "", 0, <<Node("NonShort", n.name, 0, kids)>>)
        [] n.kind \in Statements \cup {"Field"} \/ n.kids = <<>> -> Node(n.kind, n.name, n.number, kids)
        [] OTHER -> Node("Paren", "", 0, <<Node(n.kind, n.name, n.number, kids)>>)

Parsed(p) ==
  [f \in DOMAIN p |->
    [names        |-> <<p[f].name>> \o p[f].formals,
     poly         |-> p[f].poly,
     declarations |-> p[f].decls,
     statements   |-> [i \in DOMAIN Front(p[f].body) |-> ParseTree(p[f].body[i])],
     returnStmt   |-> ParseTree(Last(p[f].body))]]

(* A literal that std::stoi refuses, and an operator the builder drops.    *)
NodesOf(p) == {v.node : v \in ToSet(Visits(p))}

HasLongLiteral(p) ==
  \E n \in NodesOf(p) : n.kind = "Number" /\ (n.number > MaxLiteral \/ -n.number > MaxLiteral)

HasUnbuiltOperator(p) == \E n \in NodesOf(p) : n.kind = "Binary" /\ n.name \in {"|", "&"}
=============================================================================
