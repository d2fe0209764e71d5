-------------------------- MODULE TypeConstraints --------------------------
(***************************************************************************)
(* From a program to its type equations and back: TypeConstraintVisitor    *)
(* (one endVisit for every kind of node), TypeInference without            *)
(* polymorphism, and AbsentFieldChecker.  How the equations are solved is  *)
(* the module Unifier; here the same unification is one operator.          *)
(*                                                                         *)
(* A type term is built by a constructor over terms.  TipVar of a node is  *)
(* built by "var"; a TipAlpha by "alpha", from a node, a context (the call *)
(* it was copied for) and the name of a field.  A variable of the program  *)
(* is represented by its declaration.                                      *)
(***************************************************************************)
EXTENDS Symbols

Term(con, id, args) == [con |-> con, id |-> id, args |-> args]

NoNode == [at |-> <<>>, name |-> ""]

TipVar(id)       == Term("var", id, <<>>)
Alpha(node, context, name) ==
  Term("alpha", [node |-> node, context |-> context, name |-> name], <<>>)
TipAlpha(node)   == Alpha(node, NoNode, "")
TipInt           == Term("int", NoNode, <<>>)
TipBool          == Term("bool", NoNode, <<>>)
TipAbsentField   == Term("absent", NoNode, <<>>)
TipRef(t)        == Term("ref", NoNode, <<t>>)
TipArray(t)      == Term("array", NoNode, <<t>>)
TipFunction(params, ret) == Term("function", NoNode, Append(params, ret))
TipRecord(inits) == Term("record", NoNode, inits)

Equation(l, r) == <<l, r>>

-----------------------------------------------------------------------------
(* Below, t is the symbol table and v a visited node; TypeOf(t, v, i) is   *)
(* the type variable of its i-th child.                                    *)
AstToVar(t, v) ==
  TipVar(IF v.node.kind = "Variable" THEN Lookup(t, v.at[1], v.node.name)
         ELSE Expression(v))

TypeOf(t, v, i) == AstToVar(t, Kid(v, i))
ActualTypes(t, v) == [i \in DOMAIN Actuals(v.node) |-> TypeOf(t, v, i + 1)]

(* A function: main takes and returns integers.                            *)
FunctionType(p, t, f) ==
  LET formals == [i \in DOMAIN p[f].formals |-> TipVar(Declaration(f, p[f].formals[i]))]
      ret     == AstToVar(t, ReturnArg(p, f))
  IN  (IF p[f].name # "main" THEN <<>>
       ELSE [i \in DOMAIN formals |-> Equation(formals[i], TipInt)] \o <<Equation(ret, TipInt)>>)
      \o <<Equation(TipVar(Declaration(f, p[f].name)), TipFunction(formals, ret))>>

(* Slip: the result of a call is not related to what the callee returns.   *)
FunAppForgetsResult(t, v) ==
  <<Equation(TypeOf(t, v, 1), TipFunction(ActualTypes(t, v), TipAlpha(Expression(v))))>>

FunApp(t, v) ==
  <<Equation(TypeOf(t, v, 1), TipFunction(ActualTypes(t, v), AstToVar(t, v)))>>

Arithmetic == {"+", "-", "*", "/", "%"}
Equality   == {"==", "!="}
Logical    == {"and", "or"}

Binary(t, v) ==
  <<Equation(AstToVar(t, v), IF v.node.name \in Arithmetic THEN TipInt ELSE TipBool)>> \o
  IF v.node.name \in Equality THEN <<Equation(TypeOf(t, v, 1), TypeOf(t, v, 2))>>
  ELSE LET operand == IF v.node.name \in Logical THEN TipBool ELSE TipInt
       IN  <<Equation(TypeOf(t, v, 1), operand), Equation(TypeOf(t, v, 2), operand)>>

(* Slip: an assignment through a pointer is not constrained.               *)
AssignFreely(t, v) ==
  IF v.node.kids[1].kind = "DeRef" THEN <<>>
  ELSE <<Equation(TypeOf(t, v, 1), TypeOf(t, v, 2))>>

(* An assignment through a pointer equates the pointer with a reference.   *)
Assign(t, v) ==
  IF v.node.kids[1].kind = "DeRef"
  THEN <<Equation(AstToVar(t, Kid(Kid(v, 1), 1)), TipRef(TypeOf(t, v, 2)))>>
  ELSE <<Equation(TypeOf(t, v, 1), TypeOf(t, v, 2))>>

(* A record has a type for every field of the program, the first           *)
(* initialiser of the field or absent.                                     *)
FieldType(t, v, x) ==
  LET given == {i \in DOMAIN v.node.kids : v.node.kids[i].name = x}
  IN  IF given = {} THEN TipAbsentField
      ELSE AstToVar(t, Kid(Kid(v, CHOOSE i \in given : \A j \in given : i <= j), 1))

Record(t, v) ==
  <<Equation(AstToVar(t, v), TipRecord([i \in DOMAIN t.fields |-> FieldType(t, v, t.fields[i])]))>>

Access(t, v) ==
  <<Equation(TypeOf(t, v, 1),
      TipRecord([i \in DOMAIN t.fields |->
        IF t.fields[i] = v.node.name THEN AstToVar(t, v)
        ELSE Alpha(Expression(v), NoNode, t.fields[i])]))>>

Ternary(t, v) ==
  <<Equation(TypeOf(t, v, 1), TipBool), Equation(TypeOf(t, v, 2), TypeOf(t, v, 3)),
    Equation(AstToVar(t, v), TypeOf(t, v, 2))>>

(* All elements of an array literal have one type; the type of an empty    *)
(* literal is left open.                                                   *)
Array(t, v) ==
  IF v.node.kids = <<>> THEN <<>>
  ELSE FlattenSeq([i \in DOMAIN v.node.kids |->
         [j \in 1..Len(v.node.kids) - i |-> Equation(TypeOf(t, v, i), TypeOf(t, v, i + j))]])
       \o <<Equation(AstToVar(t, v), TipArray(TypeOf(t, v, 1)))>>

Indexing(t, v) ==
  <<Equation(TypeOf(t, v, 2), TipInt), Equation(TypeOf(t, v, 1), TipArray(AstToVar(t, v)))>>

ArrayLen(t, v) ==
  <<Equation(AstToVar(t, v), TipInt),
    Equation(TypeOf(t, v, 1), TipArray(TipAlpha(Expression(Kid(v, 1)))))>>

ArrayOf(t, v) ==
  <<Equation(TypeOf(t, v, 1), TipInt), Equation(AstToVar(t, v), TipArray(TypeOf(t, v, 2)))>>

For(t, v) ==
  IF v.node.name = "each" THEN <<Equation(TypeOf(t, v, 2), TipArray(TypeOf(t, v, 1)))>>
  ELSE [i \in 1..Len(v.node.kids) - 1 |-> Equation(TypeOf(t, v, i), TipInt)]

(* The operand of a negation is constrained, its result is not.            *)
Not(t, v) == <<Equation(TypeOf(t, v, 1), TipBool)>>
Neg(t, v) == <<Equation(TypeOf(t, v, 1), TipInt)>>

Alloc(t, v)     == <<Equation(AstToVar(t, v), TipRef(TypeOf(t, v, 1)))>>
AddressOf(t, v) == <<Equation(AstToVar(t, v), TipRef(TypeOf(t, v, 1)))>>
DeRef(t, v)     == <<Equation(TypeOf(t, v, 1), TipRef(AstToVar(t, v)))>>
NullRef(t, v)   == <<Equation(AstToVar(t, v), TipRef(TipAlpha(Expression(v))))>>
Literal(t, v)   == <<Equation(AstToVar(t, v), IF v.node.kind = "Bool" THEN TipBool ELSE TipInt)>>
Condition(t, v) == <<Equation(TypeOf(t, v, 1), TipBool)>>
IntOperand(t, v) == <<Equation(TypeOf(t, v, 1), TipInt)>>

Equations(t, v) ==
  CASE v.node.kind \in {"Number", "Bool", "Input"}    -> Literal(t, v)
    [] v.node.kind \in {"While", "If"}                -> Condition(t, v)
    [] v.node.kind \in {"Output", "Error", "Update"}  -> IntOperand(t, v)
    [] v.node.kind = "Binary"   -> Binary(t, v)
    [] v.node.kind = "FunApp"   -> FunApp(t, v)
    [] v.node.kind = "Alloc"    -> Alloc(t, v)
    [] v.node.kind = "Ref"      -> AddressOf(t, v)
    [] v.node.kind = "DeRef"    -> DeRef(t, v)
    [] v.node.kind = "Null"     -> NullRef(t, v)
    [] v.node.kind = "Assign"   -> Assign(t, v)
    [] v.node.kind = "Record"   -> Record(t, v)
    [] v.node.kind = "Access"   -> Access(t, v)
    [] v.node.kind = "Ternary"  -> Ternary(t, v)
    [] v.node.kind = "Array"    -> Array(t, v)
    [] v.node.kind = "Indexing" -> Indexing(t, v)
    [] v.node.kind = "ArrayLen" -> ArrayLen(t, v)
    [] v.node.kind = "ArrayOf"  -> ArrayOf(t, v)
    [] v.node.kind = "Not"      -> Not(t, v)
    [] v.node.kind = "Neg"      -> Neg(t, v)
    [] v.node.kind = "For"      -> For(t, v)
    [] OTHER                    -> <<>>

(* All constraints a visitor collects: function by function, those of the  *)
(* function after those of its statements.                                 *)
Collect(p, t, f) ==
  LET visits == FunctionVisits(p, f, 1)
  IN  FlattenSeq([i \in DOMAIN visits |-> Equations(t, visits[i])]) \o FunctionType(p, t, f)

Collected(p, t) == FlattenSeq([f \in DOMAIN p |-> Collect(p, t, f)])

-----------------------------------------------------------------------------
(* Unification as the module Unifier describes it, run to its end: edges   *)
(* maps a term to its parent, todo lists the equations to make true.       *)
RECURSIVE Root(_, _)
Root(edges, x) ==
  IF x \notin DOMAIN edges \/ edges[x] = x THEN x ELSE Root(edges, edges[x])

IsVar(x) == x.con \in {"var", "alpha"}

DoMatch(x, y) ==
  /\ x.con = y.con /\ x.con \notin {"bool", "absent", "mu"}
  /\ Len(x.args) = Len(y.args)

Link(edges, x, y) == [z \in DOMAIN edges \cup {x, y} |->
                        IF z = x THEN y ELSE IF z \in DOMAIN edges THEN edges[z] ELSE z]

RECURSIVE Unify(_, _)
Unify(edges, todo) ==
  IF todo = <<>> THEN [ok |-> TRUE, edges |-> edges]
  ELSE LET x == Root(edges, todo[1][1])
           y == Root(edges, todo[1][2])
       IN  IF x = y THEN Unify(edges, Tail(todo))
           ELSE IF IsVar(x) THEN Unify(Link(edges, x, y), Tail(todo))
           ELSE IF IsVar(y) THEN Unify(Link(edges, y, x), Tail(todo))
           ELSE IF DoMatch(x, y)
           THEN Unify(Link(edges, x, y),
                      [i \in DOMAIN x.args |-> <<x.args[i], y.args[i]>>] \o Tail(todo))
           ELSE [ok |-> FALSE, edges |-> edges]

NoEdges == [x \in {} |-> x]

(* Slip: the type of the access is read without finding its representative.*)
AccessesAbsentUnfound(p, t, edges) ==
  \E v \in ToSet(Visits(p)) :
    v.node.kind = "Access" /\ AstToVar(t, v) \in DOMAIN edges /\ edges[AstToVar(t, v)] = TipAbsentField

(* AbsentFieldChecker: an accessed field is absent from the record.        *)
AccessesAbsentField(p, t, edges) ==
  \E v \in ToSet(Visits(p)) :
    /\ v.node.kind = "Access"
    /\ Root(edges, AstToVar(t, v)) = TipAbsentField

-----------------------------------------------------------------------------
(* Nodes whose types the equations leave open or get wrong, each with a    *)
(* line above to blame: the result of a negation, an empty array literal,  *)
(* a field initialised twice, and a function whose address is taken or     *)
(* that is assigned to.                                                    *)
TypedOtherwise(t, edges, v) ==
  \/ v.node.kind = "Not" /\ Root(edges, AstToVar(t, v)).con # "bool"
  \/ v.node.kind = "Neg" /\ Root(edges, AstToVar(t, v)).con # "int"
  \/ v.node = ArrayExpr(<<>>) /\ Root(edges, AstToVar(t, v)).con # "array"
  \/ v.node.kind = "Record" /\ HasDuplicates([i \in DOMAIN v.node.kids |-> v.node.kids[i].name])
  \/ /\ v.node.kind \in {"Ref", "Assign", "Update", "For"}
     /\ v.node.kids[1].kind = "Variable" /\ v.node.kids[1].name \notin t.locals[v.at[1]]

HasUntypedNode(p, t, edges) == \E v \in ToSet(Visits(p)) : TypedOtherwise(t, edges, v)

(* A function is stored, or returned, where the control flow analysis has  *)
(* no constraint: not by an assignment to a variable, nor through a formal.*)
MayBeFunction(edges, x) == Root(edges, x).con \in {"function", "var", "alpha"}

FlowsAround(t, edges, v) ==
  \/ /\ v.node.kind \in {"Ternary", "Field", "Array", "ArrayOf", "Alloc", "Ref", "For"}
     /\ \E i \in DOMAIN v.node.kids : MayBeFunction(edges, TypeOf(t, v, i))
  \/ /\ v.node.kind = "Assign" /\ v.node.kids[1].kind # "Variable"
     /\ MayBeFunction(edges, TypeOf(t, v, 2))
  \/ /\ v.node.kind = "FunApp" /\ Actuals(v.node) = <<>>
     /\ MayBeFunction(edges, AstToVar(t, v))

HasFunctionInData(p, t, edges) == \E v \in ToSet(Visits(p)) : FlowsAround(t, edges, v)
=============================================================================
