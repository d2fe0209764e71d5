----------------------------- MODULE PolyTypes -----------------------------
(***************************************************************************)
(* Closed types and polymorphic inference: the type Unifier::close reads   *)
(* out of a solution, the visitors it uses (Substituter, Copier,           *)
(* FreshAlphaCopier, TypeVars), PolyTypeConstraintVisitor, which copies the *)
(* generic type of a poly function for each call, and both modes of        *)
(* TypeInference::run.  The searches that order the functions are the      *)
(* module PolyInference; here they are what they find.                     *)
(*                                                                         *)
(* A recursive type TipMu(v, t) is a term built by "mu" from v and t.      *)
(***************************************************************************)
EXTENDS TypeConstraints

TipMu(v, t) == Term("mu", NoNode, <<v, t>>)

NodeOf(v) == IF v.con = "alpha" THEN v.id.node ELSE v.id

(* A copied TipAlpha keeps its node and its name.                          *)
WithoutContext(v) == IF v.con = "alpha" THEN Alpha(v.id.node, NoNode, v.id.name) ELSE v

RECURSIVE Copy(_), Substitute(_, _, _), FreshCopy(_, _), FreshCopyOfCall(_, _), TypeVars(_)

Copy(t) ==
  IF IsVar(t) THEN WithoutContext(t)
  ELSE [t EXCEPT !.args = [i \in DOMAIN t.args |-> Copy(t.args[i])]]

(* Substituter: s for v in t, a variable that a TipMu binds not excepted.  *)
Substitute(t, v, s) ==
  IF IsVar(t) THEN Copy(IF t = v THEN s ELSE t)
  ELSE [t EXCEPT !.args = [i \in DOMAIN t.args |-> Substitute(t.args[i], v, s)]]

(* Slip: the new alpha is only made from the call.                         *)
FreshCopyOfCall(t, call) ==
  IF t.con = "alpha" THEN Alpha(NoNode, call, t.id.name)
  ELSE [t EXCEPT !.args = [i \in DOMAIN t.args |-> FreshCopyOfCall(t.args[i], call)]]

(* FreshAlphaCopier: every alpha becomes that of the call.                 *)
FreshCopy(t, call) ==
  IF t.con = "alpha" THEN Alpha(t.id.node, call, t.id.name)
  ELSE [t EXCEPT !.args = [i \in DOMAIN t.args |-> FreshCopy(t.args[i], call)]]

(* The variables of a type as a set of new objects: one for every          *)
(* occurrence, and no TipMu finds its own among them to erase it.          *)
TypeVars(t) ==
  IF IsVar(t) THEN <<WithoutContext(t)>>
  ELSE FlattenSeq([i \in DOMAIN t.args |-> TypeVars(t.args[i])])

-----------------------------------------------------------------------------
(* Unifier::close.  A variable being closed, or one without another root,  *)
(* is left open; a type that contains its own variable is recursive.       *)
(* Slip: no type is ever recursive.                                        *)
NeverCyclic(closed, new) == FALSE

Cyclic(closed, new) == closed # new /\ new \in ToSet(TypeVars(closed))

RECURSIVE Close(_, _, _), CloseArgs(_, _, _, _)

CloseVar(edges, v, visited) ==
  LET closed == Close(edges, Root(edges, v), visited \cup {v})
      new    == IF v.con = "alpha" THEN v ELSE TipAlpha(NodeOf(v))
  IN  IF Cyclic(closed, new) THEN TipMu(new, Substitute(closed, v, new)) ELSE closed

Close(edges, t, visited) ==
  CASE IsVar(t) /\ (t \in visited \/ Root(edges, t) = t) -> TipAlpha(NodeOf(t))
    [] IsVar(t) /\ t \notin visited /\ Root(edges, t) # t -> CloseVar(edges, t, visited)
    [] t.con = "mu" -> TipMu(t.args[1], Close(edges, t.args[2], visited))
    [] OTHER        -> [t EXCEPT !.args = CloseArgs(edges, TypeVars(t), visited, t.args)]

(* One variable after the other is closed and substituted.                 *)
CloseArgs(edges, vs, visited, args) ==
  IF vs = <<>> THEN args
  ELSE LET closed == Close(edges, Head(vs), visited)
       IN  CloseArgs(edges, Tail(vs), visited,
             [i \in DOMAIN args |-> Substitute(args[i], Head(vs), closed)])

(* Unifier::inferred and TypeInference::getInferredType.                   *)
Inferred(edges, d) == Close(edges, TipVar(d), {})

Declared(t) ==
  {Declaration(t.functions[x], x) : x \in DOMAIN t.functions}
    \cup UNION {{Declaration(f, x) : x \in t.locals[f]} : f \in DOMAIN t.locals}

InferredTypes(t, edges) == [d \in Declared(t) |-> Inferred(edges, d)]

-----------------------------------------------------------------------------
(* The call graph between functions, and the order of the stages.  Both    *)
(* depend on where the functions are in memory: callees are visited in the *)
(* order of their addresses.                                               *)
Callees(calls, f) == UNION {calls[at] : at \in {x \in DOMAIN calls : x[1] = f}}

RECURSIVE Reached(_, _)
Reached(calls, fs) ==
  LET next == fs \cup UNION {Callees(calls, f) : f \in fs}
  IN  IF next = fs THEN fs ELSE Reached(calls, next)

MayIndirectlyCall(calls, f, g) == g \in Reached(calls, Callees(calls, f))

RecursiveFuncs(p, calls) == {f \in DOMAIN p : MayIndirectlyCall(calls, f, f)}

CallsRecursive(p, calls, f) == (Reached(calls, {f}) \cap RecursiveFuncs(p, calls)) # {}

(* The search of a function that is not recursive never comes back from a  *)
(* recursive one.  (For a recursive one the order of its callees decides.) *)
SearchesForever(p, calls) ==
  \E f \in DOMAIN p \ RecursiveFuncs(p, calls) : CallsRecursive(p, calls, f)

RECURSIVE TopoVisit(_, _, _, _)
TopoVisit(calls, address, sorted, f) ==
  IF f \in ToSet(sorted) THEN sorted
  ELSE LET callees == SetToSortSeq(Callees(calls, f), LAMBDA x, y : address[x] < address[y])
       IN  Append(FoldLeft(LAMBDA s, c : TopoVisit(calls, address, s, c), sorted, callees), f)

(* Slip: the functions are sorted by their addresses.                      *)
SortedByAddress(p, calls, address) ==
  SetToSortSeq({f \in DOMAIN p : ~CallsRecursive(p, calls, f)}, LAMBDA x, y : address[x] < address[y])

TopoSortNonRecursive(p, calls, address) ==
  LET unmarked == SelectSeq([f \in DOMAIN p |-> f], LAMBDA f : ~CallsRecursive(p, calls, f))
  IN  FoldLeft(LAMBDA s, f : TopoVisit(calls, address, s, f), <<>>, Reverse(unmarked))

Addresses(p) == {a \in [DOMAIN p -> DOMAIN p] : IsInjective(a)}

Orders(p, calls) ==
  IF SearchesForever(p, calls) THEN {<<>>}
  ELSE {TopoSortNonRecursive(p, calls, a) : a \in Addresses(p)}

-----------------------------------------------------------------------------
(* PolyTypeConstraintVisitor.  At a call, every function that may be       *)
(* called has an equation of its own: for one that is marked poly its      *)
(* generic type, copied for the call, is that of the application; for      *)
(* another the type of the callee expression is.                           *)
Generic(p, edges, f) == Inferred(edges, Declaration(f, p[f].name))

Application(t, v) == TipFunction(ActualTypes(t, v), AstToVar(t, v))

Instantiated(p, t, edges, v, f) ==
  IF p[f].poly THEN Equation(FreshCopy(Generic(p, edges, f), Expression(v)), Application(t, v))
  ELSE Equation(TypeOf(t, v, 1), Application(t, v))

CalledFuns(calls, v) == SetToSortSeq(calls[v.at], <)

PolyFunApp(p, t, calls, edges, v) ==
  LET funs == CalledFuns(calls, v)
  IN  [i \in DOMAIN funs |-> Instantiated(p, t, edges, v, funs[i])]

PolyEquations(p, t, calls, edges, v) ==
  IF v.node.kind = "FunApp" THEN PolyFunApp(p, t, calls, edges, v) ELSE Equations(t, v)

(* The generic types that the calls of a function copy.                    *)
Generics(p, calls, edges, f) ==
  LET visits == {v \in ToSet(FunctionVisits(p, f, 1)) : v.node.kind = "FunApp"}
  IN  {[fun |-> g, type |-> Generic(p, edges, g)] :
         g \in {h \in UNION {calls[v.at] : v \in visits} : p[h].poly}}

-----------------------------------------------------------------------------
(* TypeInference::run.  s is how far inference is: its verdict so far, the *)
(* union-find of its one unifier, and the generic types it has used.       *)
Inference(verdict, edges, generics) == [verdict |-> verdict, edges |-> edges, generics |-> generics]

Solved(s, todo, generics) ==
  LET u == Unify(s.edges, todo)
  IN  Inference(IF u.ok THEN "ok" ELSE "typeerror", u.edges, s.generics \cup generics)

(* One non-recursive function.  A generic type has to be a function type:  *)
(* there is an assertion, and nothing for a recursive type.                *)
Stage(p, t, calls, s, f) ==
  LET generics == Generics(p, calls, s.edges, f)
      visits   == FunctionVisits(p, f, 1)
  IN  IF s.verdict # "ok" THEN s
      ELSE IF \E g \in generics : g.type.con # "function"
      THEN Inference("assertion", s.edges, s.generics \cup generics)
      ELSE Solved(s, FlattenSeq([i \in DOMAIN visits |->
                       PolyEquations(p, t, calls, s.edges, visits[i])]) \o FunctionType(p, t, f),
                  generics)

Residual(p, t, s, order) ==
  LET others == SelectSeq([f \in DOMAIN p |-> f], LAMBDA f : f \notin ToSet(order))
  IN  IF s.verdict # "ok" THEN s
      ELSE Solved(s, FlattenSeq([i \in DOMAIN others |-> Collect(p, t, others[i])]), {})

FieldsChecked(p, t, s) ==
  IF s.verdict = "ok" /\ AccessesAbsentField(p, t, s.edges) THEN [s EXCEPT !.verdict = "typeerror"]
  ELSE s

RunMono(p, t) == FieldsChecked(p, t, Solved(Inference("ok", NoEdges, {}), Collected(p, t), {}))

RunPoly(p, t, calls, order) ==
  IF SearchesForever(p, calls) THEN Inference("recursion", NoEdges, {})
  ELSE LET staged == FoldLeft(LAMBDA s, f : Stage(p, t, calls, s, f), Inference("ok", NoEdges, {}), order)
       IN  FieldsChecked(p, t, Residual(p, t, staged, order))

TypeInference(p, t, calls, doPoly, order) ==
  IF doPoly THEN RunPoly(p, t, calls, order) ELSE RunMono(p, t)

-----------------------------------------------------------------------------
(***************************************************************************)
(* What a closed type should be: the type the solution has for the         *)
(* variable, as a tree, up to the names of its open variables.  A position *)
(* is a pair of a term of the solution and a part of the closed type.      *)
(***************************************************************************)
RECURSIVE Replace(_, _, _), Unfolded(_), Positions(_, _, _)

Replace(t, v, s) ==
  IF t = v THEN s ELSE [t EXCEPT !.args = [i \in DOMAIN t.args |-> Replace(t.args[i], v, s)]]

Unfolded(t) == IF t.con = "mu" THEN Unfolded(Replace(t.args[2], t.args[1], t)) ELSE t

Position(edges, x, y) == <<Unfolded(Root(edges, x)), Unfolded(y)>>

Inner(edges, q) ==
  IF IsVar(q[1]) \/ IsVar(q[2]) THEN {}
  ELSE {Position(edges, q[1].args[i], q[2].args[i]) : i \in DOMAIN q[1].args \cap DOMAIN q[2].args}

Positions(edges, new, seen) ==
  IF new \subseteq seen THEN seen
  ELSE Positions(edges, UNION {Inner(edges, q) : q \in new \ seen}, seen \cup new)

(* The closed type leaves open what the solution fixes, or more of it.     *)
TooGeneral(edges, d, closed) ==
  LET open == {q \in Positions(edges, {Position(edges, TipVar(d), closed)}, {}) : IsVar(q[2])}
  IN  \E q, r \in open : ~IsVar(q[1]) \/ (q[1] = r[1] /\ q[2] # r[2])

(* The closed type fixes what the solution leaves open, or more of it.     *)
TooSpecific(edges, d, closed) ==
  LET open == {q \in Positions(edges, {Position(edges, TipVar(d), closed)}, {}) : IsVar(q[1])}
  IN  \E q, r \in open : ~IsVar(q[2]) \/ (q[2] = r[2] /\ q[1] # r[1])

RECURSIVE IsRecursive(_)
IsRecursive(closed) == closed.con = "mu" \/ \E i \in DOMAIN closed.args : IsRecursive(closed.args[i])

(* A node has an alpha, or one for each of several fields, beside its own  *)
(* type variable: close does not tell them apart.                          *)
HasAlphaBesideVar(p, t) ==
  \E v \in ToSet(Visits(p)) :
    v.node.kind \in {"Null", "ArrayLen"} \/ (v.node.kind = "Access" /\ Len(t.fields) > 1)

(* The type of an accessed field is open where it is accessed.             *)
FieldLeftOpen(p, t, edges) ==
  \E v \in ToSet(Visits(p)) : v.node.kind = "Access" /\ IsVar(Root(edges, AstToVar(t, v)))
=============================================================================
