---------------------------- MODULE CallAnalysis ----------------------------
(***************************************************************************)
(* The control flow analysis of tipc (src/semantic/cfa): which functions   *)
(* may each call reach?  CFAnalyzer turns the program into constraints on  *)
(* the sets of functions its expressions evaluate to, CubicSolver solves   *)
(* them, CallGraphBuilder reads the answers at the calls.  The solver is   *)
(* the module CubicSolver; here it is what it promises, the least solution.*)
(***************************************************************************)
EXTENDS Symbols

(* CFAnalyzer::getCanonical and getCanonicalForFunction: a variable is     *)
(* represented by its declaration, any other node by itself.               *)
Canonical(t, v) ==
  IF v.node.kind = "Variable" THEN Lookup(t, v.at[1], v.node.name) ELSE Expression(v)

(* Every function is an element of its own name.                           *)
Elements(p) == {[fun |-> f, node |-> Declaration(f, p[f].name)] : f \in DOMAIN p}

(* visit(ASTAssignStmt): what the right side may be, the left side may be. *)
Inclusions(p, t) ==
  {[from |-> Canonical(t, Kid(v, 2)), to |-> Canonical(t, Kid(v, 1))] :
     v \in {x \in ToSet(Visits(p)) : x.node.kind = "Assign"}}

(* Slip: what the function returns does not flow to the call.              *)
CallWithoutReturn(p, t, v, f, i) ==
  {[fun |-> f, at |-> Canonical(t, Kid(v, 1)), from |-> Canonical(t, Kid(v, i + 1)),
    to |-> Declaration(f, p[f].formals[i])]}

(* visit(ASTFunAppExpr): if the callee may be f, actuals flow to formals   *)
(* and the returned expression to the call, once for every formal.         *)
Call(p, t, v, f, i) ==
  LET callee == Canonical(t, Kid(v, 1))
  IN  {[fun |-> f, at |-> callee, from |-> Canonical(t, Kid(v, i + 1)),
        to |-> Declaration(f, p[f].formals[i])],
       [fun |-> f, at |-> callee, from |-> Canonical(t, ReturnArg(p, f)),
        to |-> Canonical(t, v)]}

Conditionals(p, t) ==
  UNION {UNION {Call(p, t, v, f, i) : i \in DOMAIN p[f].formals} :
    <<v, f>> \in {x \in ToSet(Visits(p)) \X DOMAIN p :
                    /\ x[1].node.kind = "FunApp"
                    /\ Len(p[x[2]].formals) = Len(Actuals(x[1].node))}}

(* The least relation "function fun reaches node" of the constraints.      *)
RECURSIVE Flow(_, _, _)
Flow(reach, incl, cond) ==
  LET active == incl \cup {[from |-> c.from, to |-> c.to] :
                     c \in {d \in cond : [fun |-> d.fun, node |-> d.at] \in reach}}
      next   == reach \cup UNION {{[fun |-> r.fun, node |-> e.to] :
                     e \in {a \in active : a.from = r.node}} : r \in reach}
  IN  IF next = reach THEN reach ELSE Flow(next, incl, cond)

Reaches(p, t) == Flow(Elements(p), Inclusions(p, t), Conditionals(p, t))

(* CallGraphBuilder::getMayCall: the functions each call may reach.        *)
MayCall(p, t) ==
  LET reach == Reaches(p, t)
      calls == {v \in ToSet(Visits(p)) : v.node.kind = "FunApp"}
  IN  [at \in {v.at : v \in calls} |->
        LET v == CHOOSE x \in calls : x.at = at
        IN  {r.fun : r \in {x \in reach : x.node = Canonical(t, Kid(v, 1))}}]
=============================================================================
