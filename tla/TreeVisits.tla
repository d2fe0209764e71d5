----------------------------- MODULE TreeVisits -----------------------------
(***************************************************************************)
(* The order in which the accept() methods visit a program, which is a     *)
(* sequence of functions, for the visitors that look at expressions and    *)
(* statements only.                                                        *)
(***************************************************************************)
EXTENDS TipAST

(* What a visitor gets to see: a node and where it is.                     *)
Kid(v, i) == [node |-> v.node.kids[i], at |-> Append(v.at, i)]
Kids(v)   == [i \in DOMAIN v.node.kids |-> Kid(v, i)]

Statement(p, f, s) == [node |-> p[f].body[s], at |-> <<f, s>>]
ReturnArg(p, f)    == Kid(Statement(p, f, Len(p[f].body)), 1)

(* The sequence of endVisit calls below one node, and in a whole program:  *)
(* the children in order, then the node.                                   *)
RECURSIVE EndVisits(_), EndVisitsFrom(_, _)

EndVisits(v) == Append(EndVisitsFrom(v, 1), v)

EndVisitsFrom(v, i) ==
  IF i > Len(v.node.kids) THEN <<>>
  ELSE EndVisits(Kid(v, i)) \o EndVisitsFrom(v, i + 1)

RECURSIVE FunctionVisits(_, _, _), ProgramVisits(_, _)

FunctionVisits(p, f, s) ==
  IF s > Len(p[f].body) THEN <<>>
  ELSE EndVisits(Statement(p, f, s)) \o FunctionVisits(p, f, s + 1)

ProgramVisits(p, f) ==
  IF f > Len(p) THEN <<>>
  ELSE FunctionVisits(p, f, 1) \o ProgramVisits(p, f + 1)

Visits(p) == ProgramVisits(p, 1)
=============================================================================
