------------------------------ MODULE Symbols ------------------------------
(***************************************************************************)
(* The checks of a program before its analysis: the symbol table           *)
(* (src/semantic/symboltable) and the weeding pass that only lets l-values *)
(* be assigned (src/semantic/weeding).                                     *)
(***************************************************************************)
EXTENDS TreeVisits

HasDuplicates(s) == Cardinality(ToSet(s)) < Len(s)

-----------------------------------------------------------------------------
(* FunctionNameCollector: the function names, all different.               *)
FunctionNames(p) == [f \in DOMAIN p |-> p[f].name]

(* LocalNameCollector: formals and locals of a function, all different and *)
(* different from every function; and every variable used is one of these  *)
(* or a function.                                                          *)
LocalNames(p, f) == p[f].formals \o Locals(p[f])

LocalNameError(p, f) ==
  \/ HasDuplicates(LocalNames(p, f))
  \/ ToSet(LocalNames(p, f)) \cap ToSet(FunctionNames(p)) # {}

UndeclaredError(p, v) ==
  /\ v.node.kind = "Variable"
  /\ v.node.name \notin ToSet(FunctionNames(p)) \cup ToSet(LocalNames(p, v.at[1]))

(* SymbolTable::build throws.                                              *)
SymbolError(p) ==
  \/ HasDuplicates(FunctionNames(p))
  \/ \E f \in DOMAIN p : LocalNameError(p, f)
  \/ \E v \in ToSet(Visits(p)) : UndeclaredError(p, v)

-----------------------------------------------------------------------------
(* FieldNameCollector: every field name once, in the order of their first  *)
(* endVisit.                                                               *)
RECURSIVE FieldsOf(_, _, _)
FieldsOf(vs, i, found) ==
  IF i > Len(vs) THEN found
  ELSE FieldsOf(vs, i + 1,
         IF vs[i].node.kind \in {"Field", "Access"} /\ vs[i].node.name \notin ToSet(found)
         THEN Append(found, vs[i].node.name) ELSE found)

FieldNames(p) == FieldsOf(Visits(p), 1, <<>>)

(* The symbol table of a program without symbol errors.                    *)
SymbolTable(p) ==
  [functions |-> [x \in ToSet(FunctionNames(p)) |-> CHOOSE f \in DOMAIN p : p[f].name = x],
   locals    |-> [f \in DOMAIN p |-> ToSet(LocalNames(p, f))],
   fields    |-> FieldNames(p)]

(* The declaration a name stands for in function f: getLocal, then         *)
(* getFunction.  Declarations and expressions are told apart by the name.  *)
Declaration(f, x) == [at |-> <<f>>, name |-> x]
Expression(v)     == [at |-> v.at, name |-> ""]

Lookup(t, f, x) ==
  IF x \in t.locals[f] THEN Declaration(f, x) ELSE Declaration(t.functions[x], x)

-----------------------------------------------------------------------------
(* isAssignable: "Return true if expression has an l-value".               *)
IsAssignable(e) ==
  \/ e.kind = "Variable"
  \/ e.kind \in {"Access", "Indexing"} /\ e.kids[1].kind \in {"Variable", "DeRef"}

AssignableOrPointer(e) == IsAssignable(e) \/ e.kind = "DeRef"

(* CheckAssignable::check throws.                                          *)
AssignabilityError(p) ==
  \E v \in ToSet(Visits(p)) :
    \/ /\ v.node.kind \in {"Assign", "Update", "For"}
       /\ ~AssignableOrPointer(v.node.kids[1])
    \/ v.node.kind = "Ref" /\ ~IsAssignable(v.node.kids[1])
=============================================================================
