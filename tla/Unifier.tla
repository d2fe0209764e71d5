------------------------------ MODULE Unifier ------------------------------
(***************************************************************************)
(* The equation solver of the type checker: Unifier::add, ::solve and      *)
(* ::unify (src/semantic/types/solver/Unifier.cpp) over the forest of      *)
(* UnionFind.cpp.                                                          *)
(*                                                                         *)
(* solve() walks the constraints from the first; unify(t1, t2) finds the   *)
(* two representatives, links them, and calls itself on the arguments.     *)
(* The recursion is the stack "todo" of calls still to be made, the        *)
(* current one first; the two find loops are steps of their own, so that   *)
(* their termination is part of what is checked.  Polymorphic inference    *)
(* (TypeInference.cpp runPoly) calls add and solve once per stage on one   *)
(* unifier, and each solve goes over all the constraints again.            *)
(***************************************************************************)
EXTENDS UnionFindOps

CONSTANTS
  Batches,         \* the sequences of constraints one call of add may bring
  MaxConstraints,  \* bound of the model: constraints a unifier ever receives
  NoTerm           \* the value of a local variable that is not in scope

ASSUME BatchesAssumption ==
  /\ Batches \subseteq Seq(Term \X Term)
  /\ MaxConstraints \in Nat
  /\ NoTerm \notin Term

VARIABLES
  edges,        \* UnionFind::edges
  constraints,  \* Unifier::constraints
  next,         \* index of the constraint solve() takes next
  todo,         \* calls of unify to be made, innermost and earliest first
  cur1, cur2,   \* "parent" in find(t1) and in find(t2)
  pc            \* where the solver is

vars == <<edges, constraints, next, todo, cur1, cur2, pc>>

PCs == {"idle", "loop", "find1", "find2", "failed"}

(* The terms a constraint brings: both sides and the arguments of a side   *)
(* that is a constructor; deeper subterms are inserted when found.         *)
Sides(q) == {q[1], q[2]}
Seeds(batch) ==
  LET sides == UNION {Sides(batch[i]) : i \in DOMAIN batch}
  IN  sides \cup UNION {{Args[c][i] : i \in DOMAIN Args[c]} : c \in sides \cap Cons}

(* Slip: the loop over the arguments stops before the last.                *)
AllButLastPairs(x, y) ==
  [i \in 1 .. Len(Args[x]) - 1 |-> <<Args[x][i], Args[y][i]>>]

(* The calls unify(a1, a2) on the arguments of two matching terms.         *)
ArgPairs(x, y) == [i \in 1 .. Len(Args[x]) |-> <<Args[x][i], Args[y][i]>>]

Init ==
  /\ edges = [t \in {} |-> t]
  /\ constraints = << >>
  /\ next = 1
  /\ todo = << >>
  /\ cur1 = NoTerm /\ cur2 = NoTerm
  /\ pc = "idle"

-----------------------------------------------------------------------------
(* Unifier::add (and the seeding constructor).                             *)
Add(batch) ==
  /\ pc = "idle"
  /\ Len(constraints) + Len(batch) <= MaxConstraints
  /\ constraints' = constraints \o batch
  /\ edges' = InsertAll(edges, Seeds(batch))
  /\ UNCHANGED <<next, todo, cur1, cur2, pc>>

(* Slip: the loop of solve starts before the first constraint.             *)
SolveFromZero ==
  /\ pc = "idle"
  /\ next' = 0
  /\ pc' = "loop"
  /\ UNCHANGED <<edges, constraints, todo, cur1, cur2>>

(* Unifier::solve is called.                                               *)
Solve ==
  /\ pc = "idle"
  /\ next' = 1
  /\ pc' = "loop"
  /\ UNCHANGED <<edges, constraints, todo, cur1, cur2>>

(* Slip: the loop of solve steps over a constraint.                        *)
SkipConstraint ==
  /\ pc = "loop" /\ todo = << >>
  /\ next <= Len(constraints)
  /\ todo' = << constraints[next] >>
  /\ next' = IF next < Len(constraints) THEN next + 2 ELSE next + 1
  /\ UNCHANGED <<edges, constraints, cur1, cur2, pc>>

(* The loop of solve takes the next constraint and calls unify on it.      *)
TakeConstraint ==
  /\ pc = "loop" /\ todo = << >>
  /\ next <= Len(constraints)
  /\ todo' = << constraints[next] >>
  /\ next' = next + 1
  /\ UNCHANGED <<edges, constraints, cur1, cur2, pc>>

(* The loop of solve is over.                                              *)
Return ==
  /\ pc = "loop" /\ todo = << >>
  /\ next > Len(constraints)
  /\ pc' = "idle"
  /\ UNCHANGED <<edges, constraints, next, todo, cur1, cur2>>

(* unify(t1, t2): find(t1) inserts t1 when it is unknown and starts from   *)
(* its parent.                                                             *)
StartFind1 ==
  /\ pc = "loop" /\ todo # << >>
  /\ edges' = SmartInsert(edges, Head(todo)[1])
  /\ cur1' = edges'[Head(todo)[1]]
  /\ pc' = "find1"
  /\ UNCHANGED <<constraints, next, todo, cur2>>

Climb1 ==
  /\ pc = "find1" /\ ~IsRoot(edges, cur1)
  /\ cur1' = edges[cur1]
  /\ UNCHANGED <<edges, constraints, next, todo, cur2, pc>>

StartFind2 ==
  /\ pc = "find1" /\ IsRoot(edges, cur1)
  /\ edges' = SmartInsert(edges, Head(todo)[2])
  /\ cur2' = edges'[Head(todo)[2]]
  /\ pc' = "find2"
  /\ UNCHANGED <<constraints, next, todo, cur1>>

Climb2 ==
  /\ pc = "find2" /\ ~IsRoot(edges, cur2)
  /\ cur2' = edges[cur2]
  /\ UNCHANGED <<edges, constraints, next, todo, cur1, pc>>

(* Slip: find(t2) returns the parent of t2.                                *)
AtParent == pc = "find2"

AtRoots == pc = "find2" /\ IsRoot(edges, cur2)

(* unify goes on with the given calls and then returns to its caller.      *)
Continue(calls) ==
  /\ todo' = calls \o Tail(todo)
  /\ pc' = "loop"
  /\ cur1' = NoTerm /\ cur2' = NoTerm
  /\ UNCHANGED <<constraints, next>>

AlreadyEqual ==
  /\ AtRoots /\ cur1 = cur2
  /\ Continue(<< >>)
  /\ UNCHANGED edges

(* t1's representative is a variable: it gets t2's as its parent, whatever *)
(* that is.                                                                *)
BindLeft ==
  /\ AtRoots /\ cur1 # cur2
  /\ cur1 \in Var
  /\ edges' = Link(edges, cur1, cur2)
  /\ Continue(<< >>)

(* Slip: the proper type becomes the child.                                *)
BindProper ==
  /\ AtRoots /\ cur1 # cur2
  /\ cur1 \in Proper /\ cur2 \in Var
  /\ edges' = Link(edges, cur1, cur2)
  /\ Continue(<< >>)

(* A proper type against a variable.                                       *)
BindRight ==
  /\ AtRoots /\ cur1 # cur2
  /\ cur1 \in Proper /\ cur2 \in Var
  /\ edges' = Link(edges, cur2, cur1)
  /\ Continue(<< >>)

(* Slip: the arguments come first and the link is left to them.            *)
DecomposeUnlinked ==
  /\ AtRoots /\ cur1 # cur2
  /\ cur1 \in Cons /\ cur2 \in Cons /\ DoMatch(cur1, cur2)
  /\ Continue(ArgPairs(cur1, cur2))
  /\ UNCHANGED edges

(* Two matching constructors: the link comes first, then the arguments.    *)
Decompose ==
  /\ AtRoots /\ cur1 # cur2
  /\ cur1 \in Cons /\ cur2 \in Cons /\ DoMatch(cur1, cur2)
  /\ edges' = Link(edges, cur1, cur2)
  /\ Continue(ArgPairs(cur1, cur2))

(* Slip: falls through to the exception after matching constructors.       *)
ClashAlways ==
  /\ AtRoots /\ cur1 # cur2
  /\ cur1 \in Proper /\ cur2 \in Proper
  /\ pc' = "failed"
  /\ UNCHANGED <<edges, constraints, next, todo, cur1, cur2>>

(* throwUnifyException: constructors that do not match, or a recursive     *)
(* type against any other proper type.  Nothing is undone.                 *)
Clash ==
  /\ AtRoots /\ cur1 # cur2
  /\ cur1 \in Proper /\ cur2 \in Proper
  /\ ~(cur1 \in Cons /\ cur2 \in Cons /\ DoMatch(cur1, cur2))
  /\ pc' = "failed"
  /\ UNCHANGED <<edges, constraints, next, todo, cur1, cur2>>

(* Slip: the copy that close makes replaces what the forest has of it.     *)
CloseReplaces(c) ==
  /\ pc = "idle" /\ next > Len(constraints)
  /\ edges' = ResetInsert(edges, c)
  /\ UNCHANGED <<constraints, next, todo, cur1, cur2, pc>>

(* Unifier::inferred, once solve has returned: close builds the closed     *)
(* type of a term from copies of its constructors and adds each copy to    *)
(* the forest that the next stage goes on with.  Which copies it makes is  *)
(* the subject of PolyTypes; here they are any constructors.               *)
Close(c) ==
  /\ pc = "idle" /\ next > Len(constraints)
  /\ edges' = SmartInsert(edges, c)
  /\ UNCHANGED <<constraints, next, todo, cur1, cur2, pc>>

Unify ==
  \/ StartFind1 \/ Climb1 \/ StartFind2 \/ Climb2
  \/ AlreadyEqual \/ BindLeft \/ BindRight \/ Decompose \/ Clash

SolverStep == TakeConstraint \/ Return \/ Unify

Next ==
  \/ \E batch \in Batches : Add(batch)
  \/ Solve
  \/ SolverStep
  \/ \E c \in Cons : Close(c)

(* solve() is a loop in a sequential program: once called it keeps running. *)
Spec == Init /\ [][Next]_vars /\ WF_vars(SolverStep)

-----------------------------------------------------------------------------
(* Every variable has its type: parents of known terms are known terms and *)
(* a find that is running stands on a known term.                          *)
TypeOK ==
  /\ Known(edges) \subseteq Term
  /\ edges \in [Known(edges) -> Known(edges)]
  /\ constraints \in Seq(Term \X Term)
  /\ next \in 1 .. Len(constraints) + 1
  /\ todo \in Seq(Term \X Term)
  /\ cur1 \in Term \cup {NoTerm} /\ cur2 \in Term \cup {NoTerm}
  /\ pc \in PCs
  /\ pc \in {"find1", "find2"} => todo # << >> /\ cur1 \in Known(edges)
  /\ pc = "find2" => cur2 \in Known(edges)

(* The last call of solve() returned without an error and nothing was      *)
(* added since.                                                            *)
Solved == pc = "idle" /\ next > Len(constraints)

Equations == {constraints[i] : i \in DOMAIN constraints}

(* find always has an end to reach: linking one representative below       *)
(* another, in whatever order the equations and their arguments come,      *)
(* never closes a cycle of parents.                                        *)
ForestInv == IsForest(edges)

(* Unifier.cpp:106: "given a proper type and a type variable, the proper   *)
(* type always becomes the canonical representative".  So no term above a  *)
(* proper type is a variable, and the root of a class with a proper type   *)
(* in it is proper, whatever merges led there.                             *)
ProperRepresentative ==
  \A t \in Known(edges) : t \in Proper => edges[t] \in Proper

(* The sets closed under the forest and under the calls still to be made:  *)
(* terms they do not separate will be in one class when those calls have   *)
(* returned.                                                               *)
SaturatedByCalls ==
  {S \in Saturated(edges) :
     \A i \in DOMAIN todo : todo[i][1] \in S <=> todo[i][2] \in S}

(* The debt of unify: it links two constructors before it has unified      *)
(* their arguments, so constructors in one class always match and their    *)
(* arguments are equal or on the stack of calls; and every equation solve  *)
(* has passed holds or is on that stack.                                   *)
NoDebtForgotten ==
  pc # "failed" =>
    LET now  == Saturated(edges)
        soon == SaturatedByCalls
    IN  /\ \A x, y \in Known(edges) \cap Cons :
             x # y /\ Inseparable(now, x, y) =>
               /\ DoMatch(x, y)
               /\ \A i \in DOMAIN Args[x] :
                    Inseparable(soon, Args[x][i], Args[y][i])
        /\ \A i \in 1 .. next - 1 :
             Inseparable(soon, constraints[i][1], constraints[i][2])

(* The forest is a solution of the equations as it is.                     *)
IsSolution ==
  LET now == Saturated(edges)
  IN  /\ \A q \in Equations : Inseparable(now, q[1], q[2])
      /\ \A x, y \in Known(edges) \cap Cons :
           Inseparable(now, x, y) =>
             \A i \in DOMAIN Args[x] : Inseparable(now, Args[x][i], Args[y][i])

(* A program is rejected only when its equations have no solution: the     *)
(* order in which unify meets them and the links it made on the way never  *)
(* make up a type error.                                                   *)
NoFalseTypeError ==
  pc = "failed" => ~ \E h \in Typings : Solves(h, Equations)

(* When solve returns normally the program is typable: no inconsistency    *)
(* stays unnoticed, also when the equations come in several stages.        *)
SolvedMeansTypable ==
  Solved => \E h \in Typings : Solves(h, Equations)

(* What was concluded is kept, across stages too: classes are only ever    *)
(* merged (saturated sets are unions of classes: classes grow as they get  *)
(* fewer); and once the forest is a solution, solving again, which a stage *)
(* does with every earlier constraint, changes no parent.                  *)
ConclusionsKept ==
  [][/\ Saturated(edges') \subseteq Saturated(edges)
     /\ IsSolution /\ constraints' = constraints => \A t \in Known(edges) : edges'[t] = edges[t]]_vars

(* The solver keeps the promise of TypeTheory: its equations are the        *)
(* constraints, its theory the classes of the forest, and an exception is  *)
(* the verdict "inconsistent".                                             *)
Theory == INSTANCE TypeTheory WITH
  eqs     <- Equations,
  theory  <- Classes(edges),
  verdict <- CASE pc = "failed" -> "inconsistent"
               [] Solved        -> "consistent"
               [] OTHER         -> "open"

ImplementsTheory == Theory!TSpec

(* solve() terminates, on recursive types as well.                         *)
SolveTerminates == pc = "loop" ~> pc \in {"idle", "failed"}
=============================================================================
