--------------------------- MODULE UnifierProofs ---------------------------
(***************************************************************************)
(* Theorems about the equation solver, for every finite or infinite set of *)
(* type terms and every history of calls of add and solve: its forest and  *)
(* representatives, that no exception is wrong, that unify pays the debts  *)
(* it makes, that what solve accepts is typable, that conclusions are      *)
(* kept, and that the solver implements TypeTheory.                        *)
(***************************************************************************)
EXTENDS Unifier, TLAPS

-----------------------------------------------------------------------------
(* Lemmas about the operators of the forest.                               *)

(* Inserting terms leaves a map into itself and changes no parent.         *)
LEMMA InsertAllType ==
  ASSUME NEW e, e \in [Known(e) -> Known(e)],
         NEW seed, NEW f, f = InsertAll(e, seed)
  PROVE  /\ Known(f) = Known(e) \cup seed
         /\ f \in [Known(f) -> Known(f)]
         /\ \A t \in Known(e) : f[t] = e[t]
         /\ \A t \in seed \ Known(e) : f[t] = t
BY DEF InsertAll, Known

(* Linking one known term below another keeps the domain and changes that  *)
(* one parent.                                                             *)
LEMMA LinkType ==
  ASSUME NEW e, e \in [Known(e) -> Known(e)],
         NEW r1 \in Known(e), NEW r2 \in Known(e), NEW f, f = Link(e, r1, r2)
  PROVE  /\ Known(f) = Known(e)
         /\ f \in [Known(f) -> Known(f)]
         /\ f[r1] = r2
         /\ \A t \in Known(e) : t # r1 => f[t] = e[t]
BY DEF Link, Known

(* The terms a batch of constraints brings are terms.                      *)
LEMMA SeedsAreTerms ==
  ASSUME NEW batch \in Seq(Term \X Term)
  PROVE  Seeds(batch) \subseteq Term
<1>1. \A i \in DOMAIN batch : Sides(batch[i]) \subseteq Term
  BY DEF Sides
<1>2. \A c \in Cons : \A i \in DOMAIN Args[c] : Args[c][i] \in Term
  BY ArgsAssumption
<1>3. QED
  BY <1>1, <1>2 DEF Seeds

(* The calls on the arguments of two matching constructors are calls on    *)
(* terms.                                                                  *)
LEMMA ArgPairsType ==
  ASSUME NEW x \in Cons, NEW y \in Cons, DoMatch(x, y)
  PROVE  ArgPairs(x, y) \in Seq(Term \X Term)
<1>1. Args[x] \in Seq(Term) /\ Args[y] \in Seq(Term) /\ Len(Args[x]) = Len(Args[y])
  BY ArgsAssumption DEF DoMatch
<1>2. \A i \in 1 .. Len(Args[x]) : Args[x][i] \in Term /\ Args[y][i] \in Term
  BY <1>1
<1>3. QED
  BY <1>1, <1>2 DEF ArgPairs

-----------------------------------------------------------------------------
(* The initial state is well typed.                                        *)
LEMMA InitTypeOK == Init => TypeOK
<1> SUFFICES ASSUME Init PROVE TypeOK
  OBVIOUS
<1>1. Known(edges) = {}
  BY DEF Init, Known
<1>2. edges \in [{} -> {}]
  BY DEF Init
<1>3. QED
  BY <1>1, <1>2 DEF Init, TypeOK, PCs

(* Every step keeps every variable in its type.                            *)
LEMMA NextTypeOK == TypeOK /\ [Next]_vars => TypeOK'
<1> SUFFICES ASSUME TypeOK, [Next]_vars PROVE TypeOK'
  OBVIOUS
<1> USE DEF TypeOK, PCs
<1>1. ASSUME NEW batch \in Batches, Add(batch) PROVE TypeOK'
  <2>1. batch \in Seq(Term \X Term)
    BY BatchesAssumption
  <2>2. Known(edges') \subseteq Term /\ edges' \in [Known(edges') -> Known(edges')]
    <3>1. edges' = InsertAll(edges, Seeds(batch)) /\ Seeds(batch) \subseteq Term
      BY <1>1, <2>1, SeedsAreTerms DEF Add
    <3>2. QED
      BY <3>1, InsertAllType
  <2>3. constraints' \in Seq(Term \X Term) /\ Len(constraints') >= Len(constraints)
    BY <1>1, <2>1 DEF Add
  <2>4. next' \in 1 .. Len(constraints') + 1
    BY <1>1, <2>3 DEF Add
  <2>5. QED
    BY <1>1, <2>2, <2>3, <2>4 DEF Add
<1>2. ASSUME Solve PROVE TypeOK'
  BY <1>2 DEF Solve
<1>3. ASSUME TakeConstraint PROVE TypeOK'
  BY <1>3 DEF TakeConstraint
<1>4. ASSUME Return PROVE TypeOK'
  BY <1>4 DEF Return
<1>5. ASSUME StartFind1 PROVE TypeOK'
  <2>1. Head(todo) \in Term \X Term /\ Head(todo)[1] \in Term
    BY <1>5 DEF StartFind1
  <2>2. /\ Known(edges') \subseteq Term
        /\ edges' \in [Known(edges') -> Known(edges')]
        /\ Head(todo)[1] \in Known(edges')
    <3>1. edges' = InsertAll(edges, {Head(todo)[1]})
      BY <1>5 DEF StartFind1, SmartInsert
    <3>2. QED
      BY <2>1, <3>1, InsertAllType
  <2>3. QED
    BY <1>5, <2>2 DEF StartFind1
<1>6. ASSUME Climb1 PROVE TypeOK'
  BY <1>6 DEF Climb1
<1>7. ASSUME StartFind2 PROVE TypeOK'
  <2>1. Head(todo) \in Term \X Term /\ Head(todo)[2] \in Term
    BY <1>7 DEF StartFind2
  <2>2. /\ Known(edges') \subseteq Term
        /\ edges' \in [Known(edges') -> Known(edges')]
        /\ Known(edges) \subseteq Known(edges')
        /\ Head(todo)[2] \in Known(edges')
    <3>1. edges' = InsertAll(edges, {Head(todo)[2]})
      BY <1>7 DEF StartFind2, SmartInsert
    <3>2. QED
      BY <2>1, <3>1, InsertAllType
  <2>3. QED
    BY <1>7, <2>2 DEF StartFind2
<1>8. ASSUME Climb2 PROVE TypeOK'
  BY <1>8 DEF Climb2
<1>9. ASSUME AlreadyEqual PROVE TypeOK'
  BY <1>9 DEF AlreadyEqual, Continue, AtRoots
<1>10. ASSUME BindLeft PROVE TypeOK'
  BY <1>10, LinkType DEF BindLeft, Continue, AtRoots
<1>11. ASSUME BindRight PROVE TypeOK'
  BY <1>11, LinkType DEF BindRight, Continue, AtRoots
<1>12. ASSUME Decompose PROVE TypeOK'
  BY <1>12, LinkType, ArgPairsType DEF Decompose, Continue, AtRoots
<1>13. ASSUME Clash PROVE TypeOK'
  BY <1>13 DEF Clash, AtRoots
<1>14. CASE UNCHANGED vars
  BY <1>14 DEF vars, Known
<1>15. ASSUME NEW c \in Cons, Close(c) PROVE TypeOK'
  <2>1. c \in Term
    BY DEF Term, Proper
  <2>2. Known(edges') \subseteq Term /\ edges' \in [Known(edges') -> Known(edges')]
    <3>1. edges' = InsertAll(edges, {c})
      BY <1>15 DEF Close, SmartInsert
    <3>2. QED
      BY <2>1, <3>1, InsertAllType
  <2>3. QED
    BY <1>15, <2>2 DEF Close
<1>16. QED
  BY <1>1, <1>2, <1>3, <1>4, <1>5, <1>6, <1>7, <1>8, <1>9, <1>10, <1>11,
     <1>12, <1>13, <1>14, <1>15 DEF Next, SolverStep, Unify

(* TypeOK is an invariant of the solver.                                   *)
THEOREM TypeCorrect == Spec => []TypeOK
BY InitTypeOK, NextTypeOK, PTL DEF Spec

-----------------------------------------------------------------------------
(***************************************************************************)
(* The proper type is the representative.                                  *)
(***************************************************************************)

(* What a step does to the forest: it inserts terms as roots, or it links  *)
(* one root below another term, which is a different root; and a proper    *)
(* root only goes below a proper one.                                      *)
Inserts == \E seed \in SUBSET Term : edges' = InsertAll(edges, seed)
Links ==
  \E r1, r2 \in Known(edges) :
    /\ edges' = Link(edges, r1, r2)
    /\ r1 # r2 /\ IsRoot(edges, r1) /\ IsRoot(edges, r2)
    /\ r1 \in Proper => r2 \in Proper

(* In find2 the first cursor is still the root that find1 stopped at.      *)
FirstRootStays == pc = "find2" => IsRoot(edges, cur1)

(* The strengthening under which every step inserts or links.              *)
Shape == TypeOK /\ FirstRootStays

(* What a step does to the forest, whatever its action.                    *)
LEMMA ShapeStep ==
  ASSUME Shape, [Next]_vars
  PROVE  FirstRootStays' /\ (Inserts \/ Links \/ edges' = edges)
<1> USE DEF Shape
<1>1. ASSUME NEW batch \in Batches, Add(batch)
      PROVE  FirstRootStays' /\ Inserts
  BY <1>1, BatchesAssumption, SeedsAreTerms DEF Add, Inserts, FirstRootStays
<1>2. CASE Solve
  BY <1>2 DEF Solve, FirstRootStays
<1>3. CASE TakeConstraint
  BY <1>3 DEF TakeConstraint, FirstRootStays
<1>4. CASE Return
  BY <1>4 DEF Return, FirstRootStays
<1>5. CASE StartFind1
  <2>1. Head(todo)[1] \in Term
    BY <1>5 DEF StartFind1, TypeOK
  <2>2. QED
    BY <1>5, <2>1 DEF StartFind1, SmartInsert, Inserts, FirstRootStays
<1>6. CASE Climb1
  BY <1>6 DEF Climb1, FirstRootStays
<1>7. CASE StartFind2
  <2>1. Head(todo)[2] \in Term /\ cur1 \in Known(edges) /\ IsRoot(edges, cur1)
    BY <1>7 DEF StartFind2, TypeOK
  <2>2. edges' = InsertAll(edges, {Head(todo)[2]})
    BY <1>7 DEF StartFind2, SmartInsert
  <2>3. edges'[cur1] = edges[cur1]
    BY <2>1, <2>2, InsertAllType DEF TypeOK
  <2>4. QED
    BY <1>7, <2>1, <2>2, <2>3 DEF StartFind2, Inserts, FirstRootStays, IsRoot
<1>8. CASE Climb2
  BY <1>8 DEF Climb2, FirstRootStays
<1>9. CASE AlreadyEqual
  BY <1>9 DEF AlreadyEqual, Continue, FirstRootStays
<1>10. CASE BindLeft
  <2>1. cur1 \in Var => cur1 \notin Proper
    BY KindAssumption
  <2>2. QED
    BY <1>10, <2>1 DEF BindLeft, AtRoots, Continue, FirstRootStays, Links, TypeOK
<1>11. CASE BindRight
  <2>1. cur2 \in Var => cur2 \notin Proper
    BY KindAssumption
  <2>2. QED
    BY <1>11, <2>1 DEF BindRight, AtRoots, Continue, FirstRootStays, Links, TypeOK
<1>12. CASE Decompose
  BY <1>12 DEF Decompose, AtRoots, Continue, FirstRootStays, Links, TypeOK, Proper
<1>13. CASE Clash
  BY <1>13 DEF Clash, FirstRootStays
<1>14. CASE UNCHANGED vars
  BY <1>14 DEF vars, FirstRootStays
<1>15. ASSUME NEW c \in Cons, Close(c)
       PROVE  FirstRootStays' /\ Inserts
  <2>1. c \in Term
    BY DEF Term, Proper
  <2>2. QED
    BY <1>15, <2>1 DEF Close, SmartInsert, Inserts, FirstRootStays
<1>16. QED
  BY <1>1, <1>2, <1>3, <1>4, <1>5, <1>6, <1>7, <1>8, <1>9, <1>10, <1>11,
     <1>12, <1>13, <1>14, <1>15 DEF Next, SolverStep, Unify

(* The shape of the forest, in every state.                                *)
LEMMA ShapeInvariant == Spec => []Shape
<1>1. Init => FirstRootStays
  BY DEF Init, FirstRootStays
<1>2. Shape /\ [Next]_vars => FirstRootStays'
  BY ShapeStep
<1>3. QED
  BY <1>1, <1>2, InitTypeOK, NextTypeOK, PTL DEF Spec, Shape

(* Unifier.cpp:106: the representative of a class with a proper type in it *)
(* is a proper type.                                                       *)
THEOREM ProperRepresentativeInvariant == Spec => []ProperRepresentative
<1>1. Init => ProperRepresentative
  BY DEF Init, ProperRepresentative, Known
<1>2. ASSUME Shape, ProperRepresentative, [Next]_vars
      PROVE  ProperRepresentative'
  <2>1. edges \in [Known(edges) -> Known(edges)]
    BY <1>2 DEF Shape, TypeOK
  <2>2. CASE Inserts
    <3>1. PICK seed \in SUBSET Term : edges' = InsertAll(edges, seed)
      BY <2>2 DEF Inserts
    <3>2. QED
      BY <1>2, <2>1, <3>1, InsertAllType DEF ProperRepresentative
  <2>3. CASE Links
    <3>1. PICK r1, r2 \in Known(edges) :
            /\ edges' = Link(edges, r1, r2)
            /\ r1 \in Proper => r2 \in Proper
      BY <2>3 DEF Links
    <3>2. /\ Known(edges') = Known(edges) /\ edges'[r1] = r2
          /\ \A t \in Known(edges) : t # r1 => edges'[t] = edges[t]
      BY <2>1, <3>1, LinkType
    <3>3. QED
      BY <1>2, <3>1, <3>2 DEF ProperRepresentative
  <2>4. CASE edges' = edges
    BY <1>2, <2>4 DEF ProperRepresentative
  <2>5. QED
    BY <1>2, <2>2, <2>3, <2>4, ShapeStep
<1>3. QED
  BY <1>1, <1>2, ShapeInvariant, PTL DEF Spec

(* The parents form a forest: every find has a root to reach.              *)
THEOREM ForestInvariant == Spec => []ForestInv
<1>1. Init => ForestInv
  BY DEF Init, ForestInv, IsForest, Known
<1>2. ASSUME Shape, ForestInv, [Next]_vars
      PROVE  ForestInv'
  <2>1. edges \in [Known(edges) -> Known(edges)]
    BY <1>2 DEF Shape, TypeOK
  <2>2. CASE Inserts
    <3>1. PICK seed \in SUBSET Term : edges' = InsertAll(edges, seed)
      BY <2>2 DEF Inserts
    <3>2. ASSUME NEW S \in SUBSET Known(edges'), S # {},
                 \A t \in S : edges'[t] \in S
          PROVE  \E r \in S : IsRoot(edges', r)
      <4>1. CASE S \subseteq Known(edges)
        BY <1>2, <2>1, <3>1, <3>2, <4>1, InsertAllType
           DEF ForestInv, IsForest, IsRoot
      <4>2. CASE \E t \in S : t \notin Known(edges)
        BY <2>1, <3>1, <3>2, <4>2, InsertAllType DEF IsRoot
      <4>3. QED
        BY <4>1, <4>2
    <3>3. QED
      BY <3>2 DEF ForestInv, IsForest
  <2>3. CASE Links
    <3>1. PICK r1, r2 \in Known(edges) :
            /\ edges' = Link(edges, r1, r2)
            /\ r1 # r2 /\ IsRoot(edges, r1) /\ IsRoot(edges, r2)
      BY <2>3 DEF Links
    <3>2. /\ Known(edges') = Known(edges) /\ edges'[r1] = r2
          /\ \A t \in Known(edges) : t # r1 => edges'[t] = edges[t]
      BY <2>1, <3>1, LinkType
    <3>3. ASSUME NEW S \in SUBSET Known(edges'), S # {},
                 \A t \in S : edges'[t] \in S
          PROVE  \E r \in S : IsRoot(edges', r)
      <4>1. CASE r1 \in S
        BY <3>1, <3>2, <3>3, <4>1 DEF IsRoot
      <4>2. CASE r1 \notin S
        <5>1. S \subseteq Known(edges) /\ \A t \in S : edges'[t] = edges[t]
          BY <3>2, <4>2
        <5>2. PICK r \in S : IsRoot(edges, r)
          BY <1>2, <3>3, <5>1 DEF ForestInv, IsForest
        <5>3. QED
          BY <5>1, <5>2 DEF IsRoot
      <4>3. QED
        BY <4>1, <4>2
    <3>4. QED
      BY <3>3 DEF ForestInv, IsForest
  <2>4. CASE edges' = edges
    BY <1>2, <2>4 DEF ForestInv
  <2>5. QED
    BY <1>2, <2>2, <2>3, <2>4, ShapeStep
<1>3. QED
  BY <1>1, <1>2, ShapeInvariant, PTL DEF Spec

-----------------------------------------------------------------------------
(***************************************************************************)
(* No false type error.  A solution of the equations is respected by the   *)
(* forest, by every call on the stack and by both cursors; so the call     *)
(* that clashes is one no solution survives.                               *)
(***************************************************************************)
Respected(h) ==
  /\ \A t \in Known(edges) : h[edges[t]] = h[t]
  /\ \A i \in DOMAIN todo : h[todo[i][1]] = h[todo[i][2]]
  /\ pc \in {"find1", "find2"} => h[cur1] = h[Head(todo)[1]]
  /\ pc = "find2" => h[cur2] = h[Head(todo)[2]]
  /\ pc # "failed"

SolutionsRespected ==
  \A h \in Assignments : Solves(h, Equations) => Respected(h)

(* Two terms whose representatives a solution identifies: if both are      *)
(* constructors they match and the calls on their arguments are respected. *)
LEMMA ArgPairsRespected ==
  ASSUME NEW h, Decomposing(h), NEW x \in Cons, NEW y \in Cons, x # y, h[x] = h[y]
  PROVE  /\ DoMatch(x, y)
         /\ ArgPairs(x, y) \in Seq(Term \X Term)
         /\ \A i \in DOMAIN ArgPairs(x, y) :
               h[ArgPairs(x, y)[i][1]] = h[ArgPairs(x, y)[i][2]]
<1>1. DoMatch(x, y) /\ SameArgs(h, x, y)
  BY DEF Decomposing
<1>2. Args[x] \in Seq(Term)
  BY ArgsAssumption
<1>3. DOMAIN Args[x] = 1 .. Len(Args[x])
  BY <1>2
<1>4. QED
  BY <1>1, <1>3, ArgPairsType DEF SameArgs, ArgPairs

(* The calls that remain once unify goes on with some more calls.          *)
LEMMA CallsRespected ==
  ASSUME NEW h, NEW S, NEW calls \in Seq(S), NEW rest \in Seq(S), rest # << >>,
         \A i \in DOMAIN calls : h[calls[i][1]] = h[calls[i][2]],
         \A i \in DOMAIN rest : h[rest[i][1]] = h[rest[i][2]],
         NEW all, all = calls \o Tail(rest)
  PROVE  \A i \in DOMAIN all : h[all[i][1]] = h[all[i][2]]
<1>1. Tail(rest) \in Seq(S) /\ Len(Tail(rest)) = Len(rest) - 1
  OBVIOUS
<1>2. \A i \in 1 .. Len(Tail(rest)) : i + 1 \in DOMAIN rest /\ Tail(rest)[i] = rest[i + 1]
  BY <1>1
<1>3. \A i \in 1 .. Len(Tail(rest)) : h[Tail(rest)[i][1]] = h[Tail(rest)[i][2]]
  BY <1>2
<1>4. /\ DOMAIN all = 1 .. Len(calls) + Len(Tail(rest))
      /\ \A i \in 1 .. Len(calls) + Len(Tail(rest)) :
           all[i] = IF i <= Len(calls) THEN calls[i] ELSE Tail(rest)[i - Len(calls)]
  BY <1>1
<1>5. QED
  BY <1>1, <1>3, <1>4

(* Whatever step is taken, an assignment that solves the equations after   *)
(* the step and is respected before it is respected after it.              *)
LEMMA RespectedStep ==
  ASSUME Mu = {}, NEW h, Decomposing(h), Solves(h, Equations),
         Shape, Respected(h), [Next]_vars
  PROVE  Respected(h)'
<1> USE DEF Respected
<1> DEFINE ForestRespected == \A t \in Known(edges') : h[edges'[t]] = h[t]
<1>a. edges \in [Known(edges) -> Known(edges)] /\ todo \in Seq(Term \X Term)
  BY DEF Shape, TypeOK
<1>b. ASSUME NEW seed, edges' = InsertAll(edges, seed) PROVE ForestRespected
  <2>1. /\ Known(edges') = Known(edges) \cup seed
        /\ \A t \in Known(edges) : edges'[t] = edges[t]
        /\ \A t \in seed \ Known(edges) : edges'[t] = t
    BY <1>a, <1>b, InsertAllType
  <2>2. QED
    BY <2>1
<1>c. ASSUME NEW r1 \in Known(edges), NEW r2 \in Known(edges),
             edges' = Link(edges, r1, r2), h[r1] = h[r2]
      PROVE  ForestRespected
  <2>1. /\ Known(edges') = Known(edges) /\ edges'[r1] = r2
        /\ \A t \in Known(edges) : t # r1 => edges'[t] = edges[t]
    BY <1>a, <1>c, LinkType
  <2>2. QED
    BY <1>c, <2>1
<1>d. ASSUME AtRoots
      PROVE  /\ todo # << >> /\ cur1 \in Known(edges) /\ cur2 \in Known(edges)
             /\ h[cur1] = h[cur2]
  <2>1. todo # << >> /\ cur1 \in Known(edges) /\ cur2 \in Known(edges)
    BY <1>d DEF AtRoots, Shape, TypeOK
  <2>2. 1 \in DOMAIN todo /\ Head(todo) = todo[1]
    BY <1>a, <2>1
  <2>3. QED
    BY <1>d, <2>1, <2>2 DEF AtRoots
<1>e. ASSUME AtRoots, Continue(<< >>), ForestRespected PROVE Respected(h)'
  <2>1. << >> \in Seq(Term \X Term)
    OBVIOUS
  <2>2. \A i \in DOMAIN todo' : h[todo'[i][1]] = h[todo'[i][2]]
    BY <1>a, <1>d, <1>e, <2>1, CallsRespected DEF Continue
  <2>3. QED
    BY <1>e, <2>2 DEF Continue
<1>1. ASSUME NEW batch \in Batches, Add(batch) PROVE Respected(h)'
  BY <1>1, <1>b DEF Add
<1>2. CASE Solve
  BY <1>2 DEF Solve
<1>3. CASE TakeConstraint
  <2>1. next \in DOMAIN constraints
    BY <1>3 DEF TakeConstraint, Shape, TypeOK
  <2>2. h[constraints[next][1]] = h[constraints[next][2]]
    BY <2>1 DEF Solves, Equations
  <2>3. QED
    BY <1>3, <2>2 DEF TakeConstraint
<1>4. CASE Return
  BY <1>4 DEF Return
<1>5. CASE StartFind1
  <2>1. ForestRespected
    BY <1>5, <1>b DEF StartFind1, SmartInsert
  <2>2. Head(todo)[1] \in Known(edges')
    BY <1>5, <1>a, InsertAllType DEF StartFind1, SmartInsert
  <2>3. h[cur1'] = h[Head(todo)[1]]
    BY <1>5, <2>1, <2>2 DEF StartFind1
  <2>4. QED
    BY <1>5, <2>1, <2>3 DEF StartFind1
<1>6. CASE Climb1
  BY <1>6 DEF Climb1, Shape, TypeOK
<1>7. CASE StartFind2
  <2>1. ForestRespected
    BY <1>7, <1>b DEF StartFind2, SmartInsert
  <2>2. Head(todo)[2] \in Known(edges')
    BY <1>7, <1>a, InsertAllType DEF StartFind2, SmartInsert
  <2>3. h[cur2'] = h[Head(todo)[2]]
    BY <1>7, <2>1, <2>2 DEF StartFind2
  <2>4. QED
    BY <1>7, <2>1, <2>3 DEF StartFind2
<1>8. CASE Climb2
  BY <1>8 DEF Climb2, Shape, TypeOK
<1>9. CASE AlreadyEqual
  BY <1>9, <1>e DEF AlreadyEqual
<1>10. CASE BindLeft
  BY <1>10, <1>c, <1>d, <1>e DEF BindLeft
<1>11. CASE BindRight
  BY <1>11, <1>c, <1>d, <1>e DEF BindRight
<1>12. CASE Decompose
  <2>1. AtRoots /\ cur1 # cur2 /\ cur1 \in Cons /\ cur2 \in Cons
    BY <1>12 DEF Decompose
  <2>2. ForestRespected
    BY <1>12, <1>c, <1>d, <2>1 DEF Decompose
  <2>3. /\ ArgPairs(cur1, cur2) \in Seq(Term \X Term)
        /\ \A i \in DOMAIN ArgPairs(cur1, cur2) :
             h[ArgPairs(cur1, cur2)[i][1]] = h[ArgPairs(cur1, cur2)[i][2]]
    BY <1>d, <2>1, ArgPairsRespected
  <2>4. todo' = ArgPairs(cur1, cur2) \o Tail(todo)
    BY <1>12 DEF Decompose, Continue
  <2>5. \A i \in DOMAIN todo' : h[todo'[i][1]] = h[todo'[i][2]]
    BY <1>a, <1>d, <2>1, <2>3, <2>4, CallsRespected
  <2>6. QED
    BY <1>12, <2>2, <2>5 DEF Decompose, Continue
<1>13. CASE Clash
  <2>1. cur1 \in Cons /\ cur2 \in Cons /\ cur1 # cur2 /\ AtRoots
    BY <1>13 DEF Clash, Proper
  <2>2. DoMatch(cur1, cur2)
    BY <1>d, <2>1 DEF Decomposing
  <2>3. QED
    BY <1>13, <2>1, <2>2 DEF Clash
<1>14. CASE UNCHANGED vars
  BY <1>14 DEF vars
<1>15. ASSUME NEW c \in Cons, Close(c) PROVE Respected(h)'
  BY <1>15, <1>b DEF Close, SmartInsert
<1>16. QED
  BY <1>1, <1>2, <1>3, <1>4, <1>5, <1>6, <1>7, <1>8, <1>9, <1>10, <1>11,
     <1>12, <1>13, <1>14, <1>15 DEF Next, SolverStep, Unify

(* Constraints are never dropped.                                          *)
LEMMA ConstraintsGrow ==
  ASSUME TypeOK, [Next]_vars
  PROVE  /\ Equations \subseteq Equations'
         /\ \A i \in DOMAIN constraints : i \in DOMAIN constraints' /\ constraints'[i] = constraints[i]
<1>1. ASSUME NEW batch \in Batches, Add(batch)
      PROVE  \A i \in DOMAIN constraints :
               i \in DOMAIN constraints' /\ constraints'[i] = constraints[i]
  BY <1>1, BatchesAssumption DEF Add, TypeOK
<1>2. (\E batch \in Batches : Add(batch)) \/ constraints' = constraints
  BY DEF Next, SolverStep, Unify, Solve, TakeConstraint, Return,
     StartFind1, Climb1, StartFind2, Climb2, AlreadyEqual, BindLeft,
     BindRight, Decompose, Clash, Continue, Close, vars
<1>3. QED
  BY <1>1, <1>2 DEF Equations

(* Every solution of the equations is respected in every state.            *)
LEMMA SolutionsRespectedInvariant ==
  ASSUME Mu = {}
  PROVE  Spec => []SolutionsRespected
<1>1. Init => SolutionsRespected
  BY DEF Init, SolutionsRespected, Respected, Known
<1>2. ASSUME Shape, SolutionsRespected, [Next]_vars
      PROVE  SolutionsRespected'
  <2>1. SUFFICES ASSUME NEW h \in Assignments, Solves(h, Equations')
                 PROVE  Respected(h)'
    BY DEF SolutionsRespected
  <2>2. Equations \subseteq Equations'
    BY <1>2, ConstraintsGrow DEF Shape
  <2>3. Decomposing(h) /\ Solves(h, Equations)
    BY <2>1, <2>2 DEF Assignments, Solves
  <2>4. Respected(h)
    BY <1>2, <2>1, <2>3 DEF SolutionsRespected
  <2>5. QED
    BY <1>2, <2>3, <2>4, RespectedStep
<1>3. QED
  BY <1>1, <1>2, ShapeInvariant, PTL DEF Spec

(* A program is rejected only when its equations have no solution, in      *)
(* whatever order the equations come and in however many stages.  (Without *)
(* recursive types among the terms: monomorphic inference builds none.)    *)
THEOREM NoFalseTypeErrorInvariant ==
  ASSUME Mu = {}
  PROVE  Spec => []NoFalseTypeError
<1>1. SolutionsRespected => NoFalseTypeError
  BY DEF SolutionsRespected, Respected, NoFalseTypeError, Typings
<1>2. QED
  BY <1>1, SolutionsRespectedInvariant, PTL

-----------------------------------------------------------------------------
(* Lemmas about the classes of a forest.                                   *)

(* The terms below a root: the least set that has the root and, with a     *)
(* parent, its children.                                                   *)
Below(e, r, P) == r \in P /\ \A t \in Known(e) : e[t] \in P => t \in P
Tree(e, r) == {t \in Term : \A P \in SUBSET Term : Below(e, r, P) => t \in P}

ForestType(e) == Known(e) \subseteq Term /\ e \in [Known(e) -> Known(e)]

(* Inserting terms as roots separates and joins nothing.                   *)
LEMMA InsertSaturated ==
  ASSUME NEW e, ForestType(e), NEW seed, NEW f, f = InsertAll(e, seed)
  PROVE  Saturated(f) = Saturated(e)
<1>1. /\ Known(f) = Known(e) \cup seed
      /\ \A t \in Known(e) : f[t] = e[t]
      /\ \A t \in seed \ Known(e) : f[t] = t
  BY InsertAllType DEF ForestType
<1>2. QED
  BY <1>1 DEF Saturated

(* Linking a root joins its class with the other one and no others.        *)
LEMMA LinkSaturated ==
  ASSUME NEW e, ForestType(e), NEW r1 \in Known(e), NEW r2 \in Known(e),
         IsRoot(e, r1), NEW f, f = Link(e, r1, r2)
  PROVE  Saturated(f) = {S \in Saturated(e) : r1 \in S <=> r2 \in S}
<1>1. /\ Known(f) = Known(e) /\ f[r1] = r2 /\ e[r1] = r1
      /\ \A t \in Known(e) : t # r1 => f[t] = e[t]
  BY LinkType DEF ForestType, IsRoot
<1>2. QED
  BY <1>1 DEF Saturated

(* A term the forest does not know is alone.                               *)
LEMMA UnknownAlone ==
  ASSUME NEW e, ForestType(e), NEW x \in Term, x \notin Known(e)
  PROVE  {x} \in Saturated(e)
BY DEF Saturated, ForestType

(* What is in exactly one of two saturated sets is saturated.              *)
LEMMA DifferenceSaturated ==
  ASSUME NEW e, NEW S \in Saturated(e), NEW T \in Saturated(e)
  PROVE  (S \ T) \cup (T \ S) \in Saturated(e)
BY DEF Saturated

(* A tree is the class of its root.                                        *)
LEMMA TreeIsClass ==
  ASSUME NEW e, ForestType(e), NEW r \in Known(e), IsRoot(e, r)
  PROVE  /\ r \in Tree(e, r) /\ Tree(e, r) \in Saturated(e)
         /\ \A t \in Tree(e, r) : Same(e, t, r)
<1>1. r \in Tree(e, r)
  BY DEF Tree, Below, ForestType
<1>2. ASSUME NEW t \in Known(e), e[t] \in Tree(e, r) PROVE t \in Tree(e, r)
  BY <1>2 DEF Tree, Below, ForestType
<1>3. ASSUME NEW t \in Known(e), t \in Tree(e, r) PROVE e[t] \in Tree(e, r)
  <2> DEFINE P == {u \in Tree(e, r) : u \in Known(e) /\ e[u] \in Tree(e, r)}
  <2>1. P \in SUBSET Term
    BY DEF Tree
  <2>2. Below(e, r, P)
    BY <1>1, <1>2 DEF Below, IsRoot
  <2>3. t \in P
    BY <1>3, <2>1, <2>2 DEF Tree
  <2>4. QED
    BY <2>3
<1>4. Tree(e, r) \in Saturated(e)
  BY <1>2, <1>3 DEF Saturated, Tree
<1>5. ASSUME NEW t \in Tree(e, r) PROVE Same(e, t, r)
  <2> DEFINE P == {u \in Term : Same(e, u, r)}
  <2>1. Below(e, r, P)
    BY DEF Below, Same, Inseparable, Saturated, ForestType
  <2>2. t \in P
    BY <1>5, <2>1 DEF Tree
  <2>3. QED
    BY <2>2
<1>6. QED
  BY <1>1, <1>4, <1>5

(* The trees of two roots have no term in common.                          *)
LEMMA TreesDisjoint ==
  ASSUME NEW e, ForestType(e), NEW r1 \in Known(e), NEW r2 \in Known(e),
         IsRoot(e, r1), IsRoot(e, r2), r1 # r2
  PROVE  Tree(e, r1) \cap Tree(e, r2) = {}
<1>1. r1 \notin Tree(e, r2)
  <2> DEFINE P == Term \ {r1}
  <2>1. Below(e, r2, P)
    BY DEF Below, ForestType, IsRoot
  <2>2. QED
    BY <2>1 DEF Tree
<1>2. ASSUME NEW t \in Tree(e, r1) PROVE t \notin Tree(e, r2)
  <2>1. Same(e, t, r1) /\ Tree(e, r2) \in Saturated(e)
    BY TreeIsClass
  <2>2. QED
    BY <1>1, <2>1 DEF Same, Inseparable
<1>3. QED
  BY <1>2

(* Two roots in one class are one.                                         *)
LEMMA RootsApart ==
  ASSUME NEW e, ForestType(e), NEW r1 \in Known(e), NEW r2 \in Known(e),
         IsRoot(e, r1), IsRoot(e, r2), Same(e, r1, r2)
  PROVE  r1 = r2
BY TreeIsClass, TreesDisjoint DEF Same, Inseparable

(* Terms that a link has put into one class were in one already, or were   *)
(* in the trees of the two roots.                                          *)
LEMMA JoinedByLink ==
  ASSUME NEW e, ForestType(e), NEW r1 \in Known(e), NEW r2 \in Known(e),
         IsRoot(e, r1), IsRoot(e, r2), r1 # r2, NEW f, f = Link(e, r1, r2),
         NEW x \in Term, NEW y \in Term, Same(f, x, y)
  PROVE  \/ Same(e, x, y)
         \/ x \in Tree(e, r1) /\ y \in Tree(e, r2)
         \/ x \in Tree(e, r2) /\ y \in Tree(e, r1)
<1>1. SUFFICES ASSUME NEW S \in Saturated(e), ~(x \in S <=> y \in S)
               PROVE  \/ x \in Tree(e, r1) /\ y \in Tree(e, r2)
                      \/ x \in Tree(e, r2) /\ y \in Tree(e, r1)
  BY DEF Same, Inseparable
<1>2. \A T \in Saturated(e) : (r1 \in T <=> r2 \in T) => (x \in T <=> y \in T)
  BY LinkSaturated DEF Same, Inseparable
<1>3. ~(r1 \in S <=> r2 \in S)
  BY <1>1, <1>2
<1>4. /\ Tree(e, r1) \in Saturated(e) /\ Tree(e, r2) \in Saturated(e)
      /\ r1 \in Tree(e, r1) /\ r2 \in Tree(e, r2)
      /\ Tree(e, r1) \cap Tree(e, r2) = {}
  BY TreeIsClass, TreesDisjoint
<1>5. ~(x \in Tree(e, r1) <=> y \in Tree(e, r1))
  <2>1. (S \ Tree(e, r1)) \cup (Tree(e, r1) \ S) \in Saturated(e)
    BY <1>4, DifferenceSaturated
  <2>2. QED
    BY <1>1, <1>2, <1>3, <1>4, <2>1
<1>6. ~(x \in Tree(e, r2) <=> y \in Tree(e, r2))
  <2>1. (S \ Tree(e, r2)) \cup (Tree(e, r2) \ S) \in Saturated(e)
    BY <1>4, DifferenceSaturated
  <2>2. QED
    BY <1>1, <1>2, <1>3, <1>4, <2>1
<1>7. QED
  BY <1>4, <1>5, <1>6

(* When a variable goes below a root, no constructor joins another's       *)
(* class: none is in the variable's.                                       *)
LEMMA BindJoinsNoConstructors ==
  ASSUME NEW e, ForestType(e), \A t \in Known(e) : t \in Proper => e[t] \in Proper,
         NEW r1 \in Known(e), NEW r2 \in Known(e), r1 \in Var,
         IsRoot(e, r1), IsRoot(e, r2), r1 # r2, NEW f, f = Link(e, r1, r2),
         NEW x \in Cons, NEW y \in Cons, Same(f, x, y)
  PROVE  Same(e, x, y)
<1>1. Below(e, r1, Term \ Proper)
  BY KindAssumption DEF Below, ForestType, Term, Proper
<1>2. Tree(e, r1) \cap Cons = {}
  BY <1>1 DEF Tree, Proper
<1>3. x \in Term /\ y \in Term
  BY DEF Term
<1>4. QED
  BY <1>2, <1>3, JoinedByLink

-----------------------------------------------------------------------------
(***************************************************************************)
(* The debts are paid.                                                     *)
(***************************************************************************)

(* The cursors of the two finds stay in the classes of the terms they      *)
(* started from, and solve returns with no call left.                      *)
FindsInClass ==
  /\ pc \in {"find1", "find2"} => Same(edges, cur1, Head(todo)[1])
  /\ pc = "find2" => Same(edges, cur2, Head(todo)[2])
  /\ pc = "idle" => todo = << >>

(* A call on the stack is on an equation, or on two arguments of           *)
(* constructors that are in one class already.                             *)
Derived(call) ==
  \/ call \in Equations
  \/ \E x, y \in Known(edges) \cap Cons :
       /\ Same(edges, x, y)
       /\ \E i \in DOMAIN Args[x] : call = <<Args[x][i], Args[y][i]>>

CallsDerived == \A i \in DOMAIN todo : Derived(todo[i])

DebtsKnown ==
  \A x, y \in Known(edges) \cap Cons :
    x # y /\ Same(edges, x, y) =>
      /\ DoMatch(x, y)
      /\ \A i \in DOMAIN Args[x] : Inseparable(SaturatedByCalls, Args[x][i], Args[y][i])

PassedKnown ==
  \A i \in 1 .. next - 1 :
    Inseparable(SaturatedByCalls, constraints[i][1], constraints[i][2])

DebtInv == FindsInClass /\ CallsDerived /\ (pc # "failed" => DebtsKnown /\ PassedKnown)

(* The calls after unify went on with some more: those, and the ones that  *)
(* were on the stack but the first.                                        *)
Members(s) == {s[i] : i \in DOMAIN s}

(* What is left to do after a call was replaced by its own calls.          *)
LEMMA CallsAfter ==
  ASSUME NEW calls \in Seq(Term \X Term), NEW rest \in Seq(Term \X Term), rest # << >>
  PROVE  /\ Members(calls \o Tail(rest)) = Members(calls) \cup Members(Tail(rest))
         /\ Members(rest) = {Head(rest)} \cup Members(Tail(rest))
<1>1. Tail(rest) \in Seq(Term \X Term) /\ Len(Tail(rest)) = Len(rest) - 1
  OBVIOUS
<1>2. PICK tail : tail = Tail(rest)
  OBVIOUS
<1>3. PICK all : all = calls \o tail
  OBVIOUS
<1>4. tail \in Seq(Term \X Term) /\ all \in Seq(Term \X Term)
  BY <1>1, <1>2, <1>3
<1>5. /\ DOMAIN all = 1 .. Len(calls) + Len(tail)
      /\ Len(calls) \in Nat /\ DOMAIN calls = 1 .. Len(calls)
      /\ Len(tail) \in Nat /\ DOMAIN tail = 1 .. Len(tail)
      /\ \A i \in 1 .. Len(calls) : all[i] = calls[i]
      /\ \A i \in 1 .. Len(tail) : all[Len(calls) + i] = tail[i]
  BY <1>3, <1>4
<1>6. Members(all) = Members(calls) \cup Members(tail)
  <2>1. Members(calls) \subseteq Members(all)
    <3>1. \A i \in DOMAIN calls : i \in DOMAIN all /\ all[i] = calls[i]
      BY <1>5
    <3>2. QED
      BY <3>1 DEF Members
  <2>2. Members(tail) \subseteq Members(all)
    <3>1. \A i \in DOMAIN tail : Len(calls) + i \in DOMAIN all /\ all[Len(calls) + i] = tail[i]
      BY <1>5
    <3>2. QED
      BY <3>1 DEF Members
  <2>3. ASSUME NEW j \in DOMAIN all PROVE all[j] \in Members(calls) \cup Members(tail)
    <3>1. CASE j <= Len(calls)
      BY <1>4, <1>5, <3>1 DEF Members
    <3>2. CASE j > Len(calls)
      <4>1. j - Len(calls) \in 1 .. Len(tail) /\ j = Len(calls) + (j - Len(calls))
        BY <1>4, <1>5, <3>2
      <4>2. QED
        BY <1>4, <1>5, <4>1 DEF Members
    <3>3. QED
      BY <1>4, <1>5, <3>1, <3>2
  <2>4. QED
    BY <2>1, <2>2, <2>3 DEF Members
<1>7. Members(rest) = {Head(rest)} \cup Members(tail)
  <2>1. Head(rest) = rest[1] /\ 1 \in DOMAIN rest
    OBVIOUS
  <2>2. \A i \in 1 .. Len(tail) : i + 1 \in DOMAIN rest /\ tail[i] = rest[i + 1]
    BY <1>1, <1>2
  <2>3. ASSUME NEW i \in DOMAIN rest, i # 1 PROVE rest[i] \in Members(tail)
    <3>1. i - 1 \in 1 .. Len(tail) /\ (i - 1) + 1 = i
      BY <1>1, <1>2, <2>3
    <3>2. QED
      BY <1>4, <2>2, <3>1 DEF Members
  <2>4. Members(tail) \subseteq Members(rest)
    <3>1. \A i \in DOMAIN tail : i + 1 \in DOMAIN rest /\ tail[i] = rest[i + 1]
      BY <1>4, <2>2
    <3>2. QED
      BY <3>1 DEF Members
  <2>5. QED
    BY <2>1, <2>3, <2>4 DEF Members
<1>8. QED
  BY <1>2, <1>3, <1>6, <1>7

(* What a step that makes fewer sets saturated, and joins no constructors, *)
(* has to keep.                                                            *)
ConstructorsApart ==
  \A x, y \in Known(edges') \cap Cons :
    x # y /\ Same(edges', x, y) => {x, y} \subseteq Known(edges) /\ Same(edges, x, y)

(* Debts refer to known terms as long as the calls do.                     *)
LEMMA DebtsStayKnown ==
  ASSUME DebtsKnown, ConstructorsApart, SaturatedByCalls' \subseteq SaturatedByCalls
  PROVE  DebtsKnown'
<1>1. \A s, t : Inseparable(SaturatedByCalls, s, t) => Inseparable(SaturatedByCalls', s, t)
  BY DEF Inseparable
<1>2. QED
  BY <1>1 DEF DebtsKnown, ConstructorsApart

(* So do the constraints solve has passed.                                 *)
LEMMA PassedStayKnown ==
  ASSUME PassedKnown, SaturatedByCalls' \subseteq SaturatedByCalls, next \in Nat,
         next' = next, \A i \in 1 .. next - 1 : constraints'[i] = constraints[i]
  PROVE  PassedKnown'
<1>1. \A s, t : Inseparable(SaturatedByCalls, s, t) => Inseparable(SaturatedByCalls', s, t)
  BY DEF Inseparable
<1>2. QED
  BY <1>1 DEF PassedKnown

(* A step of find, or of add or close: terms are inserted and nothing else.*)
LEMMA InsertKeeps ==
  ASSUME Shape, NEW seed \in SUBSET Term, edges' = InsertAll(edges, seed)
  PROVE  Saturated(edges') = Saturated(edges) /\ ConstructorsApart
<1>1. ForestType(edges) /\ Known(edges') = Known(edges) \cup seed
  BY InsertAllType DEF Shape, TypeOK, ForestType
<1>2. Saturated(edges') = Saturated(edges)
  BY <1>1, InsertSaturated
<1>3. ASSUME NEW x \in Term, NEW y \in Term, x # y, x \notin Known(edges) \/ y \notin Known(edges)
      PROVE  ~Same(edges', x, y)
  BY <1>1, <1>2, <1>3, UnknownAlone DEF Same, Inseparable
<1>4. \A x, y : Same(edges', x, y) <=> Same(edges, x, y)
  BY <1>2 DEF Same
<1>5. QED
  BY <1>2, <1>3, <1>4 DEF ConstructorsApart, Term

(* A call that was derived stays so.                                       *)
LEMMA DerivedKept ==
  ASSUME Saturated(edges') \subseteq Saturated(edges), Known(edges) \subseteq Known(edges'),
         Equations \subseteq Equations'
  PROVE  \A call : Derived(call) => Derived(call)'
<1>1. \A x, y : Same(edges, x, y) => Same(edges', x, y)
  BY DEF Same, Inseparable
<1>2. QED
  BY <1>1 DEF Derived

(* unify has found the roots, has seen to it that they are in one class,   *)
(* and goes on with the calls that this takes.                             *)
LEMMA CallDone ==
  ASSUME Shape, FindsInClass, AtRoots, NEW calls \in Seq(Term \X Term), Continue(calls),
         Saturated(edges') \subseteq {S \in Saturated(edges) : cur1 \in S <=> cur2 \in S}
  PROVE  /\ SaturatedByCalls' \subseteq SaturatedByCalls
         /\ \A S \in SaturatedByCalls' : \A i \in DOMAIN calls :
              calls[i][1] \in S <=> calls[i][2] \in S
<1>1. todo \in Seq(Term \X Term) /\ todo # << >>
  BY DEF Shape, TypeOK, AtRoots
<1>2. /\ Members(todo') = Members(calls) \cup Members(Tail(todo))
      /\ Members(todo) = {Head(todo)} \cup Members(Tail(todo))
  BY <1>1, CallsAfter DEF Continue
<1>3. SUFFICES ASSUME NEW S \in SaturatedByCalls'
               PROVE  S \in SaturatedByCalls /\ \A q \in Members(calls) : q[1] \in S <=> q[2] \in S
  BY DEF Members
<1>4. /\ S \in Saturated(edges') /\ S \in Saturated(edges) /\ (cur1 \in S <=> cur2 \in S)
      /\ \A q \in Members(todo') : q[1] \in S <=> q[2] \in S
  BY <1>3 DEF SaturatedByCalls, Members
<1>5. Head(todo)[1] \in S <=> Head(todo)[2] \in S
  BY <1>4 DEF FindsInClass, AtRoots, Same, Inseparable
<1>6. \A q \in Members(todo) \cup Members(calls) : q[1] \in S <=> q[2] \in S
  BY <1>2, <1>4, <1>5
<1>7. QED
  BY <1>4, <1>6 DEF SaturatedByCalls, Members

(* unify links matching constructors: the debts are those that were there, *)
(* and the arguments of the two, on which it calls itself.                 *)
LEMMA DecomposePays ==
  ASSUME Shape, FindsInClass, DebtsKnown, Decompose
  PROVE  DebtsKnown' /\ SaturatedByCalls' \subseteq SaturatedByCalls
<1> DEFINE calls == ArgPairs(cur1, cur2)
<1>1. /\ AtRoots /\ cur1 # cur2 /\ cur1 \in Cons /\ cur2 \in Cons /\ DoMatch(cur1, cur2)
      /\ edges' = Link(edges, cur1, cur2) /\ Continue(calls)
  BY DEF Decompose
<1>2. /\ ForestType(edges) /\ cur1 \in Known(edges) /\ cur2 \in Known(edges)
      /\ IsRoot(edges, cur1) /\ IsRoot(edges, cur2)
  BY <1>1 DEF AtRoots, Shape, FirstRootStays, TypeOK, ForestType
<1>3. Saturated(edges') = {S \in Saturated(edges) : cur1 \in S <=> cur2 \in S}
  BY <1>1, <1>2, LinkSaturated
<1>4. calls \in Seq(Term \X Term)
  BY <1>1, ArgPairsType
<1>5. /\ SaturatedByCalls' \subseteq SaturatedByCalls
      /\ \A S \in SaturatedByCalls' : \A i \in DOMAIN calls : calls[i][1] \in S <=> calls[i][2] \in S
  <2>1. Saturated(edges') \subseteq {S \in Saturated(edges) : cur1 \in S <=> cur2 \in S}
    BY <1>3
  <2>2. QED
    BY <1>1, <1>4, <2>1, CallDone
<1>6. Known(edges') = Known(edges)
  BY <1>1, <1>2, LinkType DEF ForestType
<1>7. \A s, t : Inseparable(SaturatedByCalls, s, t) => Inseparable(SaturatedByCalls', s, t)
  BY <1>5 DEF Inseparable
<1> DEFINE Paid(x, y) == /\ DoMatch(x, y)
                         /\ \A i \in DOMAIN Args[x] : Inseparable(SaturatedByCalls', Args[x][i], Args[y][i])
<1>8. \A c \in Cons : DOMAIN Args[c] = 1 .. Len(Args[c])
  BY ArgsAssumption
<1>9. Paid(cur1, cur2) /\ Paid(cur2, cur1)
  <2>1. \A i \in DOMAIN Args[cur1] : calls[i] = <<Args[cur1][i], Args[cur2][i]>> /\ i \in DOMAIN calls
    BY <1>1, <1>8 DEF ArgPairs
  <2>2. \A i \in DOMAIN Args[cur1] : Inseparable(SaturatedByCalls', Args[cur1][i], Args[cur2][i])
    BY <1>5, <2>1 DEF Inseparable
  <2>3. DoMatch(cur2, cur1) /\ DOMAIN Args[cur1] = DOMAIN Args[cur2]
    BY <1>1, <1>8 DEF DoMatch
  <2>4. QED
    BY <1>1, <2>2, <2>3 DEF Inseparable
<1>10. ASSUME NEW x \in Known(edges) \cap Cons, NEW y \in Known(edges) \cap Cons,
              x # y, Same(edges, x, y)
       PROVE  Paid(x, y)
  BY <1>7, <1>10 DEF DebtsKnown
<1>11. ASSUME NEW x \in Cons, NEW y \in Cons, NEW z \in Cons, Paid(x, y), Paid(y, z)
       PROVE  Paid(x, z)
  BY <1>8, <1>11 DEF DoMatch, Inseparable
<1>12. ASSUME NEW x \in Known(edges) \cap Cons, NEW y \in Known(edges) \cap Cons,
              NEW r \in Cons, NEW s \in Cons, r \in Known(edges), s \in Known(edges),
              Same(edges, x, r), Same(edges, y, s), Paid(r, s)
       PROVE  Paid(x, y)
  <2>1. x = r \/ Paid(x, r)
    BY <1>10, <1>12
  <2>2. Same(edges, s, y)
    BY <1>12 DEF Same, Inseparable
  <2>3. s = y \/ Paid(s, y)
    BY <1>10, <1>12, <2>2
  <2>4. Paid(x, s)
    BY <1>11, <1>12, <2>1
  <2>5. QED
    BY <1>11, <1>12, <2>3, <2>4
<1>13. ASSUME NEW x \in Known(edges) \cap Cons, NEW y \in Known(edges) \cap Cons,
              x # y, Same(edges', x, y)
       PROVE  Paid(x, y)
  <2>1. x \in Term /\ y \in Term
    BY <1>2 DEF ForestType
  <2>2. \/ Same(edges, x, y)
        \/ x \in Tree(edges, cur1) /\ y \in Tree(edges, cur2)
        \/ x \in Tree(edges, cur2) /\ y \in Tree(edges, cur1)
    BY <1>1, <1>2, <1>13, <2>1, JoinedByLink
  <2>3. /\ \A t \in Tree(edges, cur1) : Same(edges, t, cur1)
        /\ \A t \in Tree(edges, cur2) : Same(edges, t, cur2)
    BY <1>2, TreeIsClass
  <2>4. QED
    BY <1>1, <1>2, <1>9, <1>10, <1>12, <1>13, <2>2, <2>3
<1>14. QED
  BY <1>5, <1>6, <1>13 DEF DebtsKnown

(* A variable below a root pays the call that is on top.                   *)
LEMMA BindPays ==
  ASSUME Shape, ProperRepresentative, FindsInClass, BindLeft \/ BindRight
  PROVE  ConstructorsApart /\ SaturatedByCalls' \subseteq SaturatedByCalls
<1>1. /\ AtRoots /\ cur1 # cur2 /\ Continue(<< >>) /\ ForestType(edges)
      /\ cur1 \in Known(edges) /\ cur2 \in Known(edges)
      /\ IsRoot(edges, cur1) /\ IsRoot(edges, cur2)
  BY DEF BindLeft, BindRight, AtRoots, Shape, FirstRootStays, TypeOK, ForestType
<1>2. PICK r1, r2 \in {cur1, cur2} :
        r1 # r2 /\ r1 \in Var /\ edges' = Link(edges, r1, r2)
  BY DEF BindLeft, BindRight
<1>3. /\ r1 \in Known(edges) /\ r2 \in Known(edges)
      /\ IsRoot(edges, r1) /\ IsRoot(edges, r2)
  BY <1>1, <1>2
<1>4. Saturated(edges') = {S \in Saturated(edges) : r1 \in S <=> r2 \in S}
  BY <1>1, <1>2, <1>3, LinkSaturated
<1>5. SaturatedByCalls' \subseteq SaturatedByCalls
  <2>1. Saturated(edges') \subseteq {S \in Saturated(edges) : cur1 \in S <=> cur2 \in S}
    BY <1>2, <1>4
  <2>2. << >> \in Seq(Term \X Term)
    OBVIOUS
  <2>3. QED
    BY <1>1, <2>1, <2>2, CallDone
<1>6. Known(edges') = Known(edges)
  BY <1>1, <1>2, <1>3, LinkType DEF ForestType
<1>7. \A x, y \in Cons : Same(edges', x, y) => Same(edges, x, y)
  BY <1>1, <1>2, <1>3, BindJoinsNoConstructors DEF ProperRepresentative
<1>8. QED
  BY <1>5, <1>6, <1>7 DEF ConstructorsApart

(* Whatever step is taken, nothing known is forgotten.                     *)
LEMMA DebtStep ==
  ASSUME Shape, ProperRepresentative, DebtInv, [Next]_vars
  PROVE  DebtInv'
<1> USE DEF DebtInv
<1>t. todo \in Seq(Term \X Term) /\ next \in Nat /\ next \in 1 .. Len(constraints) + 1
      /\ constraints \in Seq(Term \X Term) /\ pc \in PCs
  BY DEF Shape, TypeOK
<1>f. ForestType(edges)
  BY DEF Shape, TypeOK, ForestType
<1>e. /\ Equations \subseteq Equations'
      /\ \A i \in 1 .. next - 1 : constraints'[i] = constraints[i]
  <2>1. 1 .. next - 1 \subseteq DOMAIN constraints
    BY <1>t
  <2>2. QED
    BY <2>1, ConstraintsGrow DEF Shape
<1>s. ASSUME Saturated(edges') = Saturated(edges), Known(edges) \subseteq Known(edges')
      PROVE  /\ \A call : Derived(call) => Derived(call)'
             /\ \A x, y : Same(edges', x, y) <=> Same(edges, x, y)
             /\ todo' = todo => CallsDerived' /\ SaturatedByCalls' = SaturatedByCalls
  <2>1. \A call : Derived(call) => Derived(call)'
    BY <1>e, <1>s, DerivedKept
  <2>2. QED
    BY <1>s, <2>1 DEF CallsDerived, SaturatedByCalls, Same
<1>i. ASSUME NEW seed \in SUBSET Term, edges' = InsertAll(edges, seed), todo' = todo, next' = next,
             FindsInClass', pc # "failed"
      PROVE  DebtInv'
  <2>1. Saturated(edges') = Saturated(edges) /\ ConstructorsApart /\ Known(edges) \subseteq Known(edges')
    BY <1>f, <1>i, InsertKeeps, InsertAllType DEF ForestType
  <2>2. CallsDerived' /\ SaturatedByCalls' = SaturatedByCalls
    BY <1>i, <1>s, <2>1
  <2>3. DebtsKnown'
    BY <1>i, <2>1, <2>2, DebtsStayKnown
  <2>4. PassedKnown'
    BY <1>i, <1>t, <1>e, <2>2, PassedStayKnown
  <2>5. QED
    BY <1>i, <2>2, <2>3, <2>4
<1>u. ASSUME edges' = edges
      PROVE  /\ Saturated(edges') = Saturated(edges) /\ Known(edges') = Known(edges)
             /\ ConstructorsApart
  BY <1>u DEF ConstructorsApart
<1>1. ASSUME NEW batch \in Batches, Add(batch) PROVE DebtInv'
  <2>1. FindsInClass'
    BY <1>1 DEF Add, FindsInClass
  <2>2. Seeds(batch) \in SUBSET Term
    BY BatchesAssumption, SeedsAreTerms
  <2>3. QED
    BY <1>1, <1>i, <2>1, <2>2 DEF Add
<1>2. CASE Solve
  <2>1. FindsInClass' /\ CallsDerived' /\ SaturatedByCalls' = SaturatedByCalls
    BY <1>2, <1>s, <1>u DEF Solve, FindsInClass
  <2>2. DebtsKnown' /\ PassedKnown'
    BY <1>2, <1>u, <2>1, DebtsStayKnown DEF Solve, PassedKnown
  <2>3. QED
    BY <2>1, <2>2
<1>3. CASE TakeConstraint
  <2>1. /\ todo = << >> /\ edges' = edges /\ constraints' = constraints
        /\ todo' = <<constraints[next]>> /\ next' = next + 1 /\ pc = "loop" /\ pc' = "loop"
        /\ next \in DOMAIN constraints
    BY <1>3, <1>t DEF TakeConstraint
  <2>2. FindsInClass'
    BY <2>1 DEF FindsInClass
  <2>3. DOMAIN todo' = {1} /\ todo'[1] = constraints[next]
    BY <2>1
  <2>4. CallsDerived'
    BY <2>1, <2>3 DEF CallsDerived, Derived, Equations
  <2>5. SaturatedByCalls' \subseteq SaturatedByCalls
    BY <2>1 DEF SaturatedByCalls
  <2>6. Inseparable(SaturatedByCalls', constraints[next][1], constraints[next][2])
    BY <2>3 DEF SaturatedByCalls, Inseparable
  <2>7. \A s, t : Inseparable(SaturatedByCalls, s, t) => Inseparable(SaturatedByCalls', s, t)
    BY <2>5 DEF Inseparable
  <2>8. PassedKnown'
    <3>1. \A i \in 1 .. next' - 1 : i \in 1 .. next - 1 \/ i = next
      BY <1>t, <2>1
    <3>2. QED
      BY <2>1, <2>6, <2>7, <3>1 DEF PassedKnown
  <2>9. DebtsKnown'
    BY <1>u, <2>1, <2>5, DebtsStayKnown
  <2>10. QED
    BY <2>2, <2>4, <2>8, <2>9
<1>4. ASSUME pc' \in {"loop", "idle", "find1", "find2"}, pc # "failed", FindsInClass',
             UNCHANGED <<edges, constraints, next, todo>>
      PROVE  DebtInv'
  <2>1. CallsDerived' /\ SaturatedByCalls' = SaturatedByCalls
    BY <1>4, <1>s, <1>u
  <2>2. DebtsKnown' /\ PassedKnown'
    BY <1>4, <1>t, <1>e, <1>u, <2>1, DebtsStayKnown, PassedStayKnown
  <2>3. QED
    BY <2>1, <2>2, <1>4
<1>5. CASE Return
  BY <1>4, <1>5 DEF Return, FindsInClass
<1>6. CASE StartFind1
  <2>1. Head(todo)[1] \in Term /\ edges' = InsertAll(edges, {Head(todo)[1]})
    BY <1>6, <1>t DEF StartFind1, SmartInsert
  <2>2. Head(todo)[1] \in Known(edges')
    BY <1>f, <2>1, InsertAllType DEF ForestType
  <2>3. Same(edges', cur1', Head(todo)[1])
    BY <1>6, <2>2 DEF StartFind1, Same, Inseparable, Saturated
  <2>4. FindsInClass'
    BY <1>6, <2>3 DEF StartFind1, FindsInClass
  <2>5. QED
    BY <1>6, <1>i, <2>1, <2>4 DEF StartFind1
<1>7. CASE Climb1
  <2>1. Same(edges', cur1', Head(todo)[1])
    BY <1>7 DEF Climb1, FindsInClass, Same, Inseparable, Saturated, Shape, TypeOK
  <2>2. FindsInClass'
    BY <1>7, <2>1 DEF Climb1, FindsInClass
  <2>3. QED
    BY <1>4, <1>7, <2>2 DEF Climb1
<1>8. CASE StartFind2
  <2>1. Head(todo)[2] \in Term /\ edges' = InsertAll(edges, {Head(todo)[2]})
    BY <1>8, <1>t DEF StartFind2, SmartInsert, Shape, TypeOK
  <2>2. Head(todo)[2] \in Known(edges') /\ Saturated(edges') = Saturated(edges)
    BY <1>f, <2>1, InsertAllType, InsertSaturated DEF ForestType
  <2>3. Same(edges', cur2', Head(todo)[2])
    BY <1>8, <2>2 DEF StartFind2, Same, Inseparable, Saturated
  <2>4. Same(edges', cur1, Head(todo)[1])
    BY <1>8, <2>2 DEF StartFind2, FindsInClass, Same
  <2>5. FindsInClass'
    BY <1>8, <2>3, <2>4 DEF StartFind2, FindsInClass
  <2>6. QED
    BY <1>8, <1>i, <2>1, <2>5 DEF StartFind2
<1>9. CASE Climb2
  <2>1. Same(edges', cur2', Head(todo)[2])
    BY <1>9 DEF Climb2, FindsInClass, Same, Inseparable, Saturated, Shape, TypeOK
  <2>2. FindsInClass'
    BY <1>9, <2>1 DEF Climb2, FindsInClass
  <2>3. QED
    BY <1>4, <1>9, <2>2 DEF Climb2
<1>c. ASSUME AtRoots, NEW calls \in Seq(Term \X Term), Continue(calls),
             Saturated(edges') \subseteq Saturated(edges), Known(edges) \subseteq Known(edges'),
             \A q \in Members(calls) : Derived(q)', DebtsKnown',
             SaturatedByCalls' \subseteq SaturatedByCalls
      PROVE  DebtInv'
  <2>1. todo # << >>
    BY <1>c DEF AtRoots, Shape, TypeOK
  <2>2. /\ Members(todo') = Members(calls) \cup Members(Tail(todo))
        /\ Members(todo) = {Head(todo)} \cup Members(Tail(todo))
    BY <1>c, <1>t, <2>1, CallsAfter DEF Continue
  <2>3. \A call : Derived(call) => Derived(call)'
    BY <1>c, <1>e, DerivedKept
  <2>4. \A q \in Members(todo') : Derived(q)'
    <3>1. \A q \in Members(todo) : Derived(q)
      BY DEF CallsDerived, Members
    <3>2. \A q \in Members(Tail(todo)) : Derived(q)'
      BY <2>2, <2>3, <3>1
    <3>3. QED
      BY <1>c, <2>2, <3>2
  <2>5. CallsDerived'
    BY <2>4 DEF CallsDerived, Members
  <2>6. FindsInClass' /\ pc # "failed"
    BY <1>c DEF Continue, FindsInClass, AtRoots
  <2>7. PassedKnown'
    BY <1>c, <1>t, <1>e, <2>6, PassedStayKnown DEF Continue
  <2>8. QED
    BY <1>c, <2>5, <2>6, <2>7
<1>n. << >> \in Seq(Term \X Term) /\ Members(<< >>) = {}
  BY DEF Members
<1>10. CASE AlreadyEqual
  <2>1. Saturated(edges') \subseteq {S \in Saturated(edges) : cur1 \in S <=> cur2 \in S}
    BY <1>10 DEF AlreadyEqual
  <2>2. SaturatedByCalls' \subseteq SaturatedByCalls
    BY <1>10, <1>n, <2>1, CallDone DEF AlreadyEqual
  <2>3. DebtsKnown'
    BY <1>10, <1>u, <2>2, DebtsStayKnown DEF AlreadyEqual, AtRoots
  <2>4. QED
    BY <1>10, <1>c, <1>n, <1>u, <2>2, <2>3 DEF AlreadyEqual
<1>l. ASSUME BindLeft \/ BindRight \/ Decompose
      PROVE  /\ AtRoots /\ Saturated(edges') \subseteq Saturated(edges) /\ Known(edges') = Known(edges)
             /\ Same(edges', cur1, cur2)
  <2>1. /\ AtRoots /\ cur1 \in Known(edges) /\ cur2 \in Known(edges)
        /\ IsRoot(edges, cur1) /\ IsRoot(edges, cur2)
    BY <1>l DEF BindLeft, BindRight, Decompose, AtRoots, Shape, FirstRootStays, TypeOK
  <2>2. PICK r1, r2 \in {cur1, cur2} : r1 # r2 /\ edges' = Link(edges, r1, r2)
    BY <1>l DEF BindLeft, BindRight, Decompose
  <2>3. Saturated(edges') = {S \in Saturated(edges) : r1 \in S <=> r2 \in S}
    BY <1>f, <2>1, <2>2, LinkSaturated
  <2>4. Known(edges') = Known(edges)
    BY <1>f, <2>1, <2>2, LinkType DEF ForestType
  <2>5. QED
    BY <2>1, <2>2, <2>3, <2>4 DEF Same, Inseparable
<1>11. CASE BindLeft \/ BindRight
  <2>1. ConstructorsApart /\ SaturatedByCalls' \subseteq SaturatedByCalls
    BY <1>11, BindPays
  <2>2. DebtsKnown'
    BY <1>11, <1>l, <2>1, DebtsStayKnown DEF AtRoots
  <2>3. QED
    BY <1>11, <1>c, <1>l, <1>n, <2>1, <2>2 DEF BindLeft, BindRight
<1>12. CASE Decompose
  <2>1. AtRoots /\ cur1 \in Cons /\ cur2 \in Cons /\ DoMatch(cur1, cur2)
    BY <1>12 DEF Decompose
  <2>2. DebtsKnown' /\ SaturatedByCalls' \subseteq SaturatedByCalls
    BY <1>12, <2>1, DecomposePays DEF AtRoots
  <2>3. cur1 \in Known(edges) /\ cur2 \in Known(edges)
    BY <2>1 DEF AtRoots, Shape, TypeOK
  <2>4. ASSUME NEW q \in Members(ArgPairs(cur1, cur2)) PROVE Derived(q)'
    <3>1. PICK i \in DOMAIN Args[cur1] : q = <<Args[cur1][i], Args[cur2][i]>>
      <4>1. DOMAIN Args[cur1] = 1 .. Len(Args[cur1])
        BY <2>1, ArgsAssumption
      <4>2. QED
        BY <2>4, <4>1 DEF Members, ArgPairs
    <3>2. QED
      BY <1>12, <1>l, <2>1, <2>3, <3>1 DEF Derived
  <2>5. QED
    BY <1>12, <1>c, <1>l, <2>1, <2>2, <2>4, ArgPairsType DEF Decompose
<1>13. CASE Clash
  <2>1. /\ pc' = "failed" /\ UNCHANGED <<edges, constraints, next, todo, cur1, cur2>>
    BY <1>13 DEF Clash
  <2>2. QED
    BY <1>s, <1>u, <2>1 DEF FindsInClass
<1>14. CASE UNCHANGED vars
  <2>1. CallsDerived' /\ SaturatedByCalls' = SaturatedByCalls /\ FindsInClass'
    BY <1>14, <1>s, <1>u DEF vars, FindsInClass
  <2>2. pc' # "failed" => DebtsKnown' /\ PassedKnown'
    BY <1>14, <1>t, <1>e, <1>u, <2>1, DebtsStayKnown, PassedStayKnown DEF vars
  <2>3. QED
    BY <2>1, <2>2
<1>15. ASSUME NEW c \in Cons, Close(c) PROVE DebtInv'
  <2>1. {c} \in SUBSET Term /\ edges' = InsertAll(edges, {c})
    BY <1>15 DEF Close, SmartInsert, Term
  <2>2. FindsInClass'
    BY <1>15 DEF Close, FindsInClass
  <2>3. QED
    BY <1>15, <1>i, <2>1, <2>2 DEF Close
<1>16. QED
  BY <1>1, <1>2, <1>3, <1>5, <1>6, <1>7, <1>8, <1>9, <1>10, <1>11,
     <1>12, <1>13, <1>14, <1>15 DEF Next, SolverStep, Unify

(* The debts of unify are known from the first state on.                   *)
LEMMA DebtInvariant == Spec => []DebtInv
<1>1. Init => DebtInv
  BY DEF Init, DebtInv, FindsInClass, CallsDerived, DebtsKnown, PassedKnown, Known
<1>2. Shape /\ ProperRepresentative /\ DebtInv /\ [Next]_vars => DebtInv'
  BY DebtStep
<1>3. QED
  BY <1>1, <1>2, ShapeInvariant, ProperRepresentativeInvariant, PTL DEF Spec

(* The debt of unify: constructors that it has put into one class match,   *)
(* and their arguments are equal or on the stack of calls; so is every     *)
(* equation that solve has passed.                                         *)
THEOREM NoDebtForgottenInvariant == Spec => []NoDebtForgotten
<1>1. DebtInv => NoDebtForgotten
  BY DEF DebtInv, DebtsKnown, PassedKnown, NoDebtForgotten, Same
<1>2. QED
  BY <1>1, DebtInvariant, PTL

(* A step of the solver leaves the parents alone, inserts terms as roots,  *)
(* or links the two roots that unify found.                                *)
LEMMA StepKinds ==
  ASSUME [Next]_vars
  PROVE  \/ \E seed : edges' = InsertAll(edges, seed)
         \/ edges' = edges
         \/ BindLeft \/ BindRight \/ Decompose
<1>1. \A batch : Add(batch) => edges' = InsertAll(edges, Seeds(batch))
  BY DEF Add
<1>2. StartFind1 => edges' = InsertAll(edges, {Head(todo)[1]})
  BY DEF StartFind1, SmartInsert
<1>3. StartFind2 => edges' = InsertAll(edges, {Head(todo)[2]})
  BY DEF StartFind2, SmartInsert
<1>4. \A c : Close(c) => edges' = InsertAll(edges, {c})
  BY DEF Close, SmartInsert
<1>5. Solve \/ TakeConstraint \/ Return \/ Climb1 \/ Climb2 \/ AlreadyEqual \/ Clash \/ UNCHANGED vars
      => edges' = edges
  BY DEF Solve, TakeConstraint, Return, Climb1, Climb2, AlreadyEqual, Clash, vars
<1>6. QED
  BY <1>1, <1>2, <1>3, <1>4, <1>5 DEF Next, SolverStep, Unify

(* What was concluded is kept, across stages too: classes are only ever    *)
(* merged, and solving again what is solved changes no parent.             *)
THEOREM ConclusionsAreKept == Spec => ConclusionsKept
<1>1. ASSUME Shape, DebtInv, [Next]_vars
      PROVE  /\ Saturated(edges') \subseteq Saturated(edges)
             /\ IsSolution => \A t \in Known(edges) : edges'[t] = edges[t]
  <2>f. ForestType(edges)
    BY <1>1 DEF Shape, TypeOK, ForestType
  <2>1. ASSUME NEW seed, edges' = InsertAll(edges, seed)
        PROVE  /\ Saturated(edges') \subseteq Saturated(edges)
               /\ \A t \in Known(edges) : edges'[t] = edges[t]
    BY <2>f, <2>1, InsertSaturated, InsertAllType DEF ForestType
  <2>2. CASE BindLeft \/ BindRight \/ Decompose
    <3>1. /\ AtRoots /\ cur1 # cur2 /\ cur1 \in Known(edges) /\ cur2 \in Known(edges)
          /\ IsRoot(edges, cur1) /\ IsRoot(edges, cur2)
      BY <1>1, <2>2 DEF BindLeft, BindRight, Decompose, AtRoots, Shape, FirstRootStays, TypeOK
    <3>2. PICK r1, r2 \in {cur1, cur2} : edges' = Link(edges, r1, r2)
      BY <2>2 DEF BindLeft, BindRight, Decompose
    <3>3. Saturated(edges') \subseteq Saturated(edges)
      BY <2>f, <3>1, <3>2, LinkSaturated
    <3>4. ~Same(edges, cur1, cur2)
      BY <2>f, <3>1, RootsApart
    <3>5. ~Same(edges, Head(todo)[1], Head(todo)[2])
      BY <1>1, <3>1, <3>4 DEF DebtInv, FindsInClass, AtRoots, Same, Inseparable
    <3>6. Derived(Head(todo))
      BY <1>1, <3>1 DEF Shape, TypeOK, AtRoots, DebtInv, CallsDerived
    <3>7. ~IsSolution
      BY <3>5, <3>6 DEF Derived, IsSolution, Same
    <3>8. QED
      BY <3>3, <3>7
  <2>3. CASE edges' = edges
    BY <2>3
  <2>4. QED
    BY <1>1, <2>1, <2>2, <2>3, StepKinds
<1>2. QED
  BY <1>1, ShapeInvariant, DebtInvariant, PTL DEF Spec, ConclusionsKept

-----------------------------------------------------------------------------
(***************************************************************************)
(* What solve accepts is typable.  The classes of the forest are a         *)
(* solution that may tell apart terms which are the same type, built alike *)
(* from terms the forest has joined; closing them under that gives a       *)
(* typing.                                                                 *)
(***************************************************************************)
Equivalence(R) ==
  /\ R \subseteq Term \X Term
  /\ \A x \in Term : <<x, x>> \in R
  /\ \A x, y \in Term : <<x, y>> \in R => <<y, x>> \in R
  /\ \A x, y, z \in Term : <<x, y>> \in R /\ <<y, z>> \in R => <<x, z>> \in R

ArgsIn(R, x, y) == \A i \in DOMAIN Args[x] : <<Args[x][i], Args[y][i]>> \in R

DecomposingIn(R) ==
  \A x, y \in Cons : <<x, y>> \in R /\ x # y => DoMatch(x, y) /\ ArgsIn(R, x, y)

CongruentIn(R) ==
  \A x, y \in Cons : DoMatch(x, y) /\ ArgsIn(R, x, y) => <<x, y>> \in R

(* The least congruence that contains R.                                   *)
Closure(R) ==
  {p \in Term \X Term :
     \A Q \in SUBSET (Term \X Term) :
       R \subseteq Q /\ Equivalence(Q) /\ CongruentIn(Q) => p \in Q}

(* An equivalence gives each class a name.                                 *)
LEMMA ClassesNamed ==
  ASSUME NEW R, Equivalence(R)
  PROVE  \E h \in [Term -> Term] :
           Idempotent(h) /\ \A x, y \in Term : h[x] = h[y] <=> <<x, y>> \in R
<1> DEFINE Class(t) == {u \in Term : <<t, u>> \in R}
           Name(t)  == CHOOSE u : u \in Class(t)
           h == [t \in Term |-> Name(t)]
<1>1. \A t \in Term : Name(t) \in Class(t)
  <2>1. \A t \in Term : t \in Class(t)
    BY DEF Equivalence
  <2>2. QED
    BY <2>1
<1>2. \A x, y \in Term : <<x, y>> \in R => Class(x) = Class(y)
  BY DEF Equivalence
<1>3. \A x, y \in Term : <<x, y>> \in R => Name(x) = Name(y)
  BY <1>2
<1>4. h \in [Term -> Term]
  BY <1>1
<1>5. \A x, y \in Term : h[x] = h[y] => <<x, y>> \in R
  BY <1>1 DEF Equivalence
<1>6. ASSUME NEW t \in Term PROVE h[h[t]] = h[t]
  <2>1. Name(t) \in Term /\ <<t, Name(t)>> \in R
    BY <1>1
  <2>2. Name(t) = Name(Name(t))
    BY <1>3, <2>1
  <2>3. h[t] = Name(t) /\ h[Name(t)] = Name(Name(t))
    BY <2>1
  <2>4. QED
    BY <2>2, <2>3
<1>7. QED
  BY <1>3, <1>4, <1>5, <1>6 DEF Idempotent

(* The least congruence over classes that can be decomposed can be         *)
(* decomposed as well.                                                     *)
LEMMA ClosureDecomposes ==
  ASSUME NEW R, Equivalence(R), DecomposingIn(R), NEW C, C = Closure(R)
  PROVE  R \subseteq C /\ Equivalence(C) /\ CongruentIn(C) /\ DecomposingIn(C)
<1>1. R \subseteq C
  BY DEF Closure, Equivalence
<1>a. \A c \in Cons : DOMAIN Args[c] = 1 .. Len(Args[c]) /\ c \in Term
                      /\ \A i \in DOMAIN Args[c] : Args[c][i] \in Term
  BY ArgsAssumption DEF Term
<1>b. \A x, y \in Cons : DoMatch(x, y) => DOMAIN Args[x] = DOMAIN Args[y]
  BY <1>a DEF DoMatch
<1>2. Equivalence(C)
  <2> DEFINE Q0(Q) == Q \in SUBSET (Term \X Term) /\ R \subseteq Q /\ Equivalence(Q) /\ CongruentIn(Q)
  <2>1. C = {p \in Term \X Term : \A Q : Q0(Q) => p \in Q}
    BY DEF Closure
  <2> HIDE DEF Q0
  <2>2. \A Q : Q0(Q) => Equivalence(Q)
    BY DEF Q0
  <2>3. QED
    BY <2>1, <2>2 DEF Equivalence
<1>3. CongruentIn(C)
  <2> SUFFICES ASSUME NEW x \in Cons, NEW y \in Cons, DoMatch(x, y), ArgsIn(C, x, y)
               PROVE  <<x, y>> \in C
    BY DEF CongruentIn
  <2>1. ASSUME NEW Q \in SUBSET (Term \X Term), R \subseteq Q, Equivalence(Q), CongruentIn(Q)
        PROVE  <<x, y>> \in Q
    <3>1. C \subseteq Q
      BY <2>1 DEF Closure
    <3>2. ArgsIn(Q, x, y)
      BY <3>1 DEF ArgsIn
    <3>3. QED
      BY <2>1, <3>2 DEF CongruentIn
  <2>2. QED
    BY <1>a, <2>1 DEF Closure
<1> DEFINE Alike(x, y) == DoMatch(x, y) /\ ArgsIn(C, x, y)
           F == {p \in C : \/ p \in R
                           \/ \E x, y \in Cons : <<x, p[1]>> \in R /\ <<y, p[2]>> \in R /\ Alike(x, y)}
<1>4. ASSUME NEW x \in Cons, NEW y \in Cons, Alike(x, y) PROVE Alike(y, x)
  <2>1. \A i \in DOMAIN Args[y] : <<Args[y][i], Args[x][i]>> \in C
    BY <1>2, <1>4, <1>a, <1>b DEF ArgsIn, Equivalence
  <2>2. QED
    BY <1>4, <2>1 DEF DoMatch, ArgsIn
<1>5. ASSUME NEW x \in Cons, NEW y \in Cons, NEW z \in Cons, Alike(x, y), Alike(y, z)
      PROVE  Alike(x, z)
  <2>1. \A i \in DOMAIN Args[x] : <<Args[x][i], Args[z][i]>> \in C
    BY <1>2, <1>5, <1>a, <1>b DEF ArgsIn, Equivalence
  <2>2. QED
    BY <1>5, <2>1 DEF DoMatch, ArgsIn
<1>6. ASSUME NEW x \in Cons, NEW y \in Cons, <<x, y>> \in R PROVE x = y \/ Alike(x, y)
  BY <1>1, <1>6 DEF DecomposingIn, ArgsIn
<1> HIDE DEF Alike
<1>7. Equivalence(F)
  <2>1. F \subseteq Term \X Term /\ \A x \in Term : <<x, x>> \in F
    BY <1>1, <1>2 DEF Equivalence
  <2>2. ASSUME NEW s \in Term, NEW t \in Term, <<s, t>> \in F PROVE <<t, s>> \in F
    BY <1>2, <1>4, <2>2 DEF Equivalence
  <2>3. ASSUME NEW s \in Term, NEW t \in Term, NEW u \in Term, <<s, t>> \in F, <<t, u>> \in F
        PROVE  <<s, u>> \in F
    <3>1. <<s, u>> \in C
      BY <1>2, <2>3 DEF Equivalence
    <3>2. CASE <<s, t>> \in R
      BY <1>a, <2>3, <3>1, <3>2 DEF Equivalence
    <3>3. CASE <<t, u>> \in R
      BY <1>a, <2>3, <3>1, <3>3 DEF Equivalence
    <3>4. CASE <<s, t>> \notin R /\ <<t, u>> \notin R
      <4>1. PICK x \in Cons, y \in Cons : <<x, s>> \in R /\ <<y, t>> \in R /\ Alike(x, y)
        BY <2>3, <3>4
      <4>2. PICK v \in Cons, w \in Cons : <<v, t>> \in R /\ <<w, u>> \in R /\ Alike(v, w)
        BY <2>3, <3>4
      <4>3. <<y, v>> \in R
        BY <1>a, <4>1, <4>2 DEF Equivalence
      <4>4. Alike(x, w)
        BY <1>5, <1>6, <4>1, <4>2, <4>3
      <4>5. QED
        BY <3>1, <4>1, <4>2, <4>4
    <3>5. QED
      BY <3>2, <3>3, <3>4
  <2>4. QED
    BY <2>1, <2>2, <2>3 DEF Equivalence
<1>8. R \subseteq F
  BY <1>1
<1>9. CongruentIn(F)
  <2> SUFFICES ASSUME NEW x \in Cons, NEW y \in Cons, DoMatch(x, y), ArgsIn(F, x, y)
               PROVE  <<x, y>> \in F
    BY DEF CongruentIn
  <2>1. ArgsIn(C, x, y)
    BY DEF ArgsIn
  <2>2. <<x, y>> \in C /\ Alike(x, y)
    BY <1>3, <2>1 DEF CongruentIn, Alike
  <2>3. <<x, x>> \in R /\ <<y, y>> \in R
    BY <1>a DEF Equivalence
  <2>4. QED
    BY <2>2, <2>3
<1>10. C \subseteq F
  BY <1>7, <1>8, <1>9 DEF Closure, Equivalence
<1>11. DecomposingIn(C)
  <2> SUFFICES ASSUME NEW x \in Cons, NEW y \in Cons, <<x, y>> \in C, x # y
               PROVE  Alike(x, y)
    BY DEF DecomposingIn, Alike
  <2>1. CASE <<x, y>> \in R
    BY <1>6, <2>1
  <2>2. CASE <<x, y>> \notin R
    <3>1. PICK v \in Cons, w \in Cons : <<v, x>> \in R /\ <<w, y>> \in R /\ Alike(v, w)
      BY <1>10, <2>2
    <3>2. <<x, v>> \in R
      BY <1>a, <3>1 DEF Equivalence
    <3>3. Alike(x, w)
      BY <1>5, <1>6, <3>1, <3>2
    <3>4. QED
      BY <1>5, <1>6, <3>1, <3>3
  <2>3. QED
    BY <2>1, <2>2
<1>12. QED
  BY <1>1, <1>2, <1>3, <1>11

(* The loop of solve is over.                                              *)
AllPassed == pc # "failed" /\ todo = << >> /\ next > Len(constraints)

(* Then the classes of the forest satisfy the equations and can be         *)
(* decomposed.                                                             *)
LEMMA SolvedClasses ==
  ASSUME Shape, DebtInv, AllPassed
  PROVE  /\ Equivalence(Classes(edges)) /\ DecomposingIn(Classes(edges))
         /\ Equations \subseteq Classes(edges)
<1>1. /\ pc # "failed" /\ todo = << >> /\ next > Len(constraints)
      /\ next \in 1 .. Len(constraints) + 1
      /\ constraints \in Seq(Term \X Term) /\ ForestType(edges)
  BY DEF AllPassed, Shape, TypeOK, ForestType
<1>2. SaturatedByCalls = Saturated(edges)
  BY <1>1 DEF SaturatedByCalls
<1>3. \A x, y \in Term : <<x, y>> \in Classes(edges) <=> Same(edges, x, y)
  BY DEF Classes, Same
<1>4. Equivalence(Classes(edges))
  <2>1. Classes(edges) \subseteq Term \X Term
    BY DEF Classes
  <2>2. QED
    BY <1>3, <2>1 DEF Equivalence, Same, Inseparable
<1>5. DecomposingIn(Classes(edges))
  <2> SUFFICES ASSUME NEW x \in Cons, NEW y \in Cons, Same(edges, x, y), x # y
               PROVE  DoMatch(x, y) /\ ArgsIn(Classes(edges), x, y)
    BY <1>3 DEF DecomposingIn, Term
  <2>1. x \in Term /\ y \in Term
    BY DEF Term
  <2>2. x \in Known(edges) /\ y \in Known(edges)
    BY <1>1, <2>1, UnknownAlone DEF Same, Inseparable
  <2>3. /\ DoMatch(x, y)
        /\ \A i \in DOMAIN Args[x] : Same(edges, Args[x][i], Args[y][i])
    BY <1>1, <1>2, <2>2 DEF DebtInv, DebtsKnown, Same
  <2>4. \A i \in DOMAIN Args[x] : Args[x][i] \in Term /\ Args[y][i] \in Term
    BY <2>3, ArgsAssumption DEF DoMatch
  <2>5. QED
    BY <1>3, <2>3, <2>4 DEF ArgsIn
<1>6. Equations \subseteq Classes(edges)
  <2>1. ASSUME NEW i \in DOMAIN constraints
        PROVE  constraints[i] \in Classes(edges)
    <3>1. i \in 1 .. next - 1 /\ constraints[i] \in Term \X Term
      BY <1>1
    <3>2. Same(edges, constraints[i][1], constraints[i][2])
      BY <1>1, <1>2, <3>1 DEF DebtInv, PassedKnown, Same
    <3>3. QED
      BY <3>1, <3>2 DEF Classes, Same
  <2>2. QED
    BY <2>1 DEF Equations
<1>7. QED
  BY <1>4, <1>5, <1>6

(* A program that solve accepts has a typing, in however many stages and   *)
(* whatever order its equations came.  (Without recursive types among the  *)
(* terms: monomorphic inference builds none.)                              *)
THEOREM SolvedMeansTypableInvariant ==
  ASSUME Mu = {}
  PROVE  Spec => []SolvedMeansTypable
<1>1. ASSUME Shape, DebtInv PROVE SolvedMeansTypable
  <2> SUFFICES ASSUME Solved PROVE \E h \in Typings : Solves(h, Equations)
    BY DEF SolvedMeansTypable
  <2>0. AllPassed
    BY <1>1 DEF Solved, AllPassed, DebtInv, FindsInClass
  <2>1. PICK C : C = Closure(Classes(edges))
    OBVIOUS
  <2>2. /\ Classes(edges) \subseteq C /\ Equivalence(C) /\ CongruentIn(C) /\ DecomposingIn(C)
        /\ Equations \subseteq Classes(edges)
    BY <1>1, <2>0, <2>1, SolvedClasses, ClosureDecomposes
  <2>3. PICK h \in [Term -> Term] :
          Idempotent(h) /\ \A x, y \in Term : h[x] = h[y] <=> <<x, y>> \in C
    BY <2>2, ClassesNamed
  <2>4. ASSUME NEW x \in Cons, NEW y \in Cons, DoMatch(x, y)
        PROVE  x \in Term /\ y \in Term /\ (SameArgs(h, x, y) <=> ArgsIn(C, x, y))
    <3>1. \A i \in DOMAIN Args[x] : Args[x][i] \in Term /\ Args[y][i] \in Term
      BY <2>4, ArgsAssumption DEF DoMatch
    <3>2. QED
      BY <2>3, <3>1 DEF SameArgs, ArgsIn, Term
  <2>5. Decomposing(h)
    BY <2>2, <2>3, <2>4 DEF Decomposing, DecomposingIn, Term
  <2>6. Congruent(h)
    BY <2>2, <2>3, <2>4 DEF Congruent, CongruentIn
  <2>7. Solves(h, Equations)
    BY <2>2, <2>3 DEF Solves, Equivalence
  <2>8. QED
    BY <2>3, <2>5, <2>6, <2>7 DEF Typings, Assignments
<1>2. QED
  BY <1>1, ShapeInvariant, DebtInvariant, PTL

-----------------------------------------------------------------------------
(***************************************************************************)
(* The solver implements TypeTheory.                                       *)
(***************************************************************************)

(* What the forest has joined follows from the equations.                  *)
LEMMA ClassesFollow ==
  ASSUME NEW e, ForestType(e), NEW E,
         \A h \in Assignments : Solves(h, E) => \A t \in Known(e) : h[e[t]] = h[t],
         NEW K \in Models, E \subseteq K
  PROVE  Classes(e) \subseteq K
<1>1. PICK h \in Assignments : K = {p \in Term \X Term : h[p[1]] = h[p[2]]}
  BY DEF Models
<1>2. \A t \in Known(e) : h[e[t]] = h[t]
  BY <1>1 DEF Solves
<1>3. ASSUME NEW p \in Classes(e) PROVE p \in K
  <2> DEFINE S == {t \in Term : h[t] = h[p[1]]}
  <2>1. S \in Saturated(e)
    BY <1>2 DEF Saturated, ForestType
  <2>2. p \in Term \X Term /\ (p[1] \in S <=> p[2] \in S)
    BY <2>1 DEF Classes, Inseparable
  <2>3. QED
    BY <1>1, <2>2
<1>4. QED
  BY <1>3

(* When solve returns, the classes are the pairs that one solution         *)
(* identifies.                                                             *)
LEMMA SolvedIsModel ==
  ASSUME Mu = {}, Shape, DebtInv, AllPassed
  PROVE  Classes(edges) \in Models /\ Equations \subseteq Classes(edges)
<1>1. /\ Equivalence(Classes(edges)) /\ DecomposingIn(Classes(edges))
      /\ Equations \subseteq Classes(edges)
  BY SolvedClasses
<1>2. PICK h \in [Term -> Term] :
        Idempotent(h) /\ \A x, y \in Term : h[x] = h[y] <=> <<x, y>> \in Classes(edges)
  BY <1>1, ClassesNamed
<1>3. ASSUME NEW x \in Cons, NEW y \in Cons, h[x] = h[y], x # y
      PROVE  DoMatch(x, y) /\ SameArgs(h, x, y)
  <2>1. DoMatch(x, y) /\ ArgsIn(Classes(edges), x, y)
    BY <1>1, <1>2, <1>3 DEF DecomposingIn, Term
  <2>2. \A i \in DOMAIN Args[x] : Args[x][i] \in Term /\ Args[y][i] \in Term
    BY <2>1, ArgsAssumption DEF DoMatch
  <2>3. QED
    BY <1>2, <2>1, <2>2 DEF SameArgs, ArgsIn
<1>4. h \in Assignments
  BY <1>2, <1>3 DEF Assignments, Decomposing
<1>5. Classes(edges) = {p \in Term \X Term : h[p[1]] = h[p[2]]}
  BY <1>2 DEF Classes
<1>6. QED
  BY <1>1, <1>4, <1>5 DEF Models

(* The verdict as the refinement names it.                                 *)
Verdict ==
  CASE pc = "failed" -> "inconsistent"
    [] Solved        -> "consistent"
    [] OTHER         -> "open"

(* Nothing that TypeTheory speaks of changes.                              *)
Unmoved == UNCHANGED <<Equations, Classes(edges), Verdict>>

(* Every step of the unifier is a step of the abstract solver, or leaves   *)
(* all that it speaks of as it is.                                         *)
LEMMA TheoryStep ==
  ASSUME Mu = {}, Shape, DebtInv, SolutionsRespected, [Next]_vars,
         Shape', DebtInv', SolutionsRespected'
  PROVE  [Theory!TNext]_(Theory!tvars)
<1> USE DEF Theory!TNext, Theory!tvars
<1>t. /\ pc \in PCs /\ next \in 1 .. Len(constraints) + 1 /\ constraints \in Seq(Term \X Term)
      /\ ForestType(edges)
  BY DEF Shape, TypeOK, ForestType
<1>u. ASSUME Unmoved PROVE UNCHANGED Theory!tvars
  BY <1>u DEF Unmoved, Verdict
<1>s. ASSUME Saturated(edges') = Saturated(edges) PROVE Classes(edges') = Classes(edges)
  BY <1>s DEF Classes
<1>i. ASSUME NEW seed, edges' = InsertAll(edges, seed) PROVE Classes(edges') = Classes(edges)
  BY <1>i, <1>s, <1>t, InsertSaturated
<1>1. ASSUME NEW batch \in Batches, Add(batch) PROVE [Theory!TNext]_(Theory!tvars)
  <2>1. batch \in Seq(Term \X Term) /\ constraints' = constraints \o batch
        /\ pc = "idle" /\ pc' = "idle" /\ next' = next
    BY <1>1, BatchesAssumption DEF Add
  <2>2. Classes(edges') = Classes(edges) /\ Equations \subseteq Equations'
    BY <1>1, <1>i, ConstraintsGrow DEF Add, Shape
  <2>3. CASE Solved'
    <3>1. Len(constraints') = Len(constraints) + Len(batch) /\ next > Len(constraints')
      BY <1>t, <2>1, <2>3 DEF Solved
    <3>2. Len(batch) = 0 /\ next > Len(constraints)
      BY <1>t, <2>1, <3>1
    <3>3. constraints' = constraints
      BY <1>t, <2>1, <3>2
    <3>4. Unmoved
      BY <2>1, <2>2, <3>3 DEF Unmoved, Verdict, Equations, Solved
    <3>5. QED
      BY <1>u, <3>4
  <2>4. CASE ~Solved'
    <3>1. Theory!Ask
      BY <2>1, <2>2, <2>4 DEF Theory!Ask
    <3>2. QED
      BY <3>1
  <2>5. QED
    BY <2>3, <2>4
<1>2. CASE Solve
  <2>1. Theory!Ask
    BY <1>2 DEF Solve, Solved, Theory!Ask, Equations
  <2>2. QED
    BY <2>1
<1>3. CASE Return
  <2>1. /\ pc = "loop" /\ Solved' /\ UNCHANGED <<edges, constraints>>
        /\ Classes(edges)' = Classes(edges) /\ Equations' = Equations
    BY <1>3 DEF Return, Solved, Classes, Equations
  <2>2. Classes(edges) \in Models /\ Equations \subseteq Classes(edges)
    <3>1. AllPassed
      BY <1>3 DEF Return, AllPassed
    <3>2. QED
      BY <3>1, SolvedIsModel
  <2>3. \A K \in Models : Equations \subseteq K => Classes(edges) \subseteq K
    <3>1. \A h \in Assignments : Solves(h, Equations) => \A t \in Known(edges) : h[edges[t]] = h[t]
      BY DEF SolutionsRespected, Respected
    <3>2. QED
      BY <1>t, <3>1, ClassesFollow
  <2>4. Classes(edges) \subseteq Term \X Term
    BY DEF Classes
  <2>5. Theory!Satisfiable(Equations) /\ Classes(edges) = Theory!Entailed(Equations)
    BY <2>2, <2>3, <2>4 DEF Theory!Satisfiable, Theory!Entailed
  <2>6. Theory!Accept
    BY <2>1, <2>5 DEF Theory!Accept, Solved
  <2>7. QED
    BY <2>6
<1>4. CASE BindLeft \/ BindRight \/ Decompose
  <2>1. /\ pc = "find2" /\ pc' = "loop" /\ Equations' = Equations
        /\ cur1 \in Known(edges) /\ cur2 \in Known(edges)
        /\ IsRoot(edges, cur1) /\ IsRoot(edges, cur2)
    BY <1>4 DEF BindLeft, BindRight, Decompose, AtRoots, Continue, Equations,
                Shape, FirstRootStays, TypeOK
  <2>2. PICK r1, r2 \in {cur1, cur2} : edges' = Link(edges, r1, r2)
    BY <1>4 DEF BindLeft, BindRight, Decompose
  <2>3. Saturated(edges') \subseteq Saturated(edges)
    BY <1>t, <2>1, <2>2, LinkSaturated
  <2>4. Classes(edges) \subseteq Classes(edges)'
    BY <2>3 DEF Classes, Inseparable
  <2>5. Classes(edges)' \in Theory!Equivalences(Term)
    BY DEF Theory!Equivalences, Classes, Inseparable
  <2>6. Classes(edges)' \subseteq Theory!Entailed(Equations)
    <3>1. \A K \in Models : Equations \subseteq K => Classes(edges)' \subseteq K
      <4>1. ForestType(edges')
        BY DEF Shape, TypeOK, ForestType, Known
      <4>2. \A h \in Assignments : Solves(h, Equations) => \A t \in Known(edges') : h[edges'[t]] = h[t]
        BY <2>1 DEF SolutionsRespected, Respected, Solves, Known
      <4>3. QED
        BY <4>1, <4>2, ClassesFollow
    <3>2. Classes(edges)' \subseteq Term \X Term
      BY DEF Classes
    <3>3. QED
      BY <3>1, <3>2 DEF Theory!Entailed
  <2>7. Theory!Learn
    BY <2>1, <2>4, <2>5, <2>6 DEF Theory!Learn, Solved
  <2>8. QED
    BY <2>7
<1>5. CASE Clash
  <2>1. pc = "find2" /\ pc' = "failed" /\ Equations' = Equations /\ Classes(edges)' = Classes(edges)
    BY <1>5 DEF Clash, AtRoots, Equations, Classes
  <2>2. ~Theory!Satisfiable(Equations)
    BY <2>1 DEF Theory!Satisfiable, Models, SolutionsRespected, Solves, Respected
  <2>3. Theory!Reject
    BY <2>1, <2>2 DEF Theory!Reject, Solved
  <2>4. QED
    BY <2>3
<1>6. CASE StartFind1 \/ StartFind2
  <2>1. Classes(edges') = Classes(edges)
    BY <1>6, <1>i DEF StartFind1, StartFind2, SmartInsert
  <2>2. Unmoved
    BY <1>6, <2>1 DEF StartFind1, StartFind2, Unmoved, Verdict, Equations, Solved
  <2>3. QED
    BY <1>u, <2>2
<1>7. ASSUME NEW c \in Cons, Close(c) PROVE [Theory!TNext]_(Theory!tvars)
  <2>1. Classes(edges') = Classes(edges)
    BY <1>7, <1>i DEF Close, SmartInsert
  <2>2. Unmoved
    BY <1>7, <2>1 DEF Close, Unmoved, Verdict, Equations, Solved
  <2>3. QED
    BY <1>u, <2>2
<1>8. CASE TakeConstraint \/ Climb1 \/ Climb2 \/ AlreadyEqual \/ UNCHANGED vars
  <2>1. edges' = edges /\ constraints' = constraints
    BY <1>8 DEF TakeConstraint, Climb1, Climb2, AlreadyEqual, Continue, vars
  <2>2. Verdict' = Verdict
    BY <1>8 DEF TakeConstraint, Climb1, Climb2, AlreadyEqual, AtRoots, Continue, vars, Verdict, Solved
  <2>3. Unmoved
    BY <2>1, <2>2 DEF Unmoved, Equations, Classes
  <2>4. QED
    BY <1>u, <2>3
<1>9. QED
  BY <1>1, <1>2, <1>3, <1>4, <1>5, <1>6, <1>7, <1>8 DEF Next, SolverStep, Unify

(* Unifier.cpp keeps the promise of TypeTheory: it only concludes what     *)
(* every solution of its equations has, returns from solve when it has     *)
(* concluded all of that, and throws only when there is no solution.       *)
THEOREM SolverImplementsTheory ==
  ASSUME Mu = {}
  PROVE  Spec => ImplementsTheory
<1>1. Init => Theory!TInit
  <2> SUFFICES ASSUME Init PROVE Theory!TInit
    OBVIOUS
  <2>1. Equations = {} /\ Solved /\ pc # "failed"
    BY DEF Init, Equations, Solved
  <2>2. Saturated(edges) = SUBSET Term
    BY DEF Init, Saturated, Known
  <2>3. Classes(edges) = Theory!Identity
    <3>1. ASSUME NEW x \in Term, NEW y \in Term, Inseparable(SUBSET Term, x, y) PROVE x = y
      <4>1. {x} \in SUBSET Term
        OBVIOUS
      <4>2. QED
        BY <3>1, <4>1 DEF Inseparable
    <3>2. QED
      BY <2>2, <3>1 DEF Classes, Theory!Identity, Inseparable
  <2>4. QED
    BY <2>1, <2>3 DEF Theory!TInit
<1>2. Shape /\ DebtInv /\ SolutionsRespected /\ [Next]_vars /\ Shape' /\ DebtInv' /\ SolutionsRespected'
      => [Theory!TNext]_(Theory!tvars)
  BY TheoryStep
<1>3. Spec => []SolutionsRespected
  BY SolutionsRespectedInvariant
<1>4. QED
  BY <1>1, <1>2, <1>3, ShapeInvariant, DebtInvariant, PTL DEF Spec, ImplementsTheory, Theory!TSpec

=============================================================================
