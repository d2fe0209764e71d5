------------------------- MODULE CubicSolutionProofs -------------------------
(***************************************************************************)
(* Proofs that CubicSolver finds the solution of the constraints given.    *)
(*                                                                         *)
(* It answers nothing that they do not demand: whatever it holds, while a  *)
(* call runs too, is within every solution of the constraints, and the     *)
(* reference solution is one.  And it forgets none of them: every          *)
(* inclusion given is an edge of the graph or its two nodes are merged,    *)
(* and, while no conditional constraint is given, the answer is a solution.*)
(***************************************************************************)
EXTENDS CubicSolverProofs

-----------------------------------------------------------------------------
(* The rounds of the reference solution are what their definition says.    *)
LEMMA RoundDefined ==
  Round = [k \in 0 .. Rounds |-> IF k = 0 THEN given[1] ELSE Propagated(Round[k - 1])]
<1> DEFINE Rows(r, n) ==
             r = [k \in 0 .. n |-> IF k = 0 THEN given[1] ELSE Propagated(r[k - 1])]
           P == {n \in Nat : \E r : Rows(r, n)}
<1>1. 0 \in P
  <2>1. Rows([k \in 0 .. 0 |-> given[1]], 0)
    OBVIOUS
  <2>2. QED
    BY <2>1
<1>2. ASSUME NEW n \in Nat, n \in P PROVE n + 1 \in P
  <2>1. PICK r : Rows(r, n)
    BY <1>2
  <2> DEFINE s == [k \in 0 .. n + 1 |-> IF k = n + 1 THEN Propagated(r[n]) ELSE r[k]]
  <2>2. \A k \in 0 .. n : s[k] = r[k]
    OBVIOUS
  <2>3. ASSUME NEW k \in 0 .. n + 1
        PROVE  s[k] = IF k = 0 THEN given[1] ELSE Propagated(s[k - 1])
    <3>1. CASE k = n + 1
      <4>1. n \in 0 .. n /\ k # 0 /\ k - 1 = n
        BY <3>1
      <4>2. s[k - 1] = r[n]
        BY <2>2, <4>1
      <4>3. QED
        BY <3>1, <4>1, <4>2
    <3>2. CASE k \in 0 .. n
      <4>1. s[k] = IF k = 0 THEN given[1] ELSE Propagated(r[k - 1])
        BY <2>1, <2>2, <3>2
      <4>2. k # 0 => k - 1 \in 0 .. n
        BY <3>2
      <4>3. QED
        BY <2>2, <4>1, <4>2
    <3>3. QED
      BY <3>1, <3>2
  <2>4. Rows(s, n + 1)
    <3>1. s = [k \in 0 .. n + 1 |-> s[k]]
      OBVIOUS
    <3> HIDE DEF s
    <3>2. QED
      BY <2>3, <3>1
  <2> HIDE DEF s
  <2>5. \E q : Rows(q, n + 1)
    BY <2>4
  <2> HIDE DEF Rows
  <2>6. QED
    BY <2>5
<1> HIDE DEF P
<1>3. Nat \subseteq P
  BY <1>1, <1>2, NatInductionOver
<1>4. Rounds \in Nat
  BY AddressAssumption, IndexAssumption, FS_CardinalityType DEF Rounds
<1>5. \E r : Rows(r, Rounds)
  BY <1>3, <1>4 DEF P
<1>6. QED
  BY <1>5 DEF Round

(* There is a round for every pair of a function and a node, and each      *)
(* propagates what the one before it has.                                  *)
LEMMA RoundFacts ==
  /\ Rounds \in Nat /\ Rounds = Cardinality(Fun \X Ast) /\ IsFiniteSet(Fun \X Ast)
  /\ Round[0] = given[1]
  /\ \A k \in 1 .. Rounds : Round[k] = Propagated(Round[k - 1])
<1>1. /\ IsFiniteSet(Ast) /\ Cardinality(Ast) \in Nat
      /\ IsFiniteSet(Fun) /\ Cardinality(Fun) \in Nat
  BY AddressAssumption, IndexAssumption, FS_CardinalityType
<1>2. IsFiniteSet(Fun \X Ast) /\ Cardinality(Fun \X Ast) = Cardinality(Fun) * Cardinality(Ast)
  BY <1>1, FS_Product
<1>3. Rounds \in Nat /\ Rounds = Cardinality(Fun) * Cardinality(Ast)
  BY <1>1 DEF Rounds
<1>4. 0 \in 0 .. Rounds /\ \A k \in 1 .. Rounds : k \in 0 .. Rounds /\ k # 0
  BY <1>3
<1>5. ASSUME NEW k \in 0 .. Rounds
      PROVE  Round[k] = IF k = 0 THEN given[1] ELSE Propagated(Round[k - 1])
  BY RoundDefined, Zenon
<1>6. QED
  BY <1>2, <1>3, <1>4, <1>5

(* The rounds end: each adds an answer, until one adds none, and there are *)
(* as many rounds as answers.                                              *)
LEMMA LeastIsSolution ==
  ASSUME given[1] \subseteq Fun \X Ast
  PROVE  given[1] \subseteq Least /\ Propagated(Least) \subseteq Least /\ Least \subseteq Fun \X Ast
<1> DEFINE P == {k \in Nat : k <= Rounds =>
                   /\ Round[k] \subseteq Fun \X Ast /\ given[1] \subseteq Round[k]
                   /\ \/ Propagated(Round[k]) \subseteq Round[k]
                      \/ Cardinality(Round[k]) >= k}
<1>1. 0 \in P
  <2>1. IsFiniteSet(given[1])
    BY RoundFacts, FS_Subset
  <2>2. Cardinality(given[1]) \in Nat
    BY <2>1, FS_CardinalityType
  <2>3. QED
    BY <2>2, RoundFacts
<1>2. ASSUME NEW k \in Nat, k \in P PROVE k + 1 \in P
  <2>1. SUFFICES ASSUME k + 1 <= Rounds
                 PROVE  /\ Round[k + 1] \subseteq Fun \X Ast /\ given[1] \subseteq Round[k + 1]
                        /\ \/ Propagated(Round[k + 1]) \subseteq Round[k + 1]
                           \/ Cardinality(Round[k + 1]) >= k + 1
    OBVIOUS
  <2>2. Rounds \in Nat
    BY RoundFacts
  <2>3. /\ Round[k] \subseteq Fun \X Ast /\ given[1] \subseteq Round[k]
        /\ \/ Propagated(Round[k]) \subseteq Round[k]
           \/ Cardinality(Round[k]) >= k
    BY <1>2, <2>1, <2>2
  <2>4. Round[k + 1] = Propagated(Round[k])
    <3>1. k + 1 \in 1 .. Rounds /\ (k + 1) - 1 = k
      BY <2>1, <2>2
    <3>2. QED
      BY <3>1, RoundFacts
  <2>5. Round[k] \subseteq Round[k + 1] /\ Round[k + 1] \subseteq Fun \X Ast
    BY <2>3, <2>4 DEF Propagated
  <2>6. CASE Propagated(Round[k]) \subseteq Round[k]
    <3>1. Round[k + 1] = Round[k]
      BY <2>4, <2>5, <2>6
    <3>2. QED
      BY <2>3, <2>6, <3>1
  <2>7. CASE ~(Propagated(Round[k]) \subseteq Round[k])
    <3>1. IsFiniteSet(Round[k + 1])
      BY <2>5, RoundFacts, FS_Subset
    <3>2. /\ IsFiniteSet(Round[k])
          /\ Cardinality(Round[k]) <= Cardinality(Round[k + 1])
          /\ Cardinality(Round[k + 1]) = Cardinality(Round[k]) => Round[k + 1] = Round[k]
      BY <2>5, <3>1, FS_Subset
    <3>3. Round[k + 1] # Round[k]
      BY <2>4, <2>7
    <3>4. Cardinality(Round[k]) \in Nat /\ Cardinality(Round[k + 1]) \in Nat
      BY <3>1, <3>2, FS_CardinalityType
    <3>5. Cardinality(Round[k + 1]) >= k + 1
      BY <2>3, <2>7, <3>2, <3>3, <3>4
    <3>6. QED
      BY <2>3, <2>5, <3>5
  <2>8. QED
    BY <2>6, <2>7
<1> HIDE DEF P
<1>3. Nat \subseteq P
  BY <1>1, <1>2, NatInductionOver
<1>4. /\ Least \subseteq Fun \X Ast /\ given[1] \subseteq Least
      /\ Propagated(Least) \subseteq Least \/ Cardinality(Least) >= Rounds
  <2>1. Rounds \in Nat /\ Rounds \in P
    BY <1>3, RoundFacts
  <2>2. QED
    BY <2>1 DEF P, Least
<1>5. CASE Cardinality(Least) >= Rounds
  <2>1. Least = Fun \X Ast
    <3>1. Cardinality(Least) <= Cardinality(Fun \X Ast) /\ IsFiniteSet(Least)
      BY <1>4, RoundFacts, FS_Subset
    <3>2. Cardinality(Least) \in Nat /\ Cardinality(Fun \X Ast) \in Nat
      BY <3>1, RoundFacts, FS_CardinalityType
    <3>3. Cardinality(Least) = Cardinality(Fun \X Ast)
      BY <1>5, <3>1, <3>2, RoundFacts
    <3>4. QED
      BY <1>4, <3>3, RoundFacts, FS_Subset
  <2>2. QED
    BY <1>4, <2>1 DEF Propagated
<1>6. QED
  BY <1>4, <1>5

(* A set that has the elements given and all that follows has every round. *)
LEMMA LeastIsLeast ==
  ASSUME NEW sol, given[1] \subseteq sol, \A s : s \subseteq sol => Propagated(s) \subseteq sol
  PROVE  Least \subseteq sol
<1> DEFINE P == {k \in Nat : k <= Rounds => Round[k] \subseteq sol}
<1>1. 0 \in P
  BY RoundFacts
<1>2. ASSUME NEW k \in Nat, k \in P PROVE k + 1 \in P
  <2>1. SUFFICES ASSUME k + 1 <= Rounds PROVE Round[k + 1] \subseteq sol
    OBVIOUS
  <2>2. Rounds \in Nat
    BY RoundFacts
  <2>3. Round[k] \subseteq sol
    BY <1>2, <2>1, <2>2
  <2>4. Round[k + 1] = Propagated(Round[k])
    <3>1. k + 1 \in 1 .. Rounds /\ (k + 1) - 1 = k
      BY <2>1, <2>2
    <3>2. QED
      BY <3>1, RoundFacts
  <2>5. QED
    BY <2>3, <2>4
<1> HIDE DEF P
<1>3. Nat \subseteq P
  BY <1>1, <1>2, NatInductionOver
<1>4. Rounds \in Nat /\ Rounds \in P
  BY <1>3, RoundFacts
<1>5. QED
  BY <1>4 DEF P, Least

-----------------------------------------------------------------------------
(* The functions a solution gives a node.                                  *)
Values(sol, a) == {f \in Fun : <<f, a>> \in sol}

(* A solution satisfies the constraints given.                             *)
Satisfies(sol, constraints) ==
  /\ constraints[1] \subseteq sol
  /\ \A c \in constraints[2] : Values(sol, c[1]) \subseteq Values(sol, c[2])
  /\ \A c \in constraints[3] :
       c[1] \in Values(sol, c[2]) => Values(sol, c[3]) \subseteq Values(sol, c[4])

(* The pairs whose inclusion holds in a solution.                          *)
Safe(sol) == {p \in Ast \X Ast : Values(sol, p[1]) \subseteq Values(sol, p[2])}

(* The inclusions that hold in a solution in which f is in n.              *)
SafeIf(sol, f, n) == {p \in Ast \X Ast : f \in Values(sol, n) => p \in Safe(sol)}

(* What a graph says is so in a solution: AST nodes that share a solver    *)
(* node have the same functions, a node's functions are in it, edges are   *)
(* inclusions, and the conditional constraints that wait are satisfied.    *)
SoundGraph(sol, g) ==
  /\ \A a \in Known(g) : Values(sol, a) = Values(sol, g.of[a])
  /\ \A n \in Ast : g.bits[n] \subseteq Values(sol, n)
  /\ \A n \in Ast : \A m \in g.sups[n] : Values(sol, n) \subseteq Values(sol, m)
  /\ \A n \in Ast : \A m \in g.subs[n] : Values(sol, m) \subseteq Values(sol, n)
  /\ \A n \in Ast : \A f \in Fun : ToSet(g.conds[n][f]) \subseteq SafeIf(sol, f, n)

(* The running calls of propagateNodeChanges.                              *)
Frames == ToSet(stack)

SoundFrames(sol) == \A fr \in Frames : ToSet(fr.pairs) \subseteq Safe(sol)

(* On the way back from the node the functions become fewer; a path to be  *)
(* merged is a cycle, so that its nodes have the same functions.           *)
SoundPath(sol) ==
  LET on == ToSet(killing.path)
  IN  /\ killing.pc = "back" =>
           \A x \in on : /\ Values(sol, x) \subseteq Values(sol, killing.node)
                         /\ Values(sol, Curr) \subseteq Values(sol, x)
      /\ killing.pc = "merge" => \A x, y \in on : Values(sol, x) = Values(sol, y)

(* What a solution says about the whole state.                             *)
SoundFor(sol) == SoundGraph(sol, graph) /\ SoundFrames(sol) /\ SoundPath(sol)

(* The inductive invariant: nothing in the state goes beyond any solution  *)
(* of the constraints given.                                               *)
SoundInv == \A sol \in SUBSET (Fun \X Ast) : Satisfies(sol, given) => SoundFor(sol)

-----------------------------------------------------------------------------
(* Solver nodes that are created, and functions that belong in a node.     *)
LEMMA AddEmptyVariablesSound ==
  ASSUME NEW sol, NEW g, WellFormed(g), SoundGraph(sol, g), NEW nodes \in SUBSET Ast,
         NEW h, h = AddEmptyVariables(g, nodes)
  PROVE  SoundGraph(sol, h)
<1>1. /\ WellFormed(h) /\ Known(h) = Known(g) \cup nodes
      /\ \A a \in Known(g) : h.of[a] = g.of[a]
      /\ h.sups = g.sups /\ h.subs = g.subs /\ h.bits = g.bits /\ h.conds = g.conds
  BY AddEmptyVariablesFacts
<1>2. \A a \in nodes \ Known(g) : h.of[a] = a
  BY DEF AddEmptyVariables, Known, WellFormed, Graph
<1>3. \A a \in Known(h) : Values(sol, a) = Values(sol, h.of[a])
  <2>1. ASSUME NEW a \in Known(h) PROVE Values(sol, a) = Values(sol, h.of[a])
    <3>1. CASE a \in Known(g)
      BY <1>1, <3>1 DEF SoundGraph
    <3>2. CASE a \notin Known(g)
      BY <1>1, <1>2, <3>2
    <3>3. QED
      BY <3>1, <3>2
  <2>2. QED
    BY <2>1
<1>4. QED
  BY <1>1, <1>3 DEF SoundGraph

(* Functions that a solution has in a node may be added there.             *)
LEMMA BitsSound ==
  ASSUME NEW sol, NEW g, WellFormed(g), SoundGraph(sol, g),
         NEW n \in Ast, NEW X \in SUBSET Fun, X \subseteq Values(sol, n),
         NEW h, h = Grown(g, n, X)
  PROVE  SoundGraph(sol, h)
<1>1. /\ Known(h) = Known(g) /\ h.of = g.of /\ h.sups = g.sups /\ h.subs = g.subs
      /\ h.conds = g.conds
      /\ h.bits[n] = g.bits[n] \cup X /\ \A a \in Ast \ {n} : h.bits[a] = g.bits[a]
  BY BitsFacts DEF SameNodes
<1>2. \A a \in Ast : h.bits[a] \subseteq Values(sol, a)
  BY <1>1 DEF SoundGraph
<1>3. QED
  BY <1>1, <1>2 DEF SoundGraph

(* A list may become any list whose inclusions the solution has whenever   *)
(* it has their condition.                                                 *)
LEMMA CondsSound ==
  ASSUME NEW sol, NEW g, WellFormed(g), SoundGraph(sol, g),
         NEW n \in Ast, NEW f \in Fun, NEW s \in Pairs(g),
         ToSet(s) \subseteq SafeIf(sol, f, n),
         NEW h, h = Relisted(g, n, f, s)
  PROVE  SoundGraph(sol, h)
<1>1. /\ Known(h) = Known(g) /\ h.of = g.of /\ h.sups = g.sups /\ h.subs = g.subs
      /\ h.bits = g.bits /\ h.conds[n][f] = s
      /\ \A a \in Ast : \A e \in Fun : a # n \/ e # f => h.conds[a][e] = g.conds[a][e]
  BY CondsFacts DEF SameNodes
<1>2. \A a \in Ast : \A e \in Fun : ToSet(h.conds[a][e]) \subseteq SafeIf(sol, e, a)
  <2>1. ASSUME NEW a \in Ast, NEW e \in Fun
        PROVE  ToSet(h.conds[a][e]) \subseteq SafeIf(sol, e, a)
    <3>1. CASE a = n /\ e = f
      BY <1>1, <3>1
    <3>2. CASE a # n \/ e # f
      <4>1. h.conds[a][e] = g.conds[a][e]
        BY <1>1, <3>2
      <4>2. QED
        BY <4>1 DEF SoundGraph
    <3>3. QED
      BY <3>1, <3>2
  <2>2. QED
    BY <2>1
<1>3. QED
  BY <1>1, <1>2 DEF SoundGraph

(* Two nodes with the same functions can be merged.                        *)
LEMMA MergeNodesSound ==
  ASSUME NEW sol, NEW g, WellFormed(g), SoundGraph(sol, g),
         NEW n1 \in LiveIn(g), NEW n2 \in LiveIn(g), n1 # n2,
         Values(sol, n1) = Values(sol, n2),
         NEW h, h = MergeNodes(g, n1, n2)
  PROVE  SoundGraph(sol, h)
<1>1. /\ n1 \in Ast /\ n2 \in Ast /\ n1 # None /\ n2 # None
      /\ g.sups \in [Ast -> SUBSET Ast] /\ g.subs \in [Ast -> SUBSET Ast]
      /\ g.bits \in [Ast -> SUBSET Fun]
      /\ g.conds \in [Ast -> [Fun -> Pairs(g)]]
  BY NoneIsNoNode DEF WellFormed, LiveIn, Graph
<1>2. /\ h.of = [a \in Ast |-> IF g.of[a] = n2 THEN n1 ELSE g.of[a]]
      /\ h.bits = [g.bits EXCEPT ![n1] = @ \cup g.bits[n2]]
      /\ h.conds = [g.conds EXCEPT ![n1] = [f \in Fun |-> @[f] \o g.conds[n2][f]]]
      /\ h.sups = [n \in Ast |->
                IF n = n1 THEN (g.sups[n1] \cup g.sups[n2]) \ {n1, n2}
                ELSE IF n \in g.subs[n2] THEN (g.sups[n] \ {n2}) \cup {n1}
                ELSE g.sups[n]]
      /\ h.subs = [n \in Ast |->
                IF n = n1 THEN (g.subs[n1] \cup g.subs[n2]) \ {n1, n2}
                ELSE IF n \in g.sups[n2] THEN (g.subs[n] \ {n2}) \cup {n1}
                ELSE g.subs[n]]
  BY DEF MergeNodes
<1>3. \A a \in Known(h) : Values(sol, a) = Values(sol, h.of[a])
  BY <1>1, <1>2 DEF SoundGraph, Known
<1>4. \A n \in Ast : h.bits[n] \subseteq Values(sol, n)
  BY <1>1, <1>2 DEF SoundGraph
<1>5. ASSUME NEW n \in Ast, NEW m \in h.sups[n]
      PROVE  Values(sol, n) \subseteq Values(sol, m)
  <2>1. CASE n = n1
    BY <1>1, <1>2, <1>5, <2>1 DEF SoundGraph
  <2>2. CASE n # n1 /\ n \in g.subs[n2]
    BY <1>1, <1>2, <1>5, <2>2 DEF SoundGraph
  <2>3. CASE n # n1 /\ n \notin g.subs[n2]
    BY <1>1, <1>2, <1>5, <2>3 DEF SoundGraph
  <2>4. QED
    BY <2>1, <2>2, <2>3
<1>6. ASSUME NEW n \in Ast, NEW m \in h.subs[n]
      PROVE  Values(sol, m) \subseteq Values(sol, n)
  <2>1. CASE n = n1
    BY <1>1, <1>2, <1>6, <2>1 DEF SoundGraph
  <2>2. CASE n # n1 /\ n \in g.sups[n2]
    BY <1>1, <1>2, <1>6, <2>2 DEF SoundGraph
  <2>3. CASE n # n1 /\ n \notin g.sups[n2]
    BY <1>1, <1>2, <1>6, <2>3 DEF SoundGraph
  <2>4. QED
    BY <2>1, <2>2, <2>3
<1>7. ASSUME NEW n \in Ast, NEW f \in Fun
      PROVE  ToSet(h.conds[n][f]) \subseteq SafeIf(sol, f, n)
  <2>1. CASE n = n1
    <3>1. h.conds[n][f] = g.conds[n1][f] \o g.conds[n2][f]
      <4>1. h.conds[n1] = [e \in Fun |-> g.conds[n1][e] \o g.conds[n2][e]]
        <5> DEFINE row == [e \in Fun |-> g.conds[n1][e] \o g.conds[n2][e]]
        <5>1. h.conds = [g.conds EXCEPT ![n1] = row]
          BY <1>2
        <5> HIDE DEF row
        <5>2. h.conds[n1] = row
          BY <1>1, <5>1
        <5>3. QED
          BY <5>2 DEF row
      <4>2. QED
        BY <2>1, <4>1
    <3>2. g.conds[n1][f] \in Pairs(g) /\ g.conds[n2][f] \in Pairs(g)
      BY <1>1
    <3>3. ToSet(h.conds[n][f]) = ToSet(g.conds[n1][f]) \cup ToSet(g.conds[n2][f])
      BY <3>1, <3>2, ToSetConcat DEF Pairs
    <3>4. SafeIf(sol, f, n1) = SafeIf(sol, f, n2)
      BY DEF SafeIf
    <3>5. QED
      BY <1>1, <2>1, <3>3, <3>4 DEF SoundGraph
  <2>2. CASE n # n1
    <3>1. h.conds[n][f] = g.conds[n][f]
      BY <1>1, <1>2, <2>2
    <3>2. QED
      BY <3>1 DEF SoundGraph
  <2>3. QED
    BY <2>1, <2>2
<1>8. QED
  BY <1>3, <1>4, <1>5, <1>6, <1>7 DEF SoundGraph

(* An inclusion that the solution satisfies may be added.                  *)
LEMMA IncludeSound ==
  ASSUME NEW sol, NEW g, WellFormed(g), SoundGraph(sol, g),
         NEW from \in Known(g), NEW to \in Known(g),
         Values(sol, from) \subseteq Values(sol, to), Include(g, from, to)
  PROVE  SoundGraph(sol, graph') /\ killing'.pc \in {"none", "scan"}
<1>1. CASE g.of[from] = g.of[to]
  BY <1>1 DEF Include, Idle
<1>2. CASE g.of[from] # g.of[to]
  <2>0. PICK n, m : n = g.of[from] /\ m = g.of[to]
    OBVIOUS
  <2>1. n \in LiveIn(g) /\ m \in LiveIn(g) /\ n \in Ast /\ m \in Ast /\ n # m
    BY <1>2, <2>0 DEF WellFormed, LiveIn, Known
  <2>2. graph' = AddEdge(g, n, m) /\ killing'.pc = "scan"
    BY <1>2, <2>0 DEF Include, KillCyclesAt, Idle
  <2>3. Values(sol, n) \subseteq Values(sol, m)
    BY <2>0 DEF SoundGraph
  <2>4. PICK h : h = graph'
    OBVIOUS
  <2>5. /\ Known(h) = Known(g) /\ h.of = g.of
        /\ h.sups[n] = g.sups[n] \cup {m} /\ \A a \in Ast \ {n} : h.sups[a] = g.sups[a]
        /\ h.subs[m] = g.subs[m] \cup {n} /\ \A a \in Ast \ {m} : h.subs[a] = g.subs[a]
        /\ h.bits = g.bits /\ h.conds = g.conds
    BY <2>1, <2>2, <2>4, AddEdgeFacts
  <2>6. \A a \in Ast : \A b \in h.sups[a] : Values(sol, a) \subseteq Values(sol, b)
    BY <2>1, <2>3, <2>5 DEF SoundGraph
  <2>7. \A a \in Ast : \A b \in h.subs[a] : Values(sol, b) \subseteq Values(sol, a)
    BY <2>1, <2>3, <2>5 DEF SoundGraph
  <2>8. SoundGraph(sol, h)
    BY <2>5, <2>6, <2>7 DEF SoundGraph
  <2>9. QED
    BY <2>2, <2>4, <2>8
<1>3. QED
  BY <1>1, <1>2

-----------------------------------------------------------------------------
(* What the steps of propagateNodeChanges do to the frames.                *)
LEMMA NoFrames == stack = << >> => Frames = {}
BY DEF Frames, ToSet

(* The first call of propagateNodeChanges is the only one.                 *)
LEMMA OneFrame ==
  ASSUME NEW fr, stack' = <<fr>>
  PROVE  Frames' = {fr}
BY DEF Frames, ToSet

(* What a call of propagateNodeChanges begins with.                        *)
LEMMA NewFrameFacts ==
  ASSUME NEW n
  PROVE  /\ NewFrame(n).node = n /\ NewFrame(n).fun = 0 /\ NewFrame(n).at = None
         /\ NewFrame(n).pairs = << >> /\ ToSet(NewFrame(n).pairs) = {}
<1>1. ToSet(<< >>) = {}
  BY DEF ToSet
<1>2. QED
  BY <1>1 DEF NewFrame

(* All running calls are typed.                                            *)
LEMMA FramesTyped ==
  ASSUME CubicInv
  PROVE  stack \in Seq(FrameOK(graph)) /\ \A fr \in Frames : fr \in FrameOK(graph) /\ fr \in Frame
<1>1. stack \in Seq(FrameOK(graph))
  BY DEF CubicInv
<1>2. Frames \subseteq FrameOK(graph)
  BY <1>1, ElementsOfSeq DEF Frames
<1>3. QED
  BY <1>1, <1>2 DEF FrameOK

(* The running call goes on; the others wait.                              *)
LEMMA TopReplaced ==
  ASSUME CubicInv, stack # << >>, NEW fr \in FrameOK(graph),
         stack' = [stack EXCEPT ![Len(stack)] = fr]
  PROVE  Top \in Frames /\ Frames = ToSet(Front(stack)) \cup {Top}
         /\ Frames' = ToSet(Front(stack)) \cup {fr}
<1>1. stack \in Seq(FrameOK(graph))
  BY DEF CubicInv
<1>2. Frames = ToSet(Front(stack)) \cup {Top}
  BY <1>1, FrontAndLast DEF Top, Frames
<1>3. Frames' = ToSet(Front(stack)) \cup {fr}
  <2>1. stack' = WithLast(stack, fr)
    BY DEF WithLast
  <2>2. QED
    BY <1>1, <2>1, ReplaceLast DEF Frames
<1>4. QED
  BY <1>2, <1>3

(* It calls itself.                                                        *)
LEMMA FramePushed ==
  ASSUME CubicInv, NEW fr, stack' = Append(stack, fr)
  PROVE  Frames' = Frames \cup {fr}
BY ToSetAppend DEF CubicInv, Frames

(* It returns.                                                             *)
LEMMA FrameReturned ==
  ASSUME CubicInv, stack # << >>, stack' = Front(stack)
  PROVE  Top \in Frames /\ Frames = Frames' \cup {Top}
BY FrontAndLast DEF CubicInv, Frames, Top

(* A merge touches every call that runs.                                   *)
LEMMA FramesInvalidated ==
  ASSUME NEW n1, NEW n2,
         stack' = [i \in DOMAIN stack |-> Invalidate(graph, stack[i], n1, n2)]
  PROVE  Frames' = {Invalidate(graph, fr, n1, n2) : fr \in Frames}
BY DEF Frames, ToSet

(* The loop moves on to the superset m, and m is propagated from.          *)
LEMMA SupersetPushed ==
  ASSUME CubicInv, NextSuperset, NEW m, m = Min(Ahead),
         NEW fr, fr = [Top EXCEPT !.at = m, !.iter = "valid"]
  PROVE  /\ Top \in Frames /\ Frames = ToSet(Front(stack)) \cup {Top}
         /\ Frames' = ToSet(Front(stack)) \cup {fr, NewFrame(m)}
         /\ m \in Ahead /\ m \in Ast /\ Top.node \in Ast /\ \A x \in Ahead : m <= x
         /\ fr.node = Top.node /\ fr.pairs = Top.pairs /\ fr.fun = Top.fun /\ fr.at = m
         /\ graph' = Grown(graph, m, graph.bits[Top.node])
<1>1. /\ stack # << >> /\ Ahead # {}
      /\ graph' = [graph EXCEPT !.bits[m] = @ \cup graph.bits[Top.node]]
      /\ stack' = Append([stack EXCEPT ![Len(stack)].at = m,
                                       ![Len(stack)].iter = "valid"], NewFrame(m))
  BY DEF NextSuperset, Propagating
<1>2. stack \in Seq(FrameOK(graph)) /\ WellFormed(graph)
  BY DEF CubicInv
<1>3. Top \in FrameOK(graph) /\ Top \in Frame /\ Top.node \in Ast
  <2>1. Top \in FrameOK(graph)
    BY <1>1, <1>2, FrontAndLast DEF Top
  <2>2. QED
    BY <2>1 DEF FrameOK, Frame
<1>4. m \in Ahead /\ m \in Ast /\ \A x \in Ahead : m <= x
  <2>1. Ahead \subseteq Ast
    BY <1>2, <1>3 DEF Ahead, WellFormed, Graph
  <2>2. QED
    BY <1>1, <2>1, MinOfNaturals, NoneIsNoNode
<1>5. /\ fr \in FrameOK(graph)
      /\ fr.node = Top.node /\ fr.pairs = Top.pairs /\ fr.fun = Top.fun /\ fr.at = m
  BY <1>3, <1>4 DEF FrameOK, Frame
<1>6. stack' = Append(WithLast(stack, fr), NewFrame(m))
  <2>1. /\ Len(stack) \in 1 .. Len(stack) /\ Top = stack[Len(stack)]
        /\ DOMAIN stack = 1 .. Len(stack)
    BY <1>1, <1>2, <1>5, TopFacts, ElementsOfSeq
  <2>2. [stack EXCEPT ![Len(stack)].at = m, ![Len(stack)].iter = "valid"]
          = [stack EXCEPT ![Len(stack)] = fr]
    BY <2>1
  <2>3. QED
    BY <1>1, <2>2 DEF WithLast
<1>7. PICK s : s = WithLast(stack, fr)
  OBVIOUS
<1>8. s \in Seq(FrameOK(graph)) /\ ToSet(s) = ToSet(Front(stack)) \cup {fr}
  BY <1>1, <1>2, <1>5, <1>7, ReplaceLast
<1>9. Frames' = ToSet(s) \cup {NewFrame(m)}
  BY <1>6, <1>7, <1>8, ToSetAppend DEF Frames
<1>10. Top \in Frames /\ Frames = ToSet(Front(stack)) \cup {Top}
  BY <1>1, <1>2, FrontAndLast DEF Top, Frames
<1>11. QED
  BY <1>1, <1>3, <1>4, <1>5, <1>8, <1>9, <1>10 DEF Grown

-----------------------------------------------------------------------------
(* A constraint is given when no call is running.                          *)
LEMMA GivenAfter ==
  ASSUME CubicInv, NEW k \in 1 .. 3, NEW c, Give(k, c)
  PROVE  /\ stack = << >> /\ killing = Idle /\ Frames = {} /\ Home = {}
         /\ k = 1 => /\ given'[1] = given[1] \cup {c}
                     /\ given'[2] = given[2] /\ given'[3] = given[3]
         /\ k = 2 => /\ given'[1] = given[1]
                     /\ given'[2] = given[2] \cup {c} /\ given'[3] = given[3]
         /\ k = 3 => /\ given'[1] = given[1] /\ given'[2] = given[2]
                     /\ given'[3] = given[3] \cup {c}
<1>1. given' = [given EXCEPT ![k] = @ \cup {c}]
  BY DEF Give
<1>2. PICK e, i, d : given = <<e, i, d>>
  BY DEF CubicInv
<1>3. stack = << >> /\ killing = Idle /\ Frames = {} /\ Home = {}
  BY NoFrames DEF Give, AtRest, Home, Idle
<1>4. CASE k = 1
  <2>1. given' = <<e \cup {c}, i, d>>
    BY <1>1, <1>2, <1>4
  <2>2. QED
    BY <1>2, <1>3, <1>4, <2>1
<1>5. CASE k = 2
  <2>1. given' = <<e, i \cup {c}, d>>
    BY <1>1, <1>2, <1>5
  <2>2. QED
    BY <1>2, <1>3, <1>5, <2>1
<1>6. CASE k = 3
  <2>1. given' = <<e, i, d \cup {c}>>
    BY <1>1, <1>2, <1>6
  <2>2. QED
    BY <1>2, <1>3, <1>6, <2>1
<1>7. QED
  BY <1>4, <1>5, <1>6

(* The constraints given are over functions and AST nodes.                 *)
LEMMA GivenTyped ==
  ASSUME CubicInv
  PROVE  /\ given[1] \subseteq Fun \X Ast /\ given[2] \subseteq Ast \X Ast
         /\ given[3] \subseteq Fun \X Ast \X Ast \X Ast
         /\ \A c \in given[3] : c[1] \in Fun /\ c[2] \in Ast /\ c[3] \in Ast /\ c[4] \in Ast
<1>1. /\ given[1] \subseteq Fun \X Ast /\ given[2] \subseteq Ast \X Ast
      /\ given[3] \subseteq Fun \X Ast \X Ast \X Ast
  BY InputAssumption DEF CubicInv
<1>2. QED
  BY <1>1

-----------------------------------------------------------------------------
(* Each step keeps the graph sound for every solution of the constraints   *)
(* given after the step.                                                   *)
LEMMA SatisfiedBefore ==
  ASSUME NEW sol, NEW k \in 1 .. 3, NEW c, Give(k, c), CubicInv, Satisfies(sol, given')
  PROVE  /\ stack = << >> /\ killing = Idle /\ Satisfies(sol, given)
         /\ k = 1 => c \in sol
         /\ k = 2 => Values(sol, c[1]) \subseteq Values(sol, c[2])
         /\ k = 3 => (c[1] \in Values(sol, c[2]) => Values(sol, c[3]) \subseteq Values(sol, c[4]))
<1>1. stack = << >> /\ killing = Idle
  BY GivenAfter
<1>2. CASE k = 1
  <2>1. given'[1] = given[1] \cup {c} /\ given'[2] = given[2] /\ given'[3] = given[3]
    BY <1>2, GivenAfter
  <2>2. QED
    BY <1>1, <1>2, <2>1 DEF Satisfies
<1>3. CASE k = 2
  <2>1. given'[1] = given[1] /\ given'[2] = given[2] \cup {c} /\ given'[3] = given[3]
    BY <1>3, GivenAfter
  <2>2. QED
    BY <1>1, <1>3, <2>1 DEF Satisfies
<1>4. CASE k = 3
  <2>1. given'[1] = given[1] /\ given'[2] = given[2] /\ given'[3] = given[3] \cup {c}
    BY <1>4, GivenAfter
  <2>2. QED
    BY <1>1, <1>4, <2>1 DEF Satisfies
<1>5. QED
  BY <1>2, <1>3, <1>4

(* Between paths only the graph and the calls matter.                      *)
LEMMA SoundAtRest ==
  ASSUME NEW sol, SoundGraph(sol, graph'), killing'.pc \in {"none", "scan", "search"},
         SoundFrames(sol)'
  PROVE  SoundFor(sol)'
BY DEF SoundFor, SoundPath

(* addElementofConstraint: a solution has the function in the node.        *)
LEMMA AddElementofSound ==
  ASSUME CubicInv, NEW sol, SoundFor(sol), Satisfies(sol, given'),
         NEW c \in Elements, AddElementofConstraint(c[1], c[2])
  PROVE  SoundFor(sol)'
<1>1. PICK fn \in Fun, n \in Ast : c = <<fn, n>>
  BY InputAssumption
<1>2. PICK g : g = AddEmptyVariables(graph, {n})
  OBVIOUS
<1>3. /\ Give(1, c) /\ killing' = killing
      /\ graph' = [g EXCEPT !.bits[g.of[n]] = @ \cup {fn}]
      /\ stack' = <<NewFrame(g.of[n])>>
  BY <1>1, <1>2 DEF AddElementofConstraint
<1>4. c \in sol /\ killing = Idle
  BY <1>3, SatisfiedBefore
<1>5. /\ WellFormed(g) /\ Known(g) = Known(graph) \cup {n}
      /\ SoundGraph(sol, g)
  BY <1>2, AddEmptyVariablesFacts, AddEmptyVariablesSound DEF CubicInv, SoundFor
<1>6. g.of[n] \in Ast /\ fn \in Values(sol, g.of[n])
  <2>1. n \in Known(g) /\ fn \in Values(sol, n)
    BY <1>1, <1>4, <1>5 DEF Values
  <2>2. QED
    BY <1>5, <2>1 DEF SoundGraph, WellFormed, LiveIn
<1>7. SoundGraph(sol, graph')
  <2>1. {fn} \in SUBSET Fun /\ {fn} \subseteq Values(sol, g.of[n])
    BY <1>6
  <2>2. graph' = Grown(g, g.of[n], {fn})
    BY <1>3 DEF Grown
  <2>3. QED
    BY <1>5, <1>6, <2>1, <2>2, BitsSound
<1>8. SoundFrames(sol)'
  BY <1>3, OneFrame, NewFrameFacts DEF SoundFrames
<1>9. QED
  BY <1>3, <1>4, <1>7, <1>8, SoundAtRest DEF Idle

(* addSubseteqConstraint: a solution has the inclusion.                    *)
LEMMA AddSubseteqSound ==
  ASSUME CubicInv, NEW sol, SoundFor(sol), Satisfies(sol, given'),
         NEW c \in Inclusions, AddSubseteqConstraint(c[1], c[2])
  PROVE  SoundFor(sol)'
<1>1. PICK from \in Ast, to \in Ast : c = <<from, to>>
  BY InputAssumption
<1>2. PICK g : g = AddEmptyVariables(graph, {from, to})
  OBVIOUS
<1>3. Give(2, c) /\ Include(g, from, to) /\ stack' = stack
  BY <1>1, <1>2 DEF AddSubseteqConstraint
<1>4. Values(sol, from) \subseteq Values(sol, to)
  BY <1>1, <1>3, SatisfiedBefore
<1>5. /\ WellFormed(g) /\ Known(g) = Known(graph) \cup {from, to}
      /\ SoundGraph(sol, g)
  BY <1>2, AddEmptyVariablesFacts, AddEmptyVariablesSound DEF CubicInv, SoundFor
<1>6. SoundGraph(sol, graph') /\ killing'.pc \in {"none", "scan"}
  BY <1>3, <1>4, <1>5, IncludeSound
<1>7. SoundFrames(sol)'
  BY <1>3 DEF SoundFor, SoundFrames, Frames
<1>8. QED
  BY <1>6, <1>7, SoundAtRest

(* addConditionalConstraint: a solution has the inclusion if it has the    *)
(* function in the node.                                                   *)
LEMMA AddConditionalSound ==
  ASSUME CubicInv, NEW sol, SoundFor(sol), Satisfies(sol, given'),
         NEW c \in Conditionals, AddConditionalConstraint(c[1], c[2], c[3], c[4])
  PROVE  SoundFor(sol)'
<1>1. PICK fn \in Fun, in \in Ast, from \in Ast, to \in Ast : c = <<fn, in, from, to>>
  BY InputAssumption
<1>2. PICK g : g = AddEmptyVariables(graph, {in, from, to})
  OBVIOUS
<1>3. /\ Give(3, c) /\ killing' = killing
      /\ graph' = [g EXCEPT !.conds[g.of[in]][fn] = Append(@, <<from, to>>)]
      /\ stack' = <<NewFrame(g.of[in])>>
  BY <1>1, <1>2 DEF AddConditionalConstraint
<1>4. /\ fn \in Values(sol, in) => Values(sol, from) \subseteq Values(sol, to)
      /\ killing = Idle
  BY <1>1, <1>3, SatisfiedBefore
<1>5. /\ WellFormed(g) /\ Known(g) = Known(graph) \cup {in, from, to}
      /\ SoundGraph(sol, g)
  BY <1>2, AddEmptyVariablesFacts, AddEmptyVariablesSound DEF CubicInv, SoundFor
<1>6. g.of[in] \in Ast /\ Values(sol, g.of[in]) = Values(sol, in)
  <2>1. in \in Known(g)
    BY <1>5
  <2>2. QED
    BY <1>5, <2>1 DEF SoundGraph, WellFormed, LiveIn
<1>7. SoundGraph(sol, graph')
  <2> DEFINE old == g.conds[g.of[in]][fn]
             s == Append(old, <<from, to>>)
  <2>1. old \in Pairs(g) /\ ToSet(old) \subseteq SafeIf(sol, fn, g.of[in])
    BY <1>5, <1>6 DEF WellFormed, SoundGraph
  <2>2. <<from, to>> \in Known(g) \X Known(g)
    BY <1>5
  <2>3. s \in Pairs(g) /\ ToSet(s) = ToSet(old) \cup {<<from, to>>}
    BY <2>1, <2>2, ToSetAppend DEF Pairs
  <2>4. <<from, to>> \in SafeIf(sol, fn, g.of[in])
    BY <1>4, <1>6 DEF SafeIf, Safe
  <2>5. graph' = Relisted(g, g.of[in], fn, s)
    BY <1>3 DEF Relisted
  <2> HIDE DEF old, s
  <2>6. ToSet(s) \subseteq SafeIf(sol, fn, g.of[in])
    BY <2>1, <2>3, <2>4
  <2>7. QED
    BY <1>5, <1>6, <2>3, <2>5, <2>6, CondsSound
<1>8. SoundFrames(sol)'
  BY <1>3, OneFrame, NewFrameFacts DEF SoundFrames
<1>9. QED
  BY <1>3, <1>4, <1>7, <1>8, SoundAtRest DEF Idle

(* A constraint leaves its node's list when its function is in the node:   *)
(* then its inclusion is satisfied.                                        *)
LEMMA NextFunctionSound ==
  ASSUME CubicInv, NEW sol, SoundFor(sol), NextFunction
  PROVE  SoundFor(sol)'
<1> DEFINE f == Top.fun + 1
           n == Top.node
<1>1. /\ killing = Idle /\ stack # << >> /\ UNCHANGED <<killing, status, given>>
      /\ \/ /\ f \in Fun /\ f \in graph.bits[n]
            /\ stack' = [stack EXCEPT ![Len(stack)] =
                           [Top EXCEPT !.fun = f, !.pairs = graph.conds[n][f]]]
            /\ graph' = [graph EXCEPT !.conds[n][f] = << >>]
         \/ /\ stack' = [stack EXCEPT ![Len(stack)] = [Top EXCEPT !.fun = f]]
            /\ graph' = graph
  BY DEF NextFunction, Propagating, SetTop
<1>2. WellFormed(graph) /\ SoundGraph(sol, graph) /\ SoundFrames(sol)
  BY DEF CubicInv, SoundFor
<1>3. Top \in FrameOK(graph) /\ Top \in Frame /\ Top \in Frames
  <2>1. Top \in Frames
    BY <1>1, FrontAndLast DEF CubicInv, Frames, Top
  <2>2. QED
    BY <2>1, FramesTyped
<1>4. n \in Ast /\ f \in Nat
  BY <1>3 DEF Frame
<1>5. SoundGraph(sol, graph') /\ SoundFrames(sol)'
  <2>1. CASE /\ f \in Fun /\ f \in graph.bits[n]
             /\ stack' = [stack EXCEPT ![Len(stack)] =
                            [Top EXCEPT !.fun = f, !.pairs = graph.conds[n][f]]]
             /\ graph' = [graph EXCEPT !.conds[n][f] = << >>]
    <3>1. PICK fr : fr = [Top EXCEPT !.fun = f, !.pairs = graph.conds[n][f]]
      OBVIOUS
    <3>2. graph.conds[n][f] \in Pairs(graph) /\ << >> \in Pairs(graph)
          /\ Pairs(graph) \subseteq Seq(Ast \X Ast)
      BY <1>2, <1>4, <2>1 DEF WellFormed, Pairs, Known
    <3>3. fr \in FrameOK(graph) /\ fr.pairs = graph.conds[n][f]
      BY <1>3, <1>4, <3>1, <3>2 DEF FrameOK, Frame
    <3>4. ToSet(graph.conds[n][f]) \subseteq Safe(sol)
      <4>1. ToSet(graph.conds[n][f]) \subseteq SafeIf(sol, f, n) /\ f \in Values(sol, n)
        BY <1>2, <1>4, <2>1 DEF SoundGraph
      <4>2. QED
        BY <4>1 DEF SafeIf
    <3>5. Frames = ToSet(Front(stack)) \cup {Top} /\ Frames' = ToSet(Front(stack)) \cup {fr}
      BY <1>1, <2>1, <3>1, <3>3, TopReplaced
    <3>6. SoundFrames(sol)'
      BY <1>2, <3>3, <3>4, <3>5 DEF SoundFrames
    <3>7. SoundGraph(sol, graph')
      <4>1. graph' = Relisted(graph, n, f, << >>)
        BY <2>1 DEF Relisted
      <4>2. ToSet(<< >>) \subseteq SafeIf(sol, f, n)
        BY DEF ToSet
      <4>3. QED
        BY <1>2, <1>4, <2>1, <3>2, <4>1, <4>2, CondsSound
    <3>8. QED
      BY <3>6, <3>7
  <2>2. CASE /\ stack' = [stack EXCEPT ![Len(stack)] = [Top EXCEPT !.fun = f]]
             /\ graph' = graph
    <3>1. PICK fr : fr = [Top EXCEPT !.fun = f]
      OBVIOUS
    <3>2. fr \in FrameOK(graph) /\ fr.pairs = Top.pairs
      BY <1>3, <1>4, <3>1 DEF FrameOK, Frame
    <3>3. Frames = ToSet(Front(stack)) \cup {Top} /\ Frames' = ToSet(Front(stack)) \cup {fr}
      BY <1>1, <2>2, <3>1, <3>2, TopReplaced
    <3>4. SoundFrames(sol)'
      BY <1>2, <3>2, <3>3 DEF SoundFrames
    <3>5. QED
      BY <1>2, <2>2, <3>4
  <2>3. QED
    BY <1>1, <2>1, <2>2
<1>6. QED
  BY <1>1, <1>5, SoundAtRest DEF Idle

(* A constraint taken from a list has its condition, so that its           *)
(* inclusion holds in every solution.                                      *)
LEMMA ActivateSound ==
  ASSUME CubicInv, NEW sol, SoundFor(sol), ActivateConditionalConstraint
  PROVE  SoundFor(sol)'
<1>1. /\ stack # << >> /\ Top.pairs # << >>
      /\ stack' = [stack EXCEPT ![Len(stack)] = [Top EXCEPT !.pairs = Tail(@)]]
      /\ Include(graph, Head(Top.pairs)[1], Head(Top.pairs)[2])
  BY DEF ActivateConditionalConstraint, Propagating, SetTop
<1>2. WellFormed(graph) /\ SoundGraph(sol, graph) /\ SoundFrames(sol)
  BY DEF CubicInv, SoundFor
<1>3. Top \in FrameOK(graph) /\ Top \in Frame /\ Top \in Frames
  <2>1. Top \in Frames
    BY <1>1, FrontAndLast DEF CubicInv, Frames, Top
  <2>2. QED
    BY <2>1, FramesTyped
<1>4. /\ Head(Top.pairs) \in Known(graph) \X Known(graph) /\ Tail(Top.pairs) \in Pairs(graph)
      /\ ToSet(Top.pairs) = {Head(Top.pairs)} \cup ToSet(Tail(Top.pairs))
  BY <1>1, <1>3, HeadAndTail DEF FrameOK, Pairs
<1>5. Head(Top.pairs) \in Safe(sol) /\ ToSet(Tail(Top.pairs)) \subseteq Safe(sol)
  BY <1>2, <1>3, <1>4 DEF SoundFrames
<1>6. PICK from \in Known(graph), to \in Known(graph) :
        /\ Include(graph, from, to)
        /\ Values(sol, from) \subseteq Values(sol, to)
  BY <1>1, <1>4, <1>5 DEF Safe
<1>7. SoundGraph(sol, graph') /\ killing'.pc \in {"none", "scan"}
  BY <1>2, <1>6, IncludeSound
<1>8. SoundFrames(sol)'
  <2>1. PICK fr : fr = [Top EXCEPT !.pairs = Tail(@)]
    OBVIOUS
  <2>2. fr \in FrameOK(graph) /\ fr.pairs = Tail(Top.pairs)
    <3>1. Tail(Top.pairs) \in Seq(Ast \X Ast)
      BY <1>4 DEF Pairs, Known
    <3>2. QED
      BY <1>3, <1>4, <2>1, <3>1 DEF FrameOK, Frame
  <2>3. Frames = ToSet(Front(stack)) \cup {Top} /\ Frames' = ToSet(Front(stack)) \cup {fr}
    BY <1>1, <2>1, <2>2, TopReplaced
  <2>4. QED
    BY <1>2, <1>5, <2>2, <2>3 DEF SoundFrames
<1>9. QED
  BY <1>7, <1>8, SoundAtRest

(* Nothing the solver knows changes while killCyclesAt looks for a cycle.  *)
LEMMA SameGraphSound ==
  ASSUME NEW sol, SoundFor(sol), UNCHANGED <<graph, stack>>, SoundPath(sol)'
  PROVE  SoundFor(sol)'
BY DEF SoundFor, SoundFrames, Frames

(* The search ends with a path of the node alone.                          *)
LEMMA SearchSound ==
  ASSUME CubicInv, NEW sol, SoundFor(sol), Search
  PROVE  SoundFor(sol)'
<1> DEFINE k == Populate(Head(killing.queue), killing.dist, Tail(killing.queue))
<1>1. /\ killing.pc = "search"
      /\ UNCHANGED <<graph, stack>>
      /\ \/ killing' = k
         \/ killing' = [k EXCEPT !.pc = "back", !.path = <<k.node>>, !.queue = << >>]
  BY DEF Search, At
<1>2. killing \in Killing
  BY DEF CubicInv, KillingOK
<1>3. /\ k.pc = "search" /\ k.node = killing.node
      /\ DOMAIN k = DOMAIN killing
  BY <1>1, <1>2 DEF Populate, Killing
<1>4. DOMAIN killing = {"pc", "from", "node", "t", "dist", "queue", "path"}
  BY <1>2 DEF Killing
<1> HIDE DEF k
<1>5. SoundPath(sol)'
  <2>1. CASE killing' = k
    BY <1>3, <2>1 DEF SoundPath
  <2>2. CASE killing' = [k EXCEPT !.pc = "back", !.path = <<k.node>>, !.queue = << >>]
    <3>1. killing'.pc = "back" /\ killing'.path = <<killing.node>> /\ killing'.node = killing.node
      BY <1>3, <1>4, <2>2
    <3>2. ToSet(killing'.path) = {killing.node} /\ Curr' = killing.node
      BY <3>1 DEF ToSet, Curr, Last
    <3>3. QED
      BY <3>1, <3>2 DEF SoundPath
  <2>3. QED
    BY <1>1, <2>1, <2>2
<1>6. QED
  BY <1>1, <1>5, SameGraphSound

(* A step back goes to a subset of the last node of the path.              *)
LEMMA StepBackSound ==
  ASSUME CubicInv, NEW sol, SoundFor(sol), StepBack
  PROVE  SoundFor(sol)'
<1> DEFINE p == killing.path
<1>1. PICK b : b = Min(Near)
  OBVIOUS
<1>2. /\ killing.pc = "back" /\ StepsBack
      /\ UNCHANGED <<graph, stack>>
      /\ killing' = [killing EXCEPT !.path = Append(p, b)]
  BY <1>1 DEF StepBack, At
<1>3. /\ WellFormed(graph) /\ SoundGraph(sol, graph) /\ SoundPath(sol)
      /\ killing \in Killing /\ GoingBack
  BY <1>2 DEF CubicInv, KillingOK, SoundFor
<1>4. p \in Seq(Ast) /\ p # << >> /\ ToSet(p) \subseteq Ast
  <2>1. p \in Seq(Ast) /\ p # << >>
    BY <1>2, <1>3 DEF Killing, GoingBack
  <2>2. QED
    BY <2>1, ElementsOfSeq
<1>5. Curr \in ToSet(p) /\ Curr \in Ast
  BY <1>4, FrontAndLast DEF Curr
<1>6. b \in graph.subs[Curr] /\ b \in Ast
  <2>1. Near # {} /\ Near \subseteq graph.subs[Curr] /\ graph.subs[Curr] \subseteq Ast
    BY <1>2, <1>3, <1>5 DEF Near, StepsBack, WellFormed, Graph
  <2>2. b \in Near
    BY <1>1, <2>1, MinOfNaturals, NoneIsNoNode
  <2>3. QED
    BY <2>1, <2>2
<1>7. Values(sol, b) \subseteq Values(sol, Curr)
  BY <1>3, <1>5, <1>6 DEF SoundGraph
<1>8. PICK q : q = Append(p, b)
  OBVIOUS
<1>9. q \in Seq(Ast) /\ ToSet(q) = ToSet(p) \cup {b} /\ Last(q) = b
  <2>1. Append(p, b) \in Seq(Ast) /\ Append(p, b)[Len(Append(p, b))] = b
    BY <1>4, <1>6
  <2>2. QED
    BY <1>4, <1>8, <2>1, ToSetAppend DEF Last
<1>10. /\ killing'.pc = "back" /\ killing'.node = killing.node /\ killing'.path = q
       /\ Curr' = b
  BY <1>2, <1>3, <1>8, <1>9 DEF Killing, Curr
<1>11. \A x \in ToSet(p) : /\ Values(sol, x) \subseteq Values(sol, killing.node)
                           /\ Values(sol, Curr) \subseteq Values(sol, x)
  BY <1>2, <1>3 DEF SoundPath
<1>12. SoundPath(sol)'
  BY <1>5, <1>7, <1>9, <1>10, <1>11 DEF SoundPath
<1>13. QED
  BY <1>2, <1>12, SameGraphSound

(* At the end of the way back is a superset of the node where it began:    *)
(* the path is a cycle.                                                    *)
LEMMA PathFoundSound ==
  ASSUME CubicInv, NEW sol, SoundFor(sol), PathFound
  PROVE  SoundFor(sol)'
<1>1. /\ killing.pc = "back" /\ Curr = killing.t
      /\ UNCHANGED <<graph, stack>>
      /\ killing' = [killing EXCEPT !.pc = "merge", !.dist = NoDistance]
  BY DEF PathFound, At
<1>2. /\ killing \in Killing /\ killing.t \in graph.sups[killing.node]
      /\ SoundGraph(sol, graph) /\ SoundPath(sol) /\ killing.node \in Ast
  BY <1>1, NodeIsLive DEF CubicInv, KillingOK, SoundFor
<1>3. killing'.pc = "merge" /\ killing'.path = killing.path
  BY <1>1, <1>2 DEF Killing
<1>4. Values(sol, killing.node) \subseteq Values(sol, Curr)
  BY <1>1, <1>2 DEF SoundGraph
<1>5. \A x \in ToSet(killing.path) : Values(sol, x) = Values(sol, Curr)
  BY <1>1, <1>2, <1>4 DEF SoundPath
<1>6. SoundPath(sol)'
  BY <1>3, <1>5 DEF SoundPath
<1>7. QED
  BY <1>1, <1>6, SameGraphSound

(* The nodes of a cycle may be merged.                                     *)
LEMMA MergePathSound ==
  ASSUME CubicInv, NEW sol, SoundFor(sol), MergePath
  PROVE  SoundFor(sol)'
<1> DEFINE p == killing.path
<1>1. PICK n1, n2, q : n1 = Last(p) /\ n2 = Last(Front(p)) /\ q = Append(Front(Front(p)), n1)
  OBVIOUS
<1>2. /\ killing.pc = "merge" /\ Len(p) > 1
      /\ graph' = MergeNodes(graph, n1, n2)
      /\ stack' = [i \in DOMAIN stack |-> Invalidate(graph, stack[i], n1, n2)]
      /\ killing' = [killing EXCEPT !.path = q]
  BY <1>1 DEF MergePath, At, Curr
<1>3. /\ WellFormed(graph) /\ killing \in Killing /\ Merging
      /\ SoundGraph(sol, graph) /\ SoundFrames(sol) /\ SoundPath(sol)
  BY DEF CubicInv, KillingOK, SoundFor
<1>4. /\ p \in Seq(Ast) /\ ToSet(p) \subseteq LiveIn(graph)
      /\ \A i, j \in DOMAIN p : i # j => p[i] # p[j]
  BY <1>2, <1>3 DEF Killing, Merging
<1>5. /\ ToSet(q) \subseteq ToSet(p)
      /\ n1 \in ToSet(p) /\ n2 \in ToSet(p) /\ n1 # n2
  BY <1>1, <1>2, <1>4, MergedPath
<1>6. /\ n1 \in LiveIn(graph) /\ n2 \in LiveIn(graph) /\ n1 \in Ast /\ n2 \in Ast
      /\ \A x, y \in ToSet(p) : Values(sol, x) = Values(sol, y)
  BY <1>2, <1>3, <1>4, <1>5 DEF LiveIn, SoundPath
<1>7. SoundGraph(sol, graph')
  BY <1>2, <1>3, <1>5, <1>6, MergeNodesSound
<1>8. killing'.pc = "merge" /\ killing'.path = q
  BY <1>2, <1>3 DEF Killing
<1>9. SoundPath(sol)'
  BY <1>5, <1>6, <1>8 DEF SoundPath
<1>10. SoundFrames(sol)'
  <2>1. Frames' = {Invalidate(graph, fr, n1, n2) : fr \in Frames}
    BY <1>2, FramesInvalidated
  <2>2. ASSUME NEW e \in Frames' PROVE ToSet(e.pairs) \subseteq Safe(sol)
    <3>1. PICK fr \in Frames : e = Invalidate(graph, fr, n1, n2)
      BY <2>1, <2>2
    <3>2. e.pairs = fr.pairs
      BY <1>6, <3>1, FramesTyped, InvalidateFacts
    <3>3. QED
      BY <1>3, <3>1, <3>2 DEF SoundFrames
  <2>3. QED
    BY <2>2 DEF SoundFrames
<1>11. QED
  BY <1>7, <1>9, <1>10 DEF SoundFor

(* The search for cycles starts, goes on from the next superset or from    *)
(* the node the cycle was merged into, or stops.                           *)
LEMMA LookingSound ==
  ASSUME CubicInv, NEW sol, SoundFor(sol), StartSearch \/ NoPath \/ Collapsed
  PROVE  SoundFor(sol)'
<1>1. UNCHANGED <<graph, stack>> /\ killing'.pc \in {"search", "scan"}
  <2>1. killing \in Killing
    BY DEF CubicInv, KillingOK
  <2>2. CASE StartSearch
    <3>1. PICK t, k : /\ k = Populate(t, [NoDistance EXCEPT ![t] = 0], << >>)
                      /\ killing' = [k EXCEPT !.pc = "search", !.t = t]
                      /\ UNCHANGED <<graph, stack>>
      BY <2>2 DEF StartSearch
    <3>2. DOMAIN k = DOMAIN killing
      BY <3>1 DEF Populate
    <3>3. "pc" \in DOMAIN k
      BY <2>1, <3>2 DEF Killing
    <3>4. QED
      BY <3>1, <3>3
  <2>3. CASE NoPath
    BY <2>1, <2>3 DEF NoPath, Killing
  <2>4. CASE Collapsed
    BY <2>1, <2>4 DEF Collapsed, Killing
  <2>5. QED
    BY <2>2, <2>3, <2>4
<1>2. SoundPath(sol)'
  BY <1>1 DEF SoundPath
<1>3. QED
  BY <1>1, <1>2, SameGraphSound

(* killCyclesAt is done; propagateNodeChanges begins or goes on.           *)
LEMMA KillDoneSound ==
  ASSUME CubicInv, NEW sol, SoundFor(sol), KillDone
  PROVE  SoundFor(sol)'
<1>1. /\ UNCHANGED graph /\ killing' = Idle
      /\ stack' = Append(stack, NewFrame(graph.of[killing.from]))
  BY DEF KillDone
<1>2. PICK fr : fr = NewFrame(graph.of[killing.from])
  OBVIOUS
<1>3. Frames' = Frames \cup {fr} /\ ToSet(fr.pairs) = {}
  BY <1>1, <1>2, FramePushed, NewFrameFacts
<1>4. SoundFrames(sol)'
  BY <1>3 DEF SoundFor, SoundFrames
<1>5. QED
  BY <1>1, <1>4, SoundAtRest DEF Idle, SoundFor

(* A node's functions are in its supersets.                                *)
LEMMA NextSupersetSound ==
  ASSUME CubicInv, NEW sol, SoundFor(sol), NextSuperset
  PROVE  SoundFor(sol)'
<1>1. PICK m, fr, new : /\ m = Min(Ahead) /\ fr = [Top EXCEPT !.at = m, !.iter = "valid"]
                        /\ new = NewFrame(m)
  OBVIOUS
<1>2. /\ Top \in Frames /\ Frames = ToSet(Front(stack)) \cup {Top}
      /\ Frames' = ToSet(Front(stack)) \cup {fr, new}
      /\ m \in Ahead /\ m \in Ast /\ Top.node \in Ast
      /\ fr.pairs = Top.pairs
      /\ graph' = Grown(graph, m, graph.bits[Top.node])
  BY <1>1, SupersetPushed
<1>3. /\ WellFormed(graph) /\ SoundGraph(sol, graph) /\ SoundFrames(sol)
      /\ killing' = Idle
  BY DEF CubicInv, SoundFor, NextSuperset, Propagating
<1>4. SoundGraph(sol, graph')
  <2>1. PICK X : X = graph.bits[Top.node]
    OBVIOUS
  <2>2. X \in SUBSET Fun /\ X \subseteq Values(sol, m)
    BY <1>2, <1>3, <2>1 DEF SoundGraph, WellFormed, Graph, Ahead
  <2>3. QED
    BY <1>2, <1>3, <2>1, <2>2, BitsSound
<1>5. SoundFrames(sol)'
  <2>1. ToSet(new.pairs) = {}
    BY <1>1, NewFrameFacts
  <2>2. QED
    BY <1>2, <1>3, <2>1 DEF SoundFrames
<1>6. QED
  BY <1>3, <1>4, <1>5, SoundAtRest DEF Idle

(* A call of propagateNodeChanges returns.                                 *)
LEMMA ReturnSound ==
  ASSUME CubicInv, NEW sol, SoundFor(sol), ReturnFromPropagate
  PROVE  SoundFor(sol)'
<1>1. /\ stack # << >> /\ stack' = Front(stack) /\ killing' = Idle /\ UNCHANGED graph
  BY DEF ReturnFromPropagate, Propagating
<1>2. Frames = Frames' \cup {Top}
  BY <1>1, FrameReturned
<1>3. SoundFrames(sol)'
  BY <1>2 DEF SoundFor, SoundFrames
<1>4. QED
  BY <1>1, <1>3, SoundAtRest DEF Idle, SoundFor

(* The invariant holds of every solution of the constraints given.         *)
LEMMA SoundNext ==
  CubicInv /\ SoundInv /\ [Next]_vars => SoundInv'
<1> SUFFICES ASSUME CubicInv, SoundInv, [Next]_vars,
                    NEW sol \in SUBSET (Fun \X Ast), Satisfies(sol, given')
             PROVE  SoundFor(sol)'
  BY DEF SoundInv
<1>1. ASSUME NEW c \in Elements, AddElementofConstraint(c[1], c[2]) PROVE SoundFor(sol)'
  <2>1. Satisfies(sol, given)
    <3>1. Give(1, <<c[1], c[2]>>)
      BY <1>1 DEF AddElementofConstraint
    <3>2. QED
      BY <3>1, SatisfiedBefore
  <2>2. QED
    BY <1>1, <2>1, AddElementofSound DEF SoundInv
<1>2. ASSUME NEW c \in Inclusions, AddSubseteqConstraint(c[1], c[2]) PROVE SoundFor(sol)'
  <2>1. Satisfies(sol, given)
    <3>1. Give(2, <<c[1], c[2]>>)
      BY <1>2 DEF AddSubseteqConstraint
    <3>2. QED
      BY <3>1, SatisfiedBefore
  <2>2. QED
    BY <1>2, <2>1, AddSubseteqSound DEF SoundInv
<1>3. ASSUME NEW c \in Conditionals, AddConditionalConstraint(c[1], c[2], c[3], c[4])
      PROVE  SoundFor(sol)'
  <2>1. Satisfies(sol, given)
    <3>1. Give(3, <<c[1], c[2], c[3], c[4]>>)
      BY <1>3 DEF AddConditionalConstraint
    <3>2. QED
      BY <3>1, SatisfiedBefore
  <2>2. QED
    BY <1>3, <2>1, AddConditionalSound DEF SoundInv
<1>4. CASE Step
  <2>1. UNCHANGED given
    BY <1>4 DEF Step, NextFunction, ActivateConditionalConstraint, StartSearch, Search,
                NoPath, StepBack, Spin, PathFound, MergePath, Collapsed, KillDone,
                NextSuperset, ReturnFromPropagate, Crash
  <2>2. SoundFor(sol)
    BY <2>1 DEF SoundInv
  <2>3. CASE Spin \/ Crash
    <3>1. UNCHANGED <<graph, stack, killing>>
      BY <2>3 DEF Spin, Crash
    <3>2. QED
      BY <2>2, <3>1 DEF SoundFor, SoundPath, SoundFrames, Frames, Curr
  <2>4. QED
    BY <1>4, <2>2, <2>3, NextFunctionSound, ActivateSound, LookingSound, SearchSound,
       StepBackSound, PathFoundSound, MergePathSound, KillDoneSound, NextSupersetSound,
       ReturnSound DEF Step
<1>5. CASE UNCHANGED vars
  BY <1>5 DEF vars, SoundInv, SoundFor, SoundPath, SoundFrames, Frames, Curr
<1>6. QED
  BY <1>1, <1>2, <1>3, <1>4, <1>5 DEF Next

(* The empty graph is within every solution.                               *)
LEMMA SoundInit == Init => SoundInv
<1> SUFFICES ASSUME Init, NEW sol \in SUBSET (Fun \X Ast) PROVE SoundFor(sol)
  BY DEF SoundInv
<1>1. stack = << >> /\ killing.pc = "none"
  BY DEF Init, Idle
<1>2. SoundFrames(sol) /\ SoundPath(sol)
  BY <1>1, NoFrames DEF SoundFrames, SoundPath
<1>3. SoundGraph(sol, graph)
  <2>1. /\ Known(graph) = {}
        /\ \A n \in Ast : graph.bits[n] = {} /\ graph.sups[n] = {} /\ graph.subs[n] = {}
        /\ \A n \in Ast : \A f \in Fun : graph.conds[n][f] = << >>
    BY DEF Init, Known
  <2>2. ToSet(<< >>) = {}
    BY DEF ToSet
  <2>3. QED
    BY <2>1, <2>2 DEF SoundGraph
<1>4. QED
  BY <1>2, <1>3 DEF SoundFor

(* The reference solution satisfies the constraints given.                 *)
LEMMA LeastSatisfies ==
  ASSUME CubicInv
  PROVE  Satisfies(Least, given) /\ Least \subseteq Fun \X Ast
<1>1. /\ given[1] \subseteq Fun \X Ast /\ given[2] \subseteq Ast \X Ast
      /\ given[3] \subseteq Fun \X Ast \X Ast \X Ast
  BY GivenTyped
<1>2. given[1] \subseteq Least /\ Propagated(Least) \subseteq Least /\ Least \subseteq Fun \X Ast
  BY <1>1, LeastIsSolution
<1>3. ASSUME NEW e \in Flows(Least) PROVE Values(Least, e[1]) \subseteq Values(Least, e[2])
  <2>1. e[2] \in Ast
    <3>1. CASE e \in given[2]
      BY <1>1, <3>1
    <3>2. CASE e \notin given[2]
      <4>1. PICK c \in given[3] : e = <<c[3], c[4]>>
        BY <1>3, <3>2 DEF Flows
      <4>2. c[4] \in Ast
        BY <1>1, <4>1
      <4>3. QED
        BY <4>1, <4>2
    <3>3. QED
      BY <3>1, <3>2
  <2>2. ASSUME NEW f \in Fun, <<f, e[1]>> \in Least PROVE <<f, e[2]>> \in Least
    <3>1. PICK p : p = <<f, e[2]>>
      OBVIOUS
    <3>2. p \in Fun \X Ast /\ p[1] = f /\ p[2] = e[2]
      BY <2>1, <3>1
    <3>3. p \in Propagated(Least)
      BY <1>3, <2>2, <3>2 DEF Propagated
    <3>4. QED
      BY <1>2, <3>1, <3>3
  <2>3. QED
    BY <2>2 DEF Values
<1>4. ASSUME NEW c \in given[2] PROVE Values(Least, c[1]) \subseteq Values(Least, c[2])
  <2>1. c \in Flows(Least)
    BY DEF Flows
  <2>2. QED
    BY <1>3, <2>1
<1>5. ASSUME NEW c \in given[3], c[1] \in Values(Least, c[2])
      PROVE  Values(Least, c[3]) \subseteq Values(Least, c[4])
  <2>1. <<c[1], c[2]>> \in Least
    BY <1>5 DEF Values
  <2>2. PICK e : e = <<c[3], c[4]>>
    OBVIOUS
  <2>3. e \in Flows(Least) /\ e[1] = c[3] /\ e[2] = c[4]
    BY <2>1, <2>2 DEF Flows
  <2>4. QED
    BY <1>3, <2>3
<1>6. QED
  BY <1>2, <1>4, <1>5 DEF Satisfies

(* At every moment, in the middle of any call: a function is only said to  *)
(* be a possible value of an AST node if the constraints given demand it.  *)
THEOREM SoundInvariant == Spec => []Sound
<1>1. CubicInv /\ SoundInv => Sound
  <2> SUFFICES ASSUME CubicInv, SoundInv PROVE Answers \subseteq Least
    BY DEF Sound
  <2>1. SoundGraph(Least, graph)
    BY LeastSatisfies DEF SoundInv, SoundFor
  <2>2. graph.of \in [Ast -> Ast \cup {None}]
    BY DEF CubicInv, WellFormed, Graph
  <2>3. ASSUME NEW a \in Ast PROVE PossibleFunctions(a) \X {a} \subseteq Least
    <3>1. CASE graph.of[a] = None
      BY <3>1 DEF PossibleFunctions
    <3>2. CASE graph.of[a] # None
      <4>1. graph.bits[graph.of[a]] \subseteq Values(Least, a)
        BY <2>1, <2>2, <3>2 DEF SoundGraph, Known
      <4>2. PossibleFunctions(a) = graph.bits[graph.of[a]]
        BY <3>2 DEF PossibleFunctions
      <4>3. QED
        BY <4>1, <4>2 DEF Values
    <3>3. QED
      BY <3>1, <3>2
  <2>4. QED
    BY <2>3 DEF Answers
<1>2. Spec => []SoundInv
  <2>1. CubicInv /\ SoundInv /\ [Next]_vars => SoundInv'
    BY SoundNext
  <2>2. QED
    BY SoundInit, <2>1, CubicInvariant, PTL DEF Spec
<1>3. QED
  BY <1>1, <1>2, CubicInvariant, PTL

-----------------------------------------------------------------------------
(* What the inclusion and conditional constraints given so far promise     *)
(* while calls are running: a conditional constraint is in the graph, in   *)
(* the hands of a frame, or waits in its node; and when its condition is   *)
(* true, somebody is still to look there.                                  *)
Pending(n, f) ==
  n \in Home \/ \E fr \in Frames : fr.node = n /\ fr.fun < f

(* A conditional constraint in the list of its function; if the function   *)
(* is there, somebody is still to look.                                    *)
Waits(c) ==
  LET n == graph.of[c[2]]
  IN  /\ <<c[3], c[4]>> \in ToSet(graph.conds[n][c[1]])
      /\ c[1] \in graph.bits[n] => Pending(n, c[1])

(* One in the list of a call that runs.                                    *)
InHand(c) == \E fr \in Frames : <<c[3], c[4]>> \in ToSet(fr.pairs)

(* Two AST nodes whose inclusion is in a graph.                            *)
Joined(g, a, b) ==
  /\ a \in Known(g) /\ b \in Known(g)
  /\ g.of[a] = g.of[b] \/ g.of[b] \in g.sups[g.of[a]]

(* A conditional constraint is not forgotten: it has become an inclusion,  *)
(* or is in a list.                                                        *)
Kept(c) ==
  /\ c[2] \in Known(graph) /\ c[3] \in Known(graph) /\ c[4] \in Known(graph)
  /\ Joined(graph, c[3], c[4]) \/ InHand(c) \/ Waits(c)

(* The inductive invariant: no constraint given is forgotten.              *)
KeptInv ==
  /\ \A fr \in Frames : fr.pairs # << >> => fr.fun \in Fun
  /\ \A c \in given[2] : Joined(graph, c[1], c[2])
  /\ \A c \in given[3] : Kept(c)

-----------------------------------------------------------------------------
(* Without conditional constraints, functions that are missing above a     *)
(* node are still to be brought there: by a frame whose loop has not got   *)
(* as far, or by the one that follows killCyclesAt.                        *)
Behind(n, m) ==
  n \in Home \/ \E fr \in Frames : fr.node = n /\ fr.at < m

(* Every function is in the node it was declared an element of.            *)
ElementsThere(elements, g) ==
  \A c \in elements : c[2] \in Known(g) /\ c[1] \in g.bits[g.of[c[2]]]

(* Where there are no conditional constraints there are no lists, and      *)
(* killCyclesAt is not called from propagateNodeChanges.                   *)
NothingWaits ==
  /\ \A n \in Ast : \A f \in Fun : graph.conds[n][f] = << >>
  /\ \A fr \in Frames : fr.pairs = << >>
  /\ killing # Idle => stack = << >>

(* The edge from n to m has passed on all the functions of n, or will.     *)
Covered(n, m) == graph.bits[n] \subseteq graph.bits[m] \/ Behind(n, m)
AllCovered == \A n \in LiveIn(graph) : \A m \in graph.sups[n] : Covered(n, m)

(* The inductive invariant: the graph is a solution but for what is still  *)
(* to be passed on.                                                        *)
CompleteInv ==
  /\ ElementsThere(given[1], graph)
  /\ given[3] = {} => NothingWaits /\ AllCovered

-----------------------------------------------------------------------------
(* An inclusion is represented where its two ends are joined.              *)
LEMMA JoinedIncluded ==
  ASSUME WellFormed(graph), NEW a \in Ast, NEW b \in Ast
  PROVE  Included(a, b) <=> Joined(graph, a, b)
BY DEF Included, Joined, Known

(* addEmptyVariableIfNecessary keeps inclusions.                           *)
LEMMA AddEmptyVariablesJoined ==
  ASSUME NEW g, WellFormed(g), NEW nodes \in SUBSET Ast, NEW h, h = AddEmptyVariables(g, nodes),
         NEW a, NEW b, Joined(g, a, b)
  PROVE  Joined(h, a, b)
BY AddEmptyVariablesFacts DEF Joined

(* So does an edge that is inserted, and it joins its two ends.            *)
LEMMA IncludeJoined ==
  ASSUME NEW g, WellFormed(g), NEW from \in Known(g), NEW to \in Known(g), Include(g, from, to)
  PROVE  /\ \A a, b : Joined(g, a, b) => Joined(graph', a, b)
         /\ Joined(graph', from, to)
         /\ Known(graph') = Known(g) /\ graph'.of = g.of
         /\ graph'.bits = g.bits /\ graph'.conds = g.conds
<1>1. CASE g.of[from] = g.of[to]
  BY <1>1 DEF Include, Joined
<1>2. CASE g.of[from] # g.of[to]
  <2>0. PICK n, m : n = g.of[from] /\ m = g.of[to]
    OBVIOUS
  <2>1. n \in LiveIn(g) /\ m \in LiveIn(g) /\ n \in Ast /\ m \in Ast /\ n # m
    BY <1>2, <2>0 DEF WellFormed, LiveIn, Known
  <2>2. PICK h : h = graph'
    OBVIOUS
  <2>3. h = AddEdge(g, n, m)
    BY <1>2, <2>0, <2>2 DEF Include
  <2>4. /\ Known(h) = Known(g) /\ h.of = g.of
        /\ h.sups[n] = g.sups[n] \cup {m} /\ \A a \in Ast \ {n} : h.sups[a] = g.sups[a]
        /\ h.bits = g.bits /\ h.conds = g.conds
    BY <2>1, <2>3, AddEdgeFacts
  <2>5. Joined(h, from, to)
    BY <2>0, <2>4 DEF Joined
  <2>6. \A a \in Known(g) : g.of[a] \in Ast
    BY DEF WellFormed, LiveIn
  <2>7. ASSUME NEW a, NEW b, Joined(g, a, b) PROVE Joined(h, a, b)
    BY <2>4, <2>6, <2>7 DEF Joined
  <2>8. QED
    BY <2>2, <2>4, <2>5, <2>7
<1>3. QED
  BY <1>1, <1>2

(* mergeNodes keeps inclusions: it tells the neighbours of n2.             *)
LEMMA MergeNodesJoined ==
  ASSUME NEW g, WellFormed(g), NEW n1 \in LiveIn(g), NEW n2 \in LiveIn(g), n1 # n2,
         NEW h, h = MergeNodes(g, n1, n2), NEW a, NEW b, Joined(g, a, b)
  PROVE  Joined(h, a, b)
<1>1. /\ Known(h) = Known(g)
      /\ h.of = [x \in Ast |-> IF g.of[x] = n2 THEN n1 ELSE g.of[x]]
  BY MergeNodesFacts
<1>2. /\ (g.sups[n1] \cup g.sups[n2]) \ {n1, n2} \subseteq h.sups[n1]
      /\ \A n \in Ast : n # n1 /\ n \in g.subs[n2] => n1 \in h.sups[n]
      /\ \A n \in Ast : n # n1 => g.sups[n] \ {n2} \subseteq h.sups[n]
  BY DEF MergeNodes, LiveIn
<1>3. PICK n, m : n = g.of[a] /\ m = g.of[b]
  OBVIOUS
<1>4. /\ a \in Ast /\ b \in Ast /\ n \in LiveIn(g) /\ m \in LiveIn(g) /\ n \in Ast /\ m \in Ast
      /\ n1 \in Ast /\ n2 \in Ast
      /\ n = m \/ m \in g.sups[n]
  BY <1>3 DEF Joined, WellFormed, LiveIn, Known
<1>5. LiveLinks(g)
  BY DEF WellFormed
<1>6. /\ n # n2 => h.of[a] = n
      /\ n = n2 => h.of[a] = n1
      /\ m # n2 => h.of[b] = m
      /\ m = n2 => h.of[b] = n1
  BY <1>1, <1>3, <1>4
<1>7. CASE n = m
  BY <1>1, <1>6, <1>7 DEF Joined
<1>8. CASE n # m
  <2>1. m \in g.sups[n] /\ (m = n2 => n \in g.subs[n2])
    BY <1>4, <1>5, <1>8 DEF LiveLinks
  <2>2. CASE n = n2
    <3>1. m # n1 => m \in h.sups[n1]
      BY <1>2, <1>4, <1>8, <2>1, <2>2
    <3>2. QED
      BY <1>1, <1>6, <1>8, <2>2, <3>1 DEF Joined
  <2>3. CASE n # n2 /\ m = n2
    <3>1. n # n1 => n1 \in h.sups[n]
      BY <1>2, <1>4, <2>1, <2>3
    <3>2. QED
      BY <1>1, <1>6, <2>3, <3>1 DEF Joined
  <2>4. CASE n # n2 /\ m # n2
    <3>1. m \in h.sups[n]
      BY <1>2, <1>4, <1>8, <2>1, <2>4
    <3>2. QED
      BY <1>1, <1>6, <2>4, <3>1 DEF Joined
  <2>5. QED
    BY <2>2, <2>3, <2>4
<1>9. QED
  BY <1>7, <1>8

-----------------------------------------------------------------------------
(* While killCyclesAt looks for a cycle nothing is lost.                   *)
LEMMA LookingKeepsHome ==
  ASSUME CubicInv, StartSearch \/ Search \/ NoPath \/ StepBack \/ PathFound \/ Collapsed
  PROVE  UNCHANGED <<graph, stack, given>> /\ Home \subseteq Home'
<1>1. killing \in Killing
  BY DEF CubicInv, KillingOK
<1>2. CASE StartSearch
  <2>1. PICK t, k : /\ k = Populate(t, [NoDistance EXCEPT ![t] = 0], << >>)
                    /\ killing' = [k EXCEPT !.pc = "search", !.t = t]
                    /\ killing.pc = "scan" /\ UNCHANGED <<graph, stack, given>>
    BY <1>2 DEF StartSearch, At
  <2>2. k.node = killing.node /\ DOMAIN k = DOMAIN killing
    BY <1>1, <2>1 DEF Populate, Killing
  <2>3. "pc" \in DOMAIN k
    BY <1>1, <2>2 DEF Killing
  <2>4. killing'.pc = "search" /\ killing'.node = killing.node
    BY <2>1, <2>2, <2>3
  <2>5. QED
    BY <2>1, <2>4 DEF Home
<1>3. CASE Search
  <2>1. PICK k : /\ k = Populate(Head(killing.queue), killing.dist, Tail(killing.queue))
                 /\ \/ killing' = k
                    \/ killing' = [k EXCEPT !.pc = "back", !.path = <<k.node>>, !.queue = << >>]
                 /\ killing.pc = "search" /\ UNCHANGED <<graph, stack, given>>
    BY <1>3 DEF Search, At
  <2>2. k.node = killing.node /\ k.pc = "search" /\ DOMAIN k = DOMAIN killing
    BY <1>1, <2>1 DEF Populate, Killing
  <2>3. DOMAIN k = {"pc", "from", "node", "t", "dist", "queue", "path"}
    BY <1>1, <2>2 DEF Killing
  <2>4. killing'.pc \in {"search", "back"} /\ killing'.node = killing.node
    BY <2>1, <2>2, <2>3
  <2>5. QED
    BY <2>1, <2>4 DEF Home
<1>4. CASE NoPath
  BY <1>1, <1>4 DEF NoPath, At, Killing, Home
<1>5. CASE StepBack
  BY <1>1, <1>5 DEF StepBack, At, Killing, Home
<1>6. CASE PathFound
  <2>1. killing.pc = "back" /\ killing'.pc = "merge" /\ killing'.path = killing.path
        /\ UNCHANGED <<graph, stack, given>>
    BY <1>1, <1>6 DEF PathFound, At, Killing
  <2>2. killing.path \in Seq(Ast) /\ killing.path # << >> /\ killing.path[1] = killing.node
    BY <1>1, <2>1 DEF Killing, CubicInv, KillingOK, GoingBack
  <2>3. killing.node \in ToSet(killing.path)
    <3>1. 1 \in DOMAIN killing.path
      BY <2>2, FrontAndLast, ElementsOfSeq
    <3>2. QED
      BY <2>2, <3>1 DEF ToSet
  <2>4. QED
    BY <2>1, <2>3 DEF Home
<1>7. CASE Collapsed
  <2>1. /\ killing.pc = "merge" /\ Len(killing.path) = 1
        /\ UNCHANGED <<graph, stack, given>>
        /\ killing'.pc = "scan" /\ killing'.node = Curr
    BY <1>1, <1>7 DEF Collapsed, At, Killing
  <2>2. ToSet(killing.path) = {Curr}
    <3>1. killing.path \in Seq(Ast)
      BY <1>1 DEF Killing
    <3>2. DOMAIN killing.path = {1} /\ killing.path[1] = Curr
      BY <2>1, <3>1 DEF Curr, Last
    <3>3. QED
      BY <3>2 DEF ToSet
  <2>3. QED
    BY <2>1, <2>2 DEF Home
<1>8. QED
  BY <1>2, <1>3, <1>4, <1>5, <1>6, <1>7

(* Steps that only look around, and do not move, forget nothing.           *)
LEMMA LookingKept ==
  ASSUME KeptInv, UNCHANGED <<graph, stack, given>>, Home \subseteq Home'
  PROVE  KeptInv'
<1>1. Frames' = Frames
  BY DEF Frames
<1>2. \A n, f : Pending(n, f) => Pending(n, f)'
  BY <1>1 DEF Pending
<1>3. QED
  BY <1>1, <1>2 DEF KeptInv, Kept, InHand, Waits

-----------------------------------------------------------------------------
(* A new element: only the new frame's node has changed.                   *)
LEMMA AddElementofKept ==
  ASSUME CubicInv, KeptInv, NEW c \in Elements, AddElementofConstraint(c[1], c[2])
  PROVE  KeptInv'
<1>1. PICK fn \in Fun, n \in Ast : c = <<fn, n>>
  BY InputAssumption
<1>2. PICK g : g = AddEmptyVariables(graph, {n})
  OBVIOUS
<1>3. PICK m, fr : /\ m = g.of[n] /\ fr = NewFrame(m)
                   /\ Give(1, c) /\ killing' = killing
                   /\ graph' = [g EXCEPT !.bits[m] = @ \cup {fn}]
                   /\ stack' = <<fr>>
  BY <1>1, <1>2 DEF AddElementofConstraint
<1>4. /\ Frames = {} /\ Home = {} /\ given'[2] = given[2] /\ given'[3] = given[3]
  BY <1>3, GivenAfter
<1>5. /\ WellFormed(g) /\ Known(g) = Known(graph) \cup {n}
      /\ \A a \in Known(graph) : g.of[a] = graph.of[a]
      /\ g.bits = graph.bits /\ g.conds = graph.conds
  BY <1>2, AddEmptyVariablesFacts DEF CubicInv
<1>6. m \in Ast
  BY <1>3, <1>5 DEF WellFormed, LiveIn
<1>7. PICK h : h = graph'
  OBVIOUS
<1>8. /\ Known(h) = Known(g) /\ h.of = g.of /\ h.sups = g.sups /\ h.conds = g.conds
      /\ h.bits[m] = g.bits[m] \cup {fn} /\ \A a \in Ast \ {m} : h.bits[a] = g.bits[a]
  <2>1. {fn} \in SUBSET Fun /\ h = Grown(g, m, {fn})
    BY <1>3, <1>7 DEF Grown
  <2>2. QED
    BY <1>5, <1>6, <2>1, BitsFacts DEF SameNodes
<1>9. ASSUME NEW a, NEW b, Joined(graph, a, b) PROVE Joined(h, a, b)
  <2>1. Joined(g, a, b)
    BY <1>2, <1>9, AddEmptyVariablesJoined DEF CubicInv
  <2>2. QED
    BY <1>8, <2>1 DEF Joined
<1>10. Frames' = {fr} /\ fr.node = m /\ fr.fun = 0 /\ fr.pairs = << >>
  BY <1>3, OneFrame, NewFrameFacts
<1>11. ASSUME NEW d \in given[3] PROVE Kept(d)'
  <2>1. d[1] \in Fun /\ Kept(d)
    BY <1>4, GivenTyped DEF KeptInv
  <2>2. d[2] \in Known(h) /\ d[3] \in Known(h) /\ d[4] \in Known(h)
    BY <1>5, <1>8, <2>1 DEF Kept
  <2>3. CASE Joined(graph, d[3], d[4])
    BY <1>7, <1>9, <2>2, <2>3 DEF Kept
  <2>4. CASE Waits(d)
    <3>1. PICK k : k = graph.of[d[2]]
      OBVIOUS
    <3>2. /\ <<d[3], d[4]>> \in ToSet(graph.conds[k][d[1]])
          /\ d[1] \notin graph.bits[k]
      BY <1>4, <2>4, <3>1 DEF Waits, Pending
    <3>3. h.of[d[2]] = k /\ k \in Ast
      BY <1>5, <1>8, <2>1, <3>1 DEF Kept, CubicInv, WellFormed, LiveIn
    <3>4. d[1] \in h.bits[k] => k = m /\ d[1] = fn
      BY <1>5, <1>8, <3>2, <3>3
    <3>5. d[1] \in h.bits[k] => Pending(k, d[1])'
      <4>1. 0 < d[1]
        BY <2>1, IndexAssumption, FS_CardinalityType
      <4>2. QED
        BY <1>10, <3>4, <4>1 DEF Pending
    <3>6. Waits(d)'
      BY <1>5, <1>7, <1>8, <3>2, <3>3, <3>5 DEF Waits
    <3>7. QED
      BY <1>7, <2>2, <3>6 DEF Kept
  <2>5. QED
    BY <1>4, <2>1, <2>3, <2>4 DEF Kept, InHand
<1>12. \A d \in given[2] : Joined(h, d[1], d[2])
  BY <1>9 DEF KeptInv
<1>13. QED
  BY <1>4, <1>7, <1>10, <1>11, <1>12 DEF KeptInv

(* A new inclusion is in the graph at once.                                *)
LEMMA AddSubseteqKept ==
  ASSUME CubicInv, KeptInv, NEW c \in Inclusions, AddSubseteqConstraint(c[1], c[2])
  PROVE  KeptInv'
<1>1. PICK from \in Ast, to \in Ast : c = <<from, to>>
  BY InputAssumption
<1>2. PICK g : g = AddEmptyVariables(graph, {from, to})
  OBVIOUS
<1>3. Give(2, c) /\ Include(g, from, to) /\ stack' = stack
  BY <1>1, <1>2 DEF AddSubseteqConstraint
<1>4. /\ Frames = {} /\ Home = {} /\ given'[2] = given[2] \cup {c} /\ given'[3] = given[3]
  BY <1>3, GivenAfter
<1>5. /\ WellFormed(g) /\ Known(g) = Known(graph) \cup {from, to}
      /\ \A a \in Known(graph) : g.of[a] = graph.of[a]
      /\ g.bits = graph.bits /\ g.conds = graph.conds
  BY <1>2, AddEmptyVariablesFacts DEF CubicInv
<1>6. PICK h : h = graph'
  OBVIOUS
<1>7. /\ \A a, b : Joined(g, a, b) => Joined(h, a, b)
      /\ Joined(h, from, to)
      /\ Known(h) = Known(g) /\ h.of = g.of /\ h.bits = g.bits /\ h.conds = g.conds
  BY <1>3, <1>5, <1>6, IncludeJoined
<1>8. ASSUME NEW a, NEW b, Joined(graph, a, b) PROVE Joined(h, a, b)
  BY <1>2, <1>7, <1>8, AddEmptyVariablesJoined DEF CubicInv
<1>9. Frames' = {}
  BY <1>3, <1>4 DEF Frames
<1>10. ASSUME NEW d \in given[3] PROVE Kept(d)'
  <2>1. Kept(d)
    BY DEF KeptInv
  <2>2. d[2] \in Known(h) /\ d[3] \in Known(h) /\ d[4] \in Known(h)
    BY <1>5, <1>7, <2>1 DEF Kept
  <2>3. CASE Joined(graph, d[3], d[4])
    BY <1>6, <1>8, <2>2, <2>3 DEF Kept
  <2>4. CASE Waits(d)
    <3>1. /\ <<d[3], d[4]>> \in ToSet(graph.conds[graph.of[d[2]]][d[1]])
          /\ d[1] \notin graph.bits[graph.of[d[2]]]
      BY <1>4, <2>4 DEF Waits, Pending
    <3>2. h.of[d[2]] = graph.of[d[2]] /\ h.conds = graph.conds /\ h.bits = graph.bits
      BY <1>5, <1>7, <2>1 DEF Kept
    <3>3. Waits(d)'
      BY <1>6, <3>1, <3>2 DEF Waits
    <3>4. QED
      BY <1>6, <2>2, <3>3 DEF Kept
  <2>5. QED
    BY <1>4, <2>1, <2>3, <2>4 DEF Kept, InHand
<1>11. \A d \in given'[2] : Joined(h, d[1], d[2])
  BY <1>1, <1>4, <1>7, <1>8 DEF KeptInv
<1>12. QED
  BY <1>4, <1>6, <1>9, <1>10, <1>11 DEF KeptInv

(* A new conditional constraint waits in its node, where a frame is to     *)
(* look.                                                                   *)
LEMMA AddConditionalKept ==
  ASSUME CubicInv, KeptInv,
         NEW c \in Conditionals, AddConditionalConstraint(c[1], c[2], c[3], c[4])
  PROVE  KeptInv'
<1>1. PICK fn \in Fun, in \in Ast, from \in Ast, to \in Ast : c = <<fn, in, from, to>>
  BY InputAssumption
<1>2. PICK g : g = AddEmptyVariables(graph, {in, from, to})
  OBVIOUS
<1>3. PICK m, fr, s : /\ m = g.of[in] /\ fr = NewFrame(m)
                      /\ s = Append(g.conds[m][fn], <<from, to>>)
                      /\ Give(3, c) /\ killing' = killing
                      /\ graph' = [g EXCEPT !.conds[m][fn] = s]
                      /\ stack' = <<fr>>
  BY <1>1, <1>2 DEF AddConditionalConstraint
<1>4. /\ Frames = {} /\ Home = {} /\ given'[2] = given[2] /\ given'[3] = given[3] \cup {c}
  <2>1. Give(3, c)
    BY <1>3, Zenon
  <2>2. 3 \in 1 .. 3
    OBVIOUS
  <2>3. QED
    BY <2>1, <2>2, GivenAfter
<1>5. /\ WellFormed(g) /\ Known(g) = Known(graph) \cup {in, from, to}
      /\ \A a \in Known(graph) : g.of[a] = graph.of[a]
      /\ g.bits = graph.bits /\ g.conds = graph.conds
  BY <1>2, AddEmptyVariablesFacts DEF CubicInv
<1>6. m \in Ast
  BY <1>3, <1>5 DEF WellFormed, LiveIn
<1>7. PICK h : h = graph'
  OBVIOUS
<1>8. s \in Pairs(g) /\ ToSet(s) = ToSet(g.conds[m][fn]) \cup {<<from, to>>}
  <2>1. PICK old \in Pairs(g) : old = g.conds[m][fn]
    BY <1>5, <1>6 DEF WellFormed
  <2>2. PICK e \in Known(g) \X Known(g) : e = <<from, to>>
    BY <1>5
  <2>3. Append(old, e) \in Pairs(g) /\ ToSet(Append(old, e)) = ToSet(old) \cup {e}
    BY ToSetAppend DEF Pairs
  <2>4. QED
    BY <1>3, <2>1, <2>2, <2>3
<1>9. /\ Known(h) = Known(g) /\ h.of = g.of /\ h.sups = g.sups /\ h.bits = g.bits
      /\ h.conds[m][fn] = s
      /\ \A a \in Ast : \A e \in Fun : a # m \/ e # fn => h.conds[a][e] = g.conds[a][e]
  <2>1. h = Relisted(g, m, fn, s)
    BY <1>3, <1>7 DEF Relisted
  <2>2. QED
    BY <1>5, <1>6, <1>8, <2>1, CondsFacts DEF SameNodes
<1>10. ASSUME NEW a, NEW b, Joined(graph, a, b) PROVE Joined(h, a, b)
  <2>1. Joined(g, a, b)
    BY <1>2, <1>10, AddEmptyVariablesJoined DEF CubicInv
  <2>2. QED
    BY <1>9, <2>1 DEF Joined
<1>11. Frames' = {fr} /\ fr.node = m /\ fr.fun = 0 /\ fr.pairs = << >>
  BY <1>3, OneFrame, NewFrameFacts
<1>12. ASSUME NEW a \in Ast, NEW e \in Fun
       PROVE  ToSet(g.conds[a][e]) \subseteq ToSet(h.conds[a][e])
  BY <1>8, <1>9
<1>13. ASSUME NEW d \in given[3] PROVE Kept(d)'
  <2>1. d[1] \in Fun /\ Kept(d)
    BY GivenTyped DEF KeptInv
  <2>2. d[2] \in Known(h) /\ d[3] \in Known(h) /\ d[4] \in Known(h)
    BY <1>5, <1>9, <2>1 DEF Kept
  <2>3. CASE Joined(graph, d[3], d[4])
    BY <1>7, <1>10, <2>2, <2>3 DEF Kept
  <2>4. CASE Waits(d)
    <3>1. PICK k : k = graph.of[d[2]]
      OBVIOUS
    <3>2. /\ <<d[3], d[4]>> \in ToSet(graph.conds[k][d[1]])
          /\ d[1] \notin graph.bits[k]
      BY <1>4, <2>4, <3>1 DEF Waits, Pending
    <3>3. h.of[d[2]] = k /\ k \in Ast
      BY <1>5, <1>9, <2>1, <3>1 DEF Kept, CubicInv, WellFormed, LiveIn
    <3>4. <<d[3], d[4]>> \in ToSet(h.conds[k][d[1]]) /\ d[1] \notin h.bits[k]
      BY <1>5, <1>9, <1>12, <2>1, <3>2, <3>3
    <3>5. Waits(d)'
      BY <1>7, <3>3, <3>4 DEF Waits
    <3>6. QED
      BY <1>7, <2>2, <3>5 DEF Kept
  <2>5. QED
    BY <1>4, <2>1, <2>3, <2>4 DEF Kept, InHand
<1>14. Kept(c)'
  <2>1. c[1] = fn /\ c[2] = in /\ c[3] = from /\ c[4] = to
    BY <1>1
  <2>2. 0 < fn
    BY IndexAssumption, FS_CardinalityType
  <2>3. Pending(m, fn)'
    BY <1>11, <2>2 DEF Pending
  <2>4. <<from, to>> \in ToSet(h.conds[m][fn]) /\ h.of[in] = m
    BY <1>3, <1>8, <1>9
  <2>5. Waits(c)'
    BY <1>7, <2>1, <2>3, <2>4 DEF Waits
  <2>6. QED
    BY <1>5, <1>7, <1>9, <2>1, <2>5 DEF Kept
<1>15. \A d \in given[2] : Joined(h, d[1], d[2])
  BY <1>10 DEF KeptInv
<1>16. QED
  BY <1>4, <1>7, <1>11, <1>13, <1>14, <1>15 DEF KeptInv

-----------------------------------------------------------------------------
(* A frame that looks at its next function takes along the constraints     *)
(* whose condition has come true.                                          *)
LEMMA NextFunctionKept ==
  ASSUME CubicInv, KeptInv, NextFunction
  PROVE  KeptInv'
<1>1. PICK f, n : f = Top.fun + 1 /\ n = Top.node
  OBVIOUS
<1>2. /\ killing = Idle /\ stack # << >> /\ Top.pairs = << >>
      /\ UNCHANGED <<killing, status, given>>
      /\ \/ /\ f \in Fun /\ f \in graph.bits[n]
            /\ stack' = [stack EXCEPT ![Len(stack)] =
                           [Top EXCEPT !.fun = f, !.pairs = graph.conds[n][f]]]
            /\ graph' = [graph EXCEPT !.conds[n][f] = << >>]
         \/ /\ ~(f \in Fun /\ f \in graph.bits[n])
            /\ stack' = [stack EXCEPT ![Len(stack)] = [Top EXCEPT !.fun = f]]
            /\ graph' = graph
  BY <1>1 DEF NextFunction, Propagating, SetTop
<1>3. WellFormed(graph) /\ Home = {}
  BY <1>2 DEF CubicInv, Home, Idle
<1>4. Top \in FrameOK(graph) /\ Top \in Frame /\ Top \in Frames
  <2>1. Top \in Frames
    BY <1>2, FrontAndLast DEF CubicInv, Frames, Top
  <2>2. QED
    BY <2>1, FramesTyped
<1>5. n \in Ast /\ f \in Nat /\ Top.fun \in Nat /\ f = Top.fun + 1
  BY <1>1, <1>4 DEF Frame
<1>6. \A fr \in Frames : fr.fun \in Nat
  BY FramesTyped DEF Frame
<1>7. Fun \subseteq Nat
  BY IndexAssumption, FS_CardinalityType
<1>8. CASE /\ f \in Fun /\ f \in graph.bits[n]
           /\ stack' = [stack EXCEPT ![Len(stack)] =
                          [Top EXCEPT !.fun = f, !.pairs = graph.conds[n][f]]]
           /\ graph' = [graph EXCEPT !.conds[n][f] = << >>]
  <2>1. PICK fr : fr = [Top EXCEPT !.fun = f, !.pairs = graph.conds[n][f]]
    OBVIOUS
  <2>2. /\ graph.conds[n][f] \in Pairs(graph) /\ << >> \in Pairs(graph)
        /\ Pairs(graph) \subseteq Seq(Ast \X Ast)
    BY <1>3, <1>5, <1>8 DEF WellFormed, Pairs, Known
  <2>3. fr \in FrameOK(graph) /\ fr.pairs = graph.conds[n][f] /\ fr.fun = f /\ fr.node = n
    BY <1>1, <1>4, <1>5, <2>1, <2>2 DEF FrameOK, Frame
  <2>4. Frames = ToSet(Front(stack)) \cup {Top} /\ Frames' = ToSet(Front(stack)) \cup {fr}
    BY <1>2, <1>8, <2>1, <2>3, TopReplaced
  <2>5. PICK h : h = graph'
    OBVIOUS
  <2>6. /\ Known(h) = Known(graph) /\ h.of = graph.of /\ h.sups = graph.sups
        /\ h.bits = graph.bits
        /\ \A a \in Ast : \A e \in Fun : a # n \/ e # f => h.conds[a][e] = graph.conds[a][e]
    <3>1. h = Relisted(graph, n, f, << >>)
      BY <1>8, <2>5 DEF Relisted
    <3>2. QED
      BY <1>3, <1>5, <1>8, <2>2, <3>1, CondsFacts DEF SameNodes
  <2>7. \A a, b : Joined(graph, a, b) => Joined(h, a, b)
    BY <2>6 DEF Joined
  <2>8. ASSUME NEW c \in given[3] PROVE Kept(c)'
    <3>1. c[1] \in Fun /\ Kept(c)
      BY GivenTyped DEF KeptInv
    <3>2. c[2] \in Known(h) /\ c[3] \in Known(h) /\ c[4] \in Known(h)
      BY <2>6, <3>1 DEF Kept
    <3>3. CASE Joined(graph, c[3], c[4])
      BY <2>5, <2>7, <3>2, <3>3 DEF Kept
    <3>4. CASE InHand(c)
      <4>1. PICK e \in Frames : <<c[3], c[4]>> \in ToSet(e.pairs)
        BY <3>4 DEF InHand
      <4>2. e # Top
        BY <1>2, <4>1 DEF ToSet
      <4>3. InHand(c)'
        BY <2>4, <4>1, <4>2 DEF InHand
      <4>4. QED
        BY <2>5, <3>2, <4>3 DEF Kept
    <3>5. CASE Waits(c)
      <4>1. PICK k : k = graph.of[c[2]]
        OBVIOUS
      <4>2. /\ <<c[3], c[4]>> \in ToSet(graph.conds[k][c[1]])
            /\ c[1] \in graph.bits[k] => \E e \in Frames : e.node = k /\ e.fun < c[1]
        BY <1>3, <3>5, <4>1 DEF Waits, Pending
      <4>3. CASE k = n /\ c[1] = f
        <5>1. InHand(c)'
          BY <2>3, <2>4, <4>2, <4>3 DEF InHand
        <5>2. QED
          BY <2>5, <3>2, <5>1 DEF Kept
      <4>4. CASE k # n \/ c[1] # f
        <5>1. h.of[c[2]] = k /\ k \in Ast
          BY <1>3, <2>6, <3>1, <4>1 DEF Kept, WellFormed, LiveIn
        <5>2. <<c[3], c[4]>> \in ToSet(h.conds[k][c[1]])
          BY <2>6, <3>1, <4>2, <4>4, <5>1
        <5>3. c[1] \in h.bits[k] => Pending(k, c[1])'
          <6>1. SUFFICES ASSUME c[1] \in h.bits[k]
                         PROVE  \E e \in Frames' : e.node = k /\ e.fun < c[1]
            BY DEF Pending
          <6>2. PICK e \in Frames : e.node = k /\ e.fun < c[1]
            BY <2>6, <4>2, <6>1
          <6>3. CASE e = Top
            <7>1. k = n /\ c[1] # f /\ Top.fun < c[1] /\ c[1] \in Nat
              BY <1>1, <1>7, <3>1, <4>4, <6>2, <6>3
            <7>2. f < c[1]
              BY <1>5, <7>1
            <7>3. QED
              BY <2>3, <2>4, <7>1, <7>2
          <6>4. CASE e # Top
            BY <2>4, <6>2, <6>4
          <6>5. QED
            BY <6>3, <6>4
        <5>4. Waits(c)'
          BY <2>5, <5>1, <5>2, <5>3 DEF Waits
        <5>5. QED
          BY <2>5, <3>2, <5>4 DEF Kept
      <4>5. QED
        BY <4>3, <4>4
    <3>6. QED
      BY <3>1, <3>3, <3>4, <3>5 DEF Kept
  <2>9. \A e \in Frames' : e.pairs # << >> => e.fun \in Fun
    BY <1>8, <2>3, <2>4 DEF KeptInv
  <2>10. \A c \in given[2] : Joined(h, c[1], c[2])
    BY <2>7 DEF KeptInv
  <2>11. QED
    BY <1>2, <2>5, <2>8, <2>9, <2>10 DEF KeptInv
<1>9. CASE /\ ~(f \in Fun /\ f \in graph.bits[n])
           /\ stack' = [stack EXCEPT ![Len(stack)] = [Top EXCEPT !.fun = f]]
           /\ graph' = graph
  <2>1. PICK fr : fr = [Top EXCEPT !.fun = f]
    OBVIOUS
  <2>2. fr \in FrameOK(graph) /\ fr.pairs = << >> /\ fr.fun = f /\ fr.node = n
    BY <1>1, <1>2, <1>4, <1>5, <2>1 DEF FrameOK, Frame
  <2>3. Frames = ToSet(Front(stack)) \cup {Top} /\ Frames' = ToSet(Front(stack)) \cup {fr}
    BY <1>2, <1>9, <2>1, <2>2, TopReplaced
  <2>4. ASSUME NEW c \in given[3] PROVE Kept(c)'
    <3>1. c[1] \in Fun /\ Kept(c)
      BY GivenTyped DEF KeptInv
    <3>2. CASE Joined(graph, c[3], c[4])
      BY <1>9, <3>1, <3>2 DEF Kept
    <3>3. CASE InHand(c)
      <4>1. PICK e \in Frames : <<c[3], c[4]>> \in ToSet(e.pairs)
        BY <3>3 DEF InHand
      <4>2. e # Top
        BY <1>2, <4>1 DEF ToSet
      <4>3. InHand(c)'
        BY <2>3, <4>1, <4>2 DEF InHand
      <4>4. QED
        BY <1>9, <3>1, <4>3 DEF Kept
    <3>4. CASE Waits(c)
      <4>1. PICK k : k = graph.of[c[2]]
        OBVIOUS
      <4>2. /\ <<c[3], c[4]>> \in ToSet(graph.conds[k][c[1]])
            /\ c[1] \in graph.bits[k] => \E e \in Frames : e.node = k /\ e.fun < c[1]
        BY <1>3, <3>4, <4>1 DEF Waits, Pending
      <4>3. c[1] \in graph.bits[k] => Pending(k, c[1])'
        <5>1. SUFFICES ASSUME c[1] \in graph.bits[k]
                       PROVE  \E e \in Frames' : e.node = k /\ e.fun < c[1]
          BY DEF Pending
        <5>2. PICK e \in Frames : e.node = k /\ e.fun < c[1]
          BY <4>2, <5>1
        <5>3. CASE e = Top
          <6>1. k = n /\ c[1] # f /\ Top.fun < c[1] /\ c[1] \in Nat
            BY <1>1, <1>7, <1>9, <3>1, <5>1, <5>2, <5>3
          <6>2. f < c[1]
            BY <1>5, <6>1
          <6>3. QED
            BY <2>2, <2>3, <6>1, <6>2
        <5>4. CASE e # Top
          BY <2>3, <5>2, <5>4
        <5>5. QED
          BY <5>3, <5>4
      <4>4. Waits(c)'
        BY <1>9, <4>1, <4>2, <4>3 DEF Waits
      <4>5. QED
        BY <1>9, <3>1, <4>4 DEF Kept
    <3>5. QED
      BY <3>1, <3>2, <3>3, <3>4 DEF Kept
  <2>5. \A e \in Frames' : e.pairs # << >> => e.fun \in Fun
    BY <2>2, <2>3 DEF KeptInv
  <2>6. QED
    BY <1>2, <1>9, <2>4, <2>5 DEF KeptInv
<1>10. QED
  BY <1>2, <1>8, <1>9

(* The constraint activated becomes an inclusion of the graph.             *)
LEMMA ActivateKept ==
  ASSUME CubicInv, KeptInv, ActivateConditionalConstraint
  PROVE  KeptInv'
<1>1. /\ stack # << >> /\ Top.pairs # << >> /\ killing = Idle /\ UNCHANGED given
      /\ stack' = [stack EXCEPT ![Len(stack)] = [Top EXCEPT !.pairs = Tail(@)]]
      /\ Include(graph, Head(Top.pairs)[1], Head(Top.pairs)[2])
  BY DEF ActivateConditionalConstraint, Propagating, SetTop
<1>2. WellFormed(graph) /\ Home = {}
  BY <1>1 DEF CubicInv, Home, Idle
<1>3. Top \in FrameOK(graph) /\ Top \in Frame /\ Top \in Frames
  <2>1. Top \in Frames
    BY <1>1, FrontAndLast DEF CubicInv, Frames, Top
  <2>2. QED
    BY <2>1, FramesTyped
<1>4. /\ Head(Top.pairs) \in Known(graph) \X Known(graph) /\ Tail(Top.pairs) \in Pairs(graph)
      /\ ToSet(Top.pairs) = {Head(Top.pairs)} \cup ToSet(Tail(Top.pairs))
  BY <1>1, <1>3, HeadAndTail DEF FrameOK, Pairs
<1>5. PICK from \in Known(graph), to \in Known(graph) :
        /\ Include(graph, from, to)
        /\ Head(Top.pairs) = <<from, to>>
  BY <1>1, <1>4
<1>6. PICK h : h = graph'
  OBVIOUS
<1>7. /\ \A a, b : Joined(graph, a, b) => Joined(h, a, b)
      /\ Joined(h, from, to)
      /\ Known(h) = Known(graph) /\ h.of = graph.of /\ h.bits = graph.bits
      /\ h.conds = graph.conds
  BY <1>2, <1>5, <1>6, IncludeJoined
<1>8. PICK fr : fr = [Top EXCEPT !.pairs = Tail(@)]
  OBVIOUS
<1>9. /\ fr \in FrameOK(graph) /\ fr.pairs = Tail(Top.pairs)
      /\ fr.fun = Top.fun /\ fr.node = Top.node
  <2>1. Tail(Top.pairs) \in Seq(Ast \X Ast)
    BY <1>4 DEF Pairs, Known
  <2>2. QED
    BY <1>3, <1>4, <1>8, <2>1 DEF FrameOK, Frame
<1>10. Frames = ToSet(Front(stack)) \cup {Top} /\ Frames' = ToSet(Front(stack)) \cup {fr}
  BY <1>1, <1>8, <1>9, TopReplaced
<1>11. \A k, f : Pending(k, f) => Pending(k, f)'
  BY <1>2, <1>9, <1>10 DEF Pending
<1>12. ASSUME NEW c \in given[3] PROVE Kept(c)'
  <2>1. Kept(c)
    BY DEF KeptInv
  <2>2. c[2] \in Known(h) /\ c[3] \in Known(h) /\ c[4] \in Known(h)
    BY <1>7, <2>1 DEF Kept
  <2>3. CASE Joined(graph, c[3], c[4])
    BY <1>6, <1>7, <2>2, <2>3 DEF Kept
  <2>4. CASE InHand(c)
    <3>1. PICK e \in Frames : <<c[3], c[4]>> \in ToSet(e.pairs)
      BY <2>4 DEF InHand
    <3>2. CASE e = Top /\ <<c[3], c[4]>> = <<from, to>>
      <4>1. Joined(h, c[3], c[4])
        BY <1>7, <3>2
      <4>2. QED
        BY <1>6, <2>2, <4>1 DEF Kept
    <3>3. CASE e # Top \/ <<c[3], c[4]>> # <<from, to>>
      <4>1. InHand(c)'
        BY <1>4, <1>5, <1>9, <1>10, <3>1, <3>3 DEF InHand
      <4>2. QED
        BY <1>6, <2>2, <4>1 DEF Kept
    <3>4. QED
      BY <3>2, <3>3
  <2>5. CASE Waits(c)
    <3>1. Waits(c)'
      BY <1>6, <1>7, <1>11, <2>5 DEF Waits
    <3>2. QED
      BY <1>6, <2>2, <3>1 DEF Kept
  <2>6. QED
    BY <2>1, <2>3, <2>4, <2>5 DEF Kept
<1>13. \A e \in Frames' : e.pairs # << >> => e.fun \in Fun
  BY <1>1, <1>3, <1>9, <1>10 DEF KeptInv
<1>14. \A c \in given[2] : Joined(h, c[1], c[2])
  BY <1>7 DEF KeptInv
<1>15. QED
  BY <1>1, <1>6, <1>12, <1>13, <1>14 DEF KeptInv

(* What a merged node was to do, and had waiting, goes to the node it is   *)
(* merged into.                                                            *)
LEMMA MergePathKept ==
  ASSUME CubicInv, KeptInv, MergePath
  PROVE  KeptInv'
<1> DEFINE p == killing.path
<1>1. PICK n1, n2, q : n1 = Last(p) /\ n2 = Last(Front(p)) /\ q = Append(Front(Front(p)), n1)
  OBVIOUS
<1>2. /\ killing.pc = "merge" /\ Len(p) > 1 /\ UNCHANGED given
      /\ graph' = MergeNodes(graph, n1, n2)
      /\ stack' = [i \in DOMAIN stack |-> Invalidate(graph, stack[i], n1, n2)]
      /\ killing' = [killing EXCEPT !.path = q]
  BY <1>1 DEF MergePath, At, Curr
<1>3. WellFormed(graph) /\ killing \in Killing /\ Merging
  BY DEF CubicInv, KillingOK
<1>4. /\ p \in Seq(Ast) /\ ToSet(p) \subseteq LiveIn(graph)
      /\ \A i, j \in DOMAIN p : i # j => p[i] # p[j]
  BY <1>2, <1>3 DEF Killing, Merging
<1>5. /\ ToSet(q) = ToSet(p) \ {n2}
      /\ n1 \in ToSet(p) /\ n2 \in ToSet(p) /\ n1 # n2
  BY <1>1, <1>2, <1>4, MergedPath
<1>6. n1 \in LiveIn(graph) /\ n2 \in LiveIn(graph) /\ n1 \in Ast /\ n2 \in Ast
  BY <1>4, <1>5 DEF LiveIn
<1>7. Home = ToSet(p) /\ Home' = ToSet(q)
  BY <1>2, <1>3 DEF Home, Killing
<1>8. PICK h : h = graph'
  OBVIOUS
<1>9. h = MergeNodes(graph, n1, n2)
  BY <1>2, <1>8
<1>10. /\ Known(h) = Known(graph)
       /\ h.of = [a \in Ast |-> IF graph.of[a] = n2 THEN n1 ELSE graph.of[a]]
  BY <1>3, <1>5, <1>6, <1>9, MergeNodesFacts
<1>11. ASSUME NEW a, NEW b, Joined(graph, a, b) PROVE Joined(h, a, b)
  BY <1>3, <1>5, <1>6, <1>9, <1>11, MergeNodesJoined
<1>12. ASSUME NEW f \in Fun
       PROVE  /\ ToSet(h.conds[n1][f]) = ToSet(graph.conds[n1][f]) \cup ToSet(graph.conds[n2][f])
              /\ \A n \in Ast \ {n1} : h.conds[n][f] = graph.conds[n][f]
  <2>1. h.conds = [graph.conds EXCEPT ![n1] = [e \in Fun |-> @[e] \o graph.conds[n2][e]]]
    BY <1>9 DEF MergeNodes
  <2>2. /\ graph.conds \in [Ast -> [Fun -> Pairs(graph)]]
    BY <1>3 DEF WellFormed
  <2>3. PICK row : row = [e \in Fun |-> graph.conds[n1][e] \o graph.conds[n2][e]]
    OBVIOUS
  <2>4. row[f] = graph.conds[n1][f] \o graph.conds[n2][f]
    BY <2>3
  <2>5. h.conds[n1] = row /\ \A n \in Ast \ {n1} : h.conds[n] = graph.conds[n]
    BY <1>6, <2>1, <2>2, <2>3
  <2>6. graph.conds[n1][f] \in Pairs(graph) /\ graph.conds[n2][f] \in Pairs(graph)
    BY <1>6, <2>2
  <2>7. ToSet(row[f]) = ToSet(graph.conds[n1][f]) \cup ToSet(graph.conds[n2][f])
    BY <2>4, <2>6, ToSetConcat DEF Pairs
  <2>8. QED
    BY <2>5, <2>7
<1>13. \A n \in Ast \ {n1} : h.bits[n] = graph.bits[n]
  <2>1. h.bits = [graph.bits EXCEPT ![n1] = @ \cup graph.bits[n2]]
    BY <1>9 DEF MergeNodes
  <2>2. graph.bits \in [Ast -> SUBSET Fun]
    BY <1>3 DEF WellFormed, Graph
  <2>3. QED
    BY <2>1, <2>2
<1>14. Frames' = {Invalidate(graph, fr, n1, n2) : fr \in Frames}
  BY <1>2, FramesInvalidated
<1>15. ASSUME NEW fr \in Frames
       PROVE  \E e \in Frames' : e.node = fr.node /\ e.fun = fr.fun /\ e.pairs = fr.pairs
  <2>1. PICK e : e = Invalidate(graph, fr, n1, n2)
    OBVIOUS
  <2>2. e \in Frames'
    BY <1>14, <2>1
  <2>3. QED
    BY <1>6, <2>1, <2>2, FramesTyped, InvalidateFacts
<1>16. ASSUME NEW e \in Frames', e.pairs # << >> PROVE e.fun \in Fun
  <2>1. PICK fr \in Frames : e = Invalidate(graph, fr, n1, n2)
    BY <1>14
  <2>2. e.fun = fr.fun /\ e.pairs = fr.pairs
    BY <1>6, <2>1, FramesTyped, InvalidateFacts
  <2>3. QED
    BY <1>16, <2>2 DEF KeptInv
<1>17. ASSUME NEW c \in given[3] PROVE Kept(c)'
  <2>1. c[1] \in Fun /\ Kept(c)
    BY GivenTyped DEF KeptInv
  <2>2. c[2] \in Known(h) /\ c[3] \in Known(h) /\ c[4] \in Known(h)
    BY <1>10, <2>1 DEF Kept
  <2>3. CASE Joined(graph, c[3], c[4])
    BY <1>8, <1>11, <2>2, <2>3 DEF Kept
  <2>4. CASE InHand(c)
    <3>1. InHand(c)'
      BY <1>15, <2>4 DEF InHand
    <3>2. QED
      BY <1>8, <2>2, <3>1 DEF Kept
  <2>5. CASE Waits(c)
    <3>1. PICK k : k = graph.of[c[2]]
      OBVIOUS
    <3>2. /\ <<c[3], c[4]>> \in ToSet(graph.conds[k][c[1]])
          /\ c[1] \in graph.bits[k] => Pending(k, c[1])
          /\ k \in Ast /\ c[2] \in Ast
      BY <1>3, <2>1, <2>5, <3>1 DEF Waits, Kept, WellFormed, LiveIn, Known
    <3>3. CASE k = n1 \/ k = n2
      <4>1. h.of[c[2]] = n1
        BY <1>10, <3>1, <3>2, <3>3
      <4>2. <<c[3], c[4]>> \in ToSet(h.conds[n1][c[1]])
        BY <1>12, <2>1, <3>2, <3>3
      <4>3. Pending(n1, c[1])'
        BY <1>5, <1>7 DEF Pending
      <4>4. Waits(c)'
        BY <1>8, <4>1, <4>2, <4>3 DEF Waits
      <4>5. QED
        BY <1>8, <2>2, <4>4 DEF Kept
    <3>4. CASE k # n1 /\ k # n2
      <4>1. h.of[c[2]] = k
        BY <1>10, <3>1, <3>2, <3>4
      <4>2. /\ <<c[3], c[4]>> \in ToSet(h.conds[k][c[1]])
            /\ h.bits[k] = graph.bits[k]
        BY <1>12, <1>13, <2>1, <3>2, <3>4
      <4>3. Pending(k, c[1]) => Pending(k, c[1])'
        BY <1>5, <1>7, <1>15, <3>4 DEF Pending
      <4>4. Waits(c)'
        BY <1>8, <3>2, <4>1, <4>2, <4>3 DEF Waits
      <4>5. QED
        BY <1>8, <2>2, <4>4 DEF Kept
    <3>5. QED
      BY <3>3, <3>4
  <2>6. QED
    BY <2>1, <2>3, <2>4, <2>5 DEF Kept
<1>18. \A c \in given[2] : Joined(h, c[1], c[2])
  BY <1>11 DEF KeptInv
<1>19. QED
  BY <1>2, <1>8, <1>16, <1>17, <1>18 DEF KeptInv

(* The frame that follows killCyclesAt looks where the cycles were.        *)
LEMMA KillDoneKept ==
  ASSUME CubicInv, KeptInv, KillDone
  PROVE  KeptInv'
<1>1. PICK fr : fr = NewFrame(graph.of[killing.from])
  OBVIOUS
<1>2. /\ UNCHANGED <<graph, given>> /\ killing' = Idle /\ killing.pc = "scan"
      /\ stack' = Append(stack, fr)
  BY <1>1 DEF KillDone, At
<1>3. /\ Frames' = Frames \cup {fr}
      /\ fr.node = graph.of[killing.from] /\ fr.fun = 0 /\ fr.pairs = << >>
  BY <1>1, <1>2, FramePushed, NewFrameFacts
<1>4. Home = {fr.node}
  BY <1>2, <1>3 DEF Home, CubicInv, KillingOK, AtNode
<1>5. ASSUME NEW n, NEW f \in Fun, Pending(n, f) PROVE Pending(n, f)'
  <2>1. 0 < f
    BY IndexAssumption, FS_CardinalityType
  <2>2. QED
    BY <1>3, <1>4, <1>5, <2>1 DEF Pending
<1>6. ASSUME NEW c \in given[3] PROVE Kept(c)'
  <2>1. c[1] \in Fun /\ Kept(c)
    BY GivenTyped DEF KeptInv
  <2>2. Waits(c) => Waits(c)'
    BY <1>2, <1>5, <2>1 DEF Waits
  <2>3. InHand(c) => InHand(c)'
    BY <1>3 DEF InHand
  <2>4. QED
    BY <1>2, <2>1, <2>2, <2>3 DEF Kept
<1>7. QED
  BY <1>2, <1>3, <1>6 DEF KeptInv

(* A superset that has got functions is looked at next.                    *)
LEMMA NextSupersetKept ==
  ASSUME CubicInv, KeptInv, NextSuperset
  PROVE  KeptInv'
<1>1. PICK m, fr, new : /\ m = Min(Ahead) /\ fr = [Top EXCEPT !.at = m, !.iter = "valid"]
                        /\ new = NewFrame(m)
  OBVIOUS
<1>2. /\ Top \in Frames /\ Frames = ToSet(Front(stack)) \cup {Top}
      /\ Frames' = ToSet(Front(stack)) \cup {fr, new}
      /\ m \in Ahead /\ m \in Ast /\ Top.node \in Ast
      /\ fr.node = Top.node /\ fr.pairs = Top.pairs /\ fr.fun = Top.fun
      /\ graph' = Grown(graph, m, graph.bits[Top.node])
  BY <1>1, SupersetPushed
<1>3. WellFormed(graph) /\ killing = Idle /\ Home = {} /\ UNCHANGED given
  BY DEF CubicInv, NextSuperset, Propagating, Home, Idle
<1>4. PICK h : h = graph'
  OBVIOUS
<1>5. /\ Known(h) = Known(graph) /\ h.of = graph.of /\ h.sups = graph.sups
      /\ h.conds = graph.conds /\ \A a \in Ast \ {m} : h.bits[a] = graph.bits[a]
  <2>1. PICK X \in SUBSET Fun : X = graph.bits[Top.node]
    BY <1>2, <1>3 DEF WellFormed, Graph
  <2>2. h = Grown(graph, m, X)
    BY <1>2, <1>4, <2>1
  <2>3. QED
    BY <1>2, <1>3, <2>2, BitsFacts DEF SameNodes
<1>6. \A a, b : Joined(graph, a, b) => Joined(h, a, b)
  BY <1>5 DEF Joined
<1>7. new.node = m /\ new.fun = 0 /\ new.pairs = << >>
  BY <1>1, NewFrameFacts
<1>8. ASSUME NEW n, NEW f \in Fun, n = m \/ Pending(n, f) PROVE Pending(n, f)'
  <2>1. 0 < f
    BY IndexAssumption, FS_CardinalityType
  <2>2. QED
    BY <1>2, <1>3, <1>7, <1>8, <2>1 DEF Pending
<1>9. ASSUME NEW c \in given[3] PROVE Kept(c)'
  <2>1. c[1] \in Fun /\ Kept(c)
    BY GivenTyped DEF KeptInv
  <2>2. c[2] \in Known(h) /\ c[3] \in Known(h) /\ c[4] \in Known(h)
    BY <1>5, <2>1 DEF Kept
  <2>3. CASE Joined(graph, c[3], c[4])
    BY <1>4, <1>6, <2>2, <2>3 DEF Kept
  <2>4. CASE InHand(c)
    <3>1. InHand(c)'
      BY <1>2, <2>4 DEF InHand
    <3>2. QED
      BY <1>4, <2>2, <3>1 DEF Kept
  <2>5. CASE Waits(c)
    <3>1. PICK k : k = graph.of[c[2]]
      OBVIOUS
    <3>2. /\ <<c[3], c[4]>> \in ToSet(h.conds[k][c[1]])
          /\ c[1] \in graph.bits[k] => Pending(k, c[1])
          /\ k \in Ast /\ h.of[c[2]] = k
      BY <1>3, <1>5, <2>1, <2>5, <3>1 DEF Waits, Kept, WellFormed, LiveIn
    <3>3. c[1] \in h.bits[k] => Pending(k, c[1])'
      BY <1>5, <1>8, <2>1, <3>2
    <3>4. Waits(c)'
      BY <1>4, <3>2, <3>3 DEF Waits
    <3>5. QED
      BY <1>4, <2>2, <3>4 DEF Kept
  <2>6. QED
    BY <2>1, <2>3, <2>4, <2>5 DEF Kept
<1>10. \A e \in Frames' : e.pairs # << >> => e.fun \in Fun
  BY <1>2, <1>7 DEF KeptInv
<1>11. \A c \in given[2] : Joined(h, c[1], c[2])
  BY <1>6 DEF KeptInv
<1>12. QED
  BY <1>3, <1>4, <1>9, <1>10, <1>11 DEF KeptInv

(* A frame that returns has looked at every function.                      *)
LEMMA ReturnKept ==
  ASSUME CubicInv, KeptInv, ReturnFromPropagate
  PROVE  KeptInv'
<1>1. /\ stack # << >> /\ stack' = Front(stack) /\ killing = Idle
      /\ UNCHANGED <<graph, killing, given>> /\ Top.fun > Cardinality(Fun)
  BY DEF ReturnFromPropagate, Propagating, InLoop2
<1>2. Top \in Frames /\ Frames = Frames' \cup {Top}
  BY <1>1, FrameReturned
<1>3. Home = {} /\ Home' = {}
  BY <1>1 DEF Home, Idle
<1>4. Top.fun \in Nat /\ Cardinality(Fun) \in Nat
  BY <1>2, FramesTyped, IndexAssumption, FS_CardinalityType DEF Frame
<1>5. \A f \in Fun : f \in Nat /\ f <= Cardinality(Fun)
  BY <1>4, IndexAssumption
<1>6. Top.fun \notin Fun /\ \A f \in Fun : ~(Top.fun < f)
  BY <1>1, <1>4, <1>5
<1>7. Top.pairs = << >>
  BY <1>2, <1>6 DEF KeptInv
<1>8. ASSUME NEW c \in given[3] PROVE Kept(c)'
  <2>1. c[1] \in Fun /\ Kept(c)
    BY GivenTyped DEF KeptInv
  <2>2. Waits(c) => Waits(c)'
    BY <1>1, <1>2, <1>3, <1>6, <2>1 DEF Waits, Pending
  <2>3. InHand(c) => InHand(c)'
    BY <1>2, <1>7 DEF InHand, ToSet
  <2>4. QED
    BY <1>1, <2>1, <2>2, <2>3 DEF Kept
<1>9. QED
  BY <1>1, <1>2, <1>8 DEF KeptInv

(* Nothing is given at first.                                              *)
LEMMA KeptInit == Init => KeptInv
<1> SUFFICES ASSUME Init PROVE KeptInv
  OBVIOUS
<1>1. stack = << >> /\ given = <<{}, {}, {}>>
  BY DEF Init
<1>2. Frames = {} /\ given[2] = {} /\ given[3] = {}
  BY <1>1, NoFrames
<1>3. QED
  BY <1>2 DEF KeptInv

(* No step forgets a constraint: one lemma per action.                     *)
LEMMA KeptNext ==
  CubicInv /\ KeptInv /\ [Next]_vars => KeptInv'
<1> SUFFICES ASSUME CubicInv, KeptInv, [Next]_vars PROVE KeptInv'
  OBVIOUS
<1>1. CASE Spin \/ Crash \/ UNCHANGED vars
  <2>1. UNCHANGED <<graph, stack, killing, given>>
    BY <1>1 DEF Spin, Crash, vars
  <2>2. Home' = Home
    BY <2>1 DEF Home
  <2>3. QED
    BY <2>1, <2>2, LookingKept
<1>2. CASE StartSearch \/ Search \/ NoPath \/ StepBack \/ PathFound \/ Collapsed
  BY <1>2, LookingKeepsHome, LookingKept
<1>3. QED
  BY <1>1, <1>2, AddElementofKept, AddSubseteqKept, AddConditionalKept, NextFunctionKept,
     ActivateKept, MergePathKept, KillDoneKept, NextSupersetKept, ReturnKept DEF Next, Step

(* So none is ever forgotten.                                              *)
LEMMA KeptInvariant == Spec => []KeptInv
BY KeptInit, KeptNext, CubicInvariant, PTL DEF Spec

(* When a call returns, every inclusion given is in the graph, however     *)
(* many merges have moved its ends, and so is that of every conditional    *)
(* constraint whose condition holds of the answers.                        *)
THEOREM InclusionsKeptInvariant == Spec => []InclusionsKept
<1>1. CubicInv /\ KeptInv => InclusionsKept
  <2> SUFFICES ASSUME CubicInv, KeptInv, AtRest
               PROVE  /\ \A c \in given[2] : Included(c[1], c[2])
                      /\ \A c \in given[3] :
                           c[1] \in PossibleFunctions(c[2]) => Included(c[3], c[4])
    BY DEF InclusionsKept
  <2>1. Frames = {} /\ Home = {} /\ WellFormed(graph)
    BY NoFrames DEF AtRest, Home, Idle, CubicInv
  <2>2. ASSUME NEW c \in given[2] PROVE Included(c[1], c[2])
    <3>1. c[1] \in Ast /\ c[2] \in Ast /\ Joined(graph, c[1], c[2])
      BY GivenTyped DEF KeptInv
    <3>2. QED
      BY <2>1, <3>1, JoinedIncluded
  <2>3. ASSUME NEW c \in given[3], c[1] \in PossibleFunctions(c[2])
        PROVE  Included(c[3], c[4])
    <3>1. c[3] \in Ast /\ c[4] \in Ast /\ Kept(c)
      BY GivenTyped DEF KeptInv
    <3>2. ~InHand(c)
      BY <2>1 DEF InHand
    <3>3. ~Waits(c)
      <4>1. c[1] \in graph.bits[graph.of[c[2]]]
        BY <2>3, <3>1 DEF PossibleFunctions
      <4>2. QED
        BY <2>1, <4>1 DEF Waits, Pending
    <3>4. QED
      BY <2>1, <3>1, <3>2, <3>3, JoinedIncluded DEF Kept
  <2>4. QED
    BY <2>2, <2>3
<1>2. QED
  BY <1>1, CubicInvariant, KeptInvariant, PTL

(* A new element is to be brought to the supersets by the new frame.       *)
LEMMA AddElementofComplete ==
  ASSUME CubicInv, CompleteInv, NEW c \in Elements, AddElementofConstraint(c[1], c[2])
  PROVE  CompleteInv'
<1>1. PICK fn \in Fun, n \in Ast : c = <<fn, n>>
  BY InputAssumption
<1>2. PICK g : g = AddEmptyVariables(graph, {n})
  OBVIOUS
<1>3. PICK m, fr : /\ m = g.of[n] /\ fr = NewFrame(m)
                   /\ Give(1, c) /\ killing' = killing
                   /\ graph' = [g EXCEPT !.bits[m] = @ \cup {fn}]
                   /\ stack' = <<fr>>
  BY <1>1, <1>2 DEF AddElementofConstraint
<1>4. /\ Frames = {} /\ Home = {} /\ killing = Idle
      /\ given'[1] = given[1] \cup {c} /\ given'[3] = given[3]
  BY <1>3, GivenAfter
<1>5. /\ WellFormed(g) /\ Known(g) = Known(graph) \cup {n}
      /\ \A a \in Known(graph) : g.of[a] = graph.of[a]
      /\ \A a \in LiveIn(g) \ LiveIn(graph) : g.sups[a] = {}
      /\ g.bits = graph.bits /\ g.conds = graph.conds /\ g.sups = graph.sups
  BY <1>2, AddEmptyVariablesFacts DEF CubicInv
<1>6. m \in Ast
  BY <1>3, <1>5 DEF WellFormed, LiveIn
<1>7. PICK h : h = graph'
  OBVIOUS
<1>8. /\ Known(h) = Known(g) /\ LiveIn(h) = LiveIn(g) /\ h.of = g.of /\ h.sups = g.sups
      /\ h.conds = g.conds
      /\ h.bits[m] = g.bits[m] \cup {fn} /\ \A a \in Ast \ {m} : h.bits[a] = g.bits[a]
  <2>1. {fn} \in SUBSET Fun /\ h = Grown(g, m, {fn})
    BY <1>3, <1>7 DEF Grown
  <2>2. QED
    BY <1>5, <1>6, <2>1, BitsFacts DEF SameNodes
<1>9. \A a \in Ast : graph.bits[a] \subseteq h.bits[a]
  BY <1>5, <1>8
<1>10. Frames' = {fr} /\ fr.node = m /\ fr.at = None /\ fr.pairs = << >>
  BY <1>3, OneFrame, NewFrameFacts
<1>11. ElementsThere(given'[1], h)
  <2>1. ASSUME NEW d \in given[1] PROVE d[2] \in Known(h) /\ d[1] \in h.bits[h.of[d[2]]]
    <3>1. d[2] \in Known(graph) /\ d[1] \in graph.bits[graph.of[d[2]]]
      BY DEF CompleteInv, ElementsThere
    <3>2. graph.of[d[2]] \in Ast
      BY <3>1 DEF CubicInv, WellFormed, LiveIn
    <3>3. QED
      BY <1>5, <1>8, <1>9, <3>1, <3>2
  <2>2. c[2] \in Known(h) /\ c[1] \in h.bits[h.of[c[2]]]
    BY <1>1, <1>3, <1>5, <1>8
  <2>3. QED
    BY <1>4, <2>1, <2>2 DEF ElementsThere
<1>12. ASSUME given[3] = {} PROVE NothingWaits' /\ AllCovered'
  <2>1. NothingWaits /\ AllCovered
    BY <1>12 DEF CompleteInv
  <2>2. NothingWaits'
    BY <1>3, <1>4, <1>5, <1>7, <1>8, <1>10, <2>1 DEF NothingWaits
  <2>3. ASSUME NEW x \in LiveIn(h), NEW y \in h.sups[x] PROVE Covered(x, y)'
    <3>1. x \in LiveIn(graph) /\ y \in graph.sups[x] /\ x \in Ast /\ y \in Ast
      BY <1>5, <1>8, <2>3 DEF LiveIn, WellFormed, Graph
    <3>2. graph.bits[x] \subseteq graph.bits[y]
      BY <1>4, <2>1, <3>1 DEF AllCovered, Covered, Behind
    <3>3. CASE x = m
      <4>1. None < y
        BY <3>1, AddressAssumption DEF None
      <4>2. Behind(x, y)'
        BY <1>10, <3>3, <4>1 DEF Behind
      <4>3. QED
        BY <4>2 DEF Covered
    <3>4. CASE x # m
      <4>1. h.bits[x] \subseteq h.bits[y]
        BY <1>5, <1>8, <1>9, <3>1, <3>2, <3>4
      <4>2. QED
        BY <1>7, <4>1 DEF Covered
    <3>5. QED
      BY <3>3, <3>4
  <2>4. QED
    BY <1>7, <2>2, <2>3 DEF AllCovered
<1>13. QED
  BY <1>4, <1>7, <1>11, <1>12 DEF CompleteInv

(* Elements stay where they are while nodes keep their functions.          *)
LEMMA ElementsKept ==
  ASSUME NEW elements, NEW g, NEW h, WellFormed(g), ElementsThere(elements, g),
         Known(g) \subseteq Known(h), \A a \in Known(g) : h.of[a] = g.of[a],
         \A n \in Ast : g.bits[n] \subseteq h.bits[n]
  PROVE  ElementsThere(elements, h)
<1>1. ASSUME NEW c \in elements PROVE c[2] \in Known(h) /\ c[1] \in h.bits[h.of[c[2]]]
  <2>1. c[2] \in Known(g) /\ c[1] \in g.bits[g.of[c[2]]]
    BY DEF ElementsThere
  <2>2. g.of[c[2]] \in Ast
    BY <2>1 DEF WellFormed, LiveIn
  <2>3. QED
    BY <2>1, <2>2
<1>2. QED
  BY <1>1 DEF ElementsThere

(* A new inclusion is where killCyclesAt starts, if it is an edge.         *)
LEMMA AddSubseteqComplete ==
  ASSUME CubicInv, CompleteInv, NEW c \in Inclusions, AddSubseteqConstraint(c[1], c[2])
  PROVE  CompleteInv'
<1>1. PICK from \in Ast, to \in Ast : c = <<from, to>>
  BY InputAssumption
<1>2. PICK g : g = AddEmptyVariables(graph, {from, to})
  OBVIOUS
<1>3. Give(2, c) /\ Include(g, from, to) /\ stack' = stack
  BY <1>1, <1>2 DEF AddSubseteqConstraint
<1>4. /\ stack = << >> /\ Frames = {} /\ Home = {}
      /\ given'[1] = given[1] /\ given'[3] = given[3]
  BY <1>3, GivenAfter
<1>5. /\ WellFormed(g) /\ Known(g) = Known(graph) \cup {from, to}
      /\ \A a \in Known(graph) : g.of[a] = graph.of[a]
      /\ \A a \in LiveIn(g) \ LiveIn(graph) : g.sups[a] = {}
      /\ g.bits = graph.bits /\ g.conds = graph.conds /\ g.sups = graph.sups
  BY <1>2, AddEmptyVariablesFacts DEF CubicInv
<1>6. PICK h : h = graph'
  OBVIOUS
<1>7. Known(h) = Known(g) /\ h.of = g.of /\ h.bits = g.bits /\ h.conds = g.conds
  BY <1>3, <1>5, <1>6, IncludeJoined
<1>8. Frames' = {}
  BY <1>3, <1>4 DEF Frames
<1>9. ElementsThere(given'[1], h)
  BY <1>4, <1>5, <1>7, ElementsKept DEF CompleteInv, CubicInv
<1>10. ASSUME given[3] = {}, NEW x \in LiveIn(g), NEW y \in g.sups[x]
       PROVE  g.bits[x] \subseteq g.bits[y]
  <2>1. x \in LiveIn(graph) /\ y \in graph.sups[x]
    BY <1>5, <1>10
  <2>2. QED
    BY <1>4, <1>5, <1>10, <2>1 DEF CompleteInv, AllCovered, Covered, Behind
<1>11. ASSUME given[3] = {} PROVE AllCovered'
  <2>1. CASE g.of[from] = g.of[to]
    <3>1. h = g
      BY <1>3, <1>6, <2>1 DEF Include
    <3>2. QED
      BY <1>6, <1>10, <1>11, <3>1 DEF AllCovered, Covered
  <2>2. CASE g.of[from] # g.of[to]
    <3>1. PICK n, m : n = g.of[from] /\ m = g.of[to]
      OBVIOUS
    <3>2. n \in LiveIn(g) /\ m \in LiveIn(g) /\ n \in Ast /\ m \in Ast /\ n # m
      BY <1>5, <2>2, <3>1 DEF WellFormed, LiveIn, Known
    <3>3. h = AddEdge(g, n, m) /\ killing'.pc = "scan" /\ killing'.node = n
      BY <1>3, <1>6, <2>2, <3>1 DEF Include, KillCyclesAt, Idle
    <3>4. LiveIn(h) = LiveIn(g) /\ \A a \in Ast \ {n} : h.sups[a] = g.sups[a]
      BY <1>5, <3>2, <3>3, AddEdgeFacts
    <3>5. ASSUME NEW x \in LiveIn(h), NEW y \in h.sups[x] PROVE Covered(x, y)'
      <4>1. CASE x = n
        <5>1. x \in Home'
          BY <3>3, <4>1 DEF Home
        <5>2. QED
          BY <5>1 DEF Covered, Behind
      <4>2. CASE x # n
        <5>1. x \in LiveIn(g) /\ y \in g.sups[x]
          BY <3>4, <3>5, <4>2 DEF LiveIn
        <5>2. QED
          BY <1>6, <1>7, <1>10, <1>11, <5>1 DEF Covered
      <4>3. QED
        BY <4>1, <4>2
    <3>6. QED
      BY <1>6, <3>5 DEF AllCovered
  <2>3. QED
    BY <2>1, <2>2
<1>12. given[3] = {} => NothingWaits'
  BY <1>3, <1>4, <1>5, <1>6, <1>7, <1>8 DEF NothingWaits, CompleteInv
<1>13. QED
  BY <1>4, <1>6, <1>9, <1>11, <1>12 DEF CompleteInv

(* With a conditional constraint the second part promises nothing.         *)
LEMMA AddConditionalComplete ==
  ASSUME CubicInv, CompleteInv,
         NEW c \in Conditionals, AddConditionalConstraint(c[1], c[2], c[3], c[4])
  PROVE  CompleteInv'
<1>1. PICK fn \in Fun, in \in Ast, from \in Ast, to \in Ast : c = <<fn, in, from, to>>
  BY InputAssumption
<1>2. PICK g : g = AddEmptyVariables(graph, {in, from, to})
  OBVIOUS
<1>3. /\ Give(3, c)
      /\ graph' = [g EXCEPT !.conds[g.of[in]][fn] = Append(@, <<from, to>>)]
  BY <1>1, <1>2 DEF AddConditionalConstraint
<1>4. given'[1] = given[1] /\ given'[3] # {}
  BY <1>3, GivenAfter
<1>5. /\ WellFormed(g) /\ Known(graph) \subseteq Known(g)
      /\ \A a \in Known(graph) : g.of[a] = graph.of[a] /\ g.bits = graph.bits
  BY <1>2, AddEmptyVariablesFacts DEF CubicInv
<1>6. g \in Graph
  BY <1>5 DEF WellFormed
<1>7. graph'.of = g.of /\ graph'.bits = g.bits
  BY <1>3, <1>6 DEF Graph
<1>8. ElementsThere(given'[1], graph')
  BY <1>4, <1>5, <1>7 DEF ElementsThere, CompleteInv, Known
<1>9. QED
  BY <1>4, <1>8 DEF CompleteInv

(* Looking for cycles.                                                     *)
LEMMA LookingComplete ==
  ASSUME CompleteInv, UNCHANGED <<graph, stack, given>>, Home \subseteq Home',
         killing' # Idle => killing # Idle
  PROVE  CompleteInv'
<1>1. Frames' = Frames
  BY DEF Frames
<1>2. \A n, m : Covered(n, m) => Covered(n, m)'
  BY <1>1 DEF Covered, Behind
<1>3. AllCovered => AllCovered'
  BY <1>2 DEF AllCovered
<1>4. NothingWaits => NothingWaits'
  BY <1>1 DEF NothingWaits
<1>5. QED
  BY <1>3, <1>4 DEF CompleteInv

(* Steps of a frame that do not move its second loop.                      *)
LEMMA FirstLoopComplete ==
  ASSUME CubicInv, CompleteInv, NextFunction
  PROVE  CompleteInv'
<1>1. PICK f, n, fr :
        /\ f = Top.fun + 1 /\ n = Top.node /\ killing = Idle /\ stack # << >>
        /\ UNCHANGED <<killing, status, given>>
        /\ stack' = [stack EXCEPT ![Len(stack)] = fr]
        /\ \/ /\ f \in Fun
              /\ fr = [Top EXCEPT !.fun = f, !.pairs = graph.conds[n][f]]
              /\ graph' = [graph EXCEPT !.conds[n][f] = << >>]
           \/ /\ fr = [Top EXCEPT !.fun = f]
              /\ graph' = graph
  BY DEF NextFunction, Propagating, SetTop
<1>2. WellFormed(graph) /\ graph \in Graph /\ Home = {} /\ Home' = {}
  BY <1>1 DEF CubicInv, WellFormed, Home, Idle
<1>3. Top \in FrameOK(graph) /\ Top \in Frame /\ Top \in Frames
  <2>1. Top \in Frames
    BY <1>1, FrontAndLast DEF CubicInv, Frames, Top
  <2>2. QED
    BY <2>1, FramesTyped
<1>4. n \in Ast /\ f \in Nat
  BY <1>1, <1>3 DEF Frame
<1>5. /\ fr \in FrameOK(graph) /\ fr.node = Top.node /\ fr.at = Top.at
      /\ fr.pairs = Top.pairs \/ (f \in Fun /\ fr.pairs = graph.conds[n][f])
  <2>1. CASE f \in Fun /\ fr = [Top EXCEPT !.fun = f, !.pairs = graph.conds[n][f]]
    <3>1. graph.conds[n][f] \in Pairs(graph) /\ Pairs(graph) \subseteq Seq(Ast \X Ast)
      BY <1>2, <1>4, <2>1 DEF WellFormed, Pairs, Known
    <3>2. QED
      BY <1>3, <1>4, <2>1, <3>1 DEF FrameOK, Frame
  <2>2. CASE fr = [Top EXCEPT !.fun = f]
    BY <1>3, <1>4, <2>2 DEF FrameOK, Frame
  <2>3. QED
    BY <1>1, <2>1, <2>2
<1>6. Frames = ToSet(Front(stack)) \cup {Top} /\ Frames' = ToSet(Front(stack)) \cup {fr}
  BY <1>1, <1>5, TopReplaced
<1>7. PICK h : h = graph'
  OBVIOUS
<1>8. /\ h.of = graph.of /\ h.sups = graph.sups /\ h.bits = graph.bits
      /\ h.conds = graph.conds
         \/ \E e \in Fun : h.conds = [graph.conds EXCEPT ![n][e] = << >>]
  BY <1>1, <1>2, <1>7 DEF Graph
<1>9. Known(h) = Known(graph) /\ LiveIn(h) = LiveIn(graph)
  BY <1>8 DEF Known, LiveIn
<1>10. \A x, y : Covered(x, y) => Covered(x, y)'
  BY <1>2, <1>5, <1>6, <1>7, <1>8 DEF Covered, Behind
<1>11. AllCovered => AllCovered'
  BY <1>7, <1>8, <1>9, <1>10 DEF AllCovered
<1>12. ASSUME NothingWaits PROVE NothingWaits'
  <2>1. \A a \in Ast : \A e \in Fun : h.conds[a][e] = << >>
    BY <1>2, <1>4, <1>8, <1>12 DEF NothingWaits, Graph
  <2>2. fr.pairs = << >>
    BY <1>3, <1>4, <1>5, <1>12 DEF NothingWaits
  <2>3. QED
    BY <1>1, <1>6, <1>7, <1>12, <2>1, <2>2 DEF NothingWaits
<1>13. ElementsThere(given[1], h)
  BY <1>8, <1>9 DEF CompleteInv, ElementsThere
<1>14. QED
  BY <1>1, <1>7, <1>11, <1>12, <1>13 DEF CompleteInv

(* Without conditional constraints nothing is activated.                   *)
LEMMA ActivateComplete ==
  ASSUME CubicInv, CompleteInv, ActivateConditionalConstraint
  PROVE  CompleteInv'
<1>1. /\ stack # << >> /\ Top.pairs # << >> /\ UNCHANGED given
      /\ Include(graph, Head(Top.pairs)[1], Head(Top.pairs)[2])
  BY DEF ActivateConditionalConstraint, Propagating
<1>2. Top \in Frames /\ Top \in FrameOK(graph)
  <2>1. Top \in Frames
    BY <1>1, FrontAndLast DEF CubicInv, Frames, Top
  <2>2. QED
    BY <2>1, FramesTyped
<1>3. given[3] # {}
  BY <1>1, <1>2 DEF CompleteInv, NothingWaits
<1>4. PICK from \in Known(graph), to \in Known(graph) : Include(graph, from, to)
  <2>1. Head(Top.pairs) \in Known(graph) \X Known(graph)
    BY <1>1, <1>2, HeadAndTail DEF FrameOK, Pairs
  <2>2. QED
    BY <1>1, <2>1
<1>5. Known(graph') = Known(graph) /\ graph'.of = graph.of /\ graph'.bits = graph.bits
  BY <1>4, IncludeJoined DEF CubicInv
<1>6. ElementsThere(given[1], graph')
  BY <1>5 DEF CompleteInv, ElementsThere
<1>7. QED
  BY <1>1, <1>3, <1>6 DEF CompleteInv

(* A merged node's functions and edges go to the node it is merged into,   *)
(* which is still to be looked at.                                         *)
LEMMA MergePathComplete ==
  ASSUME CubicInv, CompleteInv, MergePath
  PROVE  CompleteInv'
<1> DEFINE p == killing.path
<1>1. PICK n1, n2, q : n1 = Last(p) /\ n2 = Last(Front(p)) /\ q = Append(Front(Front(p)), n1)
  OBVIOUS
<1>2. /\ killing.pc = "merge" /\ Len(p) > 1 /\ UNCHANGED given
      /\ graph' = MergeNodes(graph, n1, n2)
      /\ stack' = [i \in DOMAIN stack |-> Invalidate(graph, stack[i], n1, n2)]
      /\ killing' = [killing EXCEPT !.path = q]
  BY <1>1 DEF MergePath, At, Curr
<1>3. WellFormed(graph) /\ killing \in Killing /\ Merging /\ killing # Idle
  BY <1>2 DEF CubicInv, KillingOK, Idle
<1>4. /\ p \in Seq(Ast) /\ ToSet(p) \subseteq LiveIn(graph)
      /\ \A i, j \in DOMAIN p : i # j => p[i] # p[j]
  BY <1>2, <1>3 DEF Killing, Merging
<1>5. /\ ToSet(q) = ToSet(p) \ {n2}
      /\ n1 \in ToSet(p) /\ n2 \in ToSet(p) /\ n1 # n2
  BY <1>1, <1>2, <1>4, MergedPath
<1>6. n1 \in LiveIn(graph) /\ n2 \in LiveIn(graph) /\ n1 \in Ast /\ n2 \in Ast
  BY <1>4, <1>5 DEF LiveIn
<1>7. Home = ToSet(p) /\ Home' = ToSet(q)
  BY <1>2, <1>3 DEF Home, Killing
<1>8. PICK h : h = graph'
  OBVIOUS
<1>9. h = MergeNodes(graph, n1, n2)
  BY <1>2, <1>8
<1>10. /\ Known(h) = Known(graph) /\ LiveIn(h) = LiveIn(graph) \ {n2}
       /\ h.of = [a \in Ast |-> IF graph.of[a] = n2 THEN n1 ELSE graph.of[a]]
  BY <1>3, <1>5, <1>6, <1>9, MergeNodesFacts
<1>11. /\ h.bits[n1] = graph.bits[n1] \cup graph.bits[n2]
       /\ \A n \in Ast \ {n1} : h.bits[n] = graph.bits[n]
  <2>1. h.bits = [graph.bits EXCEPT ![n1] = @ \cup graph.bits[n2]]
    BY <1>9 DEF MergeNodes
  <2>2. graph.bits \in [Ast -> SUBSET Fun]
    BY <1>3 DEF WellFormed, Graph
  <2>3. QED
    BY <1>6, <2>1, <2>2
<1>12. ElementsThere(given[1], h)
  <2>1. ASSUME NEW c \in given[1] PROVE c[2] \in Known(h) /\ c[1] \in h.bits[h.of[c[2]]]
    <3>1. c[2] \in Known(graph) /\ c[1] \in graph.bits[graph.of[c[2]]]
      BY DEF CompleteInv, ElementsThere
    <3>2. c[2] \in Ast /\ graph.of[c[2]] \in Ast
      BY <1>3, <3>1 DEF WellFormed, LiveIn, Known
    <3>3. CASE graph.of[c[2]] = n2
      BY <1>10, <1>11, <3>1, <3>2, <3>3
    <3>4. CASE graph.of[c[2]] # n2
      <4>1. h.of[c[2]] = graph.of[c[2]]
        BY <1>10, <3>2, <3>4
      <4>2. QED
        BY <1>10, <1>11, <3>1, <3>2, <4>1
    <3>5. QED
      BY <3>3, <3>4
  <2>2. QED
    BY <2>1 DEF ElementsThere
<1>13. ASSUME given[3] = {} PROVE NothingWaits'
  <2>1. NothingWaits /\ stack = << >>
    BY <1>3, <1>13 DEF CompleteInv, NothingWaits
  <2>2. DOMAIN stack = {}
    BY <2>1
  <2>3. stack' = << >> /\ Frames' = {}
    BY <1>2, <2>2 DEF Frames, ToSet
  <2>4. ASSUME NEW n \in Ast, NEW f \in Fun PROVE h.conds[n][f] = << >>
    <3>1. /\ h.conds = [graph.conds EXCEPT ![n1] = [e \in Fun |-> @[e] \o graph.conds[n2][e]]]
          /\ graph.conds \in [Ast -> [Fun -> Pairs(graph)]]
          /\ \A a \in Ast : \A e \in Fun : graph.conds[a][e] = << >>
      BY <1>3, <1>9, <2>1 DEF MergeNodes, WellFormed, NothingWaits
    <3>2. CASE n = n1
      <4>1. h.conds[n][f] = graph.conds[n1][f] \o graph.conds[n2][f]
        <5>1. PICK row : row = [e \in Fun |-> graph.conds[n1][e] \o graph.conds[n2][e]]
          OBVIOUS
        <5>2. h.conds[n1] = row
          BY <1>6, <3>1, <5>1
        <5>3. row[f] = graph.conds[n1][f] \o graph.conds[n2][f]
          BY <5>1
        <5>4. QED
          BY <3>2, <5>2, <5>3
      <4>2. << >> \o << >> = << >>
        OBVIOUS
      <4>3. QED
        BY <1>6, <3>1, <4>1, <4>2
    <3>3. CASE n # n1
      BY <3>1, <3>3
    <3>4. QED
      BY <3>2, <3>3
  <2>5. QED
    BY <1>8, <2>3, <2>4 DEF NothingWaits
<1>14. ASSUME given[3] = {} PROVE AllCovered'
  <2>1. AllCovered /\ Frames = {}
    <3>1. stack = << >>
      BY <1>3, <1>14 DEF CompleteInv, NothingWaits
    <3>2. QED
      BY <1>14, <3>1, NoFrames DEF CompleteInv
  <2>2. ASSUME NEW x \in LiveIn(h), NEW y \in h.sups[x] PROVE Covered(x, y)'
    <3>1. CASE x \in ToSet(p)
      BY <1>5, <1>7, <1>10, <3>1 DEF Covered, Behind
    <3>2. CASE x \notin ToSet(p)
      <4>1. x \in LiveIn(graph) /\ x \in Ast /\ x # n1 /\ x # n2
        BY <1>5, <1>10, <3>2 DEF LiveIn
      <4>2. \A z \in graph.sups[x] : graph.bits[x] \subseteq graph.bits[z]
        BY <1>7, <2>1, <3>2, <4>1 DEF AllCovered, Covered, Behind
      <4>3. h.bits[x] = graph.bits[x]
        BY <1>11, <4>1
      <4>4. y \in Ast
        BY <1>6, <1>9, <4>1 DEF MergeNodes, CubicInv, WellFormed, Graph
      <4>5. y = n1 \/ (y # n1 /\ y \in graph.sups[x])
        BY <1>9, <4>1 DEF MergeNodes
      <4>6. CASE y # n1 /\ y \in graph.sups[x]
        BY <1>8, <1>11, <4>2, <4>3, <4>4, <4>6 DEF Covered
      <4>7. CASE y = n1
        <5>1. n2 \in graph.sups[x] \/ n1 \in graph.sups[x]
          <6>1. x \in graph.subs[n2] \/ n1 \in graph.sups[x]
            BY <1>9, <4>1, <4>7 DEF MergeNodes
          <6>2. n2 \in graph.sups[x] <=> x \in graph.subs[n2]
            BY <1>3, <1>6, <4>1 DEF WellFormed, LiveLinks
          <6>3. QED
            BY <6>1, <6>2
        <5>2. h.bits[x] \subseteq h.bits[n1]
          BY <1>11, <4>2, <4>3, <5>1
        <5>3. QED
          BY <1>8, <4>7, <5>2 DEF Covered
      <4>8. QED
        BY <4>5, <4>6, <4>7
    <3>3. QED
      BY <3>1, <3>2
  <2>3. QED
    BY <1>8, <2>2 DEF AllCovered
<1>15. QED
  BY <1>2, <1>8, <1>12, <1>13, <1>14 DEF CompleteInv

(* The frame that follows killCyclesAt brings what is missing above.       *)
LEMMA KillDoneComplete ==
  ASSUME CubicInv, CompleteInv, KillDone
  PROVE  CompleteInv'
<1>1. PICK fr : fr = NewFrame(graph.of[killing.from])
  OBVIOUS
<1>2. /\ UNCHANGED <<graph, given>> /\ killing' = Idle /\ killing.pc = "scan"
      /\ stack' = Append(stack, fr)
  BY <1>1 DEF KillDone, At
<1>3. /\ Frames' = Frames \cup {fr}
      /\ fr.node = graph.of[killing.from] /\ fr.at = None /\ fr.pairs = << >>
  BY <1>1, <1>2, FramePushed, NewFrameFacts
<1>4. Home = {fr.node}
  BY <1>2, <1>3 DEF Home, CubicInv, KillingOK, AtNode
<1>5. ASSUME NEW x, NEW y \in Ast, Covered(x, y) PROVE Covered(x, y)'
  <2>1. None < y
    BY AddressAssumption DEF None
  <2>2. QED
    BY <1>2, <1>3, <1>4, <1>5, <2>1 DEF Covered, Behind
<1>6. AllCovered => AllCovered'
  <2>1. \A x \in LiveIn(graph) : graph.sups[x] \subseteq Ast
    BY DEF CubicInv, WellFormed, Graph, LiveIn
  <2>2. QED
    BY <1>2, <1>5, <2>1 DEF AllCovered
<1>7. NothingWaits => NothingWaits'
  BY <1>2, <1>3 DEF NothingWaits
<1>8. QED
  BY <1>2, <1>6, <1>7 DEF CompleteInv

(* The superset that has got the node's functions is covered, those ahead  *)
(* are still ahead, and what is above the superset is new frame's work.    *)
LEMMA NextSupersetComplete ==
  ASSUME CubicInv, CompleteInv, NextSuperset
  PROVE  CompleteInv'
<1>1. PICK m, fr, new : /\ m = Min(Ahead) /\ fr = [Top EXCEPT !.at = m, !.iter = "valid"]
                        /\ new = NewFrame(m)
  OBVIOUS
<1>2. /\ Top \in Frames /\ Frames = ToSet(Front(stack)) \cup {Top}
      /\ Frames' = ToSet(Front(stack)) \cup {fr, new}
      /\ m \in Ahead /\ m \in Ast /\ Top.node \in Ast /\ \A x \in Ahead : m <= x
      /\ fr.node = Top.node /\ fr.pairs = Top.pairs /\ fr.at = m
      /\ graph' = Grown(graph, m, graph.bits[Top.node])
  BY <1>1, SupersetPushed
<1>3. /\ WellFormed(graph) /\ killing = Idle /\ killing' = Idle /\ Home = {}
      /\ UNCHANGED given
  BY DEF CubicInv, NextSuperset, Propagating, Home, Idle
<1>4. PICK h : h = graph'
  OBVIOUS
<1>5. /\ Known(h) = Known(graph) /\ LiveIn(h) = LiveIn(graph)
      /\ h.of = graph.of /\ h.sups = graph.sups /\ h.conds = graph.conds
      /\ h.bits[m] = graph.bits[m] \cup graph.bits[Top.node]
      /\ \A a \in Ast \ {m} : h.bits[a] = graph.bits[a]
  <2>1. PICK X \in SUBSET Fun : X = graph.bits[Top.node]
    BY <1>2, <1>3 DEF WellFormed, Graph
  <2>2. h = Grown(graph, m, X)
    BY <1>2, <1>4, <2>1
  <2>3. QED
    BY <1>2, <1>3, <2>1, <2>2, BitsFacts DEF SameNodes
<1>6. \A a \in Ast : graph.bits[a] \subseteq h.bits[a]
  BY <1>5
<1>7. new.node = m /\ new.at = None /\ new.pairs = << >>
  BY <1>1, NewFrameFacts
<1>8. ElementsThere(given[1], h)
  BY <1>3, <1>5, <1>6, ElementsKept DEF CompleteInv
<1>9. NothingWaits => NothingWaits'
  BY <1>2, <1>3, <1>4, <1>5, <1>7 DEF NothingWaits
<1>10. ASSUME NEW x \in LiveIn(graph), NEW y \in graph.sups[x], Covered(x, y)
       PROVE  Covered(x, y)'
  <2>1. x \in Ast /\ y \in Ast
    BY <1>3 DEF LiveIn, WellFormed, Graph
  <2>2. CASE x = m
    <3>1. None < y
      BY <2>1, AddressAssumption DEF None
    <3>2. QED
      BY <1>2, <1>7, <2>2, <3>1 DEF Covered, Behind
  <2>3. CASE x # m
    <3>1. h.bits[x] = graph.bits[x]
      BY <1>5, <2>1, <2>3
    <3>2. CASE graph.bits[x] \subseteq graph.bits[y]
      BY <1>4, <1>6, <2>1, <3>1, <3>2 DEF Covered
    <3>3. CASE ~(graph.bits[x] \subseteq graph.bits[y])
      <4>1. PICK e \in Frames : e.node = x /\ e.at < y
        BY <1>3, <1>10, <3>3 DEF Covered, Behind
      <4>2. CASE e # Top
        BY <1>2, <4>1, <4>2 DEF Covered, Behind
      <4>3. CASE e = Top
        <5>1. y > Top.at
          <6>1. Top.at \in Nat /\ y \in Nat
            <7>1. Top.at \in Ast \cup {None}
              BY <1>2, FramesTyped DEF Frame
            <7>2. CASE Top.at = None
              BY <2>1, <7>2, NoneIsNoNode DEF None
            <7>3. CASE Top.at \in Ast
              BY <2>1, <7>3, NoneIsNoNode
            <7>4. QED
              BY <7>1, <7>2, <7>3
          <6>2. QED
            BY <4>1, <4>3, <6>1
        <5>2. y \in Ahead
          BY <4>1, <4>3, <5>1 DEF Ahead
        <5>3. m <= y /\ m \in Nat /\ y \in Nat
          BY <1>2, <2>1, <5>2, NoneIsNoNode
        <5>4. CASE m = y
          <6>1. h.bits[x] \subseteq h.bits[y]
            BY <1>5, <3>1, <4>1, <4>3, <5>4
          <6>2. QED
            BY <1>4, <6>1 DEF Covered
        <5>5. CASE m < y
          BY <1>2, <4>1, <4>3, <5>5 DEF Covered, Behind
        <5>6. QED
          BY <5>3, <5>4, <5>5
      <4>4. QED
        BY <4>2, <4>3
    <3>4. QED
      BY <3>2, <3>3
  <2>4. QED
    BY <2>2, <2>3
<1>11. AllCovered => AllCovered'
  BY <1>4, <1>5, <1>10 DEF AllCovered
<1>12. QED
  BY <1>3, <1>4, <1>8, <1>9, <1>11 DEF CompleteInv

(* A frame that returns has no superset ahead.                             *)
LEMMA ReturnComplete ==
  ASSUME CubicInv, CompleteInv, ReturnFromPropagate
  PROVE  CompleteInv'
<1>1. /\ stack # << >> /\ stack' = Front(stack) /\ killing = Idle
      /\ UNCHANGED <<graph, killing, given>> /\ Ahead = {}
  BY DEF ReturnFromPropagate, Propagating
<1>2. Top \in Frames /\ Frames = Frames' \cup {Top}
  BY <1>1, FrameReturned
<1>3. Home = {} /\ WellFormed(graph)
  BY <1>1 DEF Home, Idle, CubicInv
<1>4. ASSUME NEW x \in LiveIn(graph), NEW y \in graph.sups[x], Covered(x, y)
      PROVE  Covered(x, y)'
  <2>1. ASSUME NEW e \in Frames, e.node = x, e.at < y PROVE e \in Frames'
    <3>1. SUFFICES ASSUME e = Top PROVE FALSE
      BY <1>2
    <3>2. Top.at \in Nat /\ y \in Nat
      <4>1. y \in Ast /\ Top.at \in Ast \cup {None}
        BY <1>2, <1>3, FramesTyped DEF Frame, LiveIn, WellFormed, Graph
      <4>2. CASE Top.at = None
        BY <4>1, <4>2, NoneIsNoNode DEF None
      <4>3. CASE Top.at \in Ast
        BY <4>1, <4>3, NoneIsNoNode
      <4>4. QED
        BY <4>1, <4>2, <4>3
    <3>3. y \in Ahead
      BY <2>1, <3>1, <3>2 DEF Ahead
    <3>4. QED
      BY <1>1, <3>3
  <2>2. QED
    BY <1>1, <1>3, <1>4, <2>1 DEF Covered, Behind
<1>5. AllCovered => AllCovered'
  BY <1>1, <1>4 DEF AllCovered
<1>6. NothingWaits => NothingWaits'
  BY <1>1, <1>2 DEF NothingWaits
<1>7. QED
  BY <1>1, <1>5, <1>6 DEF CompleteInv

(* The empty graph is a solution of no constraints.                        *)
LEMMA CompleteInit == Init => CompleteInv
<1> SUFFICES ASSUME Init PROVE CompleteInv
  OBVIOUS
<1>1. /\ stack = << >> /\ given = <<{}, {}, {}>>
      /\ \A n \in Ast : graph.sups[n] = {}
      /\ \A n \in Ast : \A f \in Fun : graph.conds[n][f] = << >>
  BY DEF Init
<1>2. Frames = {} /\ given[1] = {}
  BY <1>1, NoFrames
<1>3. QED
  BY <1>1, <1>2 DEF CompleteInv, ElementsThere, NothingWaits, AllCovered, LiveIn

(* Every step keeps the invariant: one lemma per action.                   *)
LEMMA CompleteNext ==
  CubicInv /\ CompleteInv /\ [Next]_vars => CompleteInv'
<1> SUFFICES ASSUME CubicInv, CompleteInv, [Next]_vars PROVE CompleteInv'
  OBVIOUS
<1>1. CASE Spin \/ Crash \/ UNCHANGED vars
  <2>1. UNCHANGED <<graph, stack, killing, given>>
    BY <1>1 DEF Spin, Crash, vars
  <2>2. Home' = Home
    BY <2>1 DEF Home
  <2>3. QED
    BY <2>1, <2>2, LookingComplete
<1>2. CASE StartSearch \/ Search \/ NoPath \/ StepBack \/ PathFound \/ Collapsed
  <2>1. killing.pc \in {"scan", "search", "back", "merge"}
    BY <1>2 DEF StartSearch, Search, NoPath, StepBack, PathFound, Collapsed, At
  <2>2. killing # Idle
    BY <2>1 DEF Idle
  <2>3. QED
    BY <1>2, <2>2, LookingKeepsHome, LookingComplete
<1>3. QED
  BY <1>1, <1>2, AddElementofComplete, AddSubseteqComplete, AddConditionalComplete,
     FirstLoopComplete, ActivateComplete, MergePathComplete, KillDoneComplete,
     NextSupersetComplete, ReturnComplete DEF Next, Step

(* So it holds in every state.                                             *)
LEMMA CompleteInvariant == Spec => []CompleteInv
BY CompleteInit, CompleteNext, CubicInvariant, PTL DEF Spec

(* As long as no conditional constraint is given, nothing is missing from  *)
(* the answers when a call returns: with SoundInvariant they are then the  *)
(* least solution.                                                         *)
THEOREM CompleteInvariantAtRest == Spec => []CompleteWithoutConditionals
<1>1. CubicInv /\ KeptInv /\ CompleteInv => CompleteWithoutConditionals
  <2> SUFFICES ASSUME CubicInv, KeptInv, CompleteInv, given[3] = {}, AtRest
               PROVE  Least \subseteq Answers
    BY DEF CompleteWithoutConditionals, CompleteAtRest
  <2>1. Frames = {} /\ Home = {} /\ WellFormed(graph)
    BY NoFrames DEF AtRest, Home, Idle, CubicInv
  <2>2. graph.bits \in [Ast -> SUBSET Fun]
    BY <2>1 DEF WellFormed, Graph
  <2>3. ASSUME NEW a \in Known(graph), NEW f \in graph.bits[graph.of[a]]
        PROVE  <<f, a>> \in Answers
    BY DEF Answers, PossibleFunctions, Known
  <2>4. ASSUME NEW f, NEW a, <<f, a>> \in Answers
        PROVE  a \in Ast /\ f \in PossibleFunctions(a)
    BY <2>4 DEF Answers
  <2>5. given[1] \subseteq Answers
    <3>1. ASSUME NEW c \in given[1] PROVE c \in Answers
      <4>1. c = <<c[1], c[2]>>
        BY GivenTyped
      <4>2. <<c[1], c[2]>> \in Answers
        BY <2>3 DEF CompleteInv, ElementsThere
      <4>3. QED
        BY <4>1, <4>2
    <3>2. QED
      BY <3>1
  <2>6. ASSUME NEW s, s \subseteq Answers PROVE Propagated(s) \subseteq Answers
    <3>1. Flows(s) = given[2]
      BY DEF Flows
    <3>2. ASSUME NEW p \in Fun \X Ast, NEW e \in given[2], e[2] = p[2], <<p[1], e[1]>> \in s
          PROVE  p \in Answers
      <4>1. e[1] \in Ast /\ e[2] \in Ast /\ Joined(graph, e[1], e[2])
        BY GivenTyped DEF KeptInv
      <4>2. PICK n, m : n = graph.of[e[1]] /\ m = graph.of[e[2]]
        OBVIOUS
      <4>3. /\ n \in LiveIn(graph)
            /\ n = m \/ m \in graph.sups[n]
            /\ e[1] \in Known(graph) /\ e[2] \in Known(graph)
        BY <2>1, <4>1, <4>2 DEF Joined, WellFormed
      <4>4. graph.bits[n] \subseteq graph.bits[m]
        <5>1. AllCovered
          BY DEF CompleteInv
        <5>2. m \in graph.sups[n] => graph.bits[n] \subseteq graph.bits[m]
          BY <2>1, <4>3, <5>1 DEF AllCovered, Covered, Behind
        <5>3. QED
          BY <4>3, <5>2
      <4>5. p[1] \in graph.bits[n]
        <5>1. p[1] \in PossibleFunctions(e[1])
          BY <2>4, <2>6, <3>2
        <5>2. QED
          BY <4>2, <4>3, <5>1 DEF PossibleFunctions, Known
      <4>6. <<p[1], e[2]>> \in Answers
        BY <2>3, <4>2, <4>3, <4>4, <4>5
      <4>7. QED
        BY <3>2, <4>6
    <3>3. QED
      BY <2>6, <3>1, <3>2 DEF Propagated
  <2>7. QED
    BY <2>5, <2>6, LeastIsLeast
<1>2. QED
  BY <1>1, CubicInvariant, KeptInvariant, CompleteInvariant, PTL
=============================================================================
