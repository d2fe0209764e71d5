------------------------- MODULE CubicSolverProofs -------------------------
(***************************************************************************)
(* Proofs about the shape of the graph CubicSolver keeps: its types, that  *)
(* the neighbours of live solver nodes are live and know each other, and   *)
(* that changes are only propagated through a graph without cycles.        *)
(*                                                                         *)
(* The invariant CubicInv has one part per data structure: the graph, the  *)
(* frames of propagateNodeChanges, and where killCyclesAt, findPath and    *)
(* mergePath are.                                                          *)
(***************************************************************************)
EXTENDS CubicSolver, ProofFacts

(* The AST nodes that have a solver node, and the solver nodes in use.     *)
Known(g) == {a \in Ast : g.of[a] # None}
LiveIn(g) == {n \in Ast : g.of[n] = n}

(* The list of a conditional constraint names AST nodes that are known.    *)
Pairs(g) == Seq(Known(g) \X Known(g))

(* The edges of solver nodes in use go to solver nodes in use, and each    *)
(* end knows the other.                                                    *)
LiveLinks(g) ==
  \A n \in LiveIn(g) :
    /\ g.sups[n] \subseteq LiveIn(g) /\ g.subs[n] \subseteq LiveIn(g)
    /\ n \notin g.sups[n]
    /\ \A m \in LiveIn(g) : m \in g.sups[n] <=> n \in g.subs[m]

(* The graph: nodes in use represent themselves, and the records of AST    *)
(* nodes that are not known are empty.                                     *)
WellFormed(g) ==
  /\ g \in Graph
  /\ \A a \in Known(g) : g.of[a] \in LiveIn(g)
  /\ LiveLinks(g)
  /\ \A a \in Ast \ Known(g) : g.sups[a] = {} /\ g.subs[a] = {}
  /\ g.conds \in [Ast -> [Fun -> Pairs(g)]]

(* A call of propagateNodeChanges, whose list names AST nodes in the       *)
(* graph.                                                                  *)
FrameOK(g) == {fr \in Frame : fr.pairs \in Pairs(g)}

-----------------------------------------------------------------------------
(* Where killCyclesAt is.  Unless it merges, it stands on the solver node  *)
(* of the AST node it was called with; while it merges, that node is on    *)
(* the path.                                                               *)
ReachedBy(dist) == {m \in Ast : dist[m] # -1}
Reached == ReachedBy(killing.dist)

AtNode ==
  killing.pc \in {"scan", "search", "back"} =>
    /\ killing.from \in Known(graph)
    /\ killing.node = graph.of[killing.from]

Scanning == killing.pc = "scan" => killing.path = << >>

(* Every distance below one that was given was given too.                  *)
Gapless(dist) ==
  \A m \in ReachedBy(dist) : \A j \in 0 .. dist[m] : \E k \in Ast : dist[k] = j

Distances == Gapless(killing.dist)

(* Breadth first search: what was reached and is not queued has all its    *)
(* supersets reached.                                                      *)
Searching ==
  killing.pc = "search" =>
    /\ killing.path = << >>
    /\ killing.t \in Reached
    /\ Reached \subseteq LiveIn(graph)
    /\ ToSet(killing.queue) \subseteq Reached
    /\ \A m \in Reached \ ToSet(killing.queue) : graph.sups[m] \subseteq Reached
    /\ killing.node \in Reached => killing.queue # << >>

(* findPath goes down the distances, from the node to one of its           *)
(* supersets.                                                              *)
GoingBack ==
  killing.pc = "back" =>
    /\ killing.path # << >> /\ killing.path[1] = killing.node
    /\ ToSet(killing.path) \subseteq LiveIn(graph) \cap Reached
    /\ \A i, j \in DOMAIN killing.path :
         i < j => killing.dist[killing.path[i]] > killing.dist[killing.path[j]]

(* mergePath has a path of distinct nodes, one of which is the node        *)
(* killCyclesAt was called with.                                           *)
Merging ==
  killing.pc = "merge" =>
    /\ killing.from \in Known(graph)
    /\ graph.of[killing.from] \in ToSet(killing.path)
    /\ ToSet(killing.path) \subseteq LiveIn(graph)
    /\ \A i, j \in DOMAIN killing.path : i # j => killing.path[i] # killing.path[j]

(* All there is to say about a call of killCyclesAt.                       *)
KillingOK ==
  /\ killing \in Killing
  /\ killing.pc = "none" => killing = Idle
  /\ killing.pc \in {"search", "back"} => killing.t \in graph.sups[killing.node]
  /\ AtNode /\ Scanning /\ Distances /\ Searching /\ GoingBack /\ Merging

-----------------------------------------------------------------------------
(* A set of nodes each of which has a superset in the set: where there is  *)
(* a cycle there is one.                                                   *)
Sinkless(g, S) == S \subseteq LiveIn(g) /\ \A n \in S : g.sups[n] \cap S # {}

(* A set of nodes that includes all the supersets of its nodes.            *)
ClosedUp(g, S) == \A n \in S : g.sups[n] \subseteq S

(* Every cycle goes through the node killCyclesAt was called with, or      *)
(* through the path it merges; and through none of the supersets of the    *)
(* node it is done with, t being the last of them.                         *)
Home == CASE killing.pc = "none"  -> {}
          [] killing.pc = "merge" -> ToSet(killing.path)
          [] OTHER                -> {killing.node}

CyclesAtHome == \A S \in SUBSET Ast : Sinkless(graph, S) /\ S # {} => S \cap Home # {}

(* The supersets the loop of killCyclesAt is done with.                    *)
Done == IF killing.pc = "scan"
        THEN {m \in graph.sups[killing.node] : m <= killing.t}
        ELSE {m \in graph.sups[killing.node] : m < killing.t}

(* From those there is no way back to the node: a set that is closed       *)
(* under supersets holds them and not the node.                            *)
NoWayBack ==
  killing.pc \in {"scan", "search"} =>
    \A m \in Done : \E S \in SUBSET Ast :
      m \in S /\ killing.node \notin S /\ ClosedUp(graph, S)

(* The inductive invariant of the graph and of the calls that run on it.   *)
CubicInv ==
  /\ WellFormed(graph)
  /\ stack \in Seq(FrameOK(graph))
  /\ KillingOK
  /\ status \in {"running", "spinning", "crashed"}
  /\ given \in (SUBSET Elements) \X (SUBSET Inclusions) \X (SUBSET Conditionals)
  /\ CyclesAtHome
  /\ NoWayBack

-----------------------------------------------------------------------------
(* No solver node is None.                                                 *)
LEMMA NoneIsNoNode == None \notin Ast /\ Ast \subseteq Nat
BY AddressAssumption DEF None

(* addEmptyVariableIfNecessary gives nodes that are not known a solver     *)
(* node of their own without neighbours.                                   *)
LEMMA AddEmptyVariablesFacts ==
  ASSUME NEW g, WellFormed(g), NEW nodes \in SUBSET Ast,
         NEW h, h = AddEmptyVariables(g, nodes)
  PROVE  /\ WellFormed(h)
         /\ Known(h) = Known(g) \cup nodes
         /\ LiveIn(g) \subseteq LiveIn(h)
         /\ \A a \in Known(g) : h.of[a] = g.of[a]
         /\ \A n \in LiveIn(h) \ LiveIn(g) : h.sups[n] = {}
         /\ h.sups = g.sups /\ h.subs = g.subs /\ h.bits = g.bits /\ h.conds = g.conds
<1>1. /\ g \in Graph /\ LiveLinks(g)
      /\ \A a \in Known(g) : g.of[a] \in LiveIn(g)
      /\ \A a \in Ast \ Known(g) : g.sups[a] = {} /\ g.subs[a] = {}
      /\ g.conds \in [Ast -> [Fun -> Pairs(g)]]
  BY DEF WellFormed
<1>2. /\ g.of \in [Ast -> Ast \cup {None}]
      /\ h.of = [a \in Ast |-> IF a \in nodes /\ g.of[a] = None THEN a ELSE g.of[a]]
      /\ h.sups = g.sups /\ h.subs = g.subs /\ h.bits = g.bits /\ h.conds = g.conds
  BY <1>1 DEF AddEmptyVariables, Graph
<1>3. h \in Graph
  <2>1. [a \in Ast |-> IF a \in nodes /\ g.of[a] = None THEN a ELSE g.of[a]]
          \in [Ast -> Ast \cup {None}]
    BY <1>2
  <2>2. QED
    BY <1>1, <2>1 DEF AddEmptyVariables, Graph
<1>4. /\ Known(h) = Known(g) \cup nodes
      /\ \A a \in Known(g) : h.of[a] = g.of[a]
  <2>1. \A a \in Ast : h.of[a] = IF a \in nodes /\ g.of[a] = None THEN a ELSE g.of[a]
    BY <1>2
  <2>2. QED
    BY <2>1, NoneIsNoNode DEF Known
<1>5. LiveIn(h) = LiveIn(g) \cup (nodes \ Known(g))
  <2>1. \A a \in Ast : h.of[a] = IF a \in nodes /\ g.of[a] = None THEN a ELSE g.of[a]
    BY <1>2
  <2>2. QED
    BY <2>1, NoneIsNoNode DEF Known, LiveIn
<1>6. \A n \in nodes \ Known(g) : g.sups[n] = {} /\ g.subs[n] = {}
  BY <1>1
<1>7. LiveIn(g) \cap (nodes \ Known(g)) = {}
  BY NoneIsNoNode DEF LiveIn, Known
<1>8. \A a \in Known(h) : h.of[a] \in LiveIn(h)
  BY <1>1, <1>2, <1>4, <1>5 DEF Known
<1>9. LiveLinks(h)
  <2>1. ASSUME NEW n \in LiveIn(h)
        PROVE  h.sups[n] \subseteq LiveIn(h) /\ h.subs[n] \subseteq LiveIn(h) /\ n \notin h.sups[n]
    BY <1>1, <1>2, <1>5, <1>6 DEF LiveLinks
  <2>2. ASSUME NEW n \in LiveIn(h), NEW m \in LiveIn(h)
        PROVE  m \in h.sups[n] <=> n \in h.subs[m]
    <3>1. CASE n \in LiveIn(g) /\ m \in LiveIn(g)
      BY <1>1, <1>2, <3>1 DEF LiveLinks
    <3>2. CASE n \notin LiveIn(g) \/ m \notin LiveIn(g)
      BY <1>1, <1>2, <1>5, <1>6, <1>7, <3>2 DEF LiveLinks
    <3>3. QED
      BY <3>1, <3>2
  <2>3. QED
    BY <2>1, <2>2 DEF LiveLinks
<1>10. h.conds \in [Ast -> [Fun -> Pairs(h)]]
  BY <1>1, <1>2, <1>4 DEF Pairs
<1>11. \A a \in Ast \ Known(h) : h.sups[a] = {} /\ h.subs[a] = {}
  BY <1>1, <1>2, <1>4
<1>12. WellFormed(h)
  BY <1>3, <1>8, <1>9, <1>10, <1>11 DEF WellFormed
<1>13. QED
  BY <1>2, <1>4, <1>5, <1>6, <1>12

(* addSubseteqConstraint inserts an edge on both sides.                    *)
LEMMA AddEdgeFacts ==
  ASSUME NEW g, WellFormed(g), NEW n \in LiveIn(g), NEW m \in LiveIn(g), n # m,
         NEW h, h = AddEdge(g, n, m)
  PROVE  /\ WellFormed(h)
         /\ Known(h) = Known(g) /\ LiveIn(h) = LiveIn(g) /\ h.of = g.of
         /\ h.sups[n] = g.sups[n] \cup {m} /\ \A a \in Ast \ {n} : h.sups[a] = g.sups[a]
         /\ h.subs[m] = g.subs[m] \cup {n} /\ \A a \in Ast \ {m} : h.subs[a] = g.subs[a]
         /\ h.bits = g.bits /\ h.conds = g.conds
<1>1. g \in Graph /\ n \in Ast /\ m \in Ast /\ n \in Known(g) /\ m \in Known(g)
  BY NoneIsNoNode DEF WellFormed, LiveIn, Known
<1>2. /\ h.of = g.of /\ h.bits = g.bits /\ h.conds = g.conds
      /\ h.sups = [g.sups EXCEPT ![n] = @ \cup {m}]
      /\ h.subs = [g.subs EXCEPT ![m] = @ \cup {n}]
  BY <1>1 DEF AddEdge, Graph
<1>3. h \in Graph
  BY <1>1 DEF AddEdge, Graph
<1>4. Known(h) = Known(g) /\ LiveIn(h) = LiveIn(g) /\ Pairs(h) = Pairs(g)
  BY <1>2 DEF Known, LiveIn, Pairs
<1>5. /\ g.sups \in [Ast -> SUBSET Ast] /\ g.subs \in [Ast -> SUBSET Ast]
      /\ \A a \in Ast : h.sups[a] = IF a = n THEN g.sups[a] \cup {m} ELSE g.sups[a]
      /\ \A a \in Ast : h.subs[a] = IF a = m THEN g.subs[a] \cup {n} ELSE g.subs[a]
  BY <1>1, <1>2 DEF Graph
<1>6. LiveLinks(h)
  <2>1. LiveLinks(g)
    BY DEF WellFormed
  <2>2. ASSUME NEW a \in LiveIn(h)
        PROVE  h.sups[a] \subseteq LiveIn(h) /\ h.subs[a] \subseteq LiveIn(h) /\ a \notin h.sups[a]
    <3>1. a \in Ast /\ g.sups[a] \subseteq LiveIn(g) /\ g.subs[a] \subseteq LiveIn(g) /\ a \notin g.sups[a]
      BY <1>4, <2>1, <2>2 DEF LiveLinks, LiveIn
    <3>2. QED
      BY <1>4, <1>5, <3>1
  <2>3. ASSUME NEW a \in LiveIn(h), NEW b \in LiveIn(h)
        PROVE  b \in h.sups[a] <=> a \in h.subs[b]
    <3>1. a \in Ast /\ b \in Ast /\ (b \in g.sups[a] <=> a \in g.subs[b])
      BY <1>4, <2>1, <2>3 DEF LiveLinks, LiveIn
    <3>2. QED
      BY <1>5, <3>1
  <2>4. QED
    BY <2>2, <2>3 DEF LiveLinks
<1>7. \A a \in Ast \ Known(h) : h.sups[a] = {} /\ h.subs[a] = {}
  BY <1>1, <1>4, <1>5 DEF WellFormed
<1>8. WellFormed(h)
  BY <1>2, <1>3, <1>4, <1>6, <1>7 DEF WellFormed
<1>9. QED
  BY <1>1, <1>2, <1>4, <1>5, <1>8

(* mergeNodes takes n2 out of the live graph and leaves its neighbours     *)
(* to n1.                                                                  *)
LEMMA MergeNodesFacts ==
  ASSUME NEW g, WellFormed(g), NEW n1 \in LiveIn(g), NEW n2 \in LiveIn(g), n1 # n2,
         NEW h, h = MergeNodes(g, n1, n2)
  PROVE  /\ WellFormed(h)
         /\ Known(h) = Known(g) /\ LiveIn(h) = LiveIn(g) \ {n2}
         /\ h.of = [a \in Ast |-> IF g.of[a] = n2 THEN n1 ELSE g.of[a]]
         /\ \A n \in LiveIn(h) \ {n1} : h.sups[n] \subseteq g.sups[n] \cup {n1}
<1>1. /\ g \in Graph /\ n1 \in Ast /\ n2 \in Ast /\ n1 # None /\ n2 # None
      /\ g.of[n1] = n1 /\ g.of[n2] = n2
      /\ g.of \in [Ast -> Ast \cup {None}]
      /\ g.sups \in [Ast -> SUBSET Ast] /\ g.subs \in [Ast -> SUBSET Ast]
      /\ g.conds \in [Ast -> [Fun -> Pairs(g)]]
  BY NoneIsNoNode DEF WellFormed, LiveIn, Graph
<1>2. /\ h.of = [a \in Ast |-> IF g.of[a] = n2 THEN n1 ELSE g.of[a]]
      /\ h.bits = [g.bits EXCEPT ![n1] = @ \cup g.bits[n2]]
      /\ h.conds = [g.conds EXCEPT ![n1] = [f \in Fun |-> @[f] \o g.conds[n2][f]]]
      /\ h.sups = [n \in Ast |->
                IF n = n1 THEN (g.sups[n1] \cup g.sups[n2]) \ {n1, n2}
                ELSE IF n \in g.subs[n2] THEN (g.sups[n] \ {n2}) \cup {n1}
                ELSE g.sups[n]]
      /\ h.subs = [n \in Ast |->
                IF n = n1 THEN (g.subs[n1] \cup g.subs[n2]) \ {n1, n2}
                ELSE IF n \in g.sups[n2] THEN (g.subs[n] \ {n2}) \cup {n1}
                ELSE g.subs[n]]
      /\ DOMAIN h = {"of", "bits", "conds", "sups", "subs"}
  BY DEF MergeNodes
<1>3. Known(h) = Known(g) /\ LiveIn(h) = LiveIn(g) \ {n2} /\ Pairs(h) = Pairs(g)
  <2>1. Known(h) = Known(g)
    BY <1>1, <1>2 DEF Known
  <2>2. LiveIn(h) = LiveIn(g) \ {n2}
    BY <1>1, <1>2 DEF LiveIn
  <2>3. QED
    BY <2>1, <2>2 DEF Pairs
<1>4. h.conds \in [Ast -> [Fun -> Pairs(h)]]
  <2>1. \A f \in Fun : g.conds[n1][f] \o g.conds[n2][f] \in Pairs(g)
    <3>1. ASSUME NEW s \in Pairs(g), NEW t \in Pairs(g) PROVE s \o t \in Pairs(g)
      BY DEF Pairs
    <3>2. QED
      BY <1>1, <3>1
  <2>2. [f \in Fun |-> g.conds[n1][f] \o g.conds[n2][f]] \in [Fun -> Pairs(g)]
    BY <2>1
  <2>3. QED
    BY <1>1, <1>2, <1>3, <2>2
<1>5. h \in Graph
  <2>1. Pairs(g) \subseteq Seq(Ast \X Ast)
    BY DEF Pairs, Known
  <2>2. h.conds \in [Ast -> [Fun -> Seq(Ast \X Ast)]]
    BY <1>3, <1>4, <2>1
  <2>3. h.of \in [Ast -> Ast \cup {None}]
    BY <1>1, <1>2
  <2>4. h.sups \in [Ast -> SUBSET Ast] /\ h.subs \in [Ast -> SUBSET Ast]
    BY <1>1, <1>2
  <2>5. h.bits \in [Ast -> SUBSET Fun]
    BY <1>1, <1>2 DEF Graph
  <2>6. h = [of |-> h.of, sups |-> h.sups, subs |-> h.subs, bits |-> h.bits, conds |-> h.conds]
    BY DEF MergeNodes
  <2>7. QED
    BY <2>2, <2>3, <2>4, <2>5, <2>6 DEF Graph
<1>6. \A a \in Known(h) : h.of[a] \in LiveIn(h)
  <2>1. \A a \in Known(g) : g.of[a] \in LiveIn(g)
    BY DEF WellFormed
  <2>2. QED
    BY <1>1, <1>2, <1>3, <2>1 DEF Known
<1>7. LiveLinks(h)
  <2>1. LiveLinks(g)
    BY DEF WellFormed
  <2>2. ASSUME NEW n \in LiveIn(h)
        PROVE  h.sups[n] \subseteq LiveIn(h) /\ h.subs[n] \subseteq LiveIn(h) /\ n \notin h.sups[n]
    BY <1>1, <1>2, <1>3, <2>1 DEF LiveLinks, LiveIn
  <2>3. ASSUME NEW n \in LiveIn(h), NEW m \in LiveIn(h)
        PROVE  m \in h.sups[n] <=> n \in h.subs[m]
    <3>1. n \in LiveIn(g) /\ m \in LiveIn(g) /\ n # n2 /\ m # n2 /\ n \in Ast /\ m \in Ast
      BY <1>3 DEF LiveIn
    <3>2. /\ m \in g.sups[n] <=> n \in g.subs[m]
          /\ m \in g.sups[n1] <=> n1 \in g.subs[m]
          /\ m \in g.sups[n2] <=> n2 \in g.subs[m]
          /\ n1 \in g.sups[n] <=> n \in g.subs[n1]
          /\ n2 \in g.sups[n] <=> n \in g.subs[n2]
      BY <2>1, <3>1 DEF LiveLinks
    <3>3. QED
      BY <1>1, <1>2, <3>1, <3>2
  <2>4. QED
    BY <2>2, <2>3 DEF LiveLinks
<1>8. \A a \in Ast \ Known(h) : h.sups[a] = {} /\ h.subs[a] = {}
  <2>1. ASSUME NEW a \in Ast \ Known(h) PROVE h.sups[a] = {} /\ h.subs[a] = {}
    <3>1. g.sups[a] = {} /\ g.subs[a] = {} /\ a \notin LiveIn(g)
      BY <1>3, NoneIsNoNode DEF WellFormed, LiveIn, Known
    <3>2. a # n1 /\ a \notin g.subs[n2] /\ a \notin g.sups[n2]
      BY <3>1 DEF WellFormed, LiveLinks
    <3>3. QED
      BY <1>2, <3>1, <3>2
  <2>2. QED
    BY <2>1
<1>9. WellFormed(h)
  BY <1>4, <1>5, <1>6, <1>7, <1>8 DEF WellFormed
<1>10. \A n \in LiveIn(h) \ {n1} : h.sups[n] \subseteq g.sups[n] \cup {n1}
  BY <1>2 DEF LiveIn
<1>11. QED
  BY <1>2, <1>3, <1>9, <1>10

(* Functions and conditional constraints come and go without moving the    *)
(* graph's nodes and edges.                                                *)
SameNodes(g, h) ==
  /\ WellFormed(h)
  /\ Known(h) = Known(g) /\ LiveIn(h) = LiveIn(g)
  /\ h.of = g.of /\ h.sups = g.sups /\ h.subs = g.subs

Grown(g, n, X) == [g EXCEPT !.bits[n] = @ \cup X]
Relisted(g, n, f, s) == [g EXCEPT !.conds[n][f] = s]

(* Functions added to one node change nothing else.                        *)
LEMMA BitsFacts ==
  ASSUME NEW g, WellFormed(g), NEW n \in Ast, NEW X \in SUBSET Fun,
         NEW h, h = Grown(g, n, X)
  PROVE  /\ SameNodes(g, h) /\ h.conds = g.conds
         /\ h.bits[n] = g.bits[n] \cup X /\ \A a \in Ast \ {n} : h.bits[a] = g.bits[a]
<1>1. g \in Graph
  BY DEF WellFormed
<1>2. /\ h \in Graph /\ h.bits = [g.bits EXCEPT ![n] = @ \cup X]
      /\ h.of = g.of /\ h.sups = g.sups /\ h.subs = g.subs /\ h.conds = g.conds
  BY <1>1 DEF Graph, Grown
<1>3. Known(h) = Known(g) /\ LiveIn(h) = LiveIn(g) /\ Pairs(h) = Pairs(g)
  BY <1>2 DEF Known, LiveIn, Pairs
<1>4. WellFormed(h)
  BY <1>2, <1>3 DEF WellFormed, LiveLinks
<1>5. h.bits[n] = g.bits[n] \cup X /\ \A a \in Ast \ {n} : h.bits[a] = g.bits[a]
  BY <1>1, <1>2 DEF Graph
<1>6. QED
  BY <1>2, <1>3, <1>4, <1>5 DEF SameNodes

(* Neither does a list of conditional constraints that is replaced.        *)
LEMMA CondsFacts ==
  ASSUME NEW g, WellFormed(g), NEW n \in Ast, NEW f \in Fun, NEW s \in Pairs(g),
         NEW h, h = Relisted(g, n, f, s)
  PROVE  /\ SameNodes(g, h) /\ h.bits = g.bits
         /\ h.conds[n][f] = s
         /\ \A a \in Ast : \A e \in Fun : a # n \/ e # f => h.conds[a][e] = g.conds[a][e]
<1>1. g \in Graph /\ g.conds \in [Ast -> [Fun -> Pairs(g)]]
  BY DEF WellFormed
<1>2. /\ h.conds = [g.conds EXCEPT ![n] = [@ EXCEPT ![f] = s]]
      /\ h.of = g.of /\ h.sups = g.sups /\ h.subs = g.subs /\ h.bits = g.bits
      /\ h = [g EXCEPT !.conds = h.conds]
  BY <1>1 DEF Graph, Relisted
<1>3. h.conds \in [Ast -> [Fun -> Pairs(g)]]
  BY <1>1, <1>2
<1>4. Pairs(g) \subseteq Seq(Ast \X Ast)
  BY DEF Pairs, Known
<1>5. h \in Graph
  <2>1. h.conds \in [Ast -> [Fun -> Seq(Ast \X Ast)]]
    BY <1>3, <1>4
  <2>2. QED
    BY <1>1, <1>2, <2>1 DEF Graph
<1>6. Known(h) = Known(g) /\ LiveIn(h) = LiveIn(g) /\ Pairs(h) = Pairs(g)
  BY <1>2 DEF Known, LiveIn, Pairs
<1>7. WellFormed(h)
  BY <1>2, <1>3, <1>5, <1>6 DEF WellFormed, LiveLinks
<1>8. /\ h.conds[n][f] = s
      /\ \A a \in Ast : \A e \in Fun : a # n \/ e # f => h.conds[a][e] = g.conds[a][e]
  BY <1>1, <1>2
<1>9. QED
  BY <1>2, <1>6, <1>7, <1>8 DEF SameNodes

-----------------------------------------------------------------------------
(* A frame stays a frame while nodes become known.                         *)
LEMMA FramesKept ==
  ASSUME NEW g, NEW h, Known(g) \subseteq Known(h)
  PROVE  /\ Pairs(g) \subseteq Pairs(h)
         /\ FrameOK(g) \subseteq FrameOK(h)
         /\ Seq(FrameOK(g)) \subseteq Seq(FrameOK(h))
<1>1. Pairs(g) \subseteq Pairs(h)
  BY DEF Pairs
<1>2. FrameOK(g) \subseteq FrameOK(h)
  BY <1>1 DEF FrameOK
<1>3. QED
  BY <1>1, <1>2

(* A call of propagateNodeChanges begins with an empty list.               *)
LEMMA NewFrameOK ==
  ASSUME NEW g, NEW n \in Ast
  PROVE  NewFrame(n) \in FrameOK(g)
<1>1. << >> \in Pairs(g) /\ << >> \in Seq(Ast \X Ast)
  BY DEF Pairs
<1>2. QED
  BY <1>1 DEF NewFrame, Frame, FrameOK, None

(* mergeNodes only disturbs the iterators of the frames.                   *)
LEMMA InvalidateFacts ==
  ASSUME NEW g, NEW h, NEW fr \in FrameOK(h), NEW n1 \in Ast, NEW n2 \in Ast,
         NEW e, e = Invalidate(g, fr, n1, n2)
  PROVE  e \in FrameOK(h) /\ e.node = fr.node /\ e.fun = fr.fun /\ e.pairs = fr.pairs
<1>1. fr \in Frame /\ fr.pairs \in Pairs(h)
  BY DEF FrameOK
<1>2. /\ e \in Frame
      /\ e.node = fr.node /\ e.fun = fr.fun /\ e.pairs = fr.pairs
  BY <1>1 DEF Invalidate, Frame
<1>3. QED
  BY <1>1, <1>2 DEF FrameOK

-----------------------------------------------------------------------------
(* Outside killCyclesAt nothing is asked of it.                            *)
LEMMA IdleKilling ==
  killing' = Idle => KillingOK' /\ NoWayBack'
<1> SUFFICES ASSUME killing' = Idle PROVE KillingOK' /\ NoWayBack'
  OBVIOUS
<1>1. /\ killing'.pc = "none" /\ killing'.dist = NoDistance
      /\ killing'.path = << >> /\ killing'.queue = << >>
      /\ killing'.from = None /\ killing'.node = None /\ killing'.t = None
  BY DEF Idle
<1>2. killing' \in Killing
  <2>1. NoDistance \in [Ast -> -1 .. Cardinality(Ast)]
    <3>1. Cardinality(Ast) \in Nat
      BY AddressAssumption, FS_CardinalityType
    <3>2. QED
      BY <3>1 DEF NoDistance
  <2>2. << >> \in Seq(Ast)
    OBVIOUS
  <2>3. QED
    BY <2>1, <2>2 DEF Idle, Killing
<1>3. Reached' = {}
  BY <1>1 DEF Reached, ReachedBy, NoDistance
<1>4. Distances'
  BY <1>3 DEF Distances, Gapless, Reached
<1>5. QED
  BY <1>1, <1>2, <1>4
     DEF KillingOK, NoWayBack, AtNode, Scanning, Searching, GoingBack, Merging

(* A new inclusion: what killCyclesAt is called with, and the cycles there *)
(* may be now.                                                             *)
LEMMA IncludeKeeps ==
  ASSUME NEW g, WellFormed(g), \A S \in SUBSET Ast : Sinkless(g, S) => S = {},
         NEW from \in Known(g), NEW to \in Known(g), Include(g, from, to)
  PROVE  /\ WellFormed(graph') /\ Known(graph') = Known(g)
         /\ KillingOK' /\ CyclesAtHome' /\ NoWayBack'
<1>1. CASE g.of[from] = g.of[to]
  <2>1. graph' = g /\ killing' = Idle
    BY <1>1 DEF Include
  <2>2. CyclesAtHome'
    BY <2>1 DEF CyclesAtHome
  <2>3. QED
    BY <2>1, <2>2, IdleKilling
<1>2. CASE g.of[from] # g.of[to]
  <2>0. PICK n, m : n = g.of[from] /\ m = g.of[to]
    OBVIOUS
  <2>1. n \in LiveIn(g) /\ m \in LiveIn(g) /\ n \in Ast /\ from \in Ast
    BY <2>0 DEF WellFormed, LiveIn, Known
  <2>2. graph' = AddEdge(g, n, m) /\ killing' = KillCyclesAt(g, from)
    BY <1>2, <2>0 DEF Include
  <2>3. /\ WellFormed(graph') /\ Known(graph') = Known(g) /\ LiveIn(graph') = LiveIn(g)
        /\ graph'.of = g.of
        /\ \A a \in Ast \ {n} : graph'.sups[a] = g.sups[a]
    BY <1>2, <2>0, <2>1, <2>2, AddEdgeFacts
  <2>4. /\ killing'.pc = "scan" /\ killing'.from = from /\ killing'.node = n
        /\ killing'.t = None /\ killing'.dist = NoDistance
        /\ killing'.queue = << >> /\ killing'.path = << >>
    BY <2>0, <2>2 DEF KillCyclesAt, Idle
  <2>5. Reached' = {}
    BY <2>4 DEF Reached, ReachedBy, NoDistance
  <2>6. killing' \in Killing
    <3>1. NoDistance \in [Ast -> -1 .. Cardinality(Ast)]
      <4>1. Cardinality(Ast) \in Nat
        BY AddressAssumption, FS_CardinalityType
      <4>2. QED
        BY <4>1 DEF NoDistance
    <3>2. << >> \in Seq(Ast)
      OBVIOUS
    <3>3. QED
      BY <2>0, <2>1, <2>2, <3>1, <3>2 DEF KillCyclesAt, Idle, Killing
  <2>7. KillingOK'
    BY <2>0, <2>3, <2>4, <2>5, <2>6
       DEF KillingOK, AtNode, Scanning, Distances, Gapless, Reached, Searching, GoingBack, Merging
  <2>8. NoWayBack'
    <3>1. Done' = {}
      <4>1. \A x \in graph'.sups[n] : x \in Nat /\ x # 0
        BY <2>1, <2>3, AddressAssumption DEF WellFormed, Graph
      <4>2. QED
        BY <2>4, <4>1 DEF Done, None
    <3>2. QED
      BY <3>1 DEF NoWayBack
  <2>9. CyclesAtHome'
    <3>1. SUFFICES ASSUME NEW S \in SUBSET Ast, Sinkless(graph', S), S # {}
                   PROVE  n \in S
      BY <2>4 DEF CyclesAtHome, Home
    <3>2. SUFFICES ASSUME n \notin S PROVE FALSE
      OBVIOUS
    <3>3. \A x \in S : graph'.sups[x] = g.sups[x]
      BY <2>3, <3>2 DEF WellFormed, Graph
    <3>4. Sinkless(g, S)
      BY <2>3, <3>1, <3>3 DEF Sinkless
    <3>5. QED
      BY <3>1, <3>4
  <2>10. QED
    BY <2>3, <2>7, <2>8, <2>9
<1>3. QED
  BY <1>1, <1>2

(* At rest, or while changes are propagated, the graph has no cycle.       *)
LEMMA NoCycleOutside ==
  ASSUME CyclesAtHome, killing = Idle
  PROVE  \A S \in SUBSET Ast : Sinkless(graph, S) => S = {}
BY DEF CyclesAtHome, Home, Idle

(* Edges that do not change leave no cycle behind.                         *)
LEMMA NoCycleKept ==
  ASSUME NEW g, NEW h, \A S \in SUBSET Ast : Sinkless(g, S) => S = {},
         LiveIn(g) \subseteq LiveIn(h), h.sups = g.sups,
         \A n \in LiveIn(h) \ LiveIn(g) : h.sups[n] = {}
  PROVE  \A S \in SUBSET Ast : Sinkless(h, S) => S = {}
<1>1. ASSUME NEW S \in SUBSET Ast, Sinkless(h, S) PROVE Sinkless(g, S)
  BY <1>1 DEF Sinkless
<1>2. QED
  BY <1>1

(* At rest the invariant asks for a graph without cycles.                  *)
LEMMA IdleCycles ==
  ASSUME killing' = Idle, \A S \in SUBSET Ast : Sinkless(graph', S) => S = {}
  PROVE  CyclesAtHome'
BY DEF CyclesAtHome

-----------------------------------------------------------------------------
(* A constraint that is given keeps the record of those given typed.       *)
LEMMA GiveFacts ==
  ASSUME CubicInv, NEW k \in 1 .. 3, NEW c, Give(k, c),
         c \in (IF k = 1 THEN Elements ELSE IF k = 2 THEN Inclusions ELSE Conditionals)
  PROVE  /\ stack = << >> /\ killing = Idle /\ status' = status
         /\ given' \in (SUBSET Elements) \X (SUBSET Inclusions) \X (SUBSET Conditionals)
         /\ \A S \in SUBSET Ast : Sinkless(graph, S) => S = {}
<1>1. stack = << >> /\ killing = Idle /\ status' = status
  BY DEF Give, AtRest
<1>2. given' = [given EXCEPT ![k] = @ \cup {c}]
  BY DEF Give
<1>3. given \in (SUBSET Elements) \X (SUBSET Inclusions) \X (SUBSET Conditionals)
  BY DEF CubicInv
<1>4. given' \in (SUBSET Elements) \X (SUBSET Inclusions) \X (SUBSET Conditionals)
  BY <1>2, <1>3
<1>5. QED
  BY <1>1, <1>4, NoCycleOutside DEF CubicInv

(* addElementofConstraint adds a function, which no edge depends on.       *)
LEMMA AddElementofKeeps ==
  ASSUME CubicInv, NEW c \in Elements, AddElementofConstraint(c[1], c[2])
  PROVE  CubicInv'
<1> DEFINE fn == c[1]
           n == c[2]
           g == AddEmptyVariables(graph, {n})
<1>1. fn \in Fun /\ n \in Ast /\ c = <<fn, n>>
  BY InputAssumption
<1>2. /\ stack = << >> /\ killing' = Idle /\ status' = status
      /\ given' \in (SUBSET Elements) \X (SUBSET Inclusions) \X (SUBSET Conditionals)
      /\ \A S \in SUBSET Ast : Sinkless(graph, S) => S = {}
  <2>1. Give(1, c) /\ killing' = killing
    BY <1>1 DEF AddElementofConstraint
  <2>2. QED
    BY <2>1, GiveFacts
<1>3. /\ graph' = [g EXCEPT !.bits[g.of[n]] = @ \cup {fn}]
      /\ stack' = <<NewFrame(g.of[n])>>
  BY DEF AddElementofConstraint
<1> HIDE DEF g
<1>4. /\ WellFormed(g) /\ Known(g) = Known(graph) \cup {n}
      /\ LiveIn(graph) \subseteq LiveIn(g) /\ g.sups = graph.sups
      /\ \A x \in LiveIn(g) \ LiveIn(graph) : g.sups[x] = {}
  BY <1>1, AddEmptyVariablesFacts DEF g, CubicInv
<1>5. g.of[n] \in LiveIn(g) /\ g.of[n] \in Ast
  BY <1>4 DEF WellFormed, LiveIn
<1>6. SameNodes(g, graph')
  <2>1. {fn} \in SUBSET Fun /\ graph' = Grown(g, g.of[n], {fn})
    BY <1>1, <1>3 DEF Grown
  <2>2. QED
    BY <1>4, <1>5, <2>1, BitsFacts
<1>7. stack' \in Seq(FrameOK(graph'))
  <2>1. NewFrame(g.of[n]) \in FrameOK(graph')
    BY <1>5, NewFrameOK
  <2>2. QED
    BY <1>3, <2>1
<1>8. CyclesAtHome'
  <2>1. \A S \in SUBSET Ast : Sinkless(graph', S) => S = {}
    BY <1>2, <1>4, <1>6, NoCycleKept DEF SameNodes
  <2>2. QED
    BY <1>2, <2>1, IdleCycles
<1>9. QED
  BY <1>2, <1>6, <1>7, <1>8, IdleKilling DEF CubicInv, SameNodes

(* addSubseteqConstraint adds an edge and calls killCyclesAt at its lower  *)
(* end: a cycle there is now goes through it.                              *)
LEMMA AddSubseteqKeeps ==
  ASSUME CubicInv, NEW c \in Inclusions, AddSubseteqConstraint(c[1], c[2])
  PROVE  CubicInv'
<1> DEFINE from == c[1]
           to == c[2]
           g == AddEmptyVariables(graph, {from, to})
<1>1. from \in Ast /\ to \in Ast /\ c = <<from, to>>
  BY InputAssumption
<1>2. /\ stack = << >> /\ status' = status
      /\ given' \in (SUBSET Elements) \X (SUBSET Inclusions) \X (SUBSET Conditionals)
      /\ \A S \in SUBSET Ast : Sinkless(graph, S) => S = {}
  <2>1. Give(2, c)
    BY <1>1 DEF AddSubseteqConstraint
  <2>2. QED
    BY <2>1, GiveFacts
<1>3. Include(g, from, to) /\ stack' = stack
  BY DEF AddSubseteqConstraint
<1> HIDE DEF g
<1>4. /\ WellFormed(g) /\ Known(g) = Known(graph) \cup {from, to}
      /\ LiveIn(graph) \subseteq LiveIn(g) /\ g.sups = graph.sups
      /\ \A x \in LiveIn(g) \ LiveIn(graph) : g.sups[x] = {}
  BY <1>1, AddEmptyVariablesFacts DEF g, CubicInv
<1>5. \A S \in SUBSET Ast : Sinkless(g, S) => S = {}
  BY <1>2, <1>4, NoCycleKept
<1>6. WellFormed(graph') /\ KillingOK' /\ CyclesAtHome' /\ NoWayBack'
  BY <1>3, <1>4, <1>5, IncludeKeeps
<1>7. stack' \in Seq(FrameOK(graph'))
  BY <1>2, <1>3
<1>8. QED
  BY <1>2, <1>6, <1>7 DEF CubicInv

(* addConditionalConstraint adds a list, or does what                      *)
(* addSubseteqConstraint does.                                             *)
LEMMA AddConditionalKeeps ==
  ASSUME CubicInv, NEW c \in Conditionals, AddConditionalConstraint(c[1], c[2], c[3], c[4])
  PROVE  CubicInv'
<1> DEFINE fn == c[1]
           in == c[2]
           from == c[3]
           to == c[4]
           g == AddEmptyVariables(graph, {in, from, to})
<1>1. fn \in Fun /\ in \in Ast /\ from \in Ast /\ to \in Ast /\ c = <<fn, in, from, to>>
  BY InputAssumption
<1>2. /\ stack = << >> /\ killing' = Idle /\ status' = status
      /\ given' \in (SUBSET Elements) \X (SUBSET Inclusions) \X (SUBSET Conditionals)
      /\ \A S \in SUBSET Ast : Sinkless(graph, S) => S = {}
  <2>1. Give(3, c) /\ killing' = killing
    BY <1>1 DEF AddConditionalConstraint
  <2>2. QED
    BY <2>1, GiveFacts
<1>3. /\ graph' = [g EXCEPT !.conds[g.of[in]][fn] = Append(@, <<from, to>>)]
      /\ stack' = <<NewFrame(g.of[in])>>
  BY DEF AddConditionalConstraint
<1> HIDE DEF g
<1>4. /\ WellFormed(g) /\ Known(g) = Known(graph) \cup {in, from, to}
      /\ LiveIn(graph) \subseteq LiveIn(g) /\ g.sups = graph.sups
      /\ \A x \in LiveIn(g) \ LiveIn(graph) : g.sups[x] = {}
  BY <1>1, AddEmptyVariablesFacts DEF g, CubicInv
<1>5. g.of[in] \in LiveIn(g) /\ g.of[in] \in Ast
  BY <1>4 DEF WellFormed, LiveIn
<1>6. SameNodes(g, graph')
  <2> DEFINE s == Append(g.conds[g.of[in]][fn], <<from, to>>)
  <2>1. s \in Pairs(g)
    <3>1. g.conds[g.of[in]][fn] \in Pairs(g)
      BY <1>1, <1>4, <1>5 DEF WellFormed
    <3>2. <<from, to>> \in Known(g) \X Known(g)
      BY <1>4
    <3>3. QED
      BY <3>1, <3>2 DEF Pairs
  <2>2. graph' = Relisted(g, g.of[in], fn, s)
    BY <1>3 DEF Relisted
  <2> HIDE DEF s
  <2>3. QED
    BY <1>1, <1>4, <1>5, <2>1, <2>2, CondsFacts
<1>7. stack' \in Seq(FrameOK(graph'))
  <2>1. NewFrame(g.of[in]) \in FrameOK(graph')
    BY <1>5, NewFrameOK
  <2>2. PICK fr \in FrameOK(graph') : stack' = <<fr>>
    BY <1>3, <2>1
  <2>3. QED
    BY <2>2
<1>8. CyclesAtHome'
  <2>1. \A S \in SUBSET Ast : Sinkless(graph', S) => S = {}
    BY <1>2, <1>4, <1>6, NoCycleKept DEF SameNodes
  <2>2. QED
    BY <1>2, <2>1, IdleCycles
<1>9. QED
  BY <1>2, <1>6, <1>7, <1>8, IdleKilling DEF CubicInv, SameNodes

-----------------------------------------------------------------------------
(* The elements of a std::set in its order are a list of it.               *)
LEMMA InOrderFacts ==
  ASSUME NEW S \in SUBSET Ast
  PROVE  InOrder(S) \in Seq(Ast) /\ ToSet(InOrder(S)) = S
<1>1. S \in SUBSET Nat /\ IsFiniteSet(S)
  BY AddressAssumption, FS_Subset, NoneIsNoNode
<1>2. \E s \in SetToSeqs(S) : \A i, j \in DOMAIN s : i < j => s[i] < s[j]
  BY <1>1, AscendingExists DEF Ascending
<1>3. InOrder(S) \in SetToSeqs(S)
  BY <1>2 DEF InOrder
<1>4. InOrder(S) \in Seq(S) /\ ToSet(InOrder(S)) = S
  BY <1>1, <1>3, ListElements
<1>5. QED
  BY <1>4

(* A distance that was given is smaller than the number of AST nodes.      *)
LEMMA DistanceBound ==
  ASSUME NEW dist \in [Ast -> -1 .. Cardinality(Ast)], Gapless(dist),
         NEW n \in ReachedBy(dist)
  PROVE  dist[n] \in Nat /\ dist[n] + 1 <= Cardinality(Ast)
<1>1. Cardinality(Ast) \in Nat /\ IsFiniteSet(Ast)
  BY AddressAssumption, FS_CardinalityType
<1>2. dist[n] \in Nat
  BY <1>1 DEF ReachedBy
<1>3. \A j \in 0 .. dist[n] : \E k \in Ast : dist[k] = j
  BY DEF Gapless
<1> DEFINE first == [j \in 0 .. dist[n] |-> CHOOSE k \in Ast : dist[k] = j]
<1>4. first \in Injection(0 .. dist[n], Ast)
  <2>1. \A j \in 0 .. dist[n] : first[j] \in Ast /\ dist[first[j]] = j
    BY <1>3
  <2>2. first \in [0 .. dist[n] -> Ast]
    BY <2>1
  <2> HIDE DEF first
  <2>3. \A i, j \in 0 .. dist[n] : first[i] = first[j] => i = j
    BY <2>1
  <2>4. QED
    BY <2>2, <2>3, Fun_IsInj
<1> HIDE DEF first
<1>5. Cardinality(0 .. dist[n]) <= Cardinality(Ast)
  BY <1>1, <1>4, FS_Injection
<1>6. Cardinality(0 .. dist[n]) = dist[n] + 1
  <2>1. 0 \in Int /\ dist[n] \in Int /\ ~(0 > dist[n]) /\ dist[n] - 0 + 1 = dist[n] + 1
    BY <1>2
  <2>2. QED
    BY <2>1, FS_Interval
<1>7. QED
  BY <1>2, <1>5, <1>6

(* populateDistances(n) reaches the supersets of n and queues those it     *)
(* reached.                                                                *)
LEMMA PopulateFacts ==
  ASSUME WellFormed(graph), killing \in Killing,
         NEW dist \in [Ast -> -1 .. Cardinality(Ast)], Gapless(dist),
         NEW queue \in Seq(Ast), NEW n \in ReachedBy(dist),
         NEW k, k = Populate(n, dist, queue)
  PROVE  /\ k.dist \in [Ast -> -1 .. Cardinality(Ast)] /\ Gapless(k.dist)
         /\ ReachedBy(k.dist) = ReachedBy(dist) \cup graph.sups[n]
         /\ k.queue \in Seq(Ast)
         /\ ToSet(k.queue) = ToSet(queue) \cup (graph.sups[n] \ ReachedBy(dist))
         /\ k \in Killing /\ k.pc = killing.pc /\ k.from = killing.from
         /\ k.node = killing.node /\ k.t = killing.t /\ k.path = killing.path
<1> DEFINE new == {m \in graph.sups[n] : dist[m] = -1}
<1>1. graph.sups \in [Ast -> SUBSET Ast] /\ n \in Ast
  BY DEF WellFormed, Graph, ReachedBy
<1>2. new \in SUBSET Ast /\ new = graph.sups[n] \ ReachedBy(dist)
  BY <1>1 DEF ReachedBy
<1>3. /\ k.dist = [m \in Ast |-> IF m \in new THEN dist[n] + 1 ELSE dist[m]]
      /\ k.queue = queue \o InOrder(new)
      /\ k = [killing EXCEPT !.dist = k.dist, !.queue = k.queue]
  BY DEF Populate, Killing
<1>4. dist[n] \in Nat /\ dist[n] + 1 <= Cardinality(Ast) /\ Cardinality(Ast) \in Nat
  BY DistanceBound, AddressAssumption, FS_CardinalityType
<1> HIDE DEF new
<1>5. k.dist \in [Ast -> -1 .. Cardinality(Ast)]
  <2>1. ASSUME NEW m \in Ast
        PROVE  (IF m \in new THEN dist[n] + 1 ELSE dist[m]) \in -1 .. Cardinality(Ast)
    BY <1>4
  <2>2. QED
    BY <1>3, <2>1
<1>6. /\ \A m \in Ast : dist[m] \in Int
      /\ \A m \in new : k.dist[m] = dist[n] + 1 /\ dist[m] = -1
      /\ \A m \in Ast \ new : k.dist[m] = dist[m]
  <2>1. Cardinality(Ast) \in Nat
    BY <1>4
  <2>2. \A m \in Ast : dist[m] \in Int
    BY <2>1
  <2>3. QED
    BY <1>2, <1>3, <2>2 DEF new
<1>7. ReachedBy(k.dist) = ReachedBy(dist) \cup graph.sups[n]
  BY <1>1, <1>2, <1>4, <1>6 DEF ReachedBy
<1>8. Gapless(k.dist)
  <2>1. ASSUME NEW m \in ReachedBy(k.dist), NEW j \in 0 .. k.dist[m]
        PROVE  \E x \in Ast : k.dist[x] = j
    <3>1. CASE m \in new
      <4>1. j = dist[n] + 1 \/ j \in 0 .. dist[n]
        BY <1>4, <1>6, <2>1, <3>1
      <4>2. CASE j = dist[n] + 1
        BY <1>2, <1>6, <3>1, <4>2
      <4>3. CASE j \in 0 .. dist[n]
        <5>1. PICK x \in Ast : dist[x] = j
          BY <4>3 DEF Gapless
        <5>2. x \notin new
          BY <1>6, <4>3, <5>1
        <5>3. QED
          BY <1>6, <5>1, <5>2
      <4>4. QED
        BY <4>1, <4>2, <4>3
    <3>2. CASE m \notin new
      <4>1. m \in ReachedBy(dist) /\ k.dist[m] = dist[m]
        BY <1>6, <2>1, <3>2 DEF ReachedBy
      <4>2. PICK x \in Ast : dist[x] = j
        BY <2>1, <4>1 DEF Gapless
      <4>3. j \in Int /\ 0 <= j
        BY <1>6, <2>1, <4>1
      <4>4. x \notin new
        BY <1>6, <4>2, <4>3
      <4>5. QED
        BY <1>6, <4>2, <4>4
    <3>3. QED
      BY <3>1, <3>2
  <2>2. QED
    BY <2>1 DEF Gapless
<1>9. k.queue \in Seq(Ast) /\ ToSet(k.queue) = ToSet(queue) \cup new
  <2>1. InOrder(new) \in Seq(Ast) /\ ToSet(InOrder(new)) = new
    BY <1>2, InOrderFacts
  <2>2. PICK s \in Seq(Ast) : s = InOrder(new)
    BY <2>1
  <2>3. queue \o s \in Seq(Ast) /\ ToSet(queue \o s) = ToSet(queue) \cup ToSet(s)
    BY ToSetConcat
  <2>4. QED
    BY <1>3, <2>1, <2>2, <2>3
<1>10. /\ k \in Killing /\ k.pc = killing.pc /\ k.from = killing.from
       /\ k.node = killing.node /\ k.t = killing.t /\ k.path = killing.path
  BY <1>3, <1>5, <1>9 DEF Killing
<1>11. QED
  BY <1>2, <1>5, <1>7, <1>8, <1>9, <1>10

-----------------------------------------------------------------------------
(* killCyclesAt stands on a live node, and its supersets are live.         *)
LEMMA NodeIsLive ==
  ASSUME CubicInv, killing.pc \in {"scan", "search", "back"}
  PROVE  /\ killing.node \in LiveIn(graph) /\ killing.node \in Ast
         /\ killing.from \in Known(graph)
         /\ graph.sups[killing.node] \subseteq LiveIn(graph)
         /\ graph.sups[killing.node] \subseteq Nat
         /\ killing.node \notin graph.sups[killing.node]
         /\ killing.t \in Nat
<1>1. WellFormed(graph) /\ AtNode /\ killing \in Killing
  BY DEF CubicInv, KillingOK
<1>2. killing.from \in Known(graph) /\ killing.node = graph.of[killing.from]
  BY <1>1 DEF AtNode
<1>3. killing.node \in LiveIn(graph) /\ killing.node \in Ast
  BY <1>1, <1>2 DEF WellFormed, LiveIn
<1>4. killing.t \in Nat
  <2>1. killing.t \in Ast \cup {0}
    BY <1>1 DEF Killing, None
  <2>2. CASE killing.t = 0
    BY <2>2
  <2>3. CASE killing.t \in Ast
    BY <2>3, NoneIsNoNode
  <2>4. QED
    BY <2>1, <2>2, <2>3
<1>5. QED
  BY <1>1, <1>2, <1>3, <1>4, NoneIsNoNode DEF WellFormed, LiveLinks, LiveIn

(* killCyclesAt takes the next superset and starts a breadth first         *)
(* search.                                                                 *)
LEMMA StartSearchKeeps ==
  ASSUME CubicInv, StartSearch
  PROVE  CubicInv'
<1> DEFINE t == Min(Unscanned)
           dist == [NoDistance EXCEPT ![t] = 0]
           k == Populate(t, dist, << >>)
<1>1. /\ killing.pc = "scan" /\ Unscanned # {}
      /\ UNCHANGED <<graph, stack, status, given>>
      /\ killing' = [k EXCEPT !.pc = "search", !.t = t]
  BY DEF StartSearch, At
<1>2. /\ WellFormed(graph) /\ killing \in Killing /\ Cardinality(Ast) \in Nat
      /\ killing.path = << >> /\ CyclesAtHome /\ NoWayBack /\ AtNode
  BY <1>1, AddressAssumption, FS_CardinalityType DEF CubicInv, KillingOK, Scanning
<1>3. t \in Unscanned /\ \A m \in Unscanned : t <= m
  <2>1. Unscanned \in SUBSET Nat
    BY <1>1, NodeIsLive DEF Unscanned
  <2>2. QED
    BY <1>1, <2>1, MinOfNaturals
<1>4. t \in graph.sups[killing.node] /\ t \in LiveIn(graph) /\ t \in Ast /\ t # killing.node
  BY <1>1, <1>3, NodeIsLive DEF Unscanned, LiveIn
<1> HIDE DEF t
<1>5. dist \in [Ast -> -1 .. Cardinality(Ast)] /\ ReachedBy(dist) = {t} /\ dist[t] = 0
  BY <1>2, <1>4 DEF NoDistance, ReachedBy
<1>6. Gapless(dist)
  BY <1>4, <1>5 DEF Gapless
<1>7. /\ k.dist \in [Ast -> -1 .. Cardinality(Ast)] /\ Gapless(k.dist)
      /\ ReachedBy(k.dist) = {t} \cup graph.sups[t]
      /\ k.queue \in Seq(Ast) /\ ToSet(k.queue) = graph.sups[t] \ {t}
      /\ k \in Killing /\ k.from = killing.from
      /\ k.node = killing.node /\ k.path = killing.path
  <2> HIDE DEF dist, k
  <2>1. PICK queue \in Seq(Ast) : queue = << >> /\ ToSet(queue) = {}
    <3>1. ToSet(<< >>) = {} /\ << >> \in Seq(Ast)
      BY DEF ToSet
    <3>2. QED
      BY <3>1
  <2>2. k = Populate(t, dist, queue) /\ t \in ReachedBy(dist)
    BY <1>5, <2>1 DEF k
  <2>3. /\ k.dist \in [Ast -> -1 .. Cardinality(Ast)] /\ Gapless(k.dist)
        /\ ReachedBy(k.dist) = ReachedBy(dist) \cup graph.sups[t]
        /\ k.queue \in Seq(Ast)
        /\ ToSet(k.queue) = ToSet(queue) \cup (graph.sups[t] \ ReachedBy(dist))
        /\ k \in Killing /\ k.from = killing.from
        /\ k.node = killing.node /\ k.path = killing.path
    BY <1>2, <1>5, <1>6, <2>2, PopulateFacts
  <2>4. QED
    BY <1>5, <2>1, <2>3
<1> HIDE DEF k, dist
<1>8. /\ killing'.pc = "search" /\ killing'.from = killing.from
      /\ killing'.node = killing.node /\ killing'.t = t
      /\ killing'.dist = k.dist /\ killing'.queue = k.queue /\ killing'.path = << >>
      /\ killing' \in Killing
  BY <1>1, <1>2, <1>4, <1>7 DEF Killing
<1>9. Searching'
  <2>1. Reached' = {t} \cup graph.sups[t] /\ ToSet(killing'.queue) = graph.sups[t] \ {t}
    BY <1>7, <1>8 DEF Reached
  <2>2. graph.sups[t] \subseteq LiveIn(graph)
    BY <1>2, <1>4 DEF WellFormed, LiveLinks
  <2>3. killing.node \in Reached' => killing'.queue # << >>
    <3>1. ToSet(<< >>) = {}
      BY DEF ToSet
    <3>2. QED
      BY <1>4, <2>1, <3>1
  <2>4. QED
    BY <1>1, <1>4, <1>8, <2>1, <2>2, <2>3 DEF Searching
<1>10. KillingOK'
  BY <1>1, <1>2, <1>4, <1>7, <1>8, <1>9
     DEF KillingOK, AtNode, Scanning, Distances, GoingBack, Merging
<1>11. CyclesAtHome'
  BY <1>1, <1>2, <1>8 DEF CyclesAtHome, Home
<1>12. NoWayBack'
  <2>1. ASSUME NEW m \in graph.sups[killing.node], m < t PROVE m \in Done
    <3>1. m \in Nat /\ t \in Nat /\ killing.t \in Nat
      BY <1>1, <1>4, NodeIsLive
    <3>2. ~(m > killing.t)
      BY <1>3, <2>1, <3>1 DEF Unscanned
    <3>3. QED
      BY <1>1, <3>1, <3>2 DEF Done
  <2>2. Done' \subseteq Done
    BY <1>1, <1>8, <2>1 DEF Done
  <2>3. QED
    BY <1>1, <1>2, <1>8, <2>2 DEF NoWayBack
<1>13. QED
  BY <1>1, <1>10, <1>11, <1>12 DEF CubicInv

(* One round of the search marks the supersets of the node it dequeues.    *)
LEMMA SearchKeeps ==
  ASSUME CubicInv, Search
  PROVE  CubicInv'
<1> DEFINE n == Head(killing.queue)
           k == Populate(n, killing.dist, Tail(killing.queue))
<1>1. /\ killing.pc = "search" /\ killing.queue # << >>
      /\ UNCHANGED <<graph, stack, status, given>>
      /\ killing' = IF k.dist[k.node] = -1 THEN k
                    ELSE [k EXCEPT !.pc = "back", !.path = <<k.node>>, !.queue = << >>]
  BY DEF Search, At
<1>2. /\ WellFormed(graph) /\ killing \in Killing
      /\ CyclesAtHome /\ NoWayBack /\ AtNode /\ Distances /\ Searching
      /\ killing.t \in graph.sups[killing.node]
  BY <1>1 DEF CubicInv, KillingOK
<1>3. /\ killing.dist \in [Ast -> -1 .. Cardinality(Ast)] /\ Gapless(killing.dist)
      /\ killing.queue \in Seq(Ast)
      /\ killing.path = << >> /\ killing.t \in Reached /\ Reached \subseteq LiveIn(graph)
      /\ ToSet(killing.queue) \subseteq Reached
      /\ \A m \in Reached \ ToSet(killing.queue) : graph.sups[m] \subseteq Reached
  BY <1>1, <1>2 DEF Killing, Distances, Searching
<1>4. /\ Tail(killing.queue) \in Seq(Ast)
      /\ ToSet(killing.queue) = {n} \cup ToSet(Tail(killing.queue))
  BY <1>1, <1>3, HeadAndTail
<1>5. n \in Reached /\ n \in LiveIn(graph) /\ graph.sups[n] \subseteq LiveIn(graph)
  BY <1>2, <1>3, <1>4 DEF WellFormed, LiveLinks
<1> HIDE DEF n
<1>6. /\ k.dist \in [Ast -> -1 .. Cardinality(Ast)] /\ Gapless(k.dist)
      /\ ReachedBy(k.dist) = Reached \cup graph.sups[n]
      /\ k.queue \in Seq(Ast)
      /\ ToSet(k.queue) = ToSet(Tail(killing.queue)) \cup (graph.sups[n] \ Reached)
      /\ k \in Killing /\ k.pc = killing.pc /\ k.from = killing.from
      /\ k.node = killing.node /\ k.t = killing.t /\ k.path = killing.path
  <2> HIDE DEF k
  <2>1. PICK queue \in Seq(Ast) : queue = Tail(killing.queue)
    BY <1>4
  <2>2. k = Populate(n, killing.dist, queue) /\ n \in ReachedBy(killing.dist)
    BY <1>5, <2>1 DEF k, Reached
  <2>3. /\ k.dist \in [Ast -> -1 .. Cardinality(Ast)] /\ Gapless(k.dist)
        /\ ReachedBy(k.dist) = ReachedBy(killing.dist) \cup graph.sups[n]
        /\ k.queue \in Seq(Ast)
        /\ ToSet(k.queue) = ToSet(queue) \cup (graph.sups[n] \ ReachedBy(killing.dist))
        /\ k \in Killing /\ k.pc = killing.pc /\ k.from = killing.from
        /\ k.node = killing.node /\ k.t = killing.t /\ k.path = killing.path
    BY <1>2, <1>3, <2>2, PopulateFacts
  <2>4. QED
    BY <2>1, <2>3 DEF Reached
<1> HIDE DEF k
<1>7. /\ killing' \in Killing /\ killing'.pc \in {"search", "back"}
      /\ killing'.from = killing.from /\ killing'.node = killing.node
      /\ killing'.t = killing.t /\ killing'.dist = k.dist
  <2>1. <<killing.node>> \in Seq(Ast) /\ << >> \in Seq(Ast)
    BY <1>1, NodeIsLive
  <2>2. QED
    BY <1>1, <1>6, <2>1 DEF Killing
<1>8. Reached' = Reached \cup graph.sups[n]
  BY <1>6, <1>7 DEF Reached
<1>9. Searching'
  <2>1. SUFFICES ASSUME killing'.pc = "search" PROVE Searching'
    BY DEF Searching
  <2>2. killing' = k /\ k.dist[killing.node] = -1
    BY <1>1, <1>6, <2>1
  <2>3. killing.node \notin Reached'
    BY <1>7, <2>2 DEF Reached, ReachedBy
  <2>4. ToSet(killing'.queue) \subseteq Reached' /\ killing'.t \in Reached'
    BY <1>3, <1>4, <1>6, <1>8, <2>2
  <2>5. Reached' \subseteq LiveIn(graph)
    BY <1>3, <1>5, <1>8
  <2>6. ASSUME NEW m \in Reached' \ ToSet(killing'.queue)
        PROVE  graph.sups[m] \subseteq Reached'
    <3>1. m = n \/ m \in Reached \ ToSet(killing.queue)
      BY <1>4, <1>6, <1>8, <2>2, <2>6
    <3>2. QED
      BY <1>3, <1>8, <3>1
  <2>7. QED
    BY <1>1, <1>3, <1>6, <1>7, <2>2, <2>3, <2>4, <2>5, <2>6 DEF Searching
<1>10. GoingBack'
  <2>1. SUFFICES ASSUME killing'.pc = "back" PROVE GoingBack'
    BY DEF GoingBack
  <2>2. killing'.path = <<killing.node>> /\ k.dist[killing.node] # -1
    BY <1>1, <1>6, <2>1
  <2>3. killing.node \in Reached' /\ killing.node \in LiveIn(graph)
    BY <1>1, <1>7, <2>2, NodeIsLive DEF Reached, ReachedBy
  <2>4. /\ killing'.path # << >> /\ killing'.path[1] = killing.node
        /\ DOMAIN killing'.path = {1} /\ ToSet(killing'.path) = {killing.node}
    BY <2>2 DEF ToSet
  <2>5. QED
    BY <1>1, <1>7, <2>3, <2>4 DEF GoingBack
<1>11. KillingOK'
  BY <1>1, <1>2, <1>6, <1>7, <1>9, <1>10 DEF KillingOK, AtNode, Scanning, Distances, Merging
<1>12. CyclesAtHome'
  BY <1>1, <1>2, <1>7 DEF CyclesAtHome, Home
<1>13. NoWayBack'
  BY <1>1, <1>2, <1>7 DEF NoWayBack, Done
<1>14. QED
  BY <1>1, <1>11, <1>12, <1>13 DEF CubicInv

(* The search ended: what it reached is closed, and the node of            *)
(* killCyclesAt is not in it.                                              *)
LEMMA NoPathKeeps ==
  ASSUME CubicInv, NoPath
  PROVE  CubicInv'
<1>1. /\ killing.pc = "search" /\ killing.queue = << >>
      /\ UNCHANGED <<graph, stack, status, given>>
      /\ killing' = [killing EXCEPT !.pc = "scan", !.dist = NoDistance]
  BY DEF NoPath, At
<1>2. /\ WellFormed(graph) /\ killing \in Killing
      /\ CyclesAtHome /\ NoWayBack /\ AtNode /\ Searching
  BY <1>1 DEF CubicInv, KillingOK
<1>3. NoDistance \in [Ast -> -1 .. Cardinality(Ast)] /\ ReachedBy(NoDistance) = {}
  <2>1. Cardinality(Ast) \in Nat
    BY AddressAssumption, FS_CardinalityType
  <2>2. QED
    BY <2>1 DEF NoDistance, ReachedBy
<1>4. /\ killing' \in Killing /\ killing'.pc = "scan" /\ killing'.from = killing.from
      /\ killing'.node = killing.node /\ killing'.t = killing.t
      /\ killing'.dist = NoDistance /\ killing'.path = killing.path
  BY <1>1, <1>2, <1>3 DEF Killing
<1>5. /\ killing.path = << >> /\ killing.t \in Reached /\ killing.node \notin Reached
      /\ Reached \subseteq LiveIn(graph)
      /\ \A m \in Reached : graph.sups[m] \subseteq Reached
  <2>1. ToSet(killing.queue) = {}
    BY <1>1 DEF ToSet
  <2>2. QED
    BY <1>1, <1>2, <2>1 DEF Searching
<1>6. KillingOK'
  BY <1>1, <1>2, <1>3, <1>4, <1>5
     DEF KillingOK, AtNode, Scanning, Distances, Gapless, Searching, GoingBack, Merging
<1>7. CyclesAtHome'
  BY <1>1, <1>2, <1>4 DEF CyclesAtHome, Home
<1>8. NoWayBack'
  <2>1. SUFFICES ASSUME NEW m \in graph.sups[killing.node], m <= killing.t
                 PROVE  \E S \in SUBSET Ast :
                          m \in S /\ killing.node \notin S /\ ClosedUp(graph, S)
    BY <1>1, <1>4 DEF NoWayBack, Done
  <2>2. CASE m = killing.t
    <3>1. Reached \in SUBSET Ast /\ ClosedUp(graph, Reached)
      BY <1>5 DEF Reached, ReachedBy, ClosedUp
    <3>2. QED
      BY <1>5, <2>2, <3>1
  <2>3. CASE m # killing.t
    <3>1. m \in Nat /\ killing.t \in Nat
      BY <1>1, NodeIsLive
    <3>2. m \in Done
      BY <1>1, <2>1, <2>3, <3>1 DEF Done
    <3>3. QED
      BY <1>1, <1>2, <3>2 DEF NoWayBack
  <2>4. QED
    BY <2>2, <2>3
<1>9. QED
  BY <1>1, <1>6, <1>7, <1>8 DEF CubicInv

(* The way back goes through live nodes whose distances decrease.          *)
LEMMA StepBackKeeps ==
  ASSUME CubicInv, StepBack
  PROVE  CubicInv'
<1>1. /\ killing.pc = "back" /\ StepsBack
      /\ UNCHANGED <<graph, stack, status, given>>
      /\ killing' = [killing EXCEPT !.path = Append(@, Min(Near))]
  BY DEF StepBack, At
<1>2. /\ WellFormed(graph) /\ killing \in Killing
      /\ CyclesAtHome /\ NoWayBack /\ AtNode /\ Distances /\ GoingBack
      /\ killing.t \in graph.sups[killing.node]
  BY <1>1 DEF CubicInv, KillingOK
<1> DEFINE p == killing.path
           b == Min(Near)
<1>3. /\ p \in Seq(Ast) /\ p # << >> /\ p[1] = killing.node
      /\ ToSet(p) \subseteq LiveIn(graph) \cap Reached
      /\ \A i, j \in DOMAIN p : i < j => killing.dist[p[i]] > killing.dist[p[j]]
  BY <1>1, <1>2 DEF Killing, GoingBack
<1>4. /\ Len(p) \in Nat \ {0} /\ DOMAIN p = 1 .. Len(p) /\ Curr = p[Len(p)]
      /\ Curr \in ToSet(p) /\ Curr \in LiveIn(graph) /\ Curr \in Reached
  <2>1. Len(p) \in Nat \ {0} /\ DOMAIN p = 1 .. Len(p) /\ Curr = p[Len(p)]
    BY <1>3, FrontAndLast, ElementsOfSeq DEF Curr
  <2>2. Curr \in ToSet(p)
    BY <2>1 DEF ToSet
  <2>3. QED
    BY <1>3, <2>1, <2>2
<1>5. graph.subs[Curr] \subseteq LiveIn(graph) /\ graph.subs[Curr] \subseteq Ast
  BY <1>2, <1>4 DEF WellFormed, LiveLinks, LiveIn
<1>6. b \in Near
  <2>1. Near \in SUBSET Nat /\ Near # {}
    BY <1>1, <1>5, NoneIsNoNode DEF Near, StepsBack
  <2>2. QED
    BY <2>1, MinOfNaturals
<1>7. /\ b \in LiveIn(graph) /\ b \in Ast /\ b \in Reached
      /\ killing.dist[b] = killing.dist[Curr] - 1
  BY <1>1, <1>5, <1>6 DEF Near, StepsBack, Reached, ReachedBy
<1> HIDE DEF b
<1>8. /\ killing' \in Killing /\ killing'.pc = "back" /\ killing'.from = killing.from
      /\ killing'.node = killing.node /\ killing'.t = killing.t
      /\ killing'.dist = killing.dist /\ killing'.path = Append(p, b)
  <2>1. Append(p, b) \in Seq(Ast)
    BY <1>3, <1>7
  <2>2. QED
    BY <1>1, <1>2, <2>1 DEF Killing, b
<1>9. GoingBack'
  <2> DEFINE q == Append(p, b)
  <2>1. /\ Len(q) = Len(p) + 1 /\ DOMAIN q = 1 .. Len(p) + 1
        /\ \A i \in 1 .. Len(p) : q[i] = p[i]
        /\ q[Len(p) + 1] = b
    BY <1>3, <1>7
  <2>2. ToSet(q) = ToSet(p) \cup {b}
    BY <1>3, ToSetAppend
  <2> HIDE DEF q
  <2>3. q # << >> /\ q[1] = killing.node
    <3>1. 1 \in 1 .. Len(p) /\ 1 \in DOMAIN q
      BY <1>4, <2>1
    <3>2. QED
      BY <1>3, <2>1, <3>1
  <2>4. \A m \in Ast : killing.dist[m] \in Int
    <3>1. Cardinality(Ast) \in Nat
      BY AddressAssumption, FS_CardinalityType
    <3>2. QED
      BY <1>2, <3>1 DEF Killing
  <2>5. \A i \in 1 .. Len(p) : p[i] \in Ast
    BY <1>3
  <2>6. ASSUME NEW i \in 1 .. Len(p) PROVE killing.dist[p[i]] > killing.dist[b]
    <3>1. killing.dist[p[i]] >= killing.dist[Curr]
      <4>1. CASE i = Len(p)
        BY <1>4, <2>4, <2>5, <4>1
      <4>2. CASE i # Len(p)
        <5>1. i < Len(p) /\ Len(p) \in 1 .. Len(p)
          BY <1>4, <4>2
        <5>2. killing.dist[p[i]] > killing.dist[p[Len(p)]]
          BY <1>3, <1>4, <5>1
        <5>3. QED
          BY <1>4, <2>4, <2>5, <5>1, <5>2
      <4>3. QED
        BY <4>1, <4>2
    <3>2. Curr \in Ast
      BY <1>4 DEF LiveIn
    <3>3. QED
      BY <1>7, <2>4, <2>5, <3>1, <3>2
  <2>7. ASSUME NEW i \in DOMAIN q, NEW j \in DOMAIN q, i < j
        PROVE  killing.dist[q[i]] > killing.dist[q[j]]
    <3>1. i \in 1 .. Len(p) /\ (j \in 1 .. Len(p) \/ j = Len(p) + 1)
      BY <1>4, <2>1, <2>7
    <3>2. QED
      BY <1>3, <1>4, <2>1, <2>6, <2>7, <3>1
  <2>8. killing'.path = q /\ Reached' = Reached
    BY <1>8 DEF q, Reached
  <2>9. QED
    BY <1>1, <1>3, <1>7, <1>8, <2>2, <2>3, <2>7, <2>8 DEF GoingBack
<1>10. KillingOK'
  BY <1>1, <1>2, <1>8, <1>9
     DEF KillingOK, AtNode, Scanning, Distances, Searching, Merging
<1>11. CyclesAtHome' /\ NoWayBack'
  BY <1>1, <1>2, <1>8 DEF CyclesAtHome, Home, NoWayBack
<1>12. QED
  BY <1>1, <1>10, <1>11 DEF CubicInv

(* The path that was found has no node twice.                              *)
LEMMA PathFoundKeeps ==
  ASSUME CubicInv, PathFound
  PROVE  CubicInv'
<1>1. /\ killing.pc = "back"
      /\ UNCHANGED <<graph, stack, status, given>>
      /\ killing' = [killing EXCEPT !.pc = "merge", !.dist = NoDistance]
  BY DEF PathFound, At
<1>2. /\ WellFormed(graph) /\ killing \in Killing
      /\ CyclesAtHome /\ AtNode /\ GoingBack
  BY <1>1 DEF CubicInv, KillingOK
<1>3. NoDistance \in [Ast -> -1 .. Cardinality(Ast)] /\ ReachedBy(NoDistance) = {}
  <2>1. Cardinality(Ast) \in Nat
    BY AddressAssumption, FS_CardinalityType
  <2>2. QED
    BY <2>1 DEF NoDistance, ReachedBy
<1>4. /\ killing' \in Killing /\ killing'.pc = "merge" /\ killing'.from = killing.from
      /\ killing'.dist = NoDistance /\ killing'.path = killing.path
  BY <1>1, <1>2, <1>3 DEF Killing
<1> DEFINE p == killing.path
<1>5. /\ p \in Seq(Ast) /\ p # << >> /\ p[1] = killing.node
      /\ ToSet(p) \subseteq LiveIn(graph)
      /\ \A i, j \in DOMAIN p : i < j => killing.dist[p[i]] > killing.dist[p[j]]
  BY <1>1, <1>2 DEF Killing, GoingBack
<1>6. DOMAIN p = 1 .. Len(p) /\ Len(p) \in Nat \ {0}
  BY <1>5, FrontAndLast, ElementsOfSeq
<1>7. killing.node \in ToSet(p)
  <2>1. 1 \in DOMAIN p
    BY <1>6
  <2>2. QED
    BY <1>5, <2>1 DEF ToSet
<1>8. \A i, j \in DOMAIN p : i # j => p[i] # p[j]
  <2>1. Cardinality(Ast) \in Nat
    BY AddressAssumption, FS_CardinalityType
  <2>2. \A i \in DOMAIN p : killing.dist[p[i]] \in Int
    <3>1. \A i \in DOMAIN p : p[i] \in Ast
      BY <1>5
    <3>2. \A m \in Ast : killing.dist[m] \in Int
      BY <1>2, <2>1 DEF Killing
    <3>3. QED
      BY <3>1, <3>2
  <2>3. ASSUME NEW i \in DOMAIN p, NEW j \in DOMAIN p, i # j PROVE p[i] # p[j]
    <3>1. i < j \/ j < i
      BY <1>6, <2>3
    <3>2. killing.dist[p[i]] > killing.dist[p[j]] \/ killing.dist[p[j]] > killing.dist[p[i]]
      BY <1>5, <3>1
    <3>3. killing.dist[p[i]] # killing.dist[p[j]]
      BY <2>2, <3>2
    <3>4. QED
      BY <3>3
  <2>4. QED
    BY <2>3
<1>9. killing.from \in Known(graph) /\ killing.node = graph.of[killing.from]
  BY <1>1, <1>2 DEF AtNode
<1>10. Merging'
  BY <1>1, <1>4, <1>5, <1>7, <1>8, <1>9 DEF Merging
<1>11. KillingOK'
  BY <1>1, <1>3, <1>4, <1>10
     DEF KillingOK, AtNode, Scanning, Distances, Gapless, Searching, GoingBack
<1>12. CyclesAtHome'
  <2>1. Home \subseteq Home'
    BY <1>1, <1>4, <1>7 DEF Home
  <2>2. QED
    BY <1>1, <1>2, <2>1 DEF CyclesAtHome
<1>13. NoWayBack'
  BY <1>4 DEF NoWayBack
<1>14. QED
  BY <1>1, <1>11, <1>12, <1>13 DEF CubicInv

-----------------------------------------------------------------------------
(* The path after mergePath merged its last but one node into its last.    *)
LEMMA MergedPath ==
  ASSUME NEW p \in Seq(Ast), Len(p) > 1,
         \A i, j \in DOMAIN p : i # j => p[i] # p[j],
         NEW q, q = Append(Front(Front(p)), Last(p))
  PROVE  /\ q \in Seq(Ast) /\ Len(q) = Len(p) - 1
         /\ Last(p) \in ToSet(p) /\ Last(Front(p)) \in ToSet(p)
         /\ Last(p) # Last(Front(p))
         /\ ToSet(q) = ToSet(p) \ {Last(Front(p))}
         /\ \A i, j \in DOMAIN q : i # j => q[i] # q[j]
<1> DEFINE r == Front(p)
<1>1. PICK n \in Nat : n = Len(p) /\ n > 1
  OBVIOUS
<1>2. /\ DOMAIN p = 1 .. n /\ Last(p) = p[n] /\ Last(p) \in Ast
      /\ r \in Seq(Ast) /\ Len(r) = n - 1
      /\ \A i \in 1 .. n - 1 : r[i] = p[i]
      /\ ToSet(p) = ToSet(r) \cup {Last(p)}
  <2>1. p # << >>
    BY <1>1
  <2>2. QED
    BY <1>1, <2>1, FrontAndLast, ElementsOfSeq
<1> HIDE DEF r
<1>3. PICK s \in Seq(Ast) :
        /\ s = Front(r) /\ Len(s) = n - 2 /\ DOMAIN s = 1 .. n - 2
        /\ Last(r) = r[n - 1] /\ Last(r) \in Ast
        /\ \A i \in 1 .. n - 2 : s[i] = r[i]
        /\ ToSet(r) = ToSet(s) \cup {Last(r)}
  <2>1. r # << >>
    BY <1>1, <1>2
  <2>2. /\ Last(r) = r[Len(r)] /\ Last(r) \in Ast
        /\ Front(r) \in Seq(Ast) /\ Len(Front(r)) = Len(r) - 1
        /\ \A i \in 1 .. Len(r) - 1 : Front(r)[i] = r[i]
        /\ ToSet(r) = ToSet(Front(r)) \cup {Last(r)}
    BY <1>2, <2>1, FrontAndLast
  <2>3. Len(r) - 1 = n - 2
    BY <1>1, <1>2
  <2>4. DOMAIN Front(r) = 1 .. n - 2
    BY <2>2, <2>3, ElementsOfSeq
  <2>5. QED
    BY <1>2, <2>2, <2>3, <2>4
<1>4. /\ q \in Seq(Ast) /\ Len(q) = n - 1 /\ DOMAIN q = 1 .. n - 1
      /\ \A i \in 1 .. n - 2 : q[i] = s[i]
      /\ q[n - 1] = Last(p)
      /\ ToSet(q) = ToSet(s) \cup {Last(p)}
  <2>1. q = Append(s, Last(p))
    BY <1>3 DEF r
  <2>2. /\ q \in Seq(Ast) /\ Len(q) = Len(s) + 1 /\ DOMAIN q = 1 .. Len(s) + 1
        /\ \A i \in 1 .. Len(s) : q[i] = s[i]
        /\ q[Len(s) + 1] = Last(p)
    <3>1. PICK e \in Ast : e = Last(p)
      BY <1>2
    <3>2. /\ Append(s, e) \in Seq(Ast) /\ Len(Append(s, e)) = Len(s) + 1
          /\ \A i \in 1 .. Len(s) : Append(s, e)[i] = s[i]
          /\ Append(s, e)[Len(s) + 1] = e
      OBVIOUS
    <3>3. q = Append(s, e)
      BY <2>1, <3>1
    <3>4. DOMAIN q = 1 .. Len(q)
      BY <3>2, <3>3, ElementsOfSeq
    <3>5. QED
      BY <3>1, <3>2, <3>3, <3>4
  <2>3. Len(s) = n - 2 /\ Len(s) + 1 = n - 1
    BY <1>1, <1>3
  <2>4. QED
    BY <2>1, <2>2, <2>3, ToSetAppend
<1>5. /\ \A i \in 1 .. n - 2 : s[i] = p[i] /\ q[i] = p[i]
      /\ Last(r) = p[n - 1] /\ q[n - 1] = p[n]
  <2>1. n - 1 \in 1 .. n - 1 /\ \A i \in 1 .. n - 2 : i \in 1 .. n - 1
    BY <1>1
  <2>2. QED
    BY <1>2, <1>3, <1>4, <2>1
<1>6. n \in DOMAIN p /\ n - 1 \in DOMAIN p /\ \A i \in 1 .. n - 2 : i \in DOMAIN p
  BY <1>1, <1>2
<1>7. Last(p) # Last(r)
  <2>1. n # n - 1
    BY <1>1
  <2>2. QED
    BY <1>2, <1>5, <1>6, <2>1
<1>8. \A i, j \in DOMAIN q : i # j => q[i] # q[j]
  <2> DEFINE place(i) == IF i = n - 1 THEN n ELSE i
  <2>1. ASSUME NEW i \in 1 .. n - 1 PROVE place(i) \in DOMAIN p /\ q[i] = p[place(i)]
    <3>1. i = n - 1 \/ i \in 1 .. n - 2
      BY <1>1
    <3>2. CASE i = n - 1
      BY <1>5, <1>6, <3>2
    <3>3. CASE i \in 1 .. n - 2
      <4>1. i # n - 1
        BY <1>1, <3>3
      <4>2. QED
        BY <1>5, <1>6, <3>3, <4>1
    <3>4. QED
      BY <3>1, <3>2, <3>3
  <2>2. \A i, j \in 1 .. n - 1 : i # j => place(i) # place(j)
    BY <1>1
  <2> HIDE DEF place
  <2>3. QED
    BY <1>4, <2>1, <2>2
<1>9. Last(r) \notin ToSet(s)
  <2>1. ASSUME NEW i \in 1 .. n - 2 PROVE s[i] # Last(r)
    <3>1. i # n - 1
      BY <1>1
    <3>2. QED
      BY <1>5, <1>6, <3>1
  <2>2. QED
    BY <1>3, <2>1 DEF ToSet
<1>10. QED
  BY <1>1, <1>2, <1>3, <1>4, <1>7, <1>8, <1>9 DEF r

(* mergePath merges two live nodes of the path, and the path that is left  *)
(* is still met by every cycle.                                            *)
LEMMA MergePathKeeps ==
  ASSUME CubicInv, MergePath
  PROVE  CubicInv'
<1> DEFINE p == killing.path
           n1 == Last(p)
           n2 == Last(Front(p))
           q == Append(Front(Front(p)), n1)
<1>1. /\ killing.pc = "merge" /\ Len(p) > 1
      /\ UNCHANGED <<status, given>>
      /\ graph' = MergeNodes(graph, n1, n2)
      /\ stack' = [i \in DOMAIN stack |-> Invalidate(graph, stack[i], n1, n2)]
      /\ killing' = [killing EXCEPT !.path = q]
  BY DEF MergePath, At, Curr
<1>2. /\ WellFormed(graph) /\ killing \in Killing /\ stack \in Seq(FrameOK(graph))
      /\ CyclesAtHome /\ Merging /\ Distances
  BY DEF CubicInv, KillingOK
<1>3. /\ p \in Seq(Ast) /\ killing.from \in Known(graph)
      /\ graph.of[killing.from] \in ToSet(p) /\ ToSet(p) \subseteq LiveIn(graph)
      /\ \A i, j \in DOMAIN p : i # j => p[i] # p[j]
  BY <1>1, <1>2 DEF Killing, Merging
<1>4. /\ q \in Seq(Ast) /\ ToSet(q) = ToSet(p) \ {n2}
      /\ n1 \in ToSet(p) /\ n2 \in ToSet(p) /\ n1 # n2
      /\ \A i, j \in DOMAIN q : i # j => q[i] # q[j]
  BY <1>1, <1>3, MergedPath
<1>5. n1 \in LiveIn(graph) /\ n2 \in LiveIn(graph) /\ n1 \in Ast /\ n2 \in Ast
  BY <1>3, <1>4 DEF LiveIn
<1> HIDE DEF p, n1, n2, q
<1>6. /\ WellFormed(graph') /\ Known(graph') = Known(graph)
      /\ LiveIn(graph') = LiveIn(graph) \ {n2}
      /\ graph'.of = [a \in Ast |-> IF graph.of[a] = n2 THEN n1 ELSE graph.of[a]]
      /\ \A n \in LiveIn(graph') \ {n1} : graph'.sups[n] \subseteq graph.sups[n] \cup {n1}
  BY <1>1, <1>2, <1>4, <1>5, MergeNodesFacts
<1>7. stack' \in Seq(FrameOK(graph'))
  <2>1. FrameOK(graph) \subseteq FrameOK(graph')
    BY <1>6, FramesKept
  <2>2. Len(stack) \in Nat /\ DOMAIN stack = 1 .. Len(stack)
        /\ \A i \in 1 .. Len(stack) : stack[i] \in FrameOK(graph)
    BY <1>2
  <2>3. \A i \in 1 .. Len(stack) : Invalidate(graph, stack[i], n1, n2) \in FrameOK(graph')
    BY <1>5, <2>1, <2>2, InvalidateFacts
  <2>4. QED
    BY <1>1, <2>2, <2>3
<1>8. /\ killing' \in Killing /\ killing'.pc = "merge" /\ killing'.from = killing.from
      /\ killing'.path = q /\ killing'.dist = killing.dist
  BY <1>1, <1>2, <1>4 DEF Killing
<1>9. Merging'
  <2>1. graph'.of[killing.from] \in ToSet(q)
    BY <1>3, <1>4, <1>6 DEF Known
  <2>2. QED
    BY <1>3, <1>4, <1>6, <1>8, <2>1 DEF Merging
<1>10. KillingOK'
  BY <1>2, <1>8, <1>9 DEF KillingOK, AtNode, Scanning, Distances, Searching, GoingBack
<1>11. CyclesAtHome'
  <2>1. SUFFICES ASSUME NEW S \in SUBSET Ast, Sinkless(graph', S), S # {},
                        S \cap ToSet(q) = {}
                 PROVE  FALSE
    BY <1>8 DEF CyclesAtHome, Home
  <2>2. n1 \notin S /\ S \subseteq LiveIn(graph')
    BY <1>4, <2>1 DEF Sinkless
  <2>3. Sinkless(graph, S)
    BY <1>6, <2>1, <2>2 DEF Sinkless
  <2>4. S \cap ToSet(p) # {}
    BY <1>1, <1>2, <2>1, <2>3 DEF CyclesAtHome, Home, p
  <2>5. QED
    BY <1>4, <1>6, <2>1, <2>2, <2>4
<1>12. NoWayBack'
  BY <1>8 DEF NoWayBack
<1>13. QED
  BY <1>1, <1>2, <1>6, <1>7, <1>10, <1>11, <1>12 DEF CubicInv

(* The whole path is one node: it is the AST node's, and what every cycle  *)
(* goes through.                                                           *)
LEMMA CollapsedKeeps ==
  ASSUME CubicInv, Collapsed
  PROVE  CubicInv'
<1>1. /\ killing.pc = "merge" /\ Len(killing.path) = 1
      /\ UNCHANGED <<graph, stack, status, given>>
      /\ killing' = [killing EXCEPT !.pc = "scan", !.node = Curr, !.t = None, !.path = << >>]
  BY DEF Collapsed, At
<1>2. /\ WellFormed(graph) /\ killing \in Killing
      /\ CyclesAtHome /\ Merging /\ Distances
  BY DEF CubicInv, KillingOK
<1>3. /\ killing.path \in Seq(Ast) /\ killing.from \in Known(graph)
      /\ graph.of[killing.from] \in ToSet(killing.path)
  BY <1>1, <1>2 DEF Killing, Merging
<1>4. ToSet(killing.path) = {Curr} /\ Curr \in Ast
  <2>1. DOMAIN killing.path = {1} /\ killing.path[1] = Curr /\ killing.path[1] \in Ast
    BY <1>1, <1>3 DEF Curr, Last
  <2>2. QED
    BY <2>1 DEF ToSet
<1>5. /\ killing' \in Killing /\ killing'.pc = "scan" /\ killing'.from = killing.from
      /\ killing'.node = Curr /\ killing'.t = None /\ killing'.dist = killing.dist
      /\ killing'.path = << >>
  <2>1. << >> \in Seq(Ast)
    OBVIOUS
  <2>2. QED
    BY <1>1, <1>2, <1>4, <2>1 DEF Killing
<1>6. KillingOK'
  BY <1>1, <1>2, <1>3, <1>4, <1>5
     DEF KillingOK, AtNode, Scanning, Distances, Searching, GoingBack, Merging
<1>7. CyclesAtHome'
  BY <1>1, <1>2, <1>4, <1>5 DEF CyclesAtHome, Home
<1>8. NoWayBack'
  <2>1. graph.sups[Curr] \subseteq Ast
    BY <1>2, <1>4 DEF WellFormed, Graph
  <2>2. \A m \in graph.sups[Curr] : ~(m <= 0)
    <3>1. \A m \in Ast : m \in Nat /\ m # 0
      BY NoneIsNoNode DEF None
    <3>2. \A m \in Ast : ~(m <= 0)
      BY <3>1
    <3>3. QED
      BY <2>1, <3>2
  <2>3. Done' = {}
    BY <1>1, <1>5, <2>2 DEF Done, None
  <2>4. QED
    BY <2>3 DEF NoWayBack
<1>9. QED
  BY <1>1, <1>6, <1>7, <1>8 DEF CubicInv

(* When all supersets have been looked at no cycle is left: it would go    *)
(* through the node and through one of its supersets, and from there there *)
(* is no way back.                                                         *)
LEMMA KillDoneKeeps ==
  ASSUME CubicInv, KillDone
  PROVE  CubicInv'
<1>1. /\ killing.pc = "scan" /\ Unscanned = {}
      /\ UNCHANGED <<graph, status, given>>
      /\ stack' = Append(stack, NewFrame(graph.of[killing.from]))
      /\ killing' = Idle
  BY DEF KillDone, At
<1>2. /\ WellFormed(graph) /\ stack \in Seq(FrameOK(graph))
      /\ CyclesAtHome /\ NoWayBack /\ AtNode
  BY DEF CubicInv, KillingOK
<1>3. stack' \in Seq(FrameOK(graph'))
  <2>1. graph.of[killing.from] \in Ast
    BY <1>1, <1>2, NodeIsLive DEF AtNode
  <2>2. PICK fr \in FrameOK(graph) : stack' = Append(stack, fr)
    BY <1>1, <2>1, NewFrameOK
  <2>3. stack' \in Seq(FrameOK(graph))
    BY <1>2, <2>2
  <2>4. QED
    BY <1>1, <2>3
<1>4. ASSUME NEW S \in SUBSET Ast, Sinkless(graph, S), S # {}
      PROVE  FALSE
  <2>1. killing.node \in S
    BY <1>1, <1>2, <1>4 DEF CyclesAtHome, Home
  <2>2. PICK m \in graph.sups[killing.node] : m \in S
    BY <1>4, <2>1 DEF Sinkless
  <2>3. m \in Done
    <3>1. m \in Nat /\ killing.t \in Nat
      BY <1>1, NodeIsLive
    <3>2. QED
      BY <1>1, <3>1 DEF Unscanned, Done
  <2>4. PICK V \in SUBSET Ast : m \in V /\ killing.node \notin V /\ ClosedUp(graph, V)
    BY <1>1, <1>2, <2>3 DEF NoWayBack
  <2>5. Sinkless(graph, S \cap V)
    BY <1>4, <2>4 DEF Sinkless, ClosedUp
  <2>6. killing.node \in S \cap V
    BY <1>1, <1>2, <2>2, <2>4, <2>5 DEF CyclesAtHome, Home
  <2>7. QED
    BY <2>4, <2>6
<1>5. CyclesAtHome'
  <2>1. \A S \in SUBSET Ast : Sinkless(graph', S) => S = {}
    BY <1>1, <1>4
  <2>2. QED
    BY <1>1, <2>1, IdleCycles
<1>6. QED
  BY <1>1, <1>2, <1>3, <1>5, IdleKilling DEF CubicInv

-----------------------------------------------------------------------------
(* The running frame, and the stack with another one in its place.         *)
LEMMA TopFacts ==
  ASSUME NEW S, stack \in Seq(S), stack # << >>, NEW fr \in S
  PROVE  /\ Top \in S /\ Len(stack) \in 1 .. Len(stack) /\ Top = stack[Len(stack)]
         /\ [stack EXCEPT ![Len(stack)] = fr] \in Seq(S)
         /\ Front(stack) \in Seq(S)
<1>1. /\ Last(stack) \in S /\ Last(stack) = stack[Len(stack)]
      /\ Len(stack) \in Nat \ {0} /\ Front(stack) \in Seq(S)
  BY FrontAndLast
<1>2. Len(stack) \in 1 .. Len(stack)
  BY <1>1
<1>3. QED
  BY <1>1, <1>2, ReplaceElement DEF Top

(* propagateNodeChanges takes the list of the next function.               *)
LEMMA NextFunctionKeeps ==
  ASSUME CubicInv, NextFunction
  PROVE  CubicInv'
<1> DEFINE f == Top.fun + 1
           n == Top.node
<1>1. /\ killing = Idle /\ stack # << >> /\ UNCHANGED <<killing, status, given>>
      /\ \/ /\ f \in Fun /\ f \in graph.bits[n]
            /\ stack' = [stack EXCEPT ![Len(stack)] =
                           [Top EXCEPT !.fun = f, !.pairs = graph.conds[n][f]]]
            /\ graph' = [graph EXCEPT !.conds[n][f] = << >>]
         \/ /\ stack' = [stack EXCEPT ![Len(stack)] = [Top EXCEPT !.fun = f]]
            /\ graph' = graph
  BY DEF NextFunction, Propagating, SetTop
<1>2. WellFormed(graph) /\ stack \in Seq(FrameOK(graph)) /\ CyclesAtHome
  BY DEF CubicInv
<1>3. Top \in FrameOK(graph)
  BY <1>1, <1>2, TopFacts, FrontAndLast DEF Top
<1>4. n \in Ast /\ f \in Nat
  BY <1>3 DEF FrameOK, Frame
<1>5. SameNodes(graph, graph') /\ stack' \in Seq(FrameOK(graph))
  <2>1. CASE /\ f \in Fun
             /\ stack' = [stack EXCEPT ![Len(stack)] =
                            [Top EXCEPT !.fun = f, !.pairs = graph.conds[n][f]]]
             /\ graph' = [graph EXCEPT !.conds[n][f] = << >>]
    <3> DEFINE fr == [Top EXCEPT !.fun = f, !.pairs = graph.conds[n][f]]
    <3>1. graph.conds[n][f] \in Pairs(graph) /\ << >> \in Pairs(graph)
          /\ Pairs(graph) \subseteq Seq(Ast \X Ast)
      BY <1>2, <1>4, <2>1 DEF WellFormed, Pairs, Known
    <3>2. fr \in FrameOK(graph)
      BY <1>3, <1>4, <3>1 DEF FrameOK, Frame
    <3> HIDE DEF fr
    <3>3. stack' = [stack EXCEPT ![Len(stack)] = fr]
      BY <2>1 DEF fr
    <3>4. stack' \in Seq(FrameOK(graph))
      BY <1>1, <1>2, <3>2, <3>3, TopFacts
    <3>5. SameNodes(graph, graph')
      <4>1. graph' = Relisted(graph, n, f, << >>)
        BY <2>1 DEF Relisted
      <4>2. QED
        BY <1>2, <1>4, <2>1, <3>1, <4>1, CondsFacts
    <3>6. QED
      BY <3>4, <3>5
  <2>2. CASE /\ stack' = [stack EXCEPT ![Len(stack)] = [Top EXCEPT !.fun = f]]
             /\ graph' = graph
    <3> DEFINE fr == [Top EXCEPT !.fun = f]
    <3>1. fr \in FrameOK(graph)
      BY <1>3, <1>4 DEF FrameOK, Frame
    <3> HIDE DEF fr
    <3>2. stack' = [stack EXCEPT ![Len(stack)] = fr]
      BY <2>2 DEF fr
    <3>3. stack' \in Seq(FrameOK(graph))
      BY <1>1, <1>2, <3>1, <3>2, TopFacts
    <3>4. QED
      BY <1>2, <2>2, <3>3 DEF SameNodes
  <2>3. QED
    BY <1>1, <2>1, <2>2
<1>6. stack' \in Seq(FrameOK(graph'))
  BY <1>5, FramesKept DEF SameNodes
<1>7. CyclesAtHome'
  <2>1. \A S \in SUBSET Ast : Sinkless(graph', S) => S = {}
    <3>1. \A S \in SUBSET Ast : Sinkless(graph, S) => S = {}
      BY <1>1, <1>2, NoCycleOutside
    <3>2. QED
      BY <1>5, <3>1 DEF SameNodes, Sinkless
  <2>2. QED
    BY <1>1, <2>1, IdleCycles
<1>8. QED
  BY <1>1, <1>5, <1>6, <1>7, IdleKilling DEF CubicInv, SameNodes

(* A conditional constraint in the list becomes an edge; killCyclesAt      *)
(* runs at its lower end.                                                  *)
LEMMA ActivateKeeps ==
  ASSUME CubicInv, ActivateConditionalConstraint
  PROVE  CubicInv'
<1> DEFINE pair == Head(Top.pairs)
           fr == [Top EXCEPT !.pairs = Tail(@)]
<1>1. /\ killing = Idle /\ stack # << >> /\ UNCHANGED <<status, given>>
      /\ Top.pairs # << >>
      /\ stack' = [stack EXCEPT ![Len(stack)] = fr]
      /\ Include(graph, pair[1], pair[2])
  BY DEF ActivateConditionalConstraint, Propagating, SetTop
<1>2. WellFormed(graph) /\ stack \in Seq(FrameOK(graph)) /\ CyclesAtHome
  BY DEF CubicInv
<1>3. Top \in FrameOK(graph)
  BY <1>1, <1>2, FrontAndLast DEF Top
<1>4. Top.pairs \in Pairs(graph)
  BY <1>3 DEF FrameOK
<1>5. pair \in Known(graph) \X Known(graph) /\ Tail(Top.pairs) \in Pairs(graph)
  BY <1>1, <1>4, HeadAndTail DEF Pairs
<1>6. fr \in FrameOK(graph)
  <2>1. Tail(Top.pairs) \in Seq(Ast \X Ast)
    BY <1>5 DEF Pairs, Known
  <2>2. QED
    BY <1>3, <1>5, <2>1 DEF FrameOK, Frame
<1> HIDE DEF fr
<1>7. stack' \in Seq(FrameOK(graph))
  BY <1>1, <1>2, <1>6, TopFacts
<1>8. /\ WellFormed(graph') /\ Known(graph') = Known(graph)
      /\ KillingOK' /\ CyclesAtHome' /\ NoWayBack'
  <2>1. \A S \in SUBSET Ast : Sinkless(graph, S) => S = {}
    BY <1>1, <1>2, NoCycleOutside
  <2>2. pair[1] \in Known(graph) /\ pair[2] \in Known(graph)
    BY <1>5
  <2>3. QED
    BY <1>1, <1>2, <2>1, <2>2, IncludeKeeps
<1>9. stack' \in Seq(FrameOK(graph'))
  BY <1>7, <1>8, FramesKept
<1>10. QED
  BY <1>1, <1>8, <1>9 DEF CubicInv

(* Functions are copied to the next superset, and propagateNodeChanges is  *)
(* called there.                                                           *)
LEMMA NextSupersetKeeps ==
  ASSUME CubicInv, NextSuperset
  PROVE  CubicInv'
<1> DEFINE m == Min(Ahead)
           fr == [Top EXCEPT !.at = m, !.iter = "valid"]
<1>1. /\ killing = Idle /\ stack # << >> /\ UNCHANGED <<killing, status, given>>
      /\ Ahead # {}
      /\ graph' = [graph EXCEPT !.bits[m] = @ \cup graph.bits[Top.node]]
      /\ stack' = Append([stack EXCEPT ![Len(stack)].at = m,
                                       ![Len(stack)].iter = "valid"], NewFrame(m))
  BY DEF NextSuperset, Propagating
<1>2. WellFormed(graph) /\ stack \in Seq(FrameOK(graph)) /\ CyclesAtHome
  BY DEF CubicInv
<1>3. Top \in FrameOK(graph) /\ Top.node \in Ast
  <2>1. Top \in FrameOK(graph)
    BY <1>1, <1>2, FrontAndLast DEF Top
  <2>2. QED
    BY <2>1 DEF FrameOK, Frame
<1>4. m \in Ast
  <2>1. Ahead \subseteq Ast
    BY <1>2, <1>3 DEF Ahead, WellFormed, Graph
  <2>2. QED
    BY <1>1, <2>1, MinOfNaturals, NoneIsNoNode
<1> HIDE DEF m
<1>5. SameNodes(graph, graph')
  <2>1. PICK X \in SUBSET Fun : X = graph.bits[Top.node]
    BY <1>2, <1>3 DEF WellFormed, Graph
  <2>2. graph' = Grown(graph, m, X)
    BY <1>1, <2>1 DEF Grown
  <2>3. QED
    BY <1>2, <1>4, <2>2, BitsFacts
<1>6. stack' \in Seq(FrameOK(graph))
  <2>1. fr \in FrameOK(graph)
    BY <1>3, <1>4 DEF FrameOK, Frame
  <2>2. stack' = Append([stack EXCEPT ![Len(stack)] = fr], NewFrame(m))
    <3>1. /\ Len(stack) \in 1 .. Len(stack) /\ Top = stack[Len(stack)]
          /\ DOMAIN stack = 1 .. Len(stack)
      BY <1>1, <1>2, <2>1, TopFacts, ElementsOfSeq
    <3>2. [stack EXCEPT ![Len(stack)].at = m, ![Len(stack)].iter = "valid"]
            = [stack EXCEPT ![Len(stack)] = fr]
      BY <3>1
    <3>3. QED
      BY <1>1, <3>2
  <2> HIDE DEF fr
  <2>3. PICK s \in Seq(FrameOK(graph)) : s = [stack EXCEPT ![Len(stack)] = fr]
    BY <1>1, <1>2, <2>1, TopFacts
  <2>4. NewFrame(m) \in FrameOK(graph)
    BY <1>4, NewFrameOK
  <2>5. QED
    BY <2>2, <2>3, <2>4
<1>7. stack' \in Seq(FrameOK(graph'))
  BY <1>5, <1>6, FramesKept DEF SameNodes
<1>8. CyclesAtHome'
  <2>1. \A S \in SUBSET Ast : Sinkless(graph', S) => S = {}
    <3>1. \A S \in SUBSET Ast : Sinkless(graph, S) => S = {}
      BY <1>1, <1>2, NoCycleOutside
    <3>2. QED
      BY <1>5, <3>1 DEF SameNodes, Sinkless
  <2>2. QED
    BY <1>1, <2>1, IdleCycles
<1>9. QED
  BY <1>1, <1>5, <1>7, <1>8, IdleKilling DEF CubicInv, SameNodes

(* A call of propagateNodeChanges returns.                                 *)
LEMMA ReturnKeeps ==
  ASSUME CubicInv, ReturnFromPropagate
  PROVE  CubicInv'
<1>1. /\ stack # << >> /\ stack' = Front(stack)
      /\ UNCHANGED <<graph, killing, status, given>>
  BY DEF ReturnFromPropagate, Propagating
<1>2. stack' \in Seq(FrameOK(graph'))
  <2>1. stack \in Seq(FrameOK(graph))
    BY DEF CubicInv
  <2>2. QED
    BY <1>1, <2>1, FrontAndLast
<1>3. KillingOK' = KillingOK /\ CyclesAtHome' = CyclesAtHome /\ NoWayBack' = NoWayBack
  BY <1>1 DEF KillingOK, AtNode, Scanning, Distances, Searching, GoingBack, Merging,
              Reached, CyclesAtHome, Home, NoWayBack, Done
<1>4. QED
  BY <1>1, <1>2, <1>3 DEF CubicInv

(* findPath that spins, a crash, and no step at all.                       *)
LEMMA StopKeeps ==
  ASSUME CubicInv, UNCHANGED <<graph, stack, killing, given>>,
         status' \in {"running", "spinning", "crashed"}
  PROVE  CubicInv'
<1>1. KillingOK' = KillingOK /\ CyclesAtHome' = CyclesAtHome /\ NoWayBack' = NoWayBack
  BY DEF KillingOK, AtNode, Scanning, Distances, Searching, GoingBack, Merging,
         Reached, CyclesAtHome, Home, NoWayBack, Done
<1>2. QED
  BY <1>1 DEF CubicInv

-----------------------------------------------------------------------------
(* The invariant holds for the empty graph.                                *)
LEMMA CubicInit == Init => CubicInv
<1> SUFFICES ASSUME Init PROVE CubicInv
  OBVIOUS
<1>1. killing = Idle /\ stack = << >> /\ given = <<{}, {}, {}>> /\ status = "running"
  BY DEF Init
<1>2. WellFormed(graph)
  <2>1. Known(graph) = {} /\ LiveIn(graph) = {}
    BY NoneIsNoNode DEF Init, Known, LiveIn
  <2>2. graph \in Graph /\ graph.conds \in [Ast -> [Fun -> Pairs(graph)]]
    <3>1. << >> \in Pairs(graph) /\ << >> \in Seq(Ast \X Ast)
      BY DEF Pairs
    <3>2. QED
      BY <3>1 DEF Init, Graph
  <2>3. \A a \in Ast : graph.sups[a] = {} /\ graph.subs[a] = {}
    BY DEF Init
  <2>4. QED
    BY <2>1, <2>2, <2>3 DEF WellFormed, LiveLinks
<1>3. KillingOK /\ NoWayBack
  <2>1. /\ killing.pc = "none" /\ killing.dist = NoDistance
        /\ killing.path = << >> /\ killing.queue = << >>
        /\ killing.from = None /\ killing.node = None /\ killing.t = None
    BY <1>1 DEF Idle
  <2>2. killing \in Killing
    <3>1. NoDistance \in [Ast -> -1 .. Cardinality(Ast)]
      <4>1. Cardinality(Ast) \in Nat
        BY AddressAssumption, FS_CardinalityType
      <4>2. QED
        BY <4>1 DEF NoDistance
    <3>2. << >> \in Seq(Ast)
      OBVIOUS
    <3>3. QED
      BY <1>1, <3>1, <3>2 DEF Idle, Killing
  <2>3. Distances
    BY <2>1 DEF Distances, Gapless, ReachedBy, NoDistance
  <2>4. QED
    BY <1>1, <2>1, <2>2, <2>3
       DEF KillingOK, NoWayBack, AtNode, Scanning, Searching, GoingBack, Merging
<1>4. CyclesAtHome
  <2>1. LiveIn(graph) = {}
    BY NoneIsNoNode DEF Init, LiveIn
  <2>2. QED
    BY <2>1 DEF CyclesAtHome, Sinkless
<1>5. stack \in Seq(FrameOK(graph))
  BY <1>1
<1>6. QED
  BY <1>1, <1>2, <1>3, <1>4, <1>5 DEF CubicInv

(* Every step keeps the invariant: one lemma per action.                   *)
LEMMA CubicNext ==
  CubicInv /\ [Next]_vars => CubicInv'
<1> SUFFICES ASSUME CubicInv, [Next]_vars PROVE CubicInv'
  OBVIOUS
<1>1. status \in {"running", "spinning", "crashed"}
  BY DEF CubicInv
<1>2. ASSUME NEW c \in Elements, AddElementofConstraint(c[1], c[2]) PROVE CubicInv'
  BY <1>2, AddElementofKeeps
<1>3. ASSUME NEW c \in Inclusions, AddSubseteqConstraint(c[1], c[2]) PROVE CubicInv'
  BY <1>3, AddSubseteqKeeps
<1>4. ASSUME NEW c \in Conditionals, AddConditionalConstraint(c[1], c[2], c[3], c[4])
      PROVE  CubicInv'
  BY <1>4, AddConditionalKeeps
<1>5. CASE NextFunction
  BY <1>5, NextFunctionKeeps
<1>6. CASE ActivateConditionalConstraint
  BY <1>6, ActivateKeeps
<1>7. CASE StartSearch
  BY <1>7, StartSearchKeeps
<1>8. CASE Search
  BY <1>8, SearchKeeps
<1>9. CASE NoPath
  BY <1>9, NoPathKeeps
<1>10. CASE StepBack
  BY <1>10, StepBackKeeps
<1>11. CASE Spin
  BY <1>11, StopKeeps DEF Spin
<1>12. CASE PathFound
  BY <1>12, PathFoundKeeps
<1>13. CASE MergePath
  BY <1>13, MergePathKeeps
<1>14. CASE Collapsed
  BY <1>14, CollapsedKeeps
<1>15. CASE KillDone
  BY <1>15, KillDoneKeeps
<1>16. CASE NextSuperset
  BY <1>16, NextSupersetKeeps
<1>17. CASE ReturnFromPropagate
  BY <1>17, ReturnKeeps
<1>18. CASE Crash
  BY <1>18, StopKeeps DEF Crash
<1>19. CASE UNCHANGED vars
  BY <1>1, <1>19, StopKeeps DEF vars
<1>20. QED
  BY <1>2, <1>3, <1>4, <1>5, <1>6, <1>7, <1>8, <1>9, <1>10, <1>11, <1>12, <1>13, <1>14,
     <1>15, <1>16, <1>17, <1>18, <1>19 DEF Next, Step

(* So it holds in every state.                                             *)
LEMMA CubicInvariant == Spec => []CubicInv
BY CubicInit, CubicNext, PTL DEF Spec

-----------------------------------------------------------------------------
(* The solver's data keep their types: no node stands for None, every      *)
(* distance findPath gives is below the number of nodes, and every pair in *)
(* a list of conditional constraints or in a frame names two AST nodes.    *)
THEOREM CubicTypeCorrect == Spec => []TypeOK
<1>1. CubicInv => TypeOK
  <2> SUFFICES ASSUME CubicInv PROVE TypeOK
    OBVIOUS
  <2>1. FrameOK(graph) \subseteq Frame
    BY DEF FrameOK
  <2>2. stack \in Seq(Frame)
    BY <2>1 DEF CubicInv
  <2>3. QED
    BY <2>2 DEF CubicInv, TypeOK, WellFormed, KillingOK
<1>2. QED
  BY <1>1, CubicInvariant, PTL

(* The live solver nodes are those LiveIn names.                           *)
LEMMA LiveNodes ==
  ASSUME WellFormed(graph)
  PROVE  Live = LiveIn(graph)
<1>1. graph.of \in [Ast -> Ast \cup {None}]
  BY DEF WellFormed, Graph
<1>2. \A a \in Ast : graph.of[a] # None => graph.of[a] \in LiveIn(graph)
  BY DEF WellFormed, Known
<1>3. QED
  BY <1>1, <1>2, NoneIsNoNode DEF Live, LiveIn

(* Supersets and subsets of live nodes mirror each other and are live:     *)
(* what mergeNodes relies on when it dereferences find().                  *)
THEOREM MirroredInvariant == Spec => []Mirrored
<1>1. CubicInv => Mirrored
  BY LiveNodes DEF CubicInv, WellFormed, LiveLinks, Mirrored
<1>2. QED
  BY <1>1, CubicInvariant, PTL

(* Whenever propagateNodeChanges runs, the live graph has no cycle: its    *)
(* recursion, which keeps no record of where it has been, comes back to no *)
(* node it is at.                                                          *)
THEOREM AcyclicInvariant == Spec => []AcyclicWhenPropagating
<1>1. CubicInv => AcyclicWhenPropagating
  <2> SUFFICES ASSUME CubicInv, killing = Idle, NEW S \in SUBSET Live, S # {}
               PROVE  \E n \in S : graph.sups[n] \cap S = {}
    BY DEF AcyclicWhenPropagating
  <2>1. Live = LiveIn(graph)
    BY LiveNodes DEF CubicInv
  <2>2. S \in SUBSET Ast
    BY <2>1 DEF LiveIn
  <2>3. ~Sinkless(graph, S)
    BY <2>2, NoCycleOutside DEF CubicInv
  <2>4. QED
    BY <2>1, <2>3 DEF Sinkless
<1>2. QED
  BY <1>1, CubicInvariant, PTL
=============================================================================
