---------------------------- MODULE CubicSolver ----------------------------
(***************************************************************************)
(* The solver of the control flow analysis (src/semantic/cfa/             *)
(* CubicSolver.cpp).  For every AST node it keeps the set of functions the *)
(* node may evaluate to, under three kinds of constraints:                 *)
(*                                                                         *)
(*   fn \in [[n]]                          addElementofConstraint          *)
(*   [[from]] \subseteq [[to]]             addSubseteqConstraint           *)
(*   fn \in [[in]] => [[from]] \subseteq [[to]]   addConditionalConstraint *)
(*                                                                         *)
(* Inclusions are edges of a graph of solver nodes that is kept acyclic by *)
(* merging every cycle into one node; each AST node is mapped to the       *)
(* solver node that stands for it.  The solver is sequential: it runs one  *)
(* call at a time, and the recursion of propagateNodeChanges and           *)
(* activateConditionalConstraint is an explicit stack here, because it     *)
(* changes the very graph that the frames below are iterating over.        *)
(*                                                                         *)
(* A solver node is named by the AST node it was created for.  Solver      *)
(* nodes are kept in std::sets of pointers, so every loop over them runs   *)
(* in the order of their addresses: an AST node is the address its solver  *)
(* node gets.  Nothing relates addresses to the program, so the inputs are *)
(* all ways to write the constraints over these nodes.                     *)
(***************************************************************************)
EXTENDS Integers, Sequences, FiniteSets, SequencesExt

CONSTANTS
  Ast,             \* AST nodes, as the addresses of their solver nodes
  Fun,             \* functions, as their indices 1 .. n (fmapping)
  Elements,        \* <<fn, n>>: the element constraints that may be added
  Inclusions,      \* <<from, to>>: the inclusions that may be added
  Conditionals,    \* <<fn, in, from, to>>: the conditional ones
  MaxConstraints   \* bound of the model: different constraints added

ASSUME AddressAssumption == IsFiniteSet(Ast) /\ Ast \subseteq Nat \ {0}
ASSUME IndexAssumption == IsFiniteSet(Fun) /\ Fun = 1 .. Cardinality(Fun)
ASSUME InputAssumption ==
  /\ Elements \subseteq Fun \X Ast
  /\ Inclusions \subseteq Ast \X Ast
  /\ Conditionals \subseteq Fun \X Ast \X Ast \X Ast

None == 0                 \* no solver node

VARIABLES
  graph,    \* the solver nodes and dagmapping, see Graph
  stack,    \* frames of propagateNodeChanges, the running one last
  killing,  \* where killCyclesAt and the functions it calls are, see Killing
  status,   \* "running"; "spinning" in findPath; "crashed"
  given     \* the constraints added so far, <<elements, inclusions, conditionals>>

vars == <<graph, stack, killing, status, given>>

(* One CubicSolverNode per AST node, in use or not: its supsets, subsets,  *)
(* bitvector and conditionalConstraints; and dagmapping as "of".           *)
Graph == [of    : [Ast -> Ast \cup {None}],
          sups  : [Ast -> SUBSET Ast],
          subs  : [Ast -> SUBSET Ast],
          bits  : [Ast -> SUBSET Fun],
          conds : [Ast -> [Fun -> Seq(Ast \X Ast)]]]

(* A frame of propagateNodeChanges(node): the index "fun" of its first     *)
(* loop with the conditional constraints it has copied and not activated   *)
(* yet; then, once fun is past the last function, the element "at" its     *)
(* second loop over node->supsets stands on.  "iter" says whether the      *)
(* iterator of that loop is valid.                                         *)
Frame == [node : Ast, fun : Nat, pairs : Seq(Ast \X Ast),
          at : Ast \cup {None}, iter : {"valid", "reused", "freed"}]

NewFrame(n) ==
  [node |-> n, fun |-> 0, pairs |-> << >>, at |-> None, iter |-> "valid"]

(* killCyclesAt(node), called with the AST node "from": "scan" is its loop *)
(* over node->supsets with t the last element taken; "search" and "back"   *)
(* are findPath(t, node), its search and its way back; "merge" is          *)
(* mergePath(path).  A distance of -1 is "no distance".                    *)
Killing == [pc : {"none", "scan", "search", "back", "merge"},
            from : Ast \cup {None}, node : Ast \cup {None}, t : Ast \cup {None},
            dist : [Ast -> -1 .. Cardinality(Ast)],
            queue : Seq(Ast), path : Seq(Ast)]

NoDistance == [a \in Ast |-> -1]

Idle == [pc |-> "none", from |-> None, node |-> None, t |-> None,
         dist |-> NoDistance, queue |-> << >>, path |-> << >>]

KillCyclesAt(g, from) == [Idle EXCEPT !.pc = "scan", !.from = from, !.node = g.of[from]]

InLoop2(fr) == fr.fun > Cardinality(Fun)

Init ==
  /\ graph = [of    |-> [a \in Ast |-> None],
              sups  |-> [a \in Ast |-> {}],
              subs  |-> [a \in Ast |-> {}],
              bits  |-> [a \in Ast |-> {}],
              conds |-> [a \in Ast |-> [f \in Fun |-> << >>]]]
  /\ stack = << >>
  /\ killing = Idle
  /\ status = "running"
  /\ given = <<{}, {}, {}>>

-----------------------------------------------------------------------------
(* Operations on the graph.                                                *)

(* Slip: dagmapping[node] is used without creating a solver node.          *)
AddNoVariables(g, nodes) == g

(* addEmptyVariableIfNecessary                                             *)
AddEmptyVariables(g, nodes) ==
  [g EXCEPT !.of = [a \in Ast |-> IF a \in nodes /\ @[a] = None THEN a ELSE @[a]]]

(* The two insertions of addSubseteqConstraint.                            *)
AddEdge(g, n, m) ==
  [g EXCEPT !.sups[n] = @ \cup {m}, !.subs[m] = @ \cup {n}]

(* Slip: the neighbours of n2 are not told.                                *)
MergeSilently(g, n1, n2) ==
  [of    |-> [a \in Ast |-> IF g.of[a] = n2 THEN n1 ELSE g.of[a]],
   bits  |-> [g.bits EXCEPT ![n1] = @ \cup g.bits[n2]],
   conds |-> [g.conds EXCEPT ![n1] = [f \in Fun |-> @[f] \o g.conds[n2][f]]],
   sups  |-> [g.sups EXCEPT ![n1] = (@ \cup g.sups[n2]) \ {n1, n2}],
   subs  |-> [g.subs EXCEPT ![n1] = (@ \cup g.subs[n2]) \ {n1, n2}]]

(* Slip: n2's conditional constraints are lost.                            *)
MergeWithoutConditions(g, n1, n2) ==
  [of    |-> [a \in Ast |-> IF g.of[a] = n2 THEN n1 ELSE g.of[a]],
   bits  |-> [g.bits EXCEPT ![n1] = @ \cup g.bits[n2]],
   conds |-> g.conds,
   sups  |-> [n \in Ast |->
                IF n = n1 THEN (g.sups[n1] \cup g.sups[n2]) \ {n1, n2}
                ELSE IF n \in g.subs[n2] THEN (g.sups[n] \ {n2}) \cup {n1}
                ELSE g.sups[n]],
   subs  |-> [n \in Ast |->
                IF n = n1 THEN (g.subs[n1] \cup g.subs[n2]) \ {n1, n2}
                ELSE IF n \in g.sups[n2] THEN (g.subs[n] \ {n2}) \cup {n1}
                ELSE g.subs[n]]]

(* mergeNodes: n2's AST nodes, functions, constraints and edges go to n1.  *)
(* n2's own sets are left as they are.                                     *)
MergeNodes(g, n1, n2) ==
  [of    |-> [a \in Ast |-> IF g.of[a] = n2 THEN n1 ELSE g.of[a]],
   bits  |-> [g.bits EXCEPT ![n1] = @ \cup g.bits[n2]],
   conds |-> [g.conds EXCEPT ![n1] = [f \in Fun |-> @[f] \o g.conds[n2][f]]],
   sups  |-> [n \in Ast |->
                IF n = n1 THEN (g.sups[n1] \cup g.sups[n2]) \ {n1, n2}
                ELSE IF n \in g.subs[n2] THEN (g.sups[n] \ {n2}) \cup {n1}
                ELSE g.sups[n]],
   subs  |-> [n \in Ast |->
                IF n = n1 THEN (g.subs[n1] \cup g.subs[n2]) \ {n1, n2}
                ELSE IF n \in g.sups[n2] THEN (g.subs[n] \ {n2}) \cup {n1}
                ELSE g.subs[n]]]

(* What mergeNodes does to a loop that iterates over fr.node->supsets: it  *)
(* erases n2 under the iterator.  Where the node n1 is inserted next, the  *)
(* allocator gives it the memory just freed; where n1 is in the set        *)
(* already, or n1 is the node iterated over, the memory stays free.        *)
Invalidate(g, fr, n1, n2) ==
  IF InLoop2(fr) /\ fr.iter = "valid" /\ fr.at = n2 /\ n2 \in g.sups[fr.node]
     /\ (fr.node \in g.subs[n2] \/ fr.node = n1)
  THEN IF fr.node # n1 /\ n1 \notin g.sups[fr.node]
       THEN [fr EXCEPT !.at = n1, !.iter = "reused"]
       ELSE [fr EXCEPT !.iter = "freed"]
  ELSE fr

-----------------------------------------------------------------------------
(* The three constraints the analysis may add, when no call is running.  A *)
(* constraint may come again; a conditional one that waits is not repeated *)
(* here, which bounds the lists of conditional constraints.                *)
AtRest == status = "running" /\ stack = << >> /\ killing = Idle

Count == Cardinality(given[1]) + Cardinality(given[2]) + Cardinality(given[3])

Give(k, c) ==
  /\ AtRest
  /\ given' = [given EXCEPT ![k] = @ \cup {c}]
  /\ c \in given[k] \/ Count < MaxConstraints
  /\ UNCHANGED status

AddElementofConstraint(fn, n) ==
  /\ Give(1, <<fn, n>>)
  /\ LET g == AddEmptyVariables(graph, {n})
     IN  /\ graph' = [g EXCEPT !.bits[g.of[n]] = @ \cup {fn}]
         /\ stack' = <<NewFrame(g.of[n])>>
  /\ UNCHANGED killing

AddConditionalConstraint(fn, in, from, to) ==
  /\ <<fn, in, from, to>> \notin given[3]
  /\ Give(3, <<fn, in, from, to>>)
  /\ LET g == AddEmptyVariables(graph, {in, from, to})
     IN  /\ graph' = [g EXCEPT !.conds[g.of[in]][fn] = Append(@, <<from, to>>)]
         /\ stack' = <<NewFrame(g.of[in])>>
  /\ UNCHANGED killing

(* An inclusion within one solver node adds nothing; otherwise the edge is *)
(* added and killCyclesAt starts at its lower end.                         *)
Include(g, from, to) ==
  IF g.of[from] = g.of[to]
  THEN graph' = g /\ killing' = Idle
  ELSE /\ graph' = AddEdge(g, g.of[from], g.of[to])
       /\ killing' = KillCyclesAt(g, from)

AddSubseteqConstraint(from, to) ==
  /\ Give(2, <<from, to>>)
  /\ Include(AddEmptyVariables(graph, {from, to}), from, to)
  /\ UNCHANGED stack

-----------------------------------------------------------------------------
(* Steps of a running call.                                                *)
Top == Last(stack)
SetTop(fr) == stack' = [stack EXCEPT ![Len(stack)] = fr]

Propagating ==
  status = "running" /\ killing = Idle /\ stack # << >>

(* First loop: the next function.  If the node may be that function, its   *)
(* constraints are moved out of the node.                                  *)
NextFunction ==
  /\ Propagating /\ ~InLoop2(Top) /\ Top.pairs = << >>
  /\ LET f == Top.fun + 1
         n == Top.node
     IN  IF f \in Fun /\ f \in graph.bits[n]
         THEN /\ SetTop([Top EXCEPT !.fun = f, !.pairs = graph.conds[n][f]])
              /\ graph' = [graph EXCEPT !.conds[n][f] = << >>]
         ELSE /\ SetTop([Top EXCEPT !.fun = f])
              /\ UNCHANGED graph
  /\ UNCHANGED <<killing, status, given>>

(* Slip: the two nodes of a conditional constraint are swapped.            *)
ActivateBackwards ==
  /\ Propagating /\ Top.pairs # << >>
  /\ SetTop([Top EXCEPT !.pairs = Tail(@)])
  /\ Include(graph, Head(Top.pairs)[2], Head(Top.pairs)[1])
  /\ UNCHANGED <<status, given>>

(* activateConditionalConstraint of the next constraint copied.            *)
ActivateConditionalConstraint ==
  /\ Propagating /\ Top.pairs # << >>
  /\ SetTop([Top EXCEPT !.pairs = Tail(@)])
  /\ Include(graph, Head(Top.pairs)[1], Head(Top.pairs)[2])
  /\ UNCHANGED <<status, given>>

-----------------------------------------------------------------------------
(* Steps of killCyclesAt, findPath and mergePath.                          *)
At(pc) == status = "running" /\ killing.pc = pc

(* A std::set of solver nodes in the order it is iterated over.            *)
InOrder(S) == CHOOSE s \in SetToSeqs(S) : \A i, j \in DOMAIN s : i < j => s[i] < s[j]

(* populateDistances(n): the supersets of n without a distance get one and *)
(* join the queue.                                                         *)
Populate(n, dist, queue) ==
  LET new == {m \in graph.sups[n] : dist[m] = -1}
  IN  [killing EXCEPT !.dist  = [m \in Ast |-> IF m \in new THEN dist[n] + 1 ELSE dist[m]],
                      !.queue = queue \o InOrder(new)]

(* The supersets killCyclesAt has not looked at.                           *)
Unscanned == {m \in graph.sups[killing.node] : m > killing.t}

StartSearch ==
  /\ At("scan") /\ Unscanned # {}
  /\ LET t == Min(Unscanned)
     IN  killing' = [Populate(t, [NoDistance EXCEPT ![t] = 0], << >>)
                       EXCEPT !.pc = "search", !.t = t]
  /\ UNCHANGED <<graph, stack, status, given>>

(* The breadth first search goes on until the queue is empty, or a node    *)
(* taken from it brought the target.                                       *)
Search ==
  /\ At("search") /\ killing.queue # << >>
  /\ LET k == Populate(Head(killing.queue), killing.dist, Tail(killing.queue))
     IN  killing' = IF k.dist[k.node] = -1 THEN k
                    ELSE [k EXCEPT !.pc = "back", !.path = <<k.node>>, !.queue = << >>]
  /\ UNCHANGED <<graph, stack, status, given>>

(* Slip: without a path the loop over the supersets starts again.          *)
NoPathRescan ==
  /\ At("search") /\ killing.queue = << >>
  /\ killing' = [killing EXCEPT !.pc = "scan", !.dist = NoDistance, !.t = None]
  /\ UNCHANGED <<graph, stack, status, given>>

NoPath ==
  /\ At("search") /\ killing.queue = << >>
  /\ killing' = [killing EXCEPT !.pc = "scan", !.dist = NoDistance]
  /\ UNCHANGED <<graph, stack, status, given>>

(* The way back: the loop over curr->subsets looks at the first node that  *)
(* has a distance, and leaves curr where it is when that is not the        *)
(* distance before curr's; the while loop around it then never ends.       *)
Curr == Last(killing.path)
Near == {m \in graph.subs[Curr] : killing.dist[m] # -1}
StepsBack == Near # {} /\ killing.dist[Min(Near)] = killing.dist[Curr] - 1

StepBack ==
  /\ At("back") /\ Curr # killing.t /\ StepsBack
  /\ killing' = [killing EXCEPT !.path = Append(@, Min(Near))]
  /\ UNCHANGED <<graph, stack, status, given>>

Spin ==
  /\ At("back") /\ Curr # killing.t /\ ~StepsBack
  /\ status' = "spinning"
  /\ UNCHANGED <<graph, stack, killing, given>>

PathFound ==
  /\ At("back") /\ Curr = killing.t
  /\ killing' = [killing EXCEPT !.pc = "merge", !.dist = NoDistance]
  /\ UNCHANGED <<graph, stack, status, given>>

(* mergePath merges the path <<target, ..., source>> from its end, one     *)
(* node after the other into the source.                                   *)
MergePath ==
  /\ At("merge") /\ Len(killing.path) > 1
  /\ LET n1   == Curr
         rest == Front(killing.path)
         n2   == Last(rest)
     IN  /\ graph' = MergeNodes(graph, n1, n2)
         /\ stack' = [i \in DOMAIN stack |-> Invalidate(graph, stack[i], n1, n2)]
         /\ killing' = [killing EXCEPT !.path = Append(Front(rest), n1)]
  /\ UNCHANGED <<status, given>>

(* Slip: one cycle is collapsed and the others are left.                   *)
CollapsedOnce ==
  /\ At("merge") /\ Len(killing.path) = 1
  /\ stack' = Append(stack, NewFrame(graph.of[killing.from]))
  /\ killing' = Idle
  /\ UNCHANGED <<graph, status, given>>

(* The cycle is one node: killCyclesAt starts again from it.               *)
Collapsed ==
  /\ At("merge") /\ Len(killing.path) = 1
  /\ killing' = [killing EXCEPT !.pc = "scan", !.node = Curr, !.t = None, !.path = << >>]
  /\ UNCHANGED <<graph, stack, status, given>>

(* No cycle is left: the caller propagates the changes of the AST node's   *)
(* solver node, whichever that is by now.                                  *)
KillDone ==
  /\ At("scan") /\ Unscanned = {}
  /\ stack' = Append(stack, NewFrame(graph.of[killing.from]))
  /\ killing' = Idle
  /\ UNCHANGED <<graph, status, given>>

-----------------------------------------------------------------------------
(* Second loop: what is left of node->supsets after the iterator.          *)
Ahead == {m \in graph.sups[Top.node] : m > Top.at}

(* Slip: the supersets are changed but not propagated from.                *)
NextSupersetOnly ==
  /\ Propagating /\ InLoop2(Top) /\ Ahead # {}
  /\ LET m == Min(Ahead)
     IN  /\ graph' = [graph EXCEPT !.bits[m] = @ \cup graph.bits[Top.node]]
         /\ SetTop([Top EXCEPT !.at = m, !.iter = "valid"])
  /\ UNCHANGED <<killing, status, given>>

NextSuperset ==
  /\ Propagating /\ InLoop2(Top) /\ Ahead # {}
  /\ LET m == Min(Ahead)
     IN  /\ graph' = [graph EXCEPT !.bits[m] = @ \cup graph.bits[Top.node]]
         /\ stack' = Append([stack EXCEPT ![Len(stack)].at = m,
                                          ![Len(stack)].iter = "valid"],
                            NewFrame(m))
  /\ UNCHANGED <<killing, status, given>>

ReturnFromPropagate ==
  /\ Propagating /\ InLoop2(Top) /\ Ahead = {}
  /\ stack' = Front(stack)
  /\ UNCHANGED <<graph, killing, status, given>>

(* Undefined behaviour: the loop advances an iterator whose element was    *)
(* erased.  It may go on from the memory's new or old contents (the two    *)
(* actions above) or crash.                                                *)
Crash ==
  /\ Propagating /\ InLoop2(Top) /\ Top.iter # "valid"
  /\ status' = "crashed"
  /\ UNCHANGED <<graph, stack, killing, given>>

Step ==
  \/ NextFunction \/ ActivateConditionalConstraint
  \/ StartSearch \/ Search \/ NoPath \/ StepBack \/ Spin \/ PathFound
  \/ MergePath \/ Collapsed \/ KillDone
  \/ NextSuperset \/ ReturnFromPropagate \/ Crash

Next ==
  \/ \E c \in Elements : AddElementofConstraint(c[1], c[2])
  \/ \E c \in Inclusions : AddSubseteqConstraint(c[1], c[2])
  \/ \E c \in Conditionals : AddConditionalConstraint(c[1], c[2], c[3], c[4])
  \/ Step

(* A call that has started keeps running.                                  *)
Spec == Init /\ [][Next]_vars /\ WF_vars(Step)

-----------------------------------------------------------------------------
TypeOK ==
  /\ graph \in Graph
  /\ stack \in Seq(Frame)
  /\ killing \in Killing
  /\ status \in {"running", "spinning", "crashed"}
  /\ given \in (SUBSET Elements) \X (SUBSET Inclusions) \X (SUBSET Conditionals)

(* The inclusions a solution is to satisfy: those given, and those of the  *)
(* conditional constraints whose condition it makes true.                  *)
Flows(sol) ==
  given[2] \cup {<<c[3], c[4]>> : c \in {d \in given[3] : <<d[1], d[2]>> \in sol}}

Propagated(sol) ==
  sol \cup {p \in Fun \X Ast : \E e \in Flows(sol) : e[2] = p[2] /\ <<p[1], e[1]>> \in sol}

(* The least solution of the constraints given so far, as pairs <<fn, n>>,  *)
(* by iteration from below: the reference the solver is compared with.     *)
Rounds == Cardinality(Ast) * Cardinality(Fun)
Round[k \in 0 .. Rounds] == IF k = 0 THEN given[1] ELSE Propagated(Round[k - 1])
Least == Round[Rounds]

(* getPossibleFunctionsForExpr                                             *)
PossibleFunctions(a) ==
  IF graph.of[a] = None THEN {} ELSE graph.bits[graph.of[a]]

Answers == UNION {PossibleFunctions(a) \X {a} : a \in Ast}

(* No node is ever said to hold a function it need not hold: merging       *)
(* cycles and propagating through nodes that were merged away never mixes  *)
(* two sets that the constraints keep apart.                               *)
Sound == Answers \subseteq Least

(* When a call returns, nothing is missing from what                       *)
(* getPossibleFunctionsForExpr answers: CFAnalyzer.h:11, "Generated        *)
(* constraints are solved by the cubic solver".                            *)
CompleteAtRest == AtRest => Least \subseteq Answers

(* The same as long as no conditional constraint was given: inclusions     *)
(* alone only merge nodes outside the loops of propagateNodeChanges.       *)
CompleteWithoutConditionals == given[3] = {} => CompleteAtRest

(* An inclusion is represented in the graph while its two ends are one     *)
(* node or joined by an edge.                                              *)
Included(from, to) ==
  LET n == graph.of[from]
      m == graph.of[to]
  IN  n # None /\ m # None /\ (n = m \/ m \in graph.sups[n])

(* When a call returns, every inclusion given is in the graph, however     *)
(* many merges have moved its ends (mergeNodes), and so is that of every   *)
(* conditional constraint whose condition holds of the answers, whether it *)
(* came true before the constraint was added, after it, or in the middle   *)
(* of another activation (propagateNodeChanges, activateConditional-       *)
(* Constraint).                                                            *)
InclusionsKept ==
  AtRest =>
    /\ \A c \in given[2] : Included(c[1], c[2])
    /\ \A c \in given[3] : c[1] \in PossibleFunctions(c[2]) => Included(c[3], c[4])

(* Live solver nodes: those some AST node is mapped to.                    *)
Live == {graph.of[a] : a \in Ast} \ {None}

(* supsets and subsets of live nodes mirror each other and hold live nodes *)
(* only.  mergeNodes dereferences find() on that assumption without a      *)
(* check, for each neighbour of the node it removes.                       *)
Mirrored ==
  \A n \in Live :
    /\ graph.sups[n] \subseteq Live /\ graph.subs[n] \subseteq Live
    /\ \A m \in Live : m \in graph.sups[n] <=> n \in graph.subs[m]

(* Whenever changes are propagated the live graph has no cycle: the        *)
(* recursion of propagateNodeChanges keeps no record of where it has been. *)
AcyclicWhenPropagating ==
  killing = Idle =>
    \A S \in SUBSET Live : S # {} => \E n \in S : graph.sups[n] \cap S = {}

(* Every call returns, unless findPath spins or the process crashed.       *)
CallsEnd == ~AtRest ~> (AtRest \/ status # "running")

(* Every call returns.                                                     *)
CallsReturn == ~AtRest ~> AtRest
=============================================================================
