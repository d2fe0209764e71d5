------------------------------ MODULE CallGraph ------------------------------
(***************************************************************************)
(* The call graph as an object (src/semantic/cfa/CallGraph.cpp) and the    *)
(* visitor that builds it from the answers of the control flow analysis    *)
(* (CallGraphBuilder.cpp): what it keeps, and what its queries answer, one *)
(* after the other.  A function stands for its name, which the symbol table*)
(* has made unique.  Which functions a call may reach is CallAnalysis; here*)
(* it is any set.                                                          *)
(***************************************************************************)
EXTENDS Naturals, SequencesExt

CONSTANTS
  Function,    \* the functions of the program
  CallSite,    \* its calls
  NullFun,     \* the null pointer
  MaxQueries   \* bound of the model: queries

ASSUME NullAssumption == NullFun \notin Function /\ MaxQueries \in Nat

(* A program is a finite tree, and a call is not a function.               *)
ASSUME ProgramAssumption ==
  IsFiniteSet(Function) /\ IsFiniteSet(CallSite) /\ Function \cap CallSite = {}

VARIABLES
  caller, found,   \* the function a call is in, and those it may reach
  visited, cfun,   \* what the builder has visited, and the function it is in
  graph, mayCall,  \* CallGraph::callGraph and mayCall, maps from what they have
  funMap,          \* CallGraph::fromFunNameToASTFuns, the same
  edges,           \* CallGraph::edges
  queries,         \* the queries so far
  answer           \* the last one with its answer

vars == <<caller, found, visited, cfun, graph, mayCall, funMap, edges, queries, answer>>
built == <<caller, found, visited, cfun, graph, mayCall, funMap>>

Empty == [x \in {} |-> {}]
NoAnswer == [query |-> "none", about |-> <<>>, value |-> {}]

Init ==
  /\ caller \in [CallSite -> Function] /\ found \in [CallSite -> SUBSET Function]
  /\ visited = {} /\ cfun = NullFun
  /\ graph = Empty /\ mayCall = Empty /\ funMap = Empty
  /\ edges = <<>> /\ queries = 0 /\ answer = NoAnswer

(* std::map::operator[] and insert.                                        *)
At(map, x, default) == IF x \in DOMAIN map THEN map[x] ELSE default
Put(map, x, value) == [y \in DOMAIN map \cup {x} |-> IF y = x THEN value ELSE map[y]]

-----------------------------------------------------------------------------
InFunction == {s \in CallSite : caller[s] = cfun}

VisitFunction(f) ==
  /\ f \notin visited /\ InFunction \subseteq visited
  /\ cfun' = f /\ visited' = visited \cup {f}
  /\ UNCHANGED <<caller, found, graph, mayCall, funMap, edges, queries, answer>>

(* The functions of an edge are noted by name.                             *)
Named(s) == [f \in DOMAIN funMap \cup {cfun} \cup found[s] |-> f]

(* Slip: the callees of the last call replace those of the calls before.   *)
LastCallees(s) == Put(graph, cfun, found[s])

WithCallees(s) == Put(graph, cfun, At(graph, cfun, {}) \cup found[s])

(* A call that may reach nothing has no edge, and names nothing.           *)
VisitFunAppExpr(s) ==
  /\ s \in InFunction \ visited
  /\ graph'  = IF found[s] = {} THEN graph ELSE WithCallees(s)
  /\ funMap' = IF found[s] = {} THEN funMap ELSE Named(s)
  /\ mayCall' = Put(mayCall, s, found[s])
  /\ visited' = visited \cup {s}
  /\ UNCHANGED <<caller, found, cfun, edges, queries, answer>>

Built == visited = Function \cup CallSite

-----------------------------------------------------------------------------
(* The queries.                                                            *)
EdgesOf(g) == UNION {{<<f, c>> : c \in g[f]} : f \in DOMAIN g}

(* The edges in the order of the maps, which is that of addresses.         *)
InSomeOrder(set) == CHOOSE s \in SetToSeqs(set) : TRUE

Ask(query, about, value) ==
  /\ Built /\ queries < MaxQueries
  /\ queries' = queries + 1
  /\ answer' = [query |-> query, about |-> about, value |-> value]

Reads == UNCHANGED <<built, edges>>

GetTotalEdges == Ask("getTotalEdges", <<>>, Cardinality(EdgesOf(graph))) /\ Reads

GetCallees(f) == Ask("getCallees", <<f>>, At(graph, f, {})) /\ Reads

GetCallers(f) == Ask("getCallers", <<f>>, {g \in DOMAIN graph : f \in graph[g]}) /\ Reads

(* The edges are appended to those of the calls before.                    *)
Recollected == edges \o InSomeOrder(EdgesOf(graph))

GetEdges ==
  /\ Ask("getEdges", <<>>, Recollected) /\ edges' = Recollected
  /\ UNCHANGED built

ExistEdge(f, g) ==
  /\ Ask("existEdge", <<f, g>>, <<f, g>> \in ToSet(Recollected)) /\ edges' = Recollected
  /\ UNCHANGED built

(* The subscript of a map inserts what it does not find.                   *)
GetCalledFuns(s) ==
  /\ Ask("getCalledFuns", <<s>>, At(mayCall, s, {})) /\ mayCall' = Put(mayCall, s, At(mayCall, s, {}))
  /\ UNCHANGED <<caller, found, visited, cfun, graph, funMap, edges>>

GetASTFun(f) ==
  /\ Ask("getASTFun", <<f>>, At(funMap, f, NullFun)) /\ funMap' = Put(funMap, f, At(funMap, f, NullFun))
  /\ UNCHANGED <<caller, found, visited, cfun, graph, mayCall, edges>>

Next ==
  \/ \E f \in Function : VisitFunction(f) \/ GetCallees(f) \/ GetCallers(f) \/ GetASTFun(f)
  \/ \E s \in CallSite : VisitFunAppExpr(s) \/ GetCalledFuns(s)
  \/ GetTotalEdges \/ GetEdges
  \/ \E f, g \in Function : ExistEdge(f, g)

Spec == Init /\ [][Next]_vars

-----------------------------------------------------------------------------
(* The program's own edges.                                                *)
Calls == UNION {{<<caller[s], f>> : f \in found[s]} : s \in CallSite}

(* Whatever was asked before, the answers are those of the program         *)
(* (CallGraph.h:55-92), with two exceptions: getEdges lists every edge again*)
(* for each time it or existEdge was called, and a function without a call *)
(* in or out is not found by its name.                                     *)
AnswersAreOfTheProgram ==
  LET x == answer.about
      y == answer.value
  IN  CASE answer.query = "getTotalEdges" -> y = Cardinality(Calls)
        [] answer.query = "getCallees"    -> y = {f \in Function : <<x[1], f>> \in Calls}
        [] answer.query = "getCallers"    -> y = {f \in Function : <<f, x[1]>> \in Calls}
        [] answer.query = "getEdges"      -> ToSet(y) = Calls
        [] answer.query = "existEdge"     -> y = (x \in Calls)
        [] answer.query = "getCalledFuns" -> y = found[x[1]]
        [] answer.query = "getASTFun"     -> y = x[1] \/ \A e \in Calls : x[1] \notin {e[1], e[2]}
        [] OTHER                          -> TRUE
=============================================================================
