--------------------------- MODULE CallGraphProofs ---------------------------
(***************************************************************************)
(* Theorems about the call graph, for every program and every order of the *)
(* visits and of the queries.                                              *)
(***************************************************************************)
EXTENDS CallGraph, FiniteSetTheorems, FunctionTheorems, TLAPS

(* What the builder has collected from the calls it has visited.           *)
Visited == visited \cap CallSite
Collected == UNION {{<<caller[s], f>> : f \in found[s]} : s \in Visited}

(* A function that no edge of the program mentions.                        *)
Isolated(f) == \A e \in Calls : f \notin {e[1], e[2]}

CallsTyped ==
  /\ caller \in [CallSite -> Function] /\ found \in [CallSite -> SUBSET Function]
  /\ visited \subseteq Function \cup CallSite

(* The maps hold what was collected; a name that a query has put into      *)
(* funMap without a function is one that no edge mentions.                 *)
MapsInStep ==
  /\ DOMAIN graph \subseteq Function
  /\ \A f \in DOMAIN graph : graph[f] \subseteq Function
  /\ \A f, g \in Function : <<f, g>> \in Collected <=> f \in DOMAIN graph /\ g \in graph[f]
  /\ DOMAIN mayCall = Visited
  /\ \A s \in Visited : mayCall[s] = found[s]
  /\ DOMAIN funMap \subseteq Function
  /\ \A s \in Visited : \A f \in found[s] : {caller[s], f} \subseteq DOMAIN funMap
  /\ \A f \in DOMAIN funMap : funMap[f] = f \/ Isolated(f)

(* The list of edges grows with the queries, but repeats only edges.       *)
EdgesOfTheProgram == edges \in Seq(Calls)

GInv == CallsTyped /\ MapsInStep /\ EdgesOfTheProgram /\ AnswersAreOfTheProgram

-----------------------------------------------------------------------------
(* Once every call was visited the graph's edges are the program's.        *)
LEMMA BuiltEdges ==
  ASSUME GInv, Built
  PROVE  /\ Visited = CallSite /\ EdgesOf(graph) = Calls
         /\ Calls \subseteq Function \X Function /\ IsFiniteSet(Calls)
<1>1. Visited = CallSite
  BY DEF Built, Visited
<1>2. Collected = Calls
  BY <1>1 DEF Collected, Calls
<1>3. Calls \subseteq Function \X Function
  BY DEF Calls, GInv, CallsTyped
<1>4. EdgesOf(graph) \subseteq Function \X Function
  BY DEF EdgesOf, GInv, MapsInStep
<1>5. \A f, g \in Function : <<f, g>> \in EdgesOf(graph) <=> <<f, g>> \in Calls
  <2>1. \A f, g \in Function : <<f, g>> \in EdgesOf(graph) <=> f \in DOMAIN graph /\ g \in graph[f]
    BY DEF EdgesOf
  <2>2. QED
    BY <1>2, <2>1 DEF GInv, MapsInStep
<1>6. EdgesOf(graph) = Calls
  BY <1>3, <1>4, <1>5
<1>7. IsFiniteSet(Calls)
  BY <1>3, ProgramAssumption, FS_Product, FS_Subset
<1>8. QED
  BY <1>1, <1>3, <1>6, <1>7

(* However a finite set is listed, the list has its elements.              *)
LEMMA InSomeOrderElements ==
  ASSUME NEW S, IsFiniteSet(S)
  PROVE  InSomeOrder(S) \in Seq(S) /\ ToSet(InSomeOrder(S)) = S
<1>1. Cardinality(S) \in Nat /\ ExistsBijection(1 .. Cardinality(S), S)
  BY FS_CardinalityType
<1>2. PICK b \in Bijection(1 .. Cardinality(S), S) : TRUE
  BY <1>1 DEF ExistsBijection
<1>3. b \in SetToSeqs(S)
  BY <1>2, Fun_BijectionProperties DEF SetToSeqs
<1>4. InSomeOrder(S) \in SetToSeqs(S)
  BY <1>3 DEF InSomeOrder
<1>5. PICK s : s = InSomeOrder(S)
  OBVIOUS
<1>6. /\ s \in [1 .. Cardinality(S) -> S]
      /\ \A i, j \in 1 .. Cardinality(S) : i # j => s[i] # s[j]
  BY <1>4, <1>5 DEF SetToSeqs
<1>7. s \in Injection(1 .. Cardinality(S), S)
  BY <1>6, Fun_IsInj
<1>8. s \in Surjection(1 .. Cardinality(S), S)
  <2>1. Cardinality(1 .. Cardinality(S)) = Cardinality(S)
    BY <1>1, FS_Interval
  <2>2. QED
    BY <1>7, <2>1, FS_Injection
<1>9. s \in Seq(S) /\ DOMAIN s = 1 .. Cardinality(S)
  BY <1>1, <1>6
<1>10. ToSet(s) = S
  <2>1. \A x \in S : \E i \in 1 .. Cardinality(S) : s[i] = x
    BY <1>8 DEF Surjection
  <2>2. \A i \in 1 .. Cardinality(S) : s[i] \in S
    BY <1>6
  <2>3. QED
    BY <1>9, <2>1, <2>2 DEF ToSet
<1>11. QED
  BY <1>5, <1>9, <1>10

(* Two sequences one after the other have the elements of both.            *)
LEMMA ToSetConcat ==
  ASSUME NEW S, NEW s \in Seq(S), NEW t \in Seq(S)
  PROVE  ToSet(s \o t) = ToSet(s) \cup ToSet(t)
<1>1. /\ s \o t \in Seq(S) /\ Len(s \o t) = Len(s) + Len(t)
      /\ \A i \in 1 .. Len(s) : (s \o t)[i] = s[i]
      /\ \A i \in 1 .. Len(t) : (s \o t)[Len(s) + i] = t[i]
  OBVIOUS
<1>2. DOMAIN s = 1 .. Len(s) /\ DOMAIN t = 1 .. Len(t) /\ DOMAIN (s \o t) = 1 .. Len(s \o t)
  BY <1>1
<1>3. ToSet(s) \subseteq ToSet(s \o t)
  BY <1>1, <1>2 DEF ToSet
<1>4. ToSet(t) \subseteq ToSet(s \o t)
  BY <1>1, <1>2 DEF ToSet
<1>5. ASSUME NEW i \in DOMAIN (s \o t)
      PROVE  (s \o t)[i] \in ToSet(s) \cup ToSet(t)
  <2>1. CASE i <= Len(s)
    BY <1>1, <1>2, <2>1 DEF ToSet
  <2>2. CASE i > Len(s)
    <3>1. i - Len(s) \in 1 .. Len(t) /\ i = Len(s) + (i - Len(s))
      BY <1>1, <1>2, <2>2
    <3>2. QED
      BY <1>1, <1>2, <3>1 DEF ToSet
  <2>3. QED
    BY <1>1, <1>2, <2>1, <2>2
<1>6. QED
  BY <1>1, <1>3, <1>4, <1>5 DEF ToSet

-----------------------------------------------------------------------------
(* Nothing was visited and nothing asked.                                  *)
LEMMA InitGInv == Init => GInv
<1> SUFFICES ASSUME Init PROVE GInv
  OBVIOUS
<1>1. CallsTyped
  BY DEF Init, CallsTyped
<1>2. Visited = {} /\ Collected = {} /\ DOMAIN graph = {} /\ DOMAIN mayCall = {} /\ DOMAIN funMap = {}
  BY DEF Init, Visited, Collected, Empty
<1>3. MapsInStep
  BY <1>2 DEF MapsInStep
<1>4. EdgesOfTheProgram
  BY DEF Init, EdgesOfTheProgram
<1>5. AnswersAreOfTheProgram
  BY DEF Init, NoAnswer, AnswersAreOfTheProgram
<1>6. QED
  BY <1>1, <1>3, <1>4, <1>5 DEF GInv

(* The program does not change, so that an answer stays right.             *)
LEMMA ProgramKept ==
  ASSUME caller' = caller, found' = found
  PROVE  /\ Calls' = Calls
         /\ edges' = edges => (EdgesOfTheProgram => EdgesOfTheProgram')
         /\ answer' = answer => (AnswersAreOfTheProgram => AnswersAreOfTheProgram')
<1>1. Calls' = Calls
  BY DEF Calls
<1>2. QED
  BY <1>1 DEF EdgesOfTheProgram, AnswersAreOfTheProgram

(* The builder enters a function.                                          *)
LEMMA VisitFunctionStep ==
  ASSUME GInv, NEW f \in Function, VisitFunction(f)
  PROVE  GInv'
<1> USE DEF VisitFunction
<1>1. CallsTyped'
  BY DEF GInv, CallsTyped
<1>2. Visited' = Visited /\ Collected' = Collected
  BY ProgramAssumption DEF Visited, Collected
<1>3. MapsInStep'
  BY <1>2 DEF GInv, MapsInStep, Isolated, Calls
<1>4. QED
  BY <1>1, <1>3, ProgramKept DEF GInv

(* The builder visits a call of the function it is in.                     *)
LEMMA VisitFunAppExprStep ==
  ASSUME GInv, NEW s \in CallSite, VisitFunAppExpr(s)
  PROVE  GInv'
<1> USE DEF VisitFunAppExpr
<1>1. CallsTyped'
  BY DEF GInv, CallsTyped
<1>2. caller[s] = cfun /\ cfun \in Function /\ found[s] \subseteq Function
  BY DEF InFunction, GInv, CallsTyped
<1>3. /\ Visited' = Visited \cup {s}
      /\ Collected' = Collected \cup {<<cfun, f>> : f \in found[s]}
  BY <1>2 DEF Visited, Collected
<1>4. \A f, g \in Function : <<f, g>> \in Collected' <=>
        <<f, g>> \in Collected \/ (f = cfun /\ g \in found[s])
  BY <1>3
<1>5. /\ DOMAIN graph' \subseteq Function
      /\ \A f \in DOMAIN graph' : graph'[f] \subseteq Function
      /\ \A f, g \in Function : <<f, g>> \in Collected' <=> f \in DOMAIN graph' /\ g \in graph'[f]
  <2>1. CASE found[s] = {}
    BY <1>4, <2>1 DEF GInv, MapsInStep
  <2>2. CASE found[s] # {}
    <3>1. /\ DOMAIN graph' = DOMAIN graph \cup {cfun}
          /\ graph'[cfun] = (IF cfun \in DOMAIN graph THEN graph[cfun] ELSE {}) \cup found[s]
          /\ \A f \in DOMAIN graph : f # cfun => graph'[f] = graph[f]
      BY <2>2 DEF WithCallees, Put, At
    <3>2. QED
      BY <1>2, <1>4, <3>1 DEF GInv, MapsInStep
  <2>3. QED
    BY <2>1, <2>2
<1>6. DOMAIN mayCall' = Visited' /\ \A t \in Visited' : mayCall'[t] = found'[t]
  BY <1>3 DEF GInv, MapsInStep, Put
<1>7. /\ DOMAIN funMap' \subseteq Function
      /\ \A t \in Visited' : \A f \in found[t] : {caller[t], f} \subseteq DOMAIN funMap'
      /\ \A f \in DOMAIN funMap' : funMap'[f] = f \/ Isolated(f)
  <2>1. CASE found[s] = {}
    BY <1>3, <2>1 DEF GInv, MapsInStep
  <2>2. CASE found[s] # {}
    <3>1. DOMAIN funMap' = DOMAIN funMap \cup {cfun} \cup found[s] /\ \A f \in DOMAIN funMap' : funMap'[f] = f
      BY <2>2 DEF Named
    <3>2. QED
      BY <1>2, <1>3, <3>1 DEF GInv, MapsInStep
  <2>3. QED
    BY <2>1, <2>2
<1>8. MapsInStep'
  BY <1>5, <1>6, <1>7 DEF MapsInStep, Isolated, Calls
<1>9. QED
  BY <1>1, <1>8, ProgramKept DEF GInv

-----------------------------------------------------------------------------
(* The number of the edges is read, and nothing changes.                   *)
LEMMA GetTotalEdgesStep ==
  ASSUME GInv, GetTotalEdges
  PROVE  GInv'
<1>1. Built /\ UNCHANGED <<built, edges>>
  BY DEF GetTotalEdges, Ask, Reads
<1>2. CallsTyped' /\ MapsInStep' /\ EdgesOfTheProgram'
  BY <1>1 DEF GInv, CallsTyped, MapsInStep, EdgesOfTheProgram, built, Visited, Collected, Calls, Isolated
<1>3. EdgesOf(graph) = Calls /\ Calls' = Calls
  BY <1>1, BuiltEdges, ProgramKept DEF built
<1>4. QED
  BY <1>2, <1>3 DEF GetTotalEdges, Ask, AnswersAreOfTheProgram, GInv

(* The queries that read the map of the edges, and change nothing.         *)
LEMMA ReadStep ==
  ASSUME GInv, NEW f \in Function, GetCallees(f) \/ GetCallers(f)
  PROVE  GInv'
<1>1. Built /\ UNCHANGED <<built, edges>>
  BY DEF GetCallees, GetCallers, Ask, Reads
<1>2. CallsTyped' /\ MapsInStep' /\ EdgesOfTheProgram'
  BY <1>1 DEF GInv, CallsTyped, MapsInStep, EdgesOfTheProgram, built, Visited, Collected, Calls, Isolated
<1>3. EdgesOf(graph) = Calls /\ Calls' = Calls
  BY <1>1, BuiltEdges, ProgramKept DEF built
<1>4. \A g, h \in Function : <<g, h>> \in Calls <=> g \in DOMAIN graph /\ h \in graph[g]
  BY <1>3 DEF EdgesOf
<1>5. AnswersAreOfTheProgram'
  <2>1. CASE GetCallees(f)
    <3>1. At(graph, f, {}) = {g \in Function : <<f, g>> \in Calls}
      BY <1>4 DEF At, GInv, MapsInStep
    <3>2. QED
      BY <1>3, <2>1, <3>1 DEF GetCallees, Ask, AnswersAreOfTheProgram
  <2>2. CASE GetCallers(f)
    <3>1. {g \in DOMAIN graph : f \in graph[g]} = {g \in Function : <<g, f>> \in Calls}
      BY <1>4 DEF GInv, MapsInStep
    <3>2. QED
      BY <1>3, <2>2, <3>1 DEF GetCallers, Ask, AnswersAreOfTheProgram
  <2>3. QED
    BY <2>1, <2>2
<1>6. QED
  BY <1>2, <1>5 DEF GInv

(* The two that append all edges to the list once more.                    *)
LEMMA RecollectStep ==
  ASSUME GInv, Built, UNCHANGED built, edges' = Recollected,
         \/ GetEdges
         \/ \E f, g \in Function : ExistEdge(f, g)
  PROVE  GInv'
<1>1. Built /\ UNCHANGED built /\ edges' = Recollected
  OBVIOUS
<1>2. CallsTyped' /\ MapsInStep'
  BY <1>1 DEF GInv, CallsTyped, MapsInStep, built, Visited, Collected, Calls, Isolated
<1>3. EdgesOf(graph) = Calls /\ Calls' = Calls /\ IsFiniteSet(Calls)
  BY <1>1, BuiltEdges, ProgramKept DEF built
<1>4. Recollected \in Seq(Calls) /\ ToSet(Recollected) = Calls
  <2>1. edges \in Seq(Calls) /\ InSomeOrder(Calls) \in Seq(Calls) /\ ToSet(InSomeOrder(Calls)) = Calls
    BY <1>3, InSomeOrderElements DEF GInv, EdgesOfTheProgram
  <2>2. ToSet(edges) \subseteq Calls
    BY <2>1 DEF ToSet
  <2>3. Recollected = edges \o InSomeOrder(Calls)
    BY <1>3 DEF Recollected
  <2>4. ToSet(Recollected) = ToSet(edges) \cup ToSet(InSomeOrder(Calls))
    BY <2>1, <2>3, ToSetConcat
  <2>5. QED
    BY <2>1, <2>2, <2>3, <2>4
<1>5. EdgesOfTheProgram'
  BY <1>1, <1>3, <1>4 DEF EdgesOfTheProgram
<1>6. AnswersAreOfTheProgram'
  <2>1. CASE GetEdges
    BY <1>3, <1>4, <2>1 DEF GetEdges, Ask, AnswersAreOfTheProgram
  <2>2. ASSUME NEW f \in Function, NEW g \in Function, ExistEdge(f, g)
        PROVE  AnswersAreOfTheProgram'
    BY <1>3, <1>4, <2>2 DEF ExistEdge, Ask, AnswersAreOfTheProgram
  <2>3. QED
    BY <2>1, <2>2
<1>7. QED
  BY <1>2, <1>5, <1>6 DEF GInv

(* The two that insert what they do not find: a call is always found.      *)
LEMMA GetCalledFunsStep ==
  ASSUME GInv, NEW s \in CallSite, GetCalledFuns(s)
  PROVE  GInv'
<1>1. Built /\ UNCHANGED <<caller, found, visited, graph, funMap, edges>>
  BY DEF GetCalledFuns, Ask
<1>2. Visited = CallSite /\ Calls' = Calls
  BY <1>1, BuiltEdges, ProgramKept
<1>3. CallsTyped' /\ EdgesOfTheProgram'
  BY <1>1, <1>2 DEF GInv, CallsTyped, EdgesOfTheProgram
<1>4. s \in DOMAIN mayCall /\ mayCall[s] = found[s]
  BY <1>2 DEF GInv, MapsInStep
<1>5. /\ answer' = [query |-> "getCalledFuns", about |-> <<s>>, value |-> found[s]]
      /\ DOMAIN mayCall' = DOMAIN mayCall /\ \A t \in DOMAIN mayCall : mayCall'[t] = mayCall[t]
  BY <1>4 DEF GetCalledFuns, Ask, At, Put
<1>6. MapsInStep'
  BY <1>1, <1>2, <1>5 DEF GInv, MapsInStep, Visited, Collected, Isolated
<1>7. AnswersAreOfTheProgram'
  BY <1>1, <1>5 DEF AnswersAreOfTheProgram
<1>8. QED
  BY <1>3, <1>6, <1>7 DEF GInv

(* A function is not, when no call is in it or reaches it.                 *)
LEMMA GetASTFunStep ==
  ASSUME GInv, NEW f \in Function, GetASTFun(f)
  PROVE  GInv'
<1>1. Built /\ UNCHANGED <<caller, found, visited, graph, mayCall, edges>>
  BY DEF GetASTFun, Ask
<1>2. Visited = CallSite /\ Calls' = Calls
  BY <1>1, BuiltEdges, ProgramKept
<1>3. CallsTyped' /\ EdgesOfTheProgram'
  BY <1>1, <1>2 DEF GInv, CallsTyped, EdgesOfTheProgram
<1>4. /\ answer' = [query |-> "getASTFun", about |-> <<f>>, value |-> At(funMap, f, NullFun)]
      /\ DOMAIN funMap' = DOMAIN funMap \cup {f} /\ funMap'[f] = At(funMap, f, NullFun)
      /\ \A g \in DOMAIN funMap : funMap'[g] = funMap[g]
  BY DEF GetASTFun, Ask, At, Put
<1>5. At(funMap, f, NullFun) = f \/ Isolated(f)
  <2>1. CASE f \in DOMAIN funMap
    BY <2>1 DEF At, GInv, MapsInStep
  <2>2. CASE f \notin DOMAIN funMap
    <3>1. ASSUME NEW t \in CallSite, NEW g \in found[t]
          PROVE  f # caller[t] /\ f # g
      BY <1>2, <2>2 DEF GInv, MapsInStep
    <3>2. Isolated(f)
      BY <3>1 DEF Isolated, Calls
    <3>3. QED
      BY <3>2
  <2>3. QED
    BY <2>1, <2>2
<1>6. MapsInStep'
  BY <1>1, <1>2, <1>4, <1>5 DEF GInv, MapsInStep, Visited, Collected, Isolated
<1>7. AnswersAreOfTheProgram'
  BY <1>2, <1>4, <1>5 DEF AnswersAreOfTheProgram, Isolated
<1>8. QED
  BY <1>3, <1>6, <1>7 DEF GInv

(* CallGraph.h:55-92: whatever was asked before, and in whatever order the *)
(* functions and calls were visited, the answers are those of the program. *)
THEOREM AnswersInvariant == Spec => []AnswersAreOfTheProgram
<1>1. ASSUME GInv, [Next]_vars PROVE GInv'
  <2>1. CASE Next
    <3>1. ASSUME NEW f \in Function,
                 VisitFunction(f) \/ GetCallees(f) \/ GetCallers(f) \/ GetASTFun(f)
          PROVE  GInv'
      BY <1>1, <3>1, VisitFunctionStep, ReadStep, GetASTFunStep
    <3>2. ASSUME NEW s \in CallSite, VisitFunAppExpr(s) \/ GetCalledFuns(s)
          PROVE  GInv'
      BY <1>1, <3>2, VisitFunAppExprStep, GetCalledFunsStep
    <3>3. CASE GetTotalEdges
      BY <1>1, <3>3, GetTotalEdgesStep
    <3>4. CASE GetEdges
      BY <1>1, <3>4, RecollectStep DEF GetEdges, Ask
    <3>5. ASSUME NEW f \in Function, NEW g \in Function, ExistEdge(f, g)
          PROVE  GInv'
      <4>1. Built /\ UNCHANGED built /\ edges' = Recollected
        BY <3>5 DEF ExistEdge, Ask
      <4>2. QED
        BY <1>1, <3>5, <4>1, RecollectStep
    <3>6. QED
      BY <2>1, <3>1, <3>2, <3>3, <3>4, <3>5 DEF Next
  <2>2. CASE UNCHANGED vars
    <3>1. CallsTyped' /\ MapsInStep'
      BY <1>1, <2>2 DEF vars, GInv, CallsTyped, MapsInStep, Visited, Collected, Isolated, Calls
    <3>2. QED
      BY <1>1, <2>2, <3>1, ProgramKept DEF vars, GInv
  <2>3. QED
    BY <1>1, <2>1, <2>2
<1>2. GInv => AnswersAreOfTheProgram
  BY DEF GInv
<1>3. QED
  BY <1>1, <1>2, InitGInv, PTL DEF Spec
=============================================================================
