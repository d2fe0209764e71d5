------------------------- MODULE PolyInferenceProofs -------------------------
(***************************************************************************)
(* Theorems about the order of polymorphic inference, for every program:   *)
(* the searches find the recursive functions and those that reach one, and *)
(* the others are inferred once each, callees first.                       *)
(***************************************************************************)
EXTENDS PolyInference, ProofFacts

(* The functions of the program, in their order, and what they call.       *)
Order == prog.vertices
Callees(f) == prog.callees[f]
Before(n) == {Order[i] : i \in 1 .. n - 1}
Polymorphic == Fun \ ReachesRecursion

(* A sequence without repetitions.                                         *)
Distinct(s) == \A i, j \in DOMAIN s : s[i] = s[j] => i = j

-----------------------------------------------------------------------------
(* What a callee that a search is done with has answered.                  *)
NotReached(c) == c # goal /\ goal \notin Reached(c)

(* The stack of mayIndirectlyCall: functions that Current may call, each   *)
(* with callees that are done with, but for the one that is running.       *)
OnTheWay ==
  \A i \in DOMAIN chain :
    /\ chain[i].f \in Reached(Current) \cup {Current}
    /\ chain[i].rest \subseteq Callees(chain[i].f)

DoneWith ==
  \A i \in DOMAIN chain : \A c \in Callees(chain[i].f) \ chain[i].rest :
    c # goal /\ (NotReached(c) \/ (i < Len(chain) /\ c = chain[i + 1].f))

ChainOK ==
  chain # << >> /\ pc # "overflow" =>
    /\ pc \in {"recursive", "filter"} /\ More
    /\ chain[1].f = Current
    /\ OnTheWay /\ DoneWith

(* The loop of recursiveFuncs.                                             *)
FindingRecursive ==
  pc = "recursive" =>
    /\ Range(recFuncs) = Before(scan) \cap Recursive /\ Len(recFuncs) < scan
    /\ inner = 1 /\ nonRecursiveFuncs = << >>
    /\ chain # << >> => goal = Current

(* The loops of topoSortNonRecursive.                                      *)
Filtered ==
  pc = "filter" =>
    /\ Range(recFuncs) = Recursive /\ Len(recFuncs) <= Cardinality(Fun)
    /\ Distinct(nonRecursiveFuncs)
    /\ Range(nonRecursiveFuncs) = Before(scan) \ ReachesRecursion
    /\ inner <= Len(recFuncs) + 1
    /\ More => \A j \in 1 .. inner - 1 :
                 recFuncs[j] # Current /\ recFuncs[j] \notin Reached(Current)
    /\ chain # << >> =>
         inner <= Len(recFuncs) /\ goal = recFuncs[inner] /\ goal # Current

(* The depth first search of topoVisit: a function is unmarked, on the     *)
(* stack, or sorted; what is sorted has its callees sorted before it, and  *)
(* what is on the stack has those sorted that its loop went past.          *)
Stacked == {visiting[i].f : i \in DOMAIN visiting}

CalleesBefore ==
  \A i \in DOMAIN sorted : \A c \in Callees(sorted[i]) : \E j \in 1 .. i - 1 : sorted[j] = c

VisitsOK ==
  /\ \A i \in DOMAIN visiting :
       /\ visiting[i].rest \subseteq Callees(visiting[i].f)
       /\ \A c \in Callees(visiting[i].f) \ visiting[i].rest :
            c \in Range(sorted) \/ (i < Len(visiting) /\ c = visiting[i + 1].f)
  /\ \A i, j \in DOMAIN visiting : i < j => visiting[j].f \in Reached(visiting[i].f)

Sorting ==
  pc = "sort" =>
    /\ Range(unmarked) \cup Stacked \cup Range(sorted) = Polymorphic
    /\ Range(unmarked) \cap Stacked = {} /\ Range(unmarked) \cap Range(sorted) = {}
    /\ Stacked \cap Range(sorted) = {}
    /\ VisitsOK

Inferring ==
  Ordered => Range(sorted) = Polymorphic /\ scan <= Len(sorted) + 1

StagesDone ==
  /\ pc \in {"recursive", "filter", "sort"} => solved = {}
  /\ pc = "infer" => solved = {sorted[i] : i \in 1 .. scan - 1}

NotYetSorting ==
  pc \in {"recursive", "filter", "overflow"} =>
    unmarked = << >> /\ visiting = << >> /\ sorted = << >>

RecursiveFound == Searched => Range(recFuncs) = Recursive
NoneTwice == Distinct(unmarked) /\ Distinct(sorted)

PolyInv ==
  /\ TypeOK
  /\ ChainOK /\ FindingRecursive /\ Filtered /\ RecursiveFound
  /\ NotYetSorting /\ NoneTwice /\ CalleesBefore /\ Sorting
  /\ Inferring /\ StagesDone

-----------------------------------------------------------------------------
(* The order has every function once.                                      *)
LEMMA OrderFacts ==
  ASSUME prog \in Programs
  PROVE  /\ Cardinality(Fun) \in Nat \ {0} /\ Len(Order) = Cardinality(Fun)
         /\ Order \in Seq(Fun)
         /\ \A i, j \in 1 .. Cardinality(Fun) : Order[i] = Order[j] => i = j
         /\ \A f \in Fun : \E i \in 1 .. Cardinality(Fun) : Order[i] = f
         /\ \A f \in Fun : Callees(f) \subseteq Fun
<1>1. Cardinality(Fun) \in Nat /\ Cardinality(Fun) # 0
  BY FunAssumption, FS_CardinalityType, FS_EmptySet
<1>2. /\ Order \in [1 .. Cardinality(Fun) -> Fun] /\ IsInjective(Order)
      /\ \A f \in Fun : Callees(f) \subseteq Fun
  BY ProgramsAssumption DEF Order, Callees
<1>3. Order \in Seq(Fun) /\ Len(Order) = Cardinality(Fun)
  BY <1>1, <1>2
<1>4. Order \in Injection(1 .. Cardinality(Fun), Fun)
  BY <1>2 DEF Injection, IsInjective
<1>5. Cardinality(1 .. Cardinality(Fun)) = Cardinality(Fun)
  BY <1>1, FS_Interval
<1>6. Order \in Surjection(1 .. Cardinality(Fun), Fun)
  BY <1>4, <1>5, FunAssumption, FS_Injection
<1>7. \A f \in Fun : \E i \in 1 .. Cardinality(Fun) : Order[i] = f
  BY <1>6 DEF Surjection
<1>8. QED
  BY <1>1, <1>2, <1>3, <1>7 DEF IsInjective

(* The functions before a position of the order.                           *)
LEMMA BeforeFacts ==
  ASSUME prog \in Programs
  PROVE  /\ Before(1) = {} /\ Before(Cardinality(Fun) + 1) = Fun
         /\ \A n \in 1 .. Cardinality(Fun) :
              Before(n + 1) = Before(n) \cup {Order[n]} /\ Order[n] \notin Before(n)
<1>1. Before(1) = {}
  BY DEF Before
<1>2. Before(Cardinality(Fun) + 1) = Fun
  <2>1. (Cardinality(Fun) + 1) - 1 = Cardinality(Fun)
    BY OrderFacts
  <2>2. Before(Cardinality(Fun) + 1) = {Order[i] : i \in 1 .. Cardinality(Fun)}
    BY <2>1 DEF Before
  <2>3. \A i \in 1 .. Cardinality(Fun) : Order[i] \in Fun
    BY OrderFacts
  <2>4. \A f \in Fun : \E i \in 1 .. Cardinality(Fun) : Order[i] = f
    BY OrderFacts
  <2>5. Fun \subseteq Before(Cardinality(Fun) + 1)
    BY <2>2, <2>4
  <2>6. QED
    BY <2>2, <2>3, <2>5
<1>3. ASSUME NEW n \in 1 .. Cardinality(Fun)
      PROVE  Before(n + 1) = Before(n) \cup {Order[n]} /\ Order[n] \notin Before(n)
  <2>1. (n + 1) - 1 = n /\ n \in Nat
    BY OrderFacts
  <2>2. 1 .. n = (1 .. n - 1) \cup {n}
    BY OrderFacts
  <2>3. \A i \in 1 .. n - 1 : i \in 1 .. Cardinality(Fun) /\ i # n
    BY OrderFacts
  <2>4. Before(n + 1) = Before(n) \cup {Order[n]}
    BY <2>1, <2>2 DEF Before
  <2>5. QED
    BY <2>3, <2>4, OrderFacts DEF Before
<1>4. QED
  BY <1>1, <1>2, <1>3

(* What a function may call, and what its callees may.                     *)
LEMMA ReachedFacts ==
  ASSUME prog \in Programs, NEW f \in Fun
  PROVE  /\ Callees(f) \subseteq Reached(f) /\ Reached(f) \subseteq Fun
         /\ \A c \in Reached(f) : Reached(c) \subseteq Reached(f)
<1>1. Callees(f) \subseteq Reached(f)
  BY OrderFacts DEF Reached, CalleesIn, Callees
<1>2. ASSUME NEW c \in Reached(f) PROVE Reached(c) \subseteq Reached(f)
  BY DEF Reached, CalleesIn
<1>3. QED
  BY <1>1, <1>2 DEF Reached

(* A function reaches another through one of its callees.                  *)
LEMMA ReachedThrough ==
  ASSUME prog \in Programs, NEW f \in Fun, NEW g \in Reached(f)
  PROVE  \E c \in Callees(f) : c = g \/ g \in Reached(c)
<1> DEFINE S == Callees(f) \cup UNION {Reached(c) : c \in Callees(f)}
<1>1. Callees(f) \subseteq Fun /\ \A c \in Callees(f) : Reached(c) \subseteq Fun
  BY OrderFacts, ReachedFacts
<1>2. ASSUME NEW d \in S PROVE Callees(d) \subseteq S
  <2>1. PICK c \in Callees(f) : d = c \/ d \in Reached(c)
    OBVIOUS
  <2>2. c \in Fun /\ d \in Fun
    BY <1>1, <2>1
  <2>3. Callees(d) \subseteq Reached(c)
    BY <2>1, <2>2, ReachedFacts
  <2>4. QED
    BY <2>3
<1>3. S \in SUBSET Fun /\ CalleesIn(S, f)
  BY <1>1, <1>2 DEF CalleesIn, Callees
<1> HIDE DEF S
<1>4. g \in S
  BY <1>3 DEF Reached
<1>5. QED
  BY <1>4 DEF S

(* The program stays the same, and what is said of it.                     *)
LEMMA SameProgram ==
  ASSUME prog' = prog
  PROVE  /\ Order' = Order /\ Recursive' = Recursive
         /\ ReachesRecursion' = ReachesRecursion /\ Polymorphic' = Polymorphic
         /\ \A f : Callees(f)' = Callees(f) /\ Reached(f)' = Reached(f) /\ CallOf(f)' = CallOf(f)
         /\ \A n : Before(n)' = Before(n)
BY DEF Order, Callees, Before, Polymorphic, Recursive, ReachesRecursion, Reached, CalleesIn, CallOf

-----------------------------------------------------------------------------
(* The stacks of calls.                                                    *)

(* A call starts with all the callees of its function.                     *)
LEMMA CallOfFacts ==
  ASSUME prog \in Programs, NEW f \in Fun
  PROVE  CallOf(f) \in Call /\ CallOf(f).f = f /\ CallOf(f).rest = Callees(f)
BY OrderFacts DEF CallOf, Callees, Call

(* The loop of the last call goes past a callee.                           *)
LEMMA PastFacts ==
  ASSUME prog \in Programs, NEW s \in Seq(Call), s # << >>, NEW c, NEW t, t = Past(s, c)
  PROVE  /\ t \in Seq(Call) /\ Len(t) = Len(s) /\ DOMAIN t = 1 .. Len(s)
         /\ \A i \in 1 .. Len(s) : t[i].f = s[i].f
         /\ \A i \in 1 .. Len(s) : i # Len(s) => t[i].rest = s[i].rest
         /\ t[Len(s)].rest = s[Len(s)].rest \ {c}
<1>1. PICK n \in Nat \ {0} : n = Len(s) /\ DOMAIN s = 1 .. n /\ s[n] \in Call
  OBVIOUS
<1>2. PICK e : e = [s[n] EXCEPT !.rest = @ \ {c}]
  OBVIOUS
<1>3. e \in Call /\ e.f = s[n].f /\ e.rest = s[n].rest \ {c}
  BY <1>1, <1>2 DEF Call
<1>4. t = [s EXCEPT ![n] = e]
  BY <1>1, <1>2 DEF Past
<1>5. /\ t \in Seq(Call) /\ Len(t) = Len(s) /\ DOMAIN t = 1 .. Len(s)
      /\ \A j \in 1 .. Len(s) : t[j] = IF j = n THEN e ELSE s[j]
  <2>1. n \in 1 .. Len(s)
    BY <1>1
  <2>2. QED
    BY <1>3, <1>4, <2>1, ReplaceElement
<1>6. QED
  BY <1>1, <1>3, <1>5

(* A call of a function that has none running.                             *)
LEMMA CalledFacts ==
  ASSUME prog \in Programs, NEW s \in Seq(Call), NEW f \in Fun, NEW t, t = Append(s, CallOf(f))
  PROVE  /\ t \in Seq(Call) /\ Len(t) = Len(s) + 1 /\ DOMAIN t = 1 .. Len(s) + 1
         /\ t[Len(s) + 1].f = f /\ t[Len(s) + 1].rest = Callees(f)
         /\ \A i \in 1 .. Len(s) : t[i] = s[i]
<1>1. PICK e \in Call : e = CallOf(f) /\ e.f = f /\ e.rest = Callees(f)
  BY CallOfFacts
<1>2. QED
  BY <1>1

(* The last call returns.                                                  *)
LEMMA ReturnedFacts ==
  ASSUME NEW s \in Seq(Call), s # << >>, NEW t, t = Front(s)
  PROVE  /\ t \in Seq(Call) /\ Len(t) = Len(s) - 1 /\ DOMAIN t = 1 .. Len(s) - 1
         /\ \A i \in 1 .. Len(s) - 1 : t[i] = s[i]
         /\ Len(s) \in Nat \ {0} /\ DOMAIN s = 1 .. Len(s) /\ Last(s) = s[Len(s)] /\ Last(s) \in Call
BY FrontAndLast, ElementsOfSeq

-----------------------------------------------------------------------------
(* What mayIndirectlyCall answers.                                         *)

(* All that is said of a chain is said of the function the loop is at.     *)
LEMMA ChainFacts ==
  ASSUME PolyInv, Searching
  PROVE  /\ prog \in Programs /\ Current \in Fun /\ scan \in 1 .. Cardinality(Fun)
         /\ chain \in Seq(Call) /\ chain[1].f = Current /\ OnTheWay /\ DoneWith
         /\ \A i \in DOMAIN chain : chain[i].f \in Fun /\ chain[i].rest \subseteq Fun
         /\ Len(chain) \in Nat \ {0} /\ DOMAIN chain = 1 .. Len(chain)
         /\ Running = chain[Len(chain)] /\ Running \in Call
         /\ Running.rest # {} => Min(Running.rest) \in Running.rest
<1>1. prog \in Programs /\ chain \in Seq(Call) /\ chain # << >> /\ pc # "overflow"
  BY DEF PolyInv, TypeOK, Searching
<1>2. More /\ chain[1].f = Current /\ OnTheWay /\ DoneWith
  BY <1>1 DEF PolyInv, ChainOK
<1>3. scan \in 1 .. Cardinality(Fun)
  BY <1>1, <1>2, OrderFacts DEF More, Order, PolyInv, TypeOK
<1>4. Current \in Fun
  BY <1>1, <1>3, OrderFacts DEF Current, Order
<1>5. Len(chain) \in Nat \ {0} /\ DOMAIN chain = 1 .. Len(chain)
  BY <1>1
<1>6. \A i \in DOMAIN chain : chain[i] \in Call
  BY <1>1
<1>7. Running = chain[Len(chain)] /\ Running \in Call
  BY <1>1, FrontAndLast DEF Running
<1>8. ASSUME Running.rest # {} PROVE Min(Running.rest) \in Running.rest
  <2>1. Running.rest \in SUBSET Nat
    BY <1>7, FunAssumption DEF Call
  <2>2. QED
    BY <1>8, <2>1, MinOfNaturals
<1>9. QED
  BY <1>1, <1>2, <1>3, <1>4, <1>5, <1>6, <1>7, <1>8 DEF Call

(* It answers yes when a callee of a function on the way is the goal.      *)
LEMMA YesIsRight ==
  ASSUME PolyInv, CallsGoal
  PROVE  goal \in Reached(Current)
<1>1. Searching /\ goal \in Running.rest
  BY ChainFacts DEF CallsGoal
<1>2. PICK f : f = Running.f /\ f \in Fun /\ f \in Reached(Current) \cup {Current}
               /\ goal \in Callees(f)
  BY <1>1, ChainFacts DEF OnTheWay
<1>3. QED
  BY <1>1, <1>2, ChainFacts, ReachedFacts

(* It answers no when all the callees of the first function are done with. *)
LEMMA NoIsRight ==
  ASSUME PolyInv, AnswerFalse
  PROVE  goal \notin Reached(Current)
<1>1. Searching /\ Running.rest = {} /\ Len(chain) = 1 /\ Running = chain[1]
  BY ChainFacts DEF AnswerFalse
<1>2. \A c \in Callees(Current) : c # goal /\ goal \notin Reached(c)
  BY <1>1, ChainFacts DEF DoneWith, NotReached
<1>3. QED
  BY <1>1, <1>2, ChainFacts, ReachedThrough

-----------------------------------------------------------------------------
(* Sequences of functions.                                                 *)

(* A function is appended.                                                 *)
LEMMA AppendFacts ==
  ASSUME NEW s \in Seq(Fun), NEW f \in Fun, NEW t, t = Append(s, f)
  PROVE  /\ t \in Seq(Fun) /\ Len(t) = Len(s) + 1 /\ DOMAIN t = 1 .. Len(s) + 1
         /\ Len(s) \in Nat /\ DOMAIN s = 1 .. Len(s)
         /\ t[Len(s) + 1] = f /\ \A i \in 1 .. Len(s) : t[i] = s[i]
         /\ Range(t) = Range(s) \cup {f}
         /\ Distinct(s) /\ f \notin Range(s) => Distinct(t)
<1>1. /\ t \in Seq(Fun) /\ Len(t) = Len(s) + 1 /\ DOMAIN t = 1 .. Len(s) + 1
      /\ Len(s) \in Nat /\ DOMAIN s = 1 .. Len(s)
      /\ t[Len(s) + 1] = f /\ \A i \in 1 .. Len(s) : t[i] = s[i]
  OBVIOUS
<1>2. Range(t) = Range(s) \cup {f}
  BY ToSetAppend DEF Range, ToSet
<1>3. ASSUME Distinct(s), f \notin Range(s) PROVE Distinct(t)
  <2>1. ASSUME NEW i \in DOMAIN t, NEW j \in DOMAIN t, t[i] = t[j] PROVE i = j
    <3>1. /\ i \in DOMAIN s \/ i = Len(s) + 1
          /\ j \in DOMAIN s \/ j = Len(s) + 1
      BY <1>1
    <3>2. \A k \in DOMAIN s : s[k] # f /\ t[k] = s[k]
      BY <1>1, <1>3 DEF Range
    <3>3. QED
      BY <1>1, <1>3, <2>1, <3>1, <3>2 DEF Distinct
  <2>2. QED
    BY <2>1 DEF Distinct
<1>4. QED
  BY <1>1, <1>2, <1>3

(* A function is taken out of a sequence that has it once.                 *)
LEMMA RemoveFacts ==
  ASSUME NEW s \in Seq(Fun), Distinct(s), NEW i \in DOMAIN s, NEW t, t = RemoveAt(s, i)
  PROVE  t \in Seq(Fun) /\ Distinct(t) /\ Range(t) = Range(s) \ {s[i]}
<1>1. PICK n \in Nat : n = Len(s) /\ DOMAIN s = 1 .. n /\ i \in 1 .. n /\ i \in Nat
  OBVIOUS
<1>2. \A k \in 1 .. n : s[k] \in Fun
  BY <1>1
<1>3. PICK a : a = SubSeq(s, 1, i - 1)
  OBVIOUS
<1>4. PICK b : b = SubSeq(s, i + 1, n)
  OBVIOUS
<1>5. a \in Seq(Fun) /\ Len(a) = i - 1 /\ \A k \in 1 .. i - 1 : a[k] = s[k]
  BY <1>1, <1>2, <1>3
<1>6. b \in Seq(Fun) /\ Len(b) = n - i /\ \A k \in 1 .. n - i : b[k] = s[k + i]
  <2>1. /\ n >= (i + 1) - 1 /\ (n - (i + 1)) + 1 = n - i
        /\ \A k \in 1 .. n - i : ((i + 1) + k) - 1 = k + i
    BY <1>1
  <2>2. QED
    BY <1>1, <1>2, <1>4, <2>1
<1>7. t = a \o b
  BY <1>1, <1>3, <1>4 DEF RemoveAt
<1>8. /\ t \in Seq(Fun) /\ Len(t) = n - 1 /\ DOMAIN t = 1 .. n - 1
      /\ \A k \in 1 .. n - 1 : t[k] = IF k < i THEN s[k] ELSE s[k + 1]
  <2>1. t \in Seq(Fun) /\ Len(t) = n - 1 /\ DOMAIN t = 1 .. n - 1
    BY <1>1, <1>5, <1>6, <1>7
  <2>2. ASSUME NEW k \in 1 .. n - 1 PROVE t[k] = IF k < i THEN s[k] ELSE s[k + 1]
    <3>1. CASE k < i
      BY <1>1, <1>5, <1>6, <1>7, <3>1
    <3>2. CASE ~(k < i)
      <4>1. k - (i - 1) \in 1 .. n - i /\ k \notin 1 .. Len(a) /\ (k - (i - 1)) + i = k + 1
        BY <1>1, <1>5, <3>2
      <4>2. t[k] = b[k - (i - 1)]
        BY <1>1, <1>5, <1>6, <1>7, <4>1, <3>2
      <4>3. QED
        BY <1>6, <3>2, <4>1, <4>2
    <3>3. QED
      BY <3>1, <3>2
  <2>3. QED
    BY <2>1, <2>2
<1>9. Distinct(t)
  <2>1. ASSUME NEW j \in 1 .. n - 1, NEW k \in 1 .. n - 1, t[j] = t[k] PROVE j = k
    <3>1. PICK x \in 1 .. n : x = (IF j < i THEN j ELSE j + 1) /\ t[j] = s[x]
      BY <1>1, <1>8
    <3>2. PICK y \in 1 .. n : y = (IF k < i THEN k ELSE k + 1) /\ t[k] = s[y]
      BY <1>1, <1>8
    <3>3. x = y
      BY <1>1, <2>1, <3>1, <3>2 DEF Distinct
    <3>4. QED
      BY <1>1, <3>1, <3>2, <3>3
  <2>2. QED
    BY <1>8, <2>1 DEF Distinct
<1>10. Range(t) \subseteq Range(s) \ {s[i]}
  BY <1>1, <1>8 DEF Distinct, Range
<1>11. ASSUME NEW k \in 1 .. n, k # i PROVE s[k] \in Range(t)
  <2>1. CASE k < i
    BY <1>1, <1>8, <2>1 DEF Range
  <2>2. CASE ~(k < i)
    <3>1. k - 1 \in 1 .. n - 1 /\ ~(k - 1 < i) /\ (k - 1) + 1 = k
      BY <1>1, <1>11, <2>2
    <3>2. QED
      BY <1>8, <3>1 DEF Range
  <2>3. QED
    BY <2>1, <2>2
<1>12. Range(s) \ {s[i]} \subseteq Range(t)
  BY <1>1, <1>11 DEF Range
<1>13. QED
  BY <1>8, <1>9, <1>10, <1>12

(* There are as many functions in a sequence without repetitions as it is  *)
(* long.                                                                   *)
LEMMA DistinctLength ==
  ASSUME NEW s \in Seq(Fun), Distinct(s)
  PROVE  Cardinality(Range(s)) = Len(s) /\ Len(s) <= Cardinality(Fun)
<1>1. DOMAIN s = 1 .. Len(s) /\ Len(s) \in Nat /\ s \in [1 .. Len(s) -> Fun]
  OBVIOUS
<1>2. s \in [1 .. Len(s) -> Range(s)] /\ Range(s) \subseteq Fun
  BY <1>1 DEF Range
<1>3. IsFiniteSet(Range(s)) /\ Cardinality(Range(s)) <= Cardinality(Fun)
  BY <1>2, FunAssumption, FS_Subset
<1>4. s \in Injection(1 .. Len(s), Range(s))
  BY <1>1, <1>2 DEF Injection, IsInjective, Distinct
<1>5. s \in Surjection(1 .. Len(s), Range(s))
  BY <1>1, <1>2 DEF Surjection, Range
<1>6. Cardinality(1 .. Len(s)) = Len(s)
  BY <1>1, FS_Interval
<1>7. Cardinality(1 .. Len(s)) = Cardinality(Range(s))
  BY <1>3, <1>4, <1>5, FS_Injection
<1>8. QED
  BY <1>3, <1>6, <1>7

-----------------------------------------------------------------------------
(* What a step leaves alone.                                               *)

(* While the searches run nothing is sorted.                               *)
LEMMA NothingSorted ==
  ASSUME PolyInv, pc \in {"recursive", "filter"},
         pc' \in {"recursive", "filter", "overflow"},
         UNCHANGED <<prog, sort, solved>>
  PROVE  /\ NotYetSorting' /\ NoneTwice' /\ CalleesBefore'
         /\ Sorting' /\ Inferring' /\ StagesDone'
<1>1. unmarked' = << >> /\ visiting' = << >> /\ sorted' = << >>
  BY DEF PolyInv, NotYetSorting, sort
<1>2. NoneTwice' /\ CalleesBefore'
  BY <1>1 DEF NoneTwice, Distinct, CalleesBefore
<1>3. solved' = {}
  BY DEF PolyInv, StagesDone
<1>4. QED
  BY <1>1, <1>2, <1>3 DEF NotYetSorting, Sorting, Inferring, Ordered, StagesDone

(* When they have ended their results stay.                                *)
LEMMA SearchesEnded ==
  ASSUME PolyInv, chain = << >>, chain' = chain, recFuncs' = recFuncs, prog' = prog,
         pc \in {"filter", "sort", "infer"}, pc' \in {"sort", "infer", "done", "rejected"}
  PROVE  /\ ChainOK' /\ FindingRecursive' /\ Filtered' /\ RecursiveFound'
         /\ NotYetSorting'
<1>1. Range(recFuncs) = Recursive
  BY DEF PolyInv, RecursiveFound, Searched
<1>2. RecursiveFound'
  BY <1>1, SameProgram DEF RecursiveFound
<1>3. QED
  BY <1>2 DEF ChainOK, FindingRecursive, Filtered, NotYetSorting

(* A call or a return of mayIndirectlyCall changes the chain alone.        *)
LEMMA ChainMoves ==
  ASSUME PolyInv, Searching,
         UNCHANGED <<prog, pc, scan, inner, goal, recFuncs, nonRecursiveFuncs, sort, solved>>,
         chain' \in Seq(Call), Len(chain') <= MaxDepth, ChainOK'
  PROVE  PolyInv'
<1>1. pc \in {"recursive", "filter"} /\ chain # << >>
  BY DEF Searching
<1>2. TypeOK'
  BY DEF PolyInv, TypeOK, sort
<1>3. FindingRecursive'
  <2>1. Current' = Current /\ Before(scan)' = Before(scan)
    BY DEF Current, Before, Order
  <2>2. QED
    BY <1>1, <2>1, SameProgram DEF PolyInv, FindingRecursive
<1>4. Filtered'
  <2>1. Order' = Order /\ More' = More /\ Current' = Current /\ Reached(Current)' = Reached(Current)
    BY SameProgram DEF More, Current, Reached, CalleesIn
  <2>2. QED
    BY <1>1, <2>1, SameProgram DEF PolyInv, Filtered, Distinct
<1>5. RecursiveFound'
  BY SameProgram DEF PolyInv, RecursiveFound, Searched
<1>6. QED
  BY <1>1, <1>2, <1>3, <1>4, <1>5, NothingSorted DEF PolyInv

-----------------------------------------------------------------------------
(* The steps of mayIndirectlyCall.                                         *)

(* A callee that is not the goal is searched in turn.                      *)
LEMMA CallsOtherKeeps ==
  ASSUME PolyInv, CallsOther
  PROVE  PolyInv'
<1>1. Searching /\ Running.rest # {} /\ Len(chain) < MaxDepth
  BY DEF CallsOther
<1>2. PICK n \in Nat \ {0} : n = Len(chain) /\ DOMAIN chain = 1 .. n /\ Running = chain[n]
  BY <1>1, ChainFacts
<1>3. PICK c \in Running.rest : c # goal /\ c = Min(Running.rest)
  BY <1>1, ChainFacts DEF CallsOther
<1>4. /\ prog \in Programs /\ chain \in Seq(Call) /\ chain # << >> /\ Current \in Fun
      /\ chain[1].f = Current /\ OnTheWay /\ DoneWith
      /\ \A i \in 1 .. n : chain[i].f \in Fun /\ chain[i].rest \subseteq Fun
  BY <1>1, <1>2, ChainFacts DEF Searching
<1>5. c \in Fun /\ n \in 1 .. n /\ 1 \in 1 .. n
  BY <1>2, <1>3, <1>4
<1>6. PICK here : here = Past(chain, c) /\ chain' = Append(here, CallOf(c))
  BY <1>3 DEF CallsOther
<1>7. /\ here \in Seq(Call) /\ Len(here) = n
      /\ \A i \in 1 .. n : here[i].f = chain[i].f
      /\ \A i \in 1 .. n : i # n => here[i].rest = chain[i].rest
      /\ here[n].rest = chain[n].rest \ {c}
  BY <1>2, <1>4, <1>6, PastFacts
<1>8. /\ chain' \in Seq(Call) /\ Len(chain') = n + 1 /\ DOMAIN (chain') = 1 .. n + 1
      /\ chain'[n + 1].f = c /\ chain'[n + 1].rest = Callees(c)
      /\ \A i \in 1 .. n : chain'[i] = here[i]
  <2>1. PICK t : t = Append(here, CallOf(c)) /\ chain' = t
    BY <1>6
  <2>2. /\ t \in Seq(Call) /\ Len(t) = n + 1 /\ DOMAIN t = 1 .. n + 1
        /\ t[n + 1].f = c /\ t[n + 1].rest = Callees(c)
        /\ \A i \in 1 .. n : t[i] = here[i]
    <3>1. here \in Seq(Call) /\ c \in Fun /\ Len(here) = n
      BY <1>5, <1>7
    <3>2. /\ t \in Seq(Call) /\ Len(t) = Len(here) + 1 /\ DOMAIN t = 1 .. Len(here) + 1
          /\ t[Len(here) + 1].f = c /\ t[Len(here) + 1].rest = Callees(c)
          /\ \A i \in 1 .. Len(here) : t[i] = here[i]
      BY <1>4, <2>1, <3>1, CalledFacts
    <3>3. QED
      BY <3>1, <3>2
  <2>3. QED
    BY <2>1, <2>2
<1>9. /\ UNCHANGED <<prog, pc, scan, inner, goal, recFuncs, nonRecursiveFuncs, sort, solved>>
      /\ More' = More /\ Current' = Current /\ Reached(Current)' = Reached(Current)
  BY DEF CallsOther, More, Current, Reached, CalleesIn
<1>10. \A i \in 1 .. n + 1 : i \in 1 .. n \/ i = n + 1
  BY <1>2
<1>11. OnTheWay'
  <2>1. c \in Reached(Current)
    <3>1. c \in Callees(chain[n].f) /\ chain[n].f \in Reached(Current) \cup {Current}
      BY <1>2, <1>3, <1>4, <1>5 DEF OnTheWay
    <3>2. QED
      BY <1>4, <1>5, <3>1, ReachedFacts
  <2>2. ASSUME NEW i \in 1 .. n + 1
        PROVE  /\ chain'[i].f \in Reached(Current) \cup {Current}
               /\ chain'[i].rest \subseteq Callees(chain'[i].f)
    <3>1. CASE i = n + 1
      BY <1>8, <2>1, <3>1
    <3>2. CASE i \in 1 .. n
      BY <1>2, <1>4, <1>7, <1>8, <3>2 DEF OnTheWay
    <3>3. QED
      BY <1>10, <3>1, <3>2
  <2>3. QED
    BY <1>8, <1>9, <2>2, SameProgram DEF OnTheWay
<1>12. DoneWith'
  <2>1. ASSUME NEW i \in 1 .. n + 1, NEW d \in Callees(chain'[i].f) \ chain'[i].rest
        PROVE  d # goal /\ (NotReached(d) \/ (i < n + 1 /\ d = chain'[i + 1].f))
    <3>1. CASE i = n + 1
      BY <1>8, <2>1, <3>1
    <3>2. CASE i = n
      <4>1. d = c \/ d \in Callees(chain[n].f) \ chain[n].rest
        BY <1>5, <1>7, <1>8, <2>1, <3>2
      <4>2. CASE d = c
        BY <1>2, <1>3, <1>8, <3>2, <4>2
      <4>3. CASE d \in Callees(chain[n].f) \ chain[n].rest
        BY <1>2, <1>4, <1>5, <4>3 DEF DoneWith
      <4>4. QED
        BY <4>1, <4>2, <4>3
    <3>3. CASE i \in 1 .. n /\ i # n
      <4>1. i + 1 \in 1 .. n /\ i < n /\ i < n + 1
        BY <1>2, <3>3
      <4>2. d \in Callees(chain[i].f) \ chain[i].rest /\ chain'[i + 1].f = chain[i + 1].f
        BY <1>7, <1>8, <2>1, <3>3, <4>1
      <4>3. QED
        BY <1>2, <1>4, <3>3, <4>1, <4>2 DEF DoneWith
    <3>4. QED
      BY <1>10, <3>1, <3>2, <3>3
  <2>2. \A d : NotReached(d)' = NotReached(d)
    BY <1>9, SameProgram DEF NotReached
  <2>3. QED
    BY <1>8, <1>9, <2>1, <2>2, SameProgram DEF DoneWith
<1>13. ChainOK'
  <2>1. chain'[1].f = Current
    BY <1>4, <1>5, <1>7, <1>8
  <2>2. pc \in {"recursive", "filter"} /\ More
    BY <1>1 DEF Searching, PolyInv, ChainOK
  <2>3. QED
    BY <1>9, <1>11, <1>12, <2>1, <2>2 DEF ChainOK
<1>14. Len(chain') <= MaxDepth
  BY <1>1, <1>2, <1>8, DepthAssumption
<1>15. QED
  BY <1>1, <1>8, <1>9, <1>13, <1>14, ChainMoves

(* A function without callees left does not reach the goal: its caller is  *)
(* done with it.                                                           *)
LEMMA ReturnFalseKeeps ==
  ASSUME PolyInv, ReturnFalse
  PROVE  PolyInv'
<1>1. Searching /\ Running.rest = {} /\ Len(chain) > 1 /\ chain' = Front(chain)
  BY DEF ReturnFalse
<1>2. PICK n \in Nat \ {0} : n = Len(chain) /\ DOMAIN chain = 1 .. n /\ Running = chain[n]
  BY <1>1, ChainFacts
<1>3. /\ prog \in Programs /\ chain \in Seq(Call) /\ chain # << >> /\ Current \in Fun
      /\ chain[1].f = Current /\ OnTheWay /\ DoneWith
      /\ \A i \in 1 .. n : chain[i].f \in Fun
  BY <1>1, <1>2, ChainFacts DEF Searching
<1>4. /\ chain' \in Seq(Call) /\ Len(chain') = n - 1 /\ DOMAIN (chain') = 1 .. n - 1
      /\ \A i \in 1 .. n - 1 : chain'[i] = chain[i]
  BY <1>1, <1>2, <1>3, ReturnedFacts
<1>5. /\ UNCHANGED <<prog, pc, scan, inner, goal, recFuncs, nonRecursiveFuncs, sort, solved>>
      /\ More' = More /\ Current' = Current /\ Reached(Current)' = Reached(Current)
  BY DEF ReturnFalse, More, Current, Reached, CalleesIn
<1>6. n \in 1 .. n /\ 1 \in 1 .. n - 1 /\ \A i \in 1 .. n - 1 : i \in 1 .. n
  BY <1>1, <1>2
<1>7. goal \notin Reached(chain[n].f)
  <2>1. \A d \in Callees(chain[n].f) : d # goal /\ goal \notin Reached(d)
    <3>1. chain[n].rest = {} /\ n \in DOMAIN chain /\ ~(n < Len(chain))
      BY <1>1, <1>2, <1>6
    <3>2. \A d \in Callees(chain[n].f) : d # goal /\ NotReached(d)
      BY <1>3, <3>1 DEF DoneWith
    <3>3. QED
      BY <3>2 DEF NotReached
  <2>2. QED
    BY <1>3, <1>6, <2>1, ReachedThrough
<1>8. OnTheWay'
  BY <1>2, <1>3, <1>4, <1>5, <1>6, SameProgram DEF OnTheWay
<1>9. DoneWith'
  <2>1. ASSUME NEW i \in 1 .. n - 1, NEW d \in Callees(chain[i].f) \ chain[i].rest
        PROVE  d # goal /\ (NotReached(d) \/ (i < n - 1 /\ d = chain'[i + 1].f))
    <3>1. d # goal /\ (NotReached(d) \/ d = chain[i + 1].f)
      BY <1>2, <1>3, <1>6, <2>1 DEF DoneWith
    <3>2. CASE i + 1 = n
      BY <1>7, <3>1, <3>2 DEF NotReached
    <3>3. CASE i + 1 # n
      <4>1. i < n - 1 /\ i + 1 \in 1 .. n - 1
        BY <1>2, <3>3
      <4>2. QED
        BY <1>4, <3>1, <4>1
    <3>4. QED
      BY <3>2, <3>3
  <2>2. \A d : NotReached(d)' = NotReached(d)
    BY <1>5, SameProgram DEF NotReached
  <2>3. QED
    BY <1>4, <1>5, <2>1, <2>2, SameProgram DEF DoneWith
<1>10. ChainOK'
  <2>1. pc \in {"recursive", "filter"} /\ More
    BY <1>1 DEF Searching, PolyInv, ChainOK
  <2>2. QED
    BY <1>3, <1>4, <1>5, <1>6, <1>8, <1>9, <2>1 DEF ChainOK
<1>11. Len(chain') <= MaxDepth
  BY <1>2, <1>4, DepthAssumption DEF PolyInv, TypeOK
<1>12. QED
  BY <1>1, <1>4, <1>5, <1>10, <1>11, ChainMoves

-----------------------------------------------------------------------------
(* The loops of recursiveFuncs and topoSortNonRecursive.                   *)

(* The function a loop is at is the next after those before it.            *)
LEMMA CurrentFacts ==
  ASSUME prog \in Programs, scan \in 1 .. Cardinality(Fun) + 1
  PROVE  /\ Cardinality(Fun) \in Nat \ {0}
         /\ More <=> scan \in 1 .. Cardinality(Fun)
         /\ ~More => scan = Cardinality(Fun) + 1
         /\ More => /\ Current \in Fun /\ Current \notin Before(scan)
                    /\ Before(scan + 1) = Before(scan) \cup {Current}
                    /\ scan + 1 \in 1 .. Cardinality(Fun) + 1
<1>1. Cardinality(Fun) \in Nat \ {0} /\ Len(prog.vertices) = Cardinality(Fun)
  BY OrderFacts DEF Order
<1>2. /\ More <=> scan \in 1 .. Cardinality(Fun)
      /\ ~More => scan = Cardinality(Fun) + 1
  BY <1>1 DEF More
<1>3. ASSUME More
      PROVE  /\ Current \in Fun /\ Current \notin Before(scan)
             /\ Before(scan + 1) = Before(scan) \cup {Current}
             /\ scan + 1 \in 1 .. Cardinality(Fun) + 1
  <2>1. scan \in 1 .. Cardinality(Fun)
    BY <1>2, <1>3
  <2>2. Order \in Seq(Fun) /\ Len(Order) = Cardinality(Fun) /\ Order[scan] = Current
    BY OrderFacts DEF Order, Current
  <2>3. QED
    BY <1>1, <2>1, <2>2, BeforeFacts
<1>4. QED
  BY <1>1, <1>2, <1>3

(* What the next function of the filter has been compared with: nothing.   *)
LEMMA NextFunction ==
  ASSUME PolyInv, pc = "filter", More, prog' = prog, pc' = pc, scan' = scan + 1, inner' = 1,
         chain' = << >>, goal' = goal, recFuncs' = recFuncs, sort' = sort, solved' = solved,
         nonRecursiveFuncs' \in Seq(Fun), Distinct(nonRecursiveFuncs'),
         Range(nonRecursiveFuncs') = (Before(scan) \cup {Current}) \ ReachesRecursion
  PROVE  PolyInv'
<1>1. /\ prog \in Programs /\ scan \in 1 .. Cardinality(Fun) + 1 /\ TypeOK
      /\ Range(recFuncs) = Recursive /\ Len(recFuncs) <= Cardinality(Fun) /\ recFuncs \in Seq(Fun)
  BY DEF PolyInv, TypeOK, Filtered
<1>2. /\ Cardinality(Fun) \in Nat \ {0} /\ scan + 1 \in 1 .. Cardinality(Fun) + 1
      /\ Before(scan + 1) = Before(scan) \cup {Current}
  BY <1>1, CurrentFacts
<1>3. MaxDepth \in Nat /\ Len(chain') = 0 /\ chain' \in Seq(Call)
  BY DepthAssumption
<1>4. TypeOK'
  BY <1>1, <1>2, <1>3 DEF TypeOK, sort
<1>5. Before(scan)' = Before(scan + 1)
  BY DEF Before, Order
<1>6. Filtered'
  <2>1. Range(recFuncs') = Recursive' /\ Len(recFuncs') <= Cardinality(Fun)
    BY <1>1, SameProgram
  <2>2. Range(nonRecursiveFuncs') = Before(scan)' \ ReachesRecursion'
    BY <1>2, <1>5, SameProgram
  <2>3. inner' <= Len(recFuncs') + 1 /\ \A j : j \notin 1 .. inner' - 1
    BY <1>1
  <2>4. Distinct(nonRecursiveFuncs)'
    BY DEF Distinct
  <2>5. QED
    BY <2>1, <2>2, <2>3, <2>4 DEF Filtered
<1>7. ChainOK' /\ FindingRecursive' /\ RecursiveFound'
  BY <1>1, SameProgram DEF ChainOK, FindingRecursive, RecursiveFound
<1>8. QED
  BY <1>4, <1>6, <1>7, NothingSorted DEF PolyInv

(* A recursive function is found, or another is passed.                    *)
LEMMA NextRecursive ==
  ASSUME PolyInv, pc = "recursive", More, prog' = prog, pc' = pc, scan' = scan + 1,
         UNCHANGED <<inner, goal, nonRecursiveFuncs, sort, solved>>, chain' = << >>,
         recFuncs' = IF Current \in Recursive THEN Append(recFuncs, Current) ELSE recFuncs
  PROVE  PolyInv'
<1>1. /\ prog \in Programs /\ scan \in 1 .. Cardinality(Fun) + 1 /\ TypeOK /\ recFuncs \in Seq(Fun)
      /\ Range(recFuncs) = Before(scan) \cap Recursive /\ Len(recFuncs) < scan
      /\ inner = 1 /\ nonRecursiveFuncs = << >>
  BY DEF PolyInv, TypeOK, FindingRecursive
<1>2. /\ Cardinality(Fun) \in Nat \ {0} /\ scan + 1 \in 1 .. Cardinality(Fun) + 1
      /\ Before(scan + 1) = Before(scan) \cup {Current} /\ Current \in Fun
  BY <1>1, CurrentFacts
<1>3. MaxDepth \in Nat /\ Len(chain') = 0 /\ chain' \in Seq(Call)
  BY DepthAssumption
<1>4. /\ recFuncs' \in Seq(Fun) /\ Len(recFuncs') < scan + 1
      /\ Range(recFuncs') = Before(scan + 1) \cap Recursive
  <2>1. CASE Current \in Recursive
    <3>1. PICK t : t = Append(recFuncs, Current) /\ recFuncs' = t
      BY <2>1
    <3>2. t \in Seq(Fun) /\ Len(t) = Len(recFuncs) + 1 /\ Range(t) = Range(recFuncs) \cup {Current}
          /\ Len(recFuncs) \in Nat
      BY <1>1, <1>2, <3>1, AppendFacts
    <3>3. Len(t) < scan + 1
      BY <1>1, <3>2
    <3>4. Range(t) = Before(scan + 1) \cap Recursive
      BY <1>1, <1>2, <2>1, <3>2
    <3>5. QED
      BY <3>1, <3>2, <3>3, <3>4
  <2>2. CASE Current \notin Recursive
    <3>1. Len(recFuncs) < scan + 1
      BY <1>1
    <3>2. QED
      BY <1>1, <1>2, <2>2, <3>1
  <2>3. QED
    BY <2>1, <2>2
<1>5. TypeOK'
  BY <1>1, <1>2, <1>3, <1>4 DEF TypeOK, sort
<1>6. Before(scan)' = Before(scan + 1)
  BY DEF Before, Order
<1>7. FindingRecursive'
  BY <1>1, <1>4, <1>6, SameProgram DEF FindingRecursive
<1>8. ChainOK' /\ Filtered' /\ RecursiveFound'
  BY DEF ChainOK, Filtered, RecursiveFound, Searched
<1>9. QED
  BY <1>5, <1>7, <1>8, NothingSorted DEF PolyInv

(* The answer yes: the function is recursive, or it reaches one that is.   *)
LEMMA CallsGoalKeeps ==
  ASSUME PolyInv, CallsGoal
  PROVE  PolyInv'
<1>1. /\ Searching /\ goal \in Reached(Current) /\ Answer(TRUE) /\ pc \in {"recursive", "filter"}
      /\ More /\ chain # << >> /\ Current \in Fun /\ pc # "overflow"
  BY YesIsRight, ChainFacts DEF CallsGoal, Searching, PolyInv, ChainOK
<1>2. CASE pc = "recursive"
  <2>1. goal = Current
    BY <1>1, <1>2 DEF PolyInv, FindingRecursive
  <2>2. Current \in Recursive
    BY <1>1, <2>1 DEF Recursive
  <2>3. /\ prog' = prog /\ pc' = pc /\ scan' = scan + 1 /\ chain' = << >>
        /\ UNCHANGED <<inner, goal, nonRecursiveFuncs, sort, solved>>
        /\ recFuncs' = Append(recFuncs, Current)
    BY <1>1, <1>2 DEF Answer, Current
  <2>4. QED
    BY <1>1, <1>2, <2>2, <2>3, NextRecursive
<1>3. CASE pc = "filter"
  <2>1. /\ Range(recFuncs) = Recursive /\ inner <= Len(recFuncs) /\ goal = recFuncs[inner]
        /\ Distinct(nonRecursiveFuncs) /\ nonRecursiveFuncs \in Seq(Fun)
        /\ Range(nonRecursiveFuncs) = Before(scan) \ ReachesRecursion
        /\ recFuncs \in Seq(Fun) /\ inner \in Nat \ {0}
    BY <1>1, <1>3 DEF PolyInv, Filtered, TypeOK
  <2>2. goal \in Recursive
    BY <2>1 DEF Range
  <2>3. Current \in ReachesRecursion
    BY <1>1, <2>2 DEF ReachesRecursion
  <2>4. Range(nonRecursiveFuncs) = (Before(scan) \cup {Current}) \ ReachesRecursion
    BY <2>1, <2>3
  <2>5. /\ prog' = prog /\ pc' = pc /\ scan' = scan + 1 /\ inner' = 1 /\ chain' = << >>
        /\ goal' = goal /\ recFuncs' = recFuncs /\ sort' = sort /\ solved' = solved
        /\ nonRecursiveFuncs' = nonRecursiveFuncs
    BY <1>1, <1>3 DEF Answer
  <2>6. QED
    BY <1>1, <1>3, <2>1, <2>4, <2>5, NextFunction
<1>4. QED
  BY <1>1, <1>2, <1>3

(* The answer no: the function is not recursive, or it does not reach the  *)
(* one it is compared with.                                                *)
LEMMA AnswerFalseKeeps ==
  ASSUME PolyInv, AnswerFalse
  PROVE  PolyInv'
<1>1. /\ Searching /\ goal \notin Reached(Current) /\ Answer(FALSE)
      /\ pc \in {"recursive", "filter"} /\ pc # "overflow"
      /\ More /\ chain # << >> /\ Current \in Fun
  BY NoIsRight, ChainFacts DEF AnswerFalse, Searching, PolyInv, ChainOK
<1>2. CASE pc = "recursive"
  <2>1. goal = Current
    BY <1>1, <1>2 DEF PolyInv, FindingRecursive
  <2>2. Current \notin Recursive
    BY <1>1, <2>1 DEF Recursive
  <2>3. /\ prog' = prog /\ pc' = pc /\ scan' = scan + 1 /\ chain' = << >>
        /\ UNCHANGED <<inner, goal, nonRecursiveFuncs, sort, solved>>
        /\ recFuncs' = recFuncs
    BY <1>1, <1>2 DEF Answer
  <2>4. QED
    BY <1>1, <1>2, <2>2, <2>3, NextRecursive
<1>3. CASE pc = "filter"
  <2>1. /\ UNCHANGED <<prog, pc, scan, goal, recFuncs, nonRecursiveFuncs, sort, solved>>
        /\ chain' = << >> /\ inner' = inner + 1
    BY <1>1, <1>3 DEF Answer
  <2>2. /\ TypeOK /\ Filtered /\ inner <= Len(recFuncs) /\ goal = recFuncs[inner] /\ goal # Current
        /\ Len(recFuncs) <= Cardinality(Fun) /\ recFuncs \in Seq(Fun)
        /\ inner \in Nat \ {0} /\ Cardinality(Fun) \in Nat
    <3>1. TypeOK /\ Filtered /\ prog \in Programs /\ recFuncs \in Seq(Fun)
          /\ inner \in 1 .. Cardinality(Fun) + 1
      BY DEF PolyInv, TypeOK
    <3>2. Cardinality(Fun) \in Nat
      BY <3>1, OrderFacts
    <3>3. /\ inner <= Len(recFuncs) /\ goal = recFuncs[inner] /\ goal # Current
          /\ Len(recFuncs) <= Cardinality(Fun)
      BY <1>1, <1>3, <3>1 DEF Filtered
    <3>4. QED
      BY <3>1, <3>2, <3>3
  <2>3. inner + 1 \in 1 .. Cardinality(Fun) + 1 /\ inner + 1 <= Len(recFuncs) + 1
    BY <2>2
  <2>4. MaxDepth \in Nat /\ Len(chain') = 0 /\ chain' \in Seq(Call)
    BY <2>1, DepthAssumption
  <2>5. TypeOK'
    BY <2>1, <2>2, <2>3, <2>4 DEF TypeOK, sort
  <2>6. /\ Before(scan)' = Before(scan) /\ Current' = Current /\ More' = More
        /\ Reached(Current)' = Reached(Current)
    BY <2>1 DEF Before, Order, Current, More, Reached, CalleesIn
  <2>7. \A j \in 1 .. (inner + 1) - 1 : j \in 1 .. inner - 1 \/ j = inner
    BY <2>2
  <2>8. \A j \in 1 .. (inner + 1) - 1 : recFuncs[j] # Current /\ recFuncs[j] \notin Reached(Current)
    BY <1>1, <1>3, <2>2, <2>7 DEF Filtered
  <2>9. Range(recFuncs)' = Recursive' /\ Range(nonRecursiveFuncs)' = Before(scan)' \ ReachesRecursion'
    BY <1>3, <2>1, <2>2, <2>6, SameProgram DEF Filtered
  <2>10. Filtered'
    BY <1>3, <2>1, <2>2, <2>3, <2>6, <2>8, <2>9 DEF Filtered, Distinct
  <2>11. ChainOK' /\ FindingRecursive' /\ RecursiveFound'
    BY <1>3, <2>1, <2>9 DEF ChainOK, FindingRecursive, RecursiveFound
  <2>12. QED
    BY <1>3, <2>1, <2>5, <2>10, <2>11, NothingSorted DEF PolyInv
<1>4. QED
  BY <1>1, <1>2, <1>3

(* The call stack is full, and nothing is said of the compiler any more.   *)
LEMMA OverflowKeeps ==
  ASSUME PolyInv, Overflow
  PROVE  PolyInv'
<1>1. /\ pc' = "overflow" /\ UNCHANGED <<prog, search, sort, solved>> /\ pc \in {"recursive", "filter"}
  BY DEF Overflow, Searching
<1>2. TypeOK'
  BY <1>1 DEF PolyInv, TypeOK, search, sort
<1>3. ChainOK' /\ FindingRecursive' /\ Filtered' /\ RecursiveFound'
  BY <1>1 DEF ChainOK, FindingRecursive, Filtered, RecursiveFound, Searched
<1>4. QED
  BY <1>1, <1>2, <1>3, NothingSorted DEF PolyInv

(* A search starts with a call of the function the loop is at.             *)
LEMMA FirstCall ==
  ASSUME prog \in Programs, Current \in Fun, More, pc \in {"recursive", "filter"},
         UNCHANGED <<prog, pc, scan>>, chain' = <<CallOf(Current)>>
  PROVE  chain' \in Seq(Call) /\ Len(chain') <= MaxDepth /\ ChainOK'
<1>1. PICK e \in Call : e = CallOf(Current) /\ e.f = Current /\ e.rest = Callees(Current)
  BY CallOfFacts
<1>2. PICK t : t = <<e>>
  OBVIOUS
<1>3. /\ t \in Seq(Call) /\ Len(t) = 1 /\ DOMAIN t = 1 .. 1
      /\ t[1].f = Current /\ t[1].rest = Callees(Current)
  BY <1>1, <1>2
<1>4. chain' = t
  BY <1>1, <1>2
<1>5. MaxDepth \in Nat /\ MaxDepth > 0
  BY DepthAssumption, OrderFacts
<1>6. /\ Current' = Current /\ More' = More /\ \A f : Callees(f)' = Callees(f)
      /\ Reached(Current)' = Reached(Current)
  BY DEF Current, More, Callees, Reached, CalleesIn
<1>7. OnTheWay'
  BY <1>3, <1>4, <1>6 DEF OnTheWay
<1>8. DoneWith'
  BY <1>3, <1>4, <1>6 DEF DoneWith
<1>9. chain'[1].f = Current' /\ pc' \in {"recursive", "filter"} /\ More'
  BY <1>3, <1>4, <1>6
<1>10. chain' \in Seq(Call) /\ Len(chain') <= MaxDepth
  <2>1. Len(t) <= MaxDepth
    BY <1>3, <1>5
  <2>2. QED
    BY <1>3, <1>4, <2>1
<1>11. QED
  BY <1>7, <1>8, <1>9, <1>10 DEF ChainOK

(* recursiveFuncs asks whether a function reaches itself.                  *)
LEMMA AskRecursiveKeeps ==
  ASSUME PolyInv, AskRecursive
  PROVE  PolyInv'
<1>1. /\ pc = "recursive" /\ More /\ prog \in Programs /\ scan \in 1 .. Cardinality(Fun) + 1
      /\ chain' = <<CallOf(Current)>> /\ goal' = Current
      /\ UNCHANGED <<prog, pc, scan, inner, recFuncs, nonRecursiveFuncs, sort, solved>>
  BY DEF AskRecursive, Ask, PolyInv, TypeOK
<1>2. Current \in Fun
  BY <1>1, CurrentFacts
<1>3. chain' \in Seq(Call) /\ Len(chain') <= MaxDepth /\ ChainOK'
  BY <1>1, <1>2, FirstCall
<1>4. TypeOK'
  BY <1>1, <1>2, <1>3 DEF PolyInv, TypeOK, sort
<1>5. Current' = Current /\ Before(scan)' = Before(scan)
  BY <1>1 DEF Current, Before, Order
<1>6. FindingRecursive'
  BY <1>1, <1>5, SameProgram DEF PolyInv, FindingRecursive
<1>7. Filtered' /\ RecursiveFound'
  BY <1>1 DEF Filtered, RecursiveFound, Searched
<1>8. QED
  BY <1>1, <1>3, <1>4, <1>6, <1>7, NothingSorted DEF PolyInv

(* topoSortNonRecursive asks whether a function reaches a recursive one.   *)
LEMMA AskFilterKeeps ==
  ASSUME PolyInv, AskFilter
  PROVE  PolyInv'
<1>1. /\ pc = "filter" /\ More /\ prog \in Programs /\ scan \in 1 .. Cardinality(Fun) + 1
      /\ inner <= Len(recFuncs) /\ recFuncs[inner] # Current /\ TypeOK /\ Filtered
      /\ inner \in Nat \ {0} /\ recFuncs \in Seq(Fun)
      /\ chain' = <<CallOf(Current)>> /\ goal' = recFuncs[inner]
      /\ UNCHANGED <<prog, pc, scan, inner, recFuncs, nonRecursiveFuncs, sort, solved>>
  BY DEF AskFilter, Filtering, Ask, PolyInv, TypeOK
<1>2. Current \in Fun /\ recFuncs[inner] \in Fun
  BY <1>1, CurrentFacts
<1>3. chain' \in Seq(Call) /\ Len(chain') <= MaxDepth /\ ChainOK'
  BY <1>1, <1>2, FirstCall
<1>4. TypeOK'
  BY <1>1, <1>2, <1>3 DEF TypeOK, sort
<1>5. /\ Current' = Current /\ Before(scan)' = Before(scan) /\ More' = More
      /\ Reached(Current)' = Reached(Current)
  BY <1>1 DEF Current, Before, Order, More, Reached, CalleesIn
<1>6. Filtered'
  BY <1>1, <1>5, SameProgram DEF Filtered, Distinct
<1>7. FindingRecursive' /\ RecursiveFound'
  BY <1>1, SameProgram DEF FindingRecursive, RecursiveFound, Filtered
<1>8. QED
  BY <1>1, <1>3, <1>4, <1>6, <1>7, NothingSorted DEF PolyInv

(* The filter drops a recursive function.                                  *)
LEMMA IsRecursiveKeeps ==
  ASSUME PolyInv, IsRecursive
  PROVE  PolyInv'
<1>1. /\ pc = "filter" /\ More /\ TypeOK /\ Filtered /\ recFuncs \in Seq(Fun)
      /\ inner <= Len(recFuncs) /\ inner \in Nat \ {0} /\ recFuncs[inner] = Current
      /\ nonRecursiveFuncs \in Seq(Fun) /\ chain = << >>
  BY DEF IsRecursive, Filtering, PolyInv, TypeOK
<1>2. Current \in Recursive
  BY <1>1 DEF Filtered, Range
<1>3. Current \in ReachesRecursion
  BY <1>2 DEF ReachesRecursion, Recursive
<1>4. /\ Distinct(nonRecursiveFuncs)
      /\ Range(nonRecursiveFuncs) = (Before(scan) \cup {Current}) \ ReachesRecursion
  BY <1>1, <1>3 DEF Filtered
<1>5. /\ prog' = prog /\ pc' = pc /\ scan' = scan + 1 /\ inner' = 1 /\ chain' = << >>
      /\ goal' = goal /\ recFuncs' = recFuncs /\ sort' = sort /\ solved' = solved
      /\ nonRecursiveFuncs' = nonRecursiveFuncs
  BY <1>1 DEF IsRecursive
<1>6. QED
  BY <1>1, <1>4, <1>5, NextFunction

(* The filter keeps a function that was compared with all the recursive    *)
(* ones.                                                                   *)
LEMMA KeepKeeps ==
  ASSUME PolyInv, Keep
  PROVE  PolyInv'
<1>1. /\ pc = "filter" /\ More /\ TypeOK /\ Filtered /\ recFuncs \in Seq(Fun)
      /\ inner > Len(recFuncs) /\ inner \in Nat \ {0}
      /\ nonRecursiveFuncs \in Seq(Fun) /\ chain = << >>
      /\ prog \in Programs /\ scan \in 1 .. Cardinality(Fun) + 1
  BY DEF Keep, Filtering, PolyInv, TypeOK
<1>2. Current \in Fun /\ Current \notin Before(scan)
  BY <1>1, CurrentFacts
<1>3. \A j \in DOMAIN recFuncs : recFuncs[j] # Current /\ recFuncs[j] \notin Reached(Current)
  <2>1. \A j \in DOMAIN recFuncs : j \in 1 .. inner - 1
    BY <1>1
  <2>2. QED
    BY <1>1, <2>1 DEF Filtered
<1>4. Current \notin ReachesRecursion
  <2>1. \A g \in Recursive : g # Current /\ g \notin Reached(Current)
    BY <1>1, <1>3 DEF Filtered, Range
  <2>2. QED
    BY <2>1 DEF ReachesRecursion
<1>5. PICK t : t = Append(nonRecursiveFuncs, Current) /\ nonRecursiveFuncs' = t
  BY DEF Keep
<1>6. /\ t \in Seq(Fun) /\ Distinct(t)
      /\ Range(t) = (Before(scan) \cup {Current}) \ ReachesRecursion
  <2>1. /\ Distinct(nonRecursiveFuncs) /\ Current \notin Range(nonRecursiveFuncs)
        /\ Range(nonRecursiveFuncs) = Before(scan) \ ReachesRecursion
    BY <1>1, <1>2 DEF Filtered
  <2>2. t \in Seq(Fun) /\ Distinct(t) /\ Range(t) = Range(nonRecursiveFuncs) \cup {Current}
    BY <1>1, <1>2, <1>5, <2>1, AppendFacts
  <2>3. QED
    BY <1>4, <2>1, <2>2
<1>7. /\ prog' = prog /\ pc' = pc /\ scan' = scan + 1 /\ inner' = 1 /\ chain' = << >>
      /\ goal' = goal /\ recFuncs' = recFuncs /\ sort' = sort /\ solved' = solved
  BY <1>1 DEF Keep
<1>8. /\ nonRecursiveFuncs' \in Seq(Fun) /\ Distinct(nonRecursiveFuncs')
      /\ Range(nonRecursiveFuncs') = (Before(scan) \cup {Current}) \ ReachesRecursion
  BY <1>5, <1>6
<1>9. QED
  BY <1>1, <1>7, <1>8, NextFunction

(* All functions were looked at: the recursive ones are known.             *)
LEMMA StartFilterKeeps ==
  ASSUME PolyInv, StartFilter
  PROVE  PolyInv'
<1>1. /\ pc = "recursive" /\ chain = << >> /\ ~More /\ pc' = "filter" /\ scan' = 1
      /\ UNCHANGED <<prog, inner, chain, goal, recFuncs, nonRecursiveFuncs, sort, solved>>
      /\ prog \in Programs /\ scan \in 1 .. Cardinality(Fun) + 1 /\ TypeOK
  BY DEF StartFilter, PolyInv, TypeOK
<1>2. /\ Range(recFuncs) = Before(scan) \cap Recursive /\ Len(recFuncs) < scan
      /\ inner = 1 /\ nonRecursiveFuncs = << >> /\ recFuncs \in Seq(Fun)
  BY <1>1 DEF PolyInv, FindingRecursive, TypeOK
<1>3. Cardinality(Fun) \in Nat \ {0} /\ scan = Cardinality(Fun) + 1
  BY <1>1, CurrentFacts
<1>4. Range(recFuncs) = Recursive /\ Len(recFuncs) <= Cardinality(Fun) /\ inner <= Len(recFuncs) + 1
  <2>1. Before(scan) = Fun
    BY <1>1, <1>3, BeforeFacts
  <2>2. Recursive \subseteq Fun
    BY DEF Recursive
  <2>3. QED
    BY <1>2, <1>3, <2>1, <2>2
<1>5. TypeOK'
  <2>1. 1 \in 1 .. Cardinality(Fun) + 1
    BY <1>3
  <2>2. QED
    BY <1>1, <2>1 DEF TypeOK, sort
<1>6. Range(nonRecursiveFuncs') = Before(scan)' \ ReachesRecursion' /\ Distinct(nonRecursiveFuncs)'
  <2>1. Range(nonRecursiveFuncs) = {} /\ Distinct(nonRecursiveFuncs)'
    BY <1>1, <1>2 DEF Range, Distinct
  <2>2. Before(scan)' = {}
    BY <1>1 DEF Before
  <2>3. QED
    BY <1>1, <2>1, <2>2
<1>7. Range(recFuncs') = Recursive'
  BY <1>1, <1>4, SameProgram
<1>8. Filtered'
  BY <1>1, <1>2, <1>4, <1>6, <1>7 DEF Filtered
<1>9. ChainOK' /\ FindingRecursive' /\ RecursiveFound'
  BY <1>1, <1>7 DEF ChainOK, FindingRecursive, RecursiveFound
<1>10. QED
  BY <1>1, <1>5, <1>8, <1>9, NothingSorted DEF PolyInv

-----------------------------------------------------------------------------
(* topoSort and topoVisit.                                                 *)

(* A polymorphic function does not reach itself, and those it reaches are  *)
(* polymorphic.                                                            *)
LEMMA PolymorphicFacts ==
  ASSUME prog \in Programs, NEW f \in Polymorphic
  PROVE  /\ f \in Fun /\ f \notin Reached(f) /\ Callees(f) \subseteq Reached(f)
         /\ Reached(f) \subseteq Polymorphic
<1>1. f \in Fun /\ f \notin ReachesRecursion
  BY DEF Polymorphic
<1>2. (Reached(f) \cup {f}) \cap Recursive = {}
  BY <1>1 DEF ReachesRecursion
<1>3. f \notin Reached(f)
  BY <1>1, <1>2 DEF Recursive
<1>4. /\ Callees(f) \subseteq Reached(f) /\ Reached(f) \subseteq Fun
      /\ \A c \in Reached(f) : Reached(c) \subseteq Reached(f)
  BY <1>1, ReachedFacts
<1>5. ASSUME NEW g \in Reached(f) PROVE g \in Polymorphic
  <2>1. (Reached(g) \cup {g}) \cap Recursive = {}
    BY <1>2, <1>4
  <2>2. QED
    BY <1>4, <2>1 DEF Polymorphic, ReachesRecursion
<1>6. QED
  BY <1>1, <1>3, <1>4, <1>5

(* What holds while functions are sorted.                                  *)
LEMMA SortFacts ==
  ASSUME PolyInv, pc = "sort"
  PROVE  /\ prog \in Programs /\ chain = << >> /\ TypeOK
         /\ unmarked \in Seq(Fun) /\ Distinct(unmarked) /\ sorted \in Seq(Fun) /\ Distinct(sorted)
         /\ visiting \in Seq(Call) /\ Len(visiting) \in Nat /\ DOMAIN visiting = 1 .. Len(visiting)
         /\ \A i \in 1 .. Len(visiting) :
              /\ visiting[i] \in Call /\ visiting[i].f \in Stacked /\ visiting[i].f \in Fun
              /\ visiting[i].f \in Polymorphic
         /\ CalleesBefore
         /\ Range(unmarked) \cup Stacked \cup Range(sorted) = Polymorphic
         /\ Range(unmarked) \cap Stacked = {} /\ Range(unmarked) \cap Range(sorted) = {}
         /\ Stacked \cap Range(sorted) = {}
         /\ VisitsOK
<1>1. /\ prog \in Programs /\ TypeOK /\ unmarked \in Seq(Fun) /\ sorted \in Seq(Fun)
      /\ visiting \in Seq(Call) /\ Distinct(unmarked) /\ Distinct(sorted) /\ CalleesBefore
  BY DEF PolyInv, TypeOK, NoneTwice
<1>2. chain = << >>
  BY DEF PolyInv, ChainOK
<1>3. /\ Range(unmarked) \cup Stacked \cup Range(sorted) = Polymorphic
      /\ Range(unmarked) \cap Stacked = {} /\ Range(unmarked) \cap Range(sorted) = {}
      /\ Stacked \cap Range(sorted) = {} /\ VisitsOK
  BY DEF PolyInv, Sorting
<1>4. /\ Len(visiting) \in Nat /\ DOMAIN visiting = 1 .. Len(visiting)
      /\ \A i \in 1 .. Len(visiting) : visiting[i] \in Call
  BY <1>1
<1>5. ASSUME NEW i \in 1 .. Len(visiting)
      PROVE  /\ visiting[i].f \in Stacked /\ visiting[i].f \in Fun
             /\ visiting[i].f \in Polymorphic
  <2>1. visiting[i].f \in Stacked
    BY <1>4 DEF Stacked
  <2>2. QED
    BY <1>3, <1>4, <2>1 DEF Call
<1>6. QED
  BY <1>1, <1>2, <1>3, <1>4, <1>5

(* A function is taken out of unmarked.                                    *)
LEMMA UnmarkFacts ==
  ASSUME PolyInv, pc = "sort", NEW f, Unmark(f)
  PROVE  /\ f \in Range(unmarked) /\ f \in Fun /\ f \in Polymorphic
         /\ f \notin Stacked /\ f \notin Range(sorted)
         /\ unmarked' \in Seq(Fun) /\ Distinct(unmarked')
         /\ Range(unmarked') = Range(unmarked) \ {f}
<1>1. PICK i \in DOMAIN unmarked : unmarked[i] = f /\ unmarked' = RemoveAt(unmarked, i)
  BY DEF Unmark
<1>2. unmarked \in Seq(Fun) /\ Distinct(unmarked)
  BY SortFacts
<1>3. f \in Range(unmarked) /\ f \in Fun
  BY <1>1, <1>2 DEF Range
<1>4. PICK t : t = RemoveAt(unmarked, i) /\ unmarked' = t
  BY <1>1
<1>5. t \in Seq(Fun) /\ Distinct(t) /\ Range(t) = Range(unmarked) \ {f}
  BY <1>1, <1>2, <1>4, RemoveFacts
<1>6. QED
  BY <1>3, <1>4, <1>5, SortFacts

(* A step of the sort keeps the rest.                                      *)
LEMMA SortMoves ==
  ASSUME PolyInv, pc = "sort", pc' = pc, UNCHANGED <<prog, search, solved>>,
         unmarked' \in Seq(Fun), Distinct(unmarked)', visiting' \in Seq(Call),
         sorted' \in Seq(Fun), Distinct(sorted)', CalleesBefore', Sorting'
  PROVE  PolyInv'
<1>1. TypeOK'
  BY DEF PolyInv, TypeOK, search
<1>2. chain = << >> /\ chain' = chain /\ recFuncs' = recFuncs
  BY SortFacts DEF search
<1>3. ChainOK' /\ FindingRecursive' /\ Filtered' /\ RecursiveFound' /\ NotYetSorting'
  BY <1>2, SearchesEnded
<1>4. Inferring' /\ StagesDone'
  BY DEF PolyInv, Inferring, Ordered, StagesDone
<1>5. QED
  BY <1>1, <1>3, <1>4 DEF PolyInv, NoneTwice

(* All functions were filtered: those that reach no recursion are sorted.  *)
LEMMA StartSortKeeps ==
  ASSUME PolyInv, StartSort
  PROVE  PolyInv'
<1>1. /\ pc = "filter" /\ chain = << >> /\ ~More /\ pc' = "sort" /\ unmarked' = nonRecursiveFuncs
      /\ UNCHANGED <<prog, search, visiting, sorted, solved>>
      /\ visiting = << >> /\ sorted = << >> /\ TypeOK
      /\ prog \in Programs /\ scan \in 1 .. Cardinality(Fun) + 1
  BY DEF StartSort, PolyInv, NotYetSorting, TypeOK
<1>2. TypeOK'
  BY <1>1 DEF TypeOK, search
<1>3. /\ Distinct(nonRecursiveFuncs)
      /\ Range(nonRecursiveFuncs) = Before(scan) \ ReachesRecursion
  BY <1>1 DEF PolyInv, Filtered
<1>4. Range(nonRecursiveFuncs) = Polymorphic
  <2>1. Before(scan) = Fun
    BY <1>1, CurrentFacts, BeforeFacts
  <2>2. QED
    BY <1>3, <2>1 DEF Polymorphic
<1>5. NoneTwice' /\ CalleesBefore'
  BY <1>1, <1>3 DEF NoneTwice, Distinct, CalleesBefore
<1>6. Sorting'
  <2>1. Stacked' = {} /\ Range(sorted') = {} /\ VisitsOK'
    BY <1>1 DEF Stacked, Range, VisitsOK
  <2>2. Range(unmarked') = Polymorphic'
    BY <1>1, <1>4, SameProgram
  <2>3. QED
    BY <2>1, <2>2 DEF Sorting
<1>7. chain' = chain /\ recFuncs' = recFuncs
  BY <1>1 DEF search
<1>8. ChainOK' /\ FindingRecursive' /\ Filtered' /\ RecursiveFound' /\ NotYetSorting'
  BY <1>1, <1>7, SearchesEnded
<1>9. Inferring' /\ StagesDone'
  BY <1>1 DEF PolyInv, Inferring, Ordered, StagesDone
<1>10. QED
  BY <1>2, <1>5, <1>6, <1>8, <1>9 DEF PolyInv

(* The sort visits the last unmarked function.                             *)
LEMMA SortRootKeeps ==
  ASSUME PolyInv, SortRoot
  PROVE  PolyInv'
<1>1. PICK f : f = Last(unmarked) /\ Unmark(f) /\ visiting' = <<CallOf(f)>>
  BY DEF SortRoot
<1>2. /\ pc = "sort" /\ pc' = pc /\ visiting = << >>
      /\ UNCHANGED <<prog, search, sorted, solved>> /\ prog' = prog /\ sorted' = sorted
  BY DEF SortRoot
<1>3. /\ f \in Range(unmarked) /\ f \in Fun /\ f \notin Range(sorted)
      /\ unmarked' \in Seq(Fun) /\ Distinct(unmarked')
      /\ Range(unmarked') = Range(unmarked) \ {f}
  BY <1>1, <1>2, UnmarkFacts
<1>4. prog \in Programs /\ sorted \in Seq(Fun) /\ Distinct(sorted) /\ CalleesBefore
  BY <1>2, SortFacts
<1>5. PICK e \in Call : e = CallOf(f) /\ e.f = f /\ e.rest = Callees(f)
  BY <1>3, <1>4, CallOfFacts
<1>6. PICK t : t = <<e>>
  OBVIOUS
<1>7. visiting' = t /\ t \in Seq(Call) /\ DOMAIN t = 1 .. 1 /\ t[1] = e
  BY <1>1, <1>5, <1>6
<1>8. VisitsOK' /\ Stacked' = {f}
  <2>1. DOMAIN visiting' = 1 .. 1 /\ visiting'[1].f = f /\ visiting'[1].rest = Callees(f)
    BY <1>5, <1>7
  <2>2. \A i \in 1 .. 1 : i = 1
    OBVIOUS
  <2>3. \A i, j \in 1 .. 1 : ~(i < j)
    OBVIOUS
  <2>4. Stacked' = {f}
    BY <2>1, <2>2 DEF Stacked
  <2>5. QED
    BY <1>2, <2>1, <2>2, <2>3, <2>4, SameProgram DEF VisitsOK
<1>9. Sorting'
  <2>1. Stacked = {}
    BY <1>2 DEF Stacked
  <2>2. /\ Range(unmarked) \cup Range(sorted) = Polymorphic /\ Polymorphic' = Polymorphic
        /\ Range(unmarked) \cap Range(sorted) = {}
    BY <1>2, <2>1, SortFacts, SameProgram
  <2>3. QED
    BY <1>2, <1>3, <1>8, <2>2 DEF Sorting
<1>10. CalleesBefore'
  BY <1>2, <1>4, SameProgram DEF CalleesBefore
<1>11. Distinct(unmarked)' /\ Distinct(sorted)'
  BY <1>2, <1>3, <1>4 DEF Distinct
<1>12. QED
  BY <1>2, <1>3, <1>4, <1>7, <1>9, <1>10, <1>11, SortMoves

(* A callee that is neither unmarked nor sorted would be on the stack: it  *)
(* would reach itself.                                                     *)
LEMMA NotOnTheStack ==
  ASSUME PolyInv, pc = "sort", visiting # << >>, NEW c \in Callees(visiting[Len(visiting)].f)
  PROVE  c \in Polymorphic /\ c \notin Stacked
<1>1. PICK n \in Nat \ {0} : n = Len(visiting) /\ DOMAIN visiting = 1 .. n
  <2>1. visiting \in Seq(Call) /\ DOMAIN visiting = 1 .. Len(visiting)
    BY SortFacts
  <2>2. Len(visiting) \in Nat \ {0}
    BY <2>1, FrontAndLast
  <2>3. QED
    BY <2>1, <2>2
<1>2. PICK f : f = visiting[n].f
  OBVIOUS
<1>3. prog \in Programs /\ f \in Fun /\ f \in Polymorphic /\ VisitsOK /\ n \in 1 .. n
  BY <1>1, <1>2, SortFacts
<1>4. c \in Reached(f) /\ c \in Polymorphic
  BY <1>1, <1>2, <1>3, PolymorphicFacts
<1>5. c \notin Reached(c)
  BY <1>3, <1>4, PolymorphicFacts
<1>6. ASSUME NEW k \in 1 .. n, c = visiting[k].f PROVE FALSE
  <2>1. CASE k = n
    BY <1>2, <1>4, <1>5, <1>6, <2>1
  <2>2. CASE k # n
    <3>1. k < n
      BY <1>1, <2>2
    <3>2. f \in Reached(c)
      BY <1>1, <1>2, <1>3, <1>6, <3>1 DEF VisitsOK
    <3>3. c \in Fun
      BY <1>3, <1>4, PolymorphicFacts
    <3>4. Reached(f) \subseteq Reached(c)
      BY <1>3, <3>2, <3>3, ReachedFacts
    <3>5. QED
      BY <1>4, <1>5, <3>4
  <2>3. QED
    BY <2>1, <2>2
<1>7. QED
  BY <1>1, <1>4, <1>6 DEF Stacked

(* The visitor of topoVisit and its callees.                               *)
LEMMA VisitorFacts ==
  ASSUME PolyInv, pc = "sort", visiting # << >>
  PROVE  /\ Visitor = visiting[Len(visiting)] /\ Len(visiting) \in Nat \ {0}
         /\ Visitor.f \in Polymorphic /\ Visitor.f \in Stacked
         /\ Visitor.rest \subseteq Callees(Visitor.f)
         /\ Visitor.rest # {} => Min(Visitor.rest) \in Visitor.rest
<1>1. /\ Visitor = visiting[Len(visiting)] /\ Len(visiting) \in Nat \ {0} /\ Visitor \in Call
      /\ Len(visiting) \in DOMAIN visiting
  <2>1. visiting \in Seq(Call) /\ DOMAIN visiting = 1 .. Len(visiting)
    BY SortFacts
  <2>2. /\ Last(visiting) = visiting[Len(visiting)] /\ Last(visiting) \in Call
        /\ Len(visiting) \in Nat \ {0}
    BY <2>1, FrontAndLast
  <2>3. Len(visiting) \in 1 .. Len(visiting)
    BY <2>2
  <2>4. QED
    BY <2>1, <2>2, <2>3 DEF Visitor
<1>2. Visitor.f \in Polymorphic /\ Visitor.f \in Stacked /\ Visitor.rest \subseteq Callees(Visitor.f)
  BY <1>1, SortFacts DEF VisitsOK
<1>3. ASSUME Visitor.rest # {} PROVE Min(Visitor.rest) \in Visitor.rest
  <2>1. Visitor.rest \in SUBSET Nat
    BY <1>1, FunAssumption DEF Call
  <2>2. QED
    BY <1>3, <2>1, MinOfNaturals
<1>4. QED
  BY <1>1, <1>2, <1>3

(* The loop of the visitor goes past a callee c, that is visited if it is  *)
(* unmarked, and is sorted otherwise.                                      *)
LEMMA PastKeeps ==
  ASSUME PolyInv, pc = "sort", visiting # << >>, NEW c \in Callees(Visitor.f), NEW t,
         t = Past(visiting, c)
  PROVE  /\ t \in Seq(Call) /\ Len(t) = Len(visiting) /\ DOMAIN t = 1 .. Len(visiting)
         /\ Len(visiting) \in Nat \ {0}
         /\ \A i \in 1 .. Len(t) :
              /\ t[i].f = visiting[i].f /\ t[i].rest \subseteq Callees(t[i].f)
              /\ \A d \in Callees(t[i].f) \ t[i].rest :
                   \/ d \in Range(sorted) \/ (i < Len(t) /\ d = t[i + 1].f)
                   \/ (i = Len(t) /\ d = c)
         /\ \A i, j \in 1 .. Len(t) : i < j => t[j].f \in Reached(t[i].f)
<1>1. PICK n \in Nat \ {0} : n = Len(visiting) /\ DOMAIN visiting = 1 .. n /\ Visitor = visiting[n]
  BY SortFacts, VisitorFacts
<1>2. prog \in Programs /\ visiting \in Seq(Call) /\ VisitsOK
  BY SortFacts
<1>3. /\ t \in Seq(Call) /\ Len(t) = n /\ DOMAIN t = 1 .. n
      /\ \A i \in 1 .. n : t[i].f = visiting[i].f
      /\ \A i \in 1 .. n : i # n => t[i].rest = visiting[i].rest
      /\ t[n].rest = visiting[n].rest \ {c}
  BY <1>1, <1>2, PastFacts
<1>4. /\ \A i \in 1 .. n :
           /\ visiting[i].rest \subseteq Callees(visiting[i].f)
           /\ \A d \in Callees(visiting[i].f) \ visiting[i].rest :
                d \in Range(sorted) \/ (i < n /\ d = visiting[i + 1].f)
      /\ \A i, j \in 1 .. n : i < j => visiting[j].f \in Reached(visiting[i].f)
  BY <1>1, <1>2 DEF VisitsOK
<1>5. ASSUME NEW i \in 1 .. n
      PROVE  /\ t[i].rest \subseteq Callees(t[i].f)
             /\ \A d \in Callees(t[i].f) \ t[i].rest :
                  \/ d \in Range(sorted) \/ (i < n /\ d = t[i + 1].f)
                  \/ (i = n /\ d = c)
  <2>1. CASE i = n
    BY <1>3, <1>4, <2>1
  <2>2. CASE i # n
    <3>1. i + 1 \in 1 .. n /\ i < n
      BY <1>1, <2>2
    <3>2. t[i + 1].f = visiting[i + 1].f /\ t[i].rest = visiting[i].rest /\ t[i].f = visiting[i].f
      BY <1>3, <2>2, <3>1
    <3>3. QED
      BY <1>4, <3>1, <3>2
  <2>3. QED
    BY <2>1, <2>2
<1>6. \A i, j \in 1 .. n : i < j => t[j].f \in Reached(t[i].f)
  BY <1>3, <1>4
<1>7. QED
  BY <1>1, <1>3, <1>5, <1>6

(* The visitor goes to its next callee, or past one that is sorted.        *)
LEMMA VisitCalleeKeeps ==
  ASSUME PolyInv, VisitCallee
  PROVE  PolyInv'
<1>1. /\ pc = "sort" /\ visiting # << >> /\ Visitor.rest # {} /\ pc' = pc /\ prog' = prog
      /\ sorted' = sorted /\ UNCHANGED <<prog, search, solved>>
  BY DEF VisitCallee
<1>2. PICK c \in Visitor.rest : c = Min(Visitor.rest) /\ c \in Callees(Visitor.f)
  BY <1>1, VisitorFacts
<1>3. PICK here : here = Past(visiting, c)
  OBVIOUS
<1>4. IF c \in Range(unmarked)
      THEN visiting' = Append(here, CallOf(c)) /\ Unmark(c)
      ELSE visiting' = here /\ UNCHANGED unmarked
  BY <1>2, <1>3 DEF VisitCallee
<1>5. PICK n \in Nat \ {0} : n = Len(visiting) /\ DOMAIN visiting = 1 .. n /\ Visitor = visiting[n]
  BY <1>1, SortFacts, VisitorFacts
<1>6. /\ here \in Seq(Call) /\ Len(here) = n /\ DOMAIN here = 1 .. n
      /\ \A i \in 1 .. n :
           /\ here[i].f = visiting[i].f /\ here[i].rest \subseteq Callees(here[i].f)
           /\ \A d \in Callees(here[i].f) \ here[i].rest :
                \/ d \in Range(sorted) \/ (i < n /\ d = here[i + 1].f)
                \/ (i = n /\ d = c)
      /\ \A i, j \in 1 .. n : i < j => here[j].f \in Reached(here[i].f)
  BY <1>1, <1>2, <1>3, <1>5, PastKeeps
<1>7. /\ prog \in Programs /\ sorted \in Seq(Fun) /\ Distinct(sorted) /\ CalleesBefore
      /\ Range(unmarked) \cup Stacked \cup Range(sorted) = Polymorphic
      /\ Range(unmarked) \cap Stacked = {} /\ Range(unmarked) \cap Range(sorted) = {}
      /\ Stacked \cap Range(sorted) = {}
      /\ unmarked \in Seq(Fun) /\ Distinct(unmarked)
  BY <1>1, SortFacts
<1>8. CalleesBefore' /\ Distinct(sorted)' /\ Polymorphic' = Polymorphic
  BY <1>1, <1>7, SameProgram DEF CalleesBefore, Distinct
<1>9. {here[i].f : i \in 1 .. n} = Stacked
  BY <1>5, <1>6 DEF Stacked
<1>10. CASE c \notin Range(unmarked)
  <2>1. visiting' = here /\ unmarked' = unmarked
    BY <1>4, <1>10
  <2>2. c \in Range(sorted)
    BY <1>1, <1>2, <1>5, <1>7, <1>10, NotOnTheStack
  <2>3. VisitsOK'
    <3>1. ASSUME NEW i \in 1 .. n, NEW d \in Callees(here[i].f) \ here[i].rest
          PROVE  d \in Range(sorted) \/ (i < n /\ d = here[i + 1].f)
      BY <1>6, <2>2
    <3>2. QED
      BY <1>1, <1>6, <2>1, <3>1, SameProgram DEF VisitsOK
  <2>4. Stacked' = Stacked
    BY <1>6, <1>9, <2>1 DEF Stacked
  <2>5. Sorting'
    BY <1>1, <1>7, <1>8, <2>1, <2>3, <2>4 DEF Sorting
  <2>6. unmarked' \in Seq(Fun) /\ Distinct(unmarked)' /\ visiting' \in Seq(Call) /\ sorted' \in Seq(Fun)
    BY <1>1, <1>6, <1>7, <2>1 DEF Distinct
  <2>7. QED
    BY <1>1, <1>8, <2>5, <2>6, SortMoves
<1>11. CASE c \in Range(unmarked)
  <2>1. Unmark(c) /\ visiting' = Append(here, CallOf(c))
    BY <1>4, <1>11
  <2>2. /\ c \in Fun /\ c \notin Stacked /\ c \notin Range(sorted)
        /\ unmarked' \in Seq(Fun) /\ Distinct(unmarked')
        /\ Range(unmarked') = Range(unmarked) \ {c}
    BY <1>1, <2>1, UnmarkFacts
  <2>3. PICK t : t = Append(here, CallOf(c)) /\ visiting' = t
    BY <2>1
  <2>4. /\ t \in Seq(Call) /\ Len(t) = Len(here) + 1 /\ DOMAIN t = 1 .. Len(here) + 1
        /\ t[Len(here) + 1].f = c /\ t[Len(here) + 1].rest = Callees(c)
        /\ \A i \in 1 .. Len(here) : t[i] = here[i]
    <3>1. here \in Seq(Call) /\ c \in Fun
      BY <1>6, <2>2
    <3>2. QED
      BY <1>7, <2>3, <3>1, CalledFacts
  <2>5. /\ Len(t) = n + 1 /\ DOMAIN t = 1 .. n + 1 /\ t[n + 1].f = c /\ t[n + 1].rest = Callees(c)
        /\ \A i \in 1 .. n : t[i] = here[i]
    BY <1>6, <2>4
  <2>6. \A i \in 1 .. n + 1 : i \in 1 .. n \/ i = n + 1
    BY <1>5
  <2>7. ASSUME NEW i \in 1 .. n + 1
        PROVE  /\ t[i].rest \subseteq Callees(t[i].f)
               /\ \A d \in Callees(t[i].f) \ t[i].rest :
                    d \in Range(sorted) \/ (i < n + 1 /\ d = t[i + 1].f)
    <3>1. CASE i = n + 1
      BY <2>5, <3>1
    <3>2. CASE i = n
      BY <1>5, <1>6, <2>5, <3>2
    <3>3. CASE i \in 1 .. n /\ i # n
      <4>1. i + 1 \in 1 .. n /\ i < n + 1
        BY <1>5, <3>3
      <4>2. t[i] = here[i] /\ t[i + 1] = here[i + 1]
        BY <2>5, <3>3, <4>1
      <4>3. QED
        BY <1>6, <3>3, <4>1, <4>2
    <3>4. QED
      BY <2>6, <3>1, <3>2, <3>3
  <2>8. ASSUME NEW i \in 1 .. n + 1, NEW j \in 1 .. n + 1, i < j
        PROVE  t[j].f \in Reached(t[i].f)
    <3>1. i \in 1 .. n /\ t[i] = here[i] /\ here[i].f \in Fun
      <4>1. i \in 1 .. n
        BY <1>5, <2>8
      <4>2. visiting[i].f \in Fun
        BY <1>1, <1>5, <4>1, SortFacts
      <4>3. QED
        BY <1>6, <2>5, <4>1, <4>2
    <3>2. CASE j \in 1 .. n
      BY <1>6, <2>5, <2>8, <3>1, <3>2
    <3>3. CASE j = n + 1
      <4>1. here[n].f = Visitor.f /\ Visitor.f \in Fun /\ n \in 1 .. n
        BY <1>1, <1>5, <1>6, SortFacts
      <4>2. c \in Reached(Visitor.f)
        BY <1>2, <1>7, <4>1, ReachedFacts
      <4>3. CASE i = n
        BY <2>5, <3>1, <3>3, <4>1, <4>2, <4>3
      <4>4. CASE i # n
        <5>1. Visitor.f \in Reached(here[i].f)
          BY <1>5, <1>6, <3>1, <4>1, <4>4
        <5>2. Reached(Visitor.f) \subseteq Reached(here[i].f)
          BY <1>7, <3>1, <5>1, ReachedFacts
        <5>3. QED
          BY <2>5, <3>1, <3>3, <4>2, <5>2
      <4>5. QED
        BY <4>3, <4>4
    <3>4. QED
      BY <2>6, <3>2, <3>3
  <2>9. VisitsOK'
    BY <1>1, <2>3, <2>5, <2>7, <2>8, SameProgram DEF VisitsOK
  <2>10. Stacked' = Stacked \cup {c}
    <3>1. n + 1 \in 1 .. n + 1 /\ \A i \in 1 .. n : i \in 1 .. n + 1
      BY <1>5
    <3>2. Stacked' = {t[i].f : i \in 1 .. n + 1}
      BY <2>3, <2>5 DEF Stacked
    <3>3. \A i \in 1 .. n + 1 : t[i].f \in Stacked \cup {c}
      BY <1>9, <2>5, <2>6
    <3>4. \A i \in 1 .. n : here[i].f = t[i].f
      BY <2>5
    <3>5. Stacked \cup {c} \subseteq {t[i].f : i \in 1 .. n + 1}
      BY <1>9, <2>5, <3>1, <3>4
    <3>6. QED
      BY <3>2, <3>3, <3>5
  <2>11. Sorting'
    BY <1>1, <1>7, <1>8, <1>11, <2>2, <2>9, <2>10 DEF Sorting
  <2>12. unmarked' \in Seq(Fun) /\ Distinct(unmarked)' /\ visiting' \in Seq(Call) /\ sorted' \in Seq(Fun)
    BY <1>1, <1>7, <2>2, <2>3, <2>4 DEF Distinct
  <2>13. QED
    BY <1>1, <1>8, <2>11, <2>12, SortMoves
<1>12. QED
  BY <1>10, <1>11

(* The visitor is sorted, with all its callees before it.                  *)
LEMMA SortedKeeps ==
  ASSUME PolyInv, Sorted
  PROVE  PolyInv'
<1>1. /\ pc = "sort" /\ visiting # << >> /\ Visitor.rest = {} /\ pc' = pc /\ prog' = prog
      /\ sorted' = Append(sorted, Visitor.f) /\ visiting' = Front(visiting)
      /\ unmarked' = unmarked /\ UNCHANGED <<prog, search, solved>>
  BY DEF Sorted
<1>2. PICK n \in Nat \ {0} : n = Len(visiting) /\ DOMAIN visiting = 1 .. n /\ Visitor = visiting[n]
  BY <1>1, SortFacts, VisitorFacts
<1>3. PICK f : f = Visitor.f
  OBVIOUS
<1>4. /\ prog \in Programs /\ sorted \in Seq(Fun) /\ Distinct(sorted) /\ CalleesBefore
      /\ Range(unmarked) \cup Stacked \cup Range(sorted) = Polymorphic
      /\ Range(unmarked) \cap Stacked = {} /\ Range(unmarked) \cap Range(sorted) = {}
      /\ Stacked \cap Range(sorted) = {} /\ visiting \in Seq(Call)
      /\ unmarked \in Seq(Fun) /\ Distinct(unmarked) /\ VisitsOK
  BY <1>1, SortFacts
<1>5. f \in Polymorphic /\ f \in Fun /\ f \in Stacked /\ f \notin Range(sorted)
  BY <1>1, <1>3, <1>4, VisitorFacts, PolymorphicFacts
<1>6. \A d \in Callees(f) : d \in Range(sorted)
  <2>1. n \in 1 .. n /\ ~(n < Len(visiting)) /\ visiting[n].rest = {} /\ f = visiting[n].f
    BY <1>1, <1>2, <1>3
  <2>2. QED
    BY <1>2, <1>4, <2>1 DEF VisitsOK
<1>7. PICK s : s = Append(sorted, f)
  OBVIOUS
<1>8. /\ sorted' = s /\ s \in Seq(Fun) /\ Distinct(s) /\ Range(s) = Range(sorted) \cup {f}
      /\ DOMAIN s = 1 .. Len(sorted) + 1 /\ s[Len(sorted) + 1] = f
      /\ Len(sorted) \in Nat /\ DOMAIN sorted = 1 .. Len(sorted)
      /\ \A i \in 1 .. Len(sorted) : s[i] = sorted[i]
  <2>1. sorted' = s
    BY <1>1, <1>3, <1>7
  <2>2. /\ s \in Seq(Fun) /\ Distinct(s) /\ Range(s) = Range(sorted) \cup {f}
        /\ DOMAIN s = 1 .. Len(sorted) + 1 /\ s[Len(sorted) + 1] = f
        /\ Len(sorted) \in Nat /\ DOMAIN sorted = 1 .. Len(sorted)
        /\ \A i \in 1 .. Len(sorted) : s[i] = sorted[i]
    <3>1. sorted \in Seq(Fun) /\ f \in Fun
      BY <1>4, <1>5
    <3>2. Distinct(sorted) /\ f \notin Range(sorted)
      BY <1>4, <1>5
    <3>3. s \in Seq(Fun) /\ Distinct(s) /\ Range(s) = Range(sorted) \cup {f}
      BY <1>7, <3>1, <3>2, AppendFacts
    <3>4. /\ DOMAIN s = 1 .. Len(sorted) + 1 /\ s[Len(sorted) + 1] = f
          /\ Len(sorted) \in Nat /\ DOMAIN sorted = 1 .. Len(sorted)
      BY <1>7, <3>1, AppendFacts
    <3>5. \A i \in 1 .. Len(sorted) : s[i] = sorted[i]
      BY <1>7, <3>1, AppendFacts
    <3>6. QED
      BY <3>3, <3>4, <3>5
  <2>3. QED
    BY <2>1, <2>2
<1>9. CalleesBefore'
  <2>1. ASSUME NEW i \in 1 .. Len(sorted) + 1, NEW c \in Callees(s[i])
        PROVE  \E j \in 1 .. i - 1 : s[j] = c
    <3>1. CASE i = Len(sorted) + 1
      <4>1. PICK j \in 1 .. Len(sorted) : sorted[j] = c
        BY <1>6, <1>8, <2>1, <3>1 DEF Range
      <4>2. j \in 1 .. i - 1
        BY <1>8, <3>1
      <4>3. QED
        BY <1>8, <4>1, <4>2
    <3>2. CASE i # Len(sorted) + 1
      <4>1. i \in 1 .. Len(sorted) /\ s[i] = sorted[i]
        BY <1>8, <3>2
      <4>2. PICK j \in 1 .. i - 1 : sorted[j] = c
        BY <1>4, <1>8, <2>1, <4>1 DEF CalleesBefore
      <4>3. j \in 1 .. Len(sorted)
        BY <1>8, <4>1
      <4>4. QED
        BY <1>8, <4>2, <4>3
    <3>3. QED
      BY <3>1, <3>2
  <2>2. QED
    BY <1>1, <1>8, <2>1, SameProgram DEF CalleesBefore
<1>10. PICK t : t = Front(visiting) /\ visiting' = t
  BY <1>1
<1>11. /\ t \in Seq(Call) /\ DOMAIN t = 1 .. n - 1 /\ Len(t) = n - 1
       /\ \A i \in 1 .. n - 1 : t[i] = visiting[i]
  BY <1>1, <1>2, <1>4, <1>10, ReturnedFacts
<1>12. VisitsOK'
  <2>1. ASSUME NEW i \in 1 .. n - 1
        PROVE  /\ t[i].rest \subseteq Callees(t[i].f)
               /\ \A d \in Callees(t[i].f) \ t[i].rest :
                    d \in Range(s) \/ (i < n - 1 /\ d = t[i + 1].f)
    <3>1. i \in 1 .. n /\ i < n /\ t[i] = visiting[i]
      BY <1>2, <1>11
    <3>2. /\ t[i].rest \subseteq Callees(t[i].f)
          /\ \A d \in Callees(t[i].f) \ t[i].rest : d \in Range(sorted) \/ d = visiting[i + 1].f
      BY <1>2, <1>4, <3>1 DEF VisitsOK
    <3>3. CASE i + 1 = n
      BY <1>2, <1>3, <1>8, <3>2, <3>3
    <3>4. CASE i + 1 # n
      <4>1. i + 1 \in 1 .. n - 1 /\ i < n - 1
        BY <1>2, <3>4
      <4>2. t[i + 1] = visiting[i + 1]
        BY <1>11, <4>1
      <4>3. QED
        BY <1>8, <3>2, <4>1, <4>2
    <3>5. QED
      BY <3>3, <3>4
  <2>2. ASSUME NEW i \in 1 .. n - 1, NEW j \in 1 .. n - 1, i < j
        PROVE  t[j].f \in Reached(t[i].f)
    <3>1. i \in 1 .. n /\ j \in 1 .. n
      BY <1>2
    <3>2. QED
      BY <1>2, <1>4, <1>11, <2>2, <3>1 DEF VisitsOK
  <2>3. QED
    BY <1>1, <1>8, <1>10, <1>11, <2>1, <2>2, SameProgram DEF VisitsOK
<1>13. Stacked' = Stacked \ {f}
  <2>1. Stacked' = {t[i].f : i \in 1 .. n - 1}
    BY <1>10, <1>11 DEF Stacked
  <2>2. Stacked = {visiting[i].f : i \in 1 .. n}
    BY <1>2 DEF Stacked
  <2>3. ASSUME NEW i \in 1 .. n - 1 PROVE visiting[i].f # f /\ visiting[i].f \in Stacked
    <3>1. i \in 1 .. n /\ n \in 1 .. n /\ i < n
      BY <1>2
    <3>2. f \in Reached(visiting[i].f) /\ visiting[i].f \in Stacked
      BY <1>2, <1>3, <1>4, <2>2, <3>1 DEF VisitsOK
    <3>3. visiting[i].f \in Polymorphic
      BY <1>4, <3>2
    <3>4. QED
      BY <1>4, <3>2, <3>3, PolymorphicFacts
  <2>4. \A i \in 1 .. n : i \in 1 .. n - 1 \/ i = n
    BY <1>2
  <2>5. Stacked' \subseteq Stacked \ {f}
    BY <1>11, <2>1, <2>3
  <2>6. ASSUME NEW i \in 1 .. n, visiting[i].f # f PROVE visiting[i].f \in Stacked'
    <3>1. i \in 1 .. n - 1
      BY <1>2, <1>3, <2>4, <2>6
    <3>2. QED
      BY <1>11, <2>1, <3>1
  <2>7. QED
    BY <2>2, <2>5, <2>6
<1>14. Sorting'
  <2>1. Polymorphic' = Polymorphic
    BY <1>1, SameProgram
  <2>2. QED
    BY <1>1, <1>4, <1>5, <1>8, <1>12, <1>13, <2>1 DEF Sorting
<1>15. Distinct(unmarked)' /\ Distinct(sorted)'
  BY <1>1, <1>4, <1>8 DEF Distinct
<1>16. QED
  BY <1>1, <1>4, <1>8, <1>9, <1>10, <1>11, <1>14, <1>15, SortMoves

-----------------------------------------------------------------------------
(* The stages of inference.                                                *)

(* A step of inference changes neither the order nor what it is based on.  *)
LEMMA OrderKept ==
  ASSUME PolyInv, pc \in {"sort", "infer"}, pc' \in {"infer", "done", "rejected"}, chain = << >>,
         UNCHANGED <<prog, inner, chain, goal, recFuncs, nonRecursiveFuncs, sort>>
  PROVE  /\ ChainOK' /\ FindingRecursive' /\ Filtered' /\ RecursiveFound' /\ NotYetSorting'
         /\ NoneTwice' /\ CalleesBefore' /\ Sorting'
<1>1. ChainOK' /\ FindingRecursive' /\ Filtered' /\ RecursiveFound' /\ NotYetSorting'
  BY SearchesEnded
<1>2. NoneTwice' /\ CalleesBefore' /\ Sorting'
  BY SameProgram DEF PolyInv, NoneTwice, Distinct, CalleesBefore, Sorting, sort
<1>3. QED
  BY <1>1, <1>2

(* No function is unmarked or on the stack: all are sorted.                *)
LEMMA StartInferenceKeeps ==
  ASSUME PolyInv, StartInference
  PROVE  PolyInv'
<1>1. /\ pc = "sort" /\ visiting = << >> /\ unmarked = << >> /\ pc' = "infer" /\ scan' = 1
      /\ UNCHANGED <<prog, inner, chain, goal, recFuncs, nonRecursiveFuncs, sort, solved>>
      /\ sorted' = sorted
  BY DEF StartInference, sort
<1>2. /\ chain = << >> /\ TypeOK /\ sorted \in Seq(Fun)
      /\ Range(unmarked) \cup Stacked \cup Range(sorted) = Polymorphic
  BY <1>1, SortFacts
<1>3. Range(sorted) = Polymorphic
  BY <1>1, <1>2 DEF Range, Stacked
<1>4. TypeOK'
  <2>1. 1 \in 1 .. Cardinality(Fun) + 1
    BY <1>2, OrderFacts DEF TypeOK
  <2>2. QED
    BY <1>1, <1>2, <2>1 DEF TypeOK, sort
<1>5. Len(sorted) \in Nat /\ 1 <= Len(sorted) + 1
  BY <1>2
<1>6. Inferring'
  BY <1>1, <1>3, <1>5, SameProgram DEF Inferring
<1>7. solved = {}
  BY <1>1 DEF PolyInv, StagesDone
<1>8. StagesDone'
  BY <1>1, <1>7 DEF StagesDone
<1>9. QED
  BY <1>1, <1>2, <1>4, <1>6, <1>8, OrderKept DEF PolyInv

(* A stage of inference, for the function at a position of the order.      *)
LEMMA InferFacts ==
  ASSUME PolyInv, pc = "infer"
  PROVE  /\ prog \in Programs /\ TypeOK /\ chain = << >> /\ sorted \in Seq(Fun)
         /\ Range(sorted) = Polymorphic /\ CalleesBefore
         /\ Len(sorted) \in Nat /\ DOMAIN sorted = 1 .. Len(sorted)
         /\ Len(sorted) <= Cardinality(Fun) /\ Len(sorted) = Cardinality(Range(sorted))
         /\ Cardinality(Fun) \in Nat \ {0}
         /\ scan \in Nat \ {0} /\ scan <= Len(sorted) + 1
         /\ solved = {sorted[i] : i \in 1 .. scan - 1}
<1>1. /\ prog \in Programs /\ TypeOK /\ chain = << >> /\ sorted \in Seq(Fun) /\ Distinct(sorted)
      /\ scan \in 1 .. Cardinality(Fun) + 1
      /\ CalleesBefore
  BY DEF PolyInv, TypeOK, ChainOK, NoneTwice
<1>2. /\ Range(sorted) = Polymorphic /\ scan <= Len(sorted) + 1
      /\ solved = {sorted[i] : i \in 1 .. scan - 1}
  BY DEF PolyInv, Inferring, Ordered, StagesDone
<1>3. Len(sorted) <= Cardinality(Fun) /\ Len(sorted) = Cardinality(Range(sorted))
  BY <1>1, DistinctLength
<1>4. Cardinality(Fun) \in Nat \ {0}
  BY <1>1, OrderFacts
<1>5. scan \in Nat \ {0}
  BY <1>1, <1>4
<1>6. QED
  BY <1>1, <1>2, <1>3, <1>4, <1>5

(* A function of the order is solved.                                      *)
LEMMA StageKeeps ==
  ASSUME PolyInv, Stage
  PROVE  PolyInv'
<1>1. /\ pc = "infer" /\ pc' = pc /\ scan <= Len(sorted) /\ scan' = scan + 1
      /\ solved' = solved \cup {sorted[scan]} /\ sorted' = sorted
      /\ UNCHANGED <<prog, inner, chain, goal, recFuncs, nonRecursiveFuncs, sort>>
  BY DEF Stage, sort
<1>2. /\ TypeOK /\ chain = << >> /\ sorted \in Seq(Fun) /\ Range(sorted) = Polymorphic
      /\ Len(sorted) \in Nat /\ Len(sorted) <= Cardinality(Fun) /\ Cardinality(Fun) \in Nat \ {0}
      /\ scan \in Nat \ {0} /\ solved = {sorted[i] : i \in 1 .. scan - 1}
  BY <1>1, InferFacts
<1>3. sorted[scan] \in Fun /\ scan + 1 \in 1 .. Cardinality(Fun) + 1 /\ scan + 1 <= Len(sorted) + 1
  BY <1>1, <1>2
<1>4. TypeOK'
  BY <1>1, <1>2, <1>3 DEF TypeOK, sort
<1>5. Inferring'
  BY <1>1, <1>2, <1>3, SameProgram DEF Inferring
<1>6. StagesDone'
  <2>1. 1 .. (scan + 1) - 1 = (1 .. scan - 1) \cup {scan}
    BY <1>2
  <2>2. {sorted[i] : i \in 1 .. (scan + 1) - 1} = solved \cup {sorted[scan]}
    BY <1>2, <2>1
  <2>3. QED
    BY <1>1, <2>2 DEF StagesDone
<1>7. QED
  BY <1>1, <1>2, <1>4, <1>5, <1>6, OrderKept DEF PolyInv

(* The functions that were set aside are solved together.                  *)
LEMMA ResidualKeeps ==
  ASSUME PolyInv, Residual
  PROVE  PolyInv'
<1>1. /\ pc = "infer" /\ pc' = "done" /\ solved' = solved \cup (Range(prog.vertices) \ Range(sorted))
      /\ UNCHANGED <<prog, search, sort>> /\ sorted' = sorted /\ scan' = scan
      /\ UNCHANGED <<inner, chain, goal, recFuncs, nonRecursiveFuncs>>
  BY DEF Residual, search, sort
<1>2. /\ TypeOK /\ prog \in Programs /\ chain = << >> /\ Range(sorted) = Polymorphic
      /\ scan <= Len(sorted) + 1
  BY <1>1, InferFacts
<1>3. Range(prog.vertices) \subseteq Fun
  <2>1. prog.vertices \in Seq(Fun)
    BY <1>2, OrderFacts DEF Order
  <2>2. QED
    BY <2>1 DEF Range
<1>4. TypeOK'
  BY <1>1, <1>2, <1>3 DEF TypeOK, search, sort
<1>5. Inferring' /\ StagesDone'
  BY <1>1, <1>2, SameProgram DEF Inferring, StagesDone
<1>6. QED
  BY <1>1, <1>2, <1>4, <1>5, OrderKept DEF PolyInv

(* A stage throws.                                                         *)
LEMMA RejectKeeps ==
  ASSUME PolyInv, Reject
  PROVE  PolyInv'
<1>1. /\ pc = "infer" /\ pc' = "rejected" /\ UNCHANGED <<prog, search, sort, solved>>
      /\ sorted' = sorted /\ scan' = scan
      /\ UNCHANGED <<inner, chain, goal, recFuncs, nonRecursiveFuncs>>
  BY DEF Reject, search, sort
<1>2. /\ TypeOK /\ chain = << >> /\ Range(sorted) = Polymorphic /\ scan <= Len(sorted) + 1
  BY <1>1, InferFacts
<1>3. TypeOK'
  BY <1>1, <1>2 DEF TypeOK, search, sort
<1>4. Inferring' /\ StagesDone'
  BY <1>1, <1>2, SameProgram DEF Inferring, StagesDone
<1>5. QED
  BY <1>1, <1>2, <1>3, <1>4, OrderKept DEF PolyInv

-----------------------------------------------------------------------------
(* The theorems.                                                           *)

(* The invariant holds at the start of runPoly.                            *)
LEMMA PolyInvStart ==
  ASSUME Init
  PROVE  PolyInv
<1>1. /\ prog \in Programs /\ pc = "recursive" /\ scan = 1 /\ inner = 1 /\ chain = << >>
      /\ goal = prog.vertices[1] /\ recFuncs = << >> /\ nonRecursiveFuncs = << >>
      /\ unmarked = << >> /\ visiting = << >> /\ sorted = << >> /\ solved = {}
  BY DEF Init
<1>2. Cardinality(Fun) \in Nat \ {0} /\ prog.vertices \in Seq(Fun) /\ Len(prog.vertices) = Cardinality(Fun)
  BY <1>1, OrderFacts DEF Order
<1>3. goal \in Fun /\ 1 \in 1 .. Cardinality(Fun) + 1
  BY <1>1, <1>2
<1>4. MaxDepth \in Nat
  BY DepthAssumption
<1>5. TypeOK
  BY <1>1, <1>3, <1>4 DEF TypeOK
<1>6. FindingRecursive
  <2>1. Range(recFuncs) = {} /\ Before(scan) = {}
    BY <1>1 DEF Range, Before
  <2>2. QED
    BY <1>1, <2>1 DEF FindingRecursive
<1>7. ChainOK /\ Filtered /\ RecursiveFound /\ NotYetSorting
  BY <1>1 DEF ChainOK, Filtered, RecursiveFound, Searched, NotYetSorting
<1>8. NoneTwice /\ CalleesBefore
  BY <1>1 DEF NoneTwice, Distinct, CalleesBefore
<1>9. Sorting /\ Inferring /\ StagesDone
  BY <1>1 DEF Sorting, Inferring, Ordered, StagesDone
<1>10. QED
  BY <1>5, <1>6, <1>7, <1>8, <1>9 DEF PolyInv

(* Every step of runPoly keeps the invariant.                              *)
LEMMA PolyInvStep ==
  ASSUME PolyInv, [Next]_vars
  PROVE  PolyInv'
<1>1. CASE UNCHANGED vars
  <2>1. /\ TypeOK' = TypeOK /\ ChainOK' = ChainOK /\ FindingRecursive' = FindingRecursive
        /\ Filtered' = Filtered /\ RecursiveFound' = RecursiveFound
    BY <1>1 DEF vars, search, sort, TypeOK, ChainOK, FindingRecursive, Filtered, RecursiveFound,
                OnTheWay, DoneWith, NotReached, More, Current, Callees, Before, Order, Searched,
                Recursive, ReachesRecursion, Reached, CalleesIn, Distinct
  <2>2. /\ NotYetSorting' = NotYetSorting /\ NoneTwice' = NoneTwice
        /\ CalleesBefore' = CalleesBefore /\ Sorting' = Sorting /\ Inferring' = Inferring
        /\ StagesDone' = StagesDone
    BY <1>1 DEF vars, search, sort, NotYetSorting, NoneTwice, CalleesBefore, Sorting, Inferring,
                StagesDone, Ordered, Stacked, VisitsOK, Callees, Polymorphic,
                Recursive, ReachesRecursion, Reached, CalleesIn, Distinct
  <2>3. QED
    BY <2>1, <2>2 DEF PolyInv
<1>2. CASE CallsGoal      BY <1>2, CallsGoalKeeps
<1>3. CASE CallsOther     BY <1>3, CallsOtherKeeps
<1>4. CASE Overflow       BY <1>4, OverflowKeeps
<1>5. CASE ReturnFalse    BY <1>5, ReturnFalseKeeps
<1>6. CASE AnswerFalse    BY <1>6, AnswerFalseKeeps
<1>7. CASE AskRecursive   BY <1>7, AskRecursiveKeeps
<1>8. CASE StartFilter    BY <1>8, StartFilterKeeps
<1>9. CASE IsRecursive    BY <1>9, IsRecursiveKeeps
<1>10. CASE AskFilter     BY <1>10, AskFilterKeeps
<1>11. CASE Keep          BY <1>11, KeepKeeps
<1>12. CASE StartSort     BY <1>12, StartSortKeeps
<1>13. CASE SortRoot      BY <1>13, SortRootKeeps
<1>14. CASE VisitCallee   BY <1>14, VisitCalleeKeeps
<1>15. CASE Sorted        BY <1>15, SortedKeeps
<1>16. CASE StartInference  BY <1>16, StartInferenceKeeps
<1>17. CASE Stage         BY <1>17, StageKeeps
<1>18. CASE Residual      BY <1>18, ResidualKeeps
<1>19. CASE Reject        BY <1>19, RejectKeeps
<1>20. QED
  BY <1>1, <1>2, <1>3, <1>4, <1>5, <1>6, <1>7, <1>8, <1>9, <1>10, <1>11, <1>12, <1>13,
     <1>14, <1>15, <1>16, <1>17, <1>18, <1>19 DEF Next

(* The invariant holds of every run of runPoly.                            *)
LEMMA PolyInvAlways == Spec => []PolyInv
BY PolyInvStart, PolyInvStep, PTL DEF Spec

(* The state of the searches, of the sort and of the stages keeps its type:*)
(* the indices stay within the vectors and the positions past their end.   *)
THEOREM PolyInferenceTypeCorrect == Spec => []TypeOK
<1>1. PolyInv => TypeOK
  BY DEF PolyInv
<1>2. QED
  BY <1>1, PolyInvAlways, PTL

(* For every call graph, the searches that end find the recursive functions*)
(* and topoSortNonRecursive sets aside those that reach one and no others; *)
(* every other function is inferred once.                                  *)
THEOREM PolymorphicFunctionsAreExact == Spec => []PolymorphicExactly
<1>1. ASSUME PolyInv PROVE PolymorphicExactly
  <2>1. Searched => Range(recFuncs) = Recursive
    BY <1>1 DEF PolyInv, RecursiveFound
  <2>2. ASSUME Ordered
        PROVE  Range(sorted) = Fun \ ReachesRecursion /\ Len(sorted) = Cardinality(Range(sorted))
    <3>1. Range(sorted) = Polymorphic /\ sorted \in Seq(Fun) /\ Distinct(sorted)
      BY <1>1, <2>2 DEF PolyInv, Inferring, NoneTwice, TypeOK
    <3>2. QED
      BY <3>1, DistinctLength DEF Polymorphic
  <2>3. QED
    BY <2>1, <2>2 DEF PolymorphicExactly
<1>2. QED
  BY <1>1, PolyInvAlways, PTL

(* For every call graph, the functions that a polymorphic function calls   *)
(* have been solved when its stage begins.                                 *)
THEOREM CalleesAreSolvedFirst == Spec => []CalleesSolvedFirst
<1>1. ASSUME PolyInv PROVE CalleesSolvedFirst
  <2>1. ASSUME pc = "infer", scan <= Len(sorted), NEW c \in prog.callees[sorted[scan]]
        PROVE  c \in solved
    <3>1. scan \in DOMAIN sorted
      BY <1>1, <2>1, InferFacts
    <3>2. PICK j \in 1 .. scan - 1 : sorted[j] = c
      BY <1>1, <2>1, <3>1, InferFacts DEF CalleesBefore, Callees
    <3>3. QED
      BY <1>1, <2>1, <3>2, InferFacts
  <2>2. QED
    BY <2>1 DEF CalleesSolvedFirst
<1>2. QED
  BY <1>1, PolyInvAlways, PTL

=============================================================================
