--------------------------- MODULE PolyInference ---------------------------
(***************************************************************************)
(* The staged run of polymorphic type inference (src/semantic/types/       *)
(* TypeInference.cpp, runPoly): find the recursive functions of the call   *)
(* graph, set aside every function that may call one, sort the others so   *)
(* that callees come first, infer and solve one function at a time in that *)
(* order, and then infer the functions set aside all together.             *)
(*                                                                         *)
(* The two recursive searches, mayIndirectlyCall and topoVisit, are        *)
(* explicit stacks.  A set of callees is a std::set of pointers: a         *)
(* function is its address, and loops over callees go up.  What a stage    *)
(* does to its constraints is the module Unifier; here a stage succeeds or *)
(* throws a UnificationError.                                              *)
(***************************************************************************)
EXTENDS Integers, Sequences, FiniteSets, SequencesExt

CONSTANTS
  Fun,        \* the functions of the program, as their addresses
  Programs,   \* the programs: records of callees and vertices
  MaxDepth    \* calls of mayIndirectlyCall that fit on the call stack

(* A program has a function (TIP.g4:8).                                    *)
ASSUME FunAssumption == IsFiniteSet(Fun) /\ Fun \subseteq Nat /\ Fun # {}
ASSUME ProgramsAssumption ==
  \A p \in Programs :
    /\ p.callees \in [Fun -> SUBSET Fun]
    /\ p.vertices \in [1 .. Cardinality(Fun) -> Fun] /\ IsInjective(p.vertices)

(* With more calls than functions on the stack one of them is repeated,    *)
(* with the same goal: such a recursion has no end.                        *)
ASSUME DepthAssumption == MaxDepth \in Nat /\ MaxDepth > Cardinality(Fun)

VARIABLES
  prog,       \* the program: the call graph and its order of functions
  pc,         \* the loop runPoly is in, or how it ended
  scan,       \* position of that loop over the functions
  inner,      \* position of the inner loop over recFuncs
  chain,      \* calls of mayIndirectlyCall, the running one last
  goal,       \* the function they look for
  recFuncs,   \* recursive functions found
  nonRecursiveFuncs,
  unmarked,   \* functions topoVisit has not been at
  visiting,   \* calls of topoVisit, the running one last
  sorted,     \* the order it yields
  solved      \* functions whose constraints have been solved

search == <<scan, inner, chain, goal, recFuncs, nonRecursiveFuncs>>
sort == <<unmarked, visiting, sorted>>
vars == <<prog, pc, search, sort, solved>>

(* A call of either search: the function and the callees left in its loop. *)
Call == [f : Fun, rest : SUBSET Fun]
CallOf(f) == [f |-> f, rest |-> prog.callees[f]]

(* The loop of the running call goes past the callee c.                    *)
Past(calls, c) == [calls EXCEPT ![Len(calls)].rest = @ \ {c}]

Init ==
  /\ prog \in Programs
  /\ pc = "recursive"
  /\ scan = 1 /\ inner = 1
  /\ chain = << >> /\ goal \in {prog.vertices[1]}
  /\ recFuncs = << >> /\ nonRecursiveFuncs = << >>
  /\ unmarked = << >> /\ visiting = << >> /\ sorted = << >>
  /\ solved = {}

-----------------------------------------------------------------------------
(* mayIndirectlyCall(f, g)                                                 *)

Ask(f, g) == chain' = <<CallOf(f)>> /\ goal' = g

(* What the caller does with the answer: recursiveFuncs records a function *)
(* that reaches itself; topoSortNonRecursive drops a function that reaches *)
(* a recursive one, or looks at the next recursive one.                    *)
Answer(yes) ==
  /\ chain' = << >>
  /\ IF pc = "recursive"
     THEN /\ recFuncs' = IF yes THEN Append(recFuncs, prog.vertices[scan]) ELSE recFuncs
          /\ scan' = scan + 1
          /\ UNCHANGED inner
     ELSE /\ scan' = IF yes THEN scan + 1 ELSE scan
          /\ inner' = IF yes THEN 1 ELSE inner + 1
          /\ UNCHANGED recFuncs
  /\ UNCHANGED <<prog, pc, goal, nonRecursiveFuncs, sort, solved>>

Running == Last(chain)
Searching == chain # << >> /\ pc \in {"recursive", "filter"}

(* One of the callees is the goal: this call returns true, and the calls   *)
(* below it, whose result is true now, make no further call.               *)
CallsGoal ==
  /\ Searching /\ Running.rest # {} /\ Min(Running.rest) = goal
  /\ Answer(TRUE)

(* Slip: the loop over the callees does not advance.                       *)
SameCallee ==
  /\ Searching /\ Running.rest # {} /\ Min(Running.rest) # goal
  /\ Len(chain) < MaxDepth
  /\ chain' = Append(chain, CallOf(Min(Running.rest)))
  /\ UNCHANGED <<prog, pc, scan, inner, goal, recFuncs, nonRecursiveFuncs, sort, solved>>

CallsOther ==
  /\ Searching /\ Running.rest # {} /\ Min(Running.rest) # goal
  /\ Len(chain) < MaxDepth
  /\ LET c == Min(Running.rest)
     IN  chain' = Append(Past(chain, c), CallOf(c))
  /\ UNCHANGED <<prog, pc, scan, inner, goal, recFuncs, nonRecursiveFuncs, sort, solved>>

(* The call stack is full: the compiler dies.                              *)
Overflow ==
  /\ Searching /\ Running.rest # {} /\ Min(Running.rest) # goal
  /\ Len(chain) = MaxDepth
  /\ pc' = "overflow"
  /\ UNCHANGED <<prog, search, sort, solved>>

(* No callee is left: the call returns false.                              *)
ReturnFalse ==
  /\ Searching /\ Running.rest = {} /\ Len(chain) > 1
  /\ chain' = Front(chain)
  /\ UNCHANGED <<prog, pc, scan, inner, goal, recFuncs, nonRecursiveFuncs, sort, solved>>

AnswerFalse ==
  /\ Searching /\ Running.rest = {} /\ Len(chain) = 1
  /\ Answer(FALSE)

-----------------------------------------------------------------------------
(* recursiveFuncs, and the filter of topoSortNonRecursive                  *)
More == scan <= Len(prog.vertices)
Current == prog.vertices[scan]

AskRecursive ==
  /\ pc = "recursive" /\ chain = << >> /\ More
  /\ Ask(Current, Current)
  /\ UNCHANGED <<prog, pc, scan, inner, recFuncs, nonRecursiveFuncs, sort, solved>>

StartFilter ==
  /\ pc = "recursive" /\ chain = << >> /\ ~More
  /\ pc' = "filter" /\ scan' = 1
  /\ UNCHANGED <<prog, inner, chain, goal, recFuncs, nonRecursiveFuncs, sort, solved>>

Filtering == pc = "filter" /\ chain = << >> /\ More

(* Slip: the loop over the functions advances twice.                       *)
IsRecursiveTwice ==
  /\ Filtering /\ inner <= Len(recFuncs) /\ recFuncs[inner] = Current
  /\ scan' = scan + 2 /\ inner' = 1
  /\ UNCHANGED <<prog, pc, chain, goal, recFuncs, nonRecursiveFuncs, sort, solved>>

IsRecursive ==
  /\ Filtering /\ inner <= Len(recFuncs) /\ recFuncs[inner] = Current
  /\ scan' = scan + 1 /\ inner' = 1
  /\ UNCHANGED <<prog, pc, chain, goal, recFuncs, nonRecursiveFuncs, sort, solved>>

AskFilter ==
  /\ Filtering /\ inner <= Len(recFuncs) /\ recFuncs[inner] # Current
  /\ Ask(Current, recFuncs[inner])
  /\ UNCHANGED <<prog, pc, scan, inner, recFuncs, nonRecursiveFuncs, sort, solved>>

(* Slip: the inner loop over the recursive functions is not started again  *)
(* for the next function.                                                  *)
KeepWithoutReset ==
  /\ Filtering /\ inner > Len(recFuncs)
  /\ nonRecursiveFuncs' = Append(nonRecursiveFuncs, Current)
  /\ scan' = scan + 1
  /\ UNCHANGED <<prog, pc, inner, chain, goal, recFuncs, sort, solved>>

Keep ==
  /\ Filtering /\ inner > Len(recFuncs)
  /\ nonRecursiveFuncs' = Append(nonRecursiveFuncs, Current)
  /\ scan' = scan + 1 /\ inner' = 1
  /\ UNCHANGED <<prog, pc, chain, goal, recFuncs, sort, solved>>

StartSort ==
  /\ pc = "filter" /\ chain = << >> /\ ~More
  /\ pc' = "sort" /\ unmarked' = nonRecursiveFuncs
  /\ UNCHANGED <<prog, search, visiting, sorted, solved>>

-----------------------------------------------------------------------------
(* topoSort and topoVisit                                                  *)
Unmark(f) ==
  \E i \in DOMAIN unmarked :
    /\ unmarked[i] = f /\ \A j \in 1 .. i - 1 : unmarked[j] # f
    /\ unmarked' = RemoveAt(unmarked, i)

SortRoot ==
  /\ pc = "sort" /\ visiting = << >> /\ unmarked # << >>
  /\ visiting' = <<CallOf(Last(unmarked))>>
  /\ Unmark(Last(unmarked))
  /\ UNCHANGED <<prog, pc, search, sorted, solved>>

Visitor == Last(visiting)

(* The next callee is visited; one that is marked returns at once.         *)
VisitCallee ==
  /\ pc = "sort" /\ visiting # << >> /\ Visitor.rest # {}
  /\ LET c    == Min(Visitor.rest)
         here == Past(visiting, c)
     IN  IF c \in Range(unmarked)
         THEN visiting' = Append(here, CallOf(c)) /\ Unmark(c)
         ELSE visiting' = here /\ UNCHANGED unmarked
  /\ UNCHANGED <<prog, pc, search, sorted, solved>>

(* Slip: the function goes to the front of the deque.                      *)
SortedFront ==
  /\ pc = "sort" /\ visiting # << >> /\ Visitor.rest = {}
  /\ sorted' = <<Visitor.f>> \o sorted
  /\ visiting' = Front(visiting)
  /\ UNCHANGED <<prog, pc, search, unmarked, solved>>

Sorted ==
  /\ pc = "sort" /\ visiting # << >> /\ Visitor.rest = {}
  /\ sorted' = Append(sorted, Visitor.f)
  /\ visiting' = Front(visiting)
  /\ UNCHANGED <<prog, pc, search, unmarked, solved>>

StartInference ==
  /\ pc = "sort" /\ visiting = << >> /\ unmarked = << >>
  /\ pc' = "infer" /\ scan' = 1
  /\ UNCHANGED <<prog, inner, chain, goal, recFuncs, nonRecursiveFuncs, sort, solved>>

-----------------------------------------------------------------------------
(* runPoly: a stage per sorted function, and one for all the others.       *)
Stage ==
  /\ pc = "infer" /\ scan <= Len(sorted)
  /\ solved' = solved \cup {sorted[scan]}
  /\ scan' = scan + 1
  /\ UNCHANGED <<prog, pc, inner, chain, goal, recFuncs, nonRecursiveFuncs, sort>>

Residual ==
  /\ pc = "infer" /\ scan > Len(sorted)
  /\ solved' = solved \cup (Range(prog.vertices) \ Range(sorted))
  /\ pc' = "done"
  /\ UNCHANGED <<prog, search, sort>>

(* Either may throw a UnificationError.                                    *)
Reject ==
  /\ pc = "infer"
  /\ pc' = "rejected"
  /\ UNCHANGED <<prog, search, sort, solved>>

Next ==
  \/ CallsGoal \/ CallsOther \/ Overflow \/ ReturnFalse \/ AnswerFalse
  \/ AskRecursive \/ StartFilter \/ IsRecursive \/ AskFilter \/ Keep \/ StartSort
  \/ SortRoot \/ VisitCallee \/ Sorted \/ StartInference
  \/ Stage \/ Residual \/ Reject

(* runPoly is sequential and does nothing but run.                         *)
Spec == Init /\ [][Next]_vars /\ WF_vars(Next)

-----------------------------------------------------------------------------
TypeOK ==
  /\ prog \in Programs
  /\ pc \in {"recursive", "filter", "sort", "infer", "done", "rejected", "overflow"}
  /\ scan \in 1 .. Cardinality(Fun) + 1 /\ inner \in 1 .. Cardinality(Fun) + 1
  /\ chain \in Seq(Call) /\ Len(chain) <= MaxDepth /\ goal \in Fun
  /\ recFuncs \in Seq(Fun) /\ nonRecursiveFuncs \in Seq(Fun)
  /\ unmarked \in Seq(Fun) /\ visiting \in Seq(Call) /\ sorted \in Seq(Fun)
  /\ solved \subseteq Fun

(* The functions f may call, directly or through others: those in every    *)
(* set that has the callees of f, and of its elements.                     *)
CalleesIn(S, f) ==
  prog.callees[f] \subseteq S /\ \A c \in S : prog.callees[c] \subseteq S

Reached(f) == {g \in Fun : \A S \in SUBSET Fun : CalleesIn(S, f) => g \in S}

Recursive == {f \in Fun : f \in Reached(f)}
ReachesRecursion == {f \in Fun : (Reached(f) \cup {f}) \cap Recursive # {}}

Searched == pc \notin {"recursive", "overflow"}
Ordered == pc \in {"infer", "done", "rejected"}

(* "To determine if a function is recursive call with f==g" (TypeInference.*)
(* cpp:41): the searches that do end find the recursive functions, cycles  *)
(* through several functions included, and no others.  topoSortNonRecursive*)
(* "eliminate[s] any functions that call, either directly or indirectly, a *)
(* recursive function" (:81) - those and no others - and every function    *)
(* that is left is inferred once.                                          *)
PolymorphicExactly ==
  /\ Searched => Range(recFuncs) = Recursive
  /\ Ordered => /\ Range(sorted) = Fun \ ReachesRecursion
                /\ Len(sorted) = Cardinality(Range(sorted))

(* A stage looks up the generic type of each function it may call: it has  *)
(* been solved by then.                                                    *)
CalleesSolvedFirst ==
  pc = "infer" /\ scan <= Len(sorted) => prog.callees[sorted[scan]] \subseteq solved

(* Without recursion in the program the searches and the sort end, and so  *)
(* does inference.                                                         *)
EndsWithoutRecursion ==
  Recursive = {} ~> pc \in {"done", "rejected"}

(* Inference ends for every program.                                       *)
InferenceEnds == <>(pc \in {"done", "rejected"})
=============================================================================
