---------------------------- MODULE UnionFindOps ----------------------------
(***************************************************************************)
(* The forest of src/semantic/types/solver/UnionFind.cpp as a value: the   *)
(* map "edges" from each known term to its parent.  A root is its own      *)
(* parent.  The C++ map is keyed by shared pointers and every lookup scans *)
(* it for a structurally equal key; the code's own assertion               *)
(* (UnionFind::invariant) is that no two keys are structurally equal, so   *)
(* the map is a function on the terms inserted so far.                     *)
(***************************************************************************)
EXTENDS TypeTerms

Known(e) == DOMAIN e

(* UnionFind::add and the constructor: smart_insert of every seed term.    *)
InsertAll(e, seed) ==
  [t \in Known(e) \cup seed |-> IF t \in Known(e) THEN e[t] ELSE t]

(* Slip: smart_insert makes every term a root, known or not.               *)
ResetInsert(e, t) == [u \in Known(e) \cup {t} |-> IF u = t THEN t ELSE e[u]]

(* smart_insert makes an unknown term a root of its own.                   *)
SmartInsert(e, t) == InsertAll(e, {t})

(* The test of the loop in UnionFind::find.                                *)
IsRoot(e, t) == e[t] = t

(* UnionFind::quick_union once both roots have been found.                 *)
Link(e, r1, r2) == [e EXCEPT ![r1] = r2]

-----------------------------------------------------------------------------
(***************************************************************************)
(* The equivalence a forest stands for.  A set of terms is saturated when  *)
(* it holds a known term exactly when it holds its parent; two terms are   *)
(* in one class when no saturated set separates them.  (The usual          *)
(* definition, "they have the same root", is recursive; this one is not,   *)
(* and agrees with it on forests.)                                         *)
(***************************************************************************)
Saturated(e) ==
  {S \in SUBSET Term : \A t \in Known(e) : t \in S <=> e[t] \in S}

Inseparable(sets, x, y) == \A S \in sets : x \in S <=> y \in S

Same(e, x, y) == Inseparable(Saturated(e), x, y)

(* The classes as an equivalence relation.                                 *)
Classes(e) ==
  LET sat == Saturated(e)
  IN  {p \in Term \X Term : Inseparable(sat, p[1], p[2])}

(* Every path of parent edges ends in a root: a set of known terms that is *)
(* closed under the parent map contains a root.                            *)
IsForest(e) ==
  \A S \in SUBSET Known(e) :
    S # {} /\ (\A t \in S : e[t] \in S) => \E r \in S : IsRoot(e, r)
=============================================================================
