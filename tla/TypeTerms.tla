----------------------------- MODULE TypeTerms -----------------------------
(***************************************************************************)
(* The type terms that the type checker of tipc solves equations over      *)
(* (src/semantic/types/concrete).  A term is a value: the C++ code compares *)
(* terms structurally (operator== of every TipType class), so two          *)
(* structurally equal terms are one element of Term here.                  *)
(*                                                                         *)
(*   Var   TipVar [[E]] of an AST node, and TipAlpha                       *)
(*   Cons  TipCons: TipInt, TipRef, TipFunction, TipRecord, TipArray, ...  *)
(*   Mu    TipMu, a recursive type produced by Unifier::close              *)
(***************************************************************************)
EXTENDS Naturals, Sequences

CONSTANTS
  Var,          \* type variables
  Cons,         \* proper terms built with a type constructor
  Mu,           \* proper terms that are recursive types
  Constructor,  \* [Cons -> name of the C++ subclass of TipCons]
  Args,         \* [Cons -> Seq(Term)], TipCons::getArguments
  Unfolding     \* [Mu -> Term], what a recursive type stands for

Term   == Var \cup Cons \cup Mu
Proper == Cons \cup Mu                   \* Unifier::isProperType

(* The subclasses TipCons::doMatch lists; TipBool and TipAbsentField are   *)
(* not among them.                                                         *)
MatchedConstructors == {"TipFunction", "TipInt", "TipRecord", "TipRef", "TipArray"}

(* TipCons::doMatch: same listed subclass and same arity.                  *)
DoMatch(x, y) ==
  /\ Constructor[x] = Constructor[y]
  /\ Constructor[x] \in MatchedConstructors
  /\ Len(Args[x]) = Len(Args[y])

ASSUME KindAssumption ==
  /\ Var \cap Proper = {}
  /\ Cons \cap Mu = {}

ASSUME ArgsAssumption ==
  /\ DOMAIN Constructor = Cons
  /\ DOMAIN Args = Cons
  /\ \A c \in Cons : Args[c] \in Seq(Term)

ASSUME UnfoldingAssumption == Unfolding \in [Mu -> Term]

(* The constructors doMatch does not list take no argument, so that at     *)
(* most one term is built with each of them.                               *)
ASSUME UnlistedAssumption ==
  \A x, y \in Cons :
    /\ Constructor[x] = Constructor[y]
    /\ Constructor[x] \notin MatchedConstructors
    => x = y

-----------------------------------------------------------------------------
(***************************************************************************)
(* What an equation means.  A typing gives every term a type; a type is    *)
(* named by one of the terms that have it.  A typing may identify two      *)
(* constructor terms only when they match and it identifies their          *)
(* arguments, it identifies a recursive type with its unfolding, and terms *)
(* built alike from the same types are the same type.                      *)
(***************************************************************************)
SameArgs(h, x, y) == \A i \in DOMAIN Args[x] : h[Args[x][i]] = h[Args[y][i]]

Decomposing(h) ==
  /\ \A x, y \in Cons : h[x] = h[y] /\ x # y => DoMatch(x, y) /\ SameArgs(h, x, y)
  /\ \A m \in Mu : h[m] = h[Unfolding[m]]

Congruent(h) ==
  \A x, y \in Cons : DoMatch(x, y) /\ SameArgs(h, x, y) => h[x] = h[y]

Idempotent(h) == \A t \in Term : h[h[t]] = h[t]

Assignments == {h \in [Term -> Term] : Idempotent(h) /\ Decomposing(h)}
Typings     == {h \in Assignments : Congruent(h)}

(* The pairs of terms each assignment gives the same type.                 *)
Models == {{p \in Term \X Term : h[p[1]] = h[p[2]]} : h \in Assignments}

(* h solves a set of equations <<lhs, rhs>>.                               *)
Solves(h, eqs) == \A q \in eqs : h[q[1]] = h[q[2]]
=============================================================================
