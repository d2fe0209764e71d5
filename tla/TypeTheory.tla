----------------------------- MODULE TypeTheory -----------------------------
(***************************************************************************)
(* What a type equation solver promises, whatever its data structures: it  *)
(* is asked for a verdict on a growing set of equations, only ever         *)
(* identifies terms that every solution identifies, accepts when it has    *)
(* identified all of those, and rejects only equations without solution.   *)
(***************************************************************************)
CONSTANTS
  Term,    \* the type terms
  Models   \* for each way to give every term a type, the pairs it identifies

VARIABLES
  eqs,      \* the equations received
  theory,   \* the pairs of terms identified so far
  verdict   \* "open" while solving

tvars == <<eqs, theory, verdict>>

Identity == {<<t, t>> : t \in Term}

Equivalences(S) ==
  {R \in SUBSET (S \X S) :
     /\ \A x \in S : <<x, x>> \in R
     /\ \A p \in R : <<p[2], p[1]>> \in R
     /\ \A p \in R : \A z \in S : <<p[2], z>> \in R => <<p[1], z>> \in R}

(* A model solves a set of equations <<lhs, rhs>> when it identifies their *)
(* sides.  Entailed pairs have the same type in every solution.            *)
Satisfiable(E) == \E K \in Models : E \subseteq K
Entailed(E)    == {p \in Term \X Term : \A K \in Models : E \subseteq K => p \in K}

TInit == eqs = {} /\ theory = Identity /\ verdict = "consistent"

(* More equations come, or the solver is asked again.                      *)
Ask ==
  /\ verdict # "inconsistent"
  /\ eqs \subseteq eqs'
  /\ verdict' = "open"
  /\ UNCHANGED theory

(* The solver draws a conclusion.                                          *)
Learn ==
  /\ verdict = "open"
  /\ theory \subseteq theory'
  /\ theory' \in Equivalences(Term) /\ theory' \subseteq Entailed(eqs)
  /\ UNCHANGED <<eqs, verdict>>

Accept ==
  /\ verdict = "open"
  /\ Satisfiable(eqs) /\ theory = Entailed(eqs)
  /\ verdict' = "consistent"
  /\ UNCHANGED <<eqs, theory>>

Reject ==
  /\ verdict = "open"
  /\ ~Satisfiable(eqs)
  /\ verdict' = "inconsistent"
  /\ UNCHANGED <<eqs, theory>>

TNext == Ask \/ Learn \/ Accept \/ Reject

TSpec == TInit /\ [][TNext]_tvars
=============================================================================
