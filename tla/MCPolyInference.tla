-------------------------- MODULE MCPolyInference --------------------------
(***************************************************************************)
(* Instances of PolyInference for TLC.                                     *)
(***************************************************************************)
EXTENDS PolyInference

(* Every call graph on three functions, in every order of declaration.     *)
Funs == 1 .. 3
Orders == {s \in [Funs -> Funs] : IsInjective(s)}
AllPrograms == [callees : [Funs -> SUBSET Funs], vertices : Orders]

(* main calls f and f calls itself.                                        *)
TwoFuns == 1 .. 2
MainCallsRecursive == {[callees |-> <<{1}, {1}>>, vertices |-> <<1, 2>>]}
=============================================================================
