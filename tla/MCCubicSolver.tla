--------------------------- MODULE MCCubicSolver ---------------------------
(***************************************************************************)
(* Instances of CubicSolver for TLC.                                       *)
(***************************************************************************)
EXTENDS CubicSolver

(* Four variables and two functions: the inclusions and the conditional    *)
(* constraints under which merges happen inside the loops of               *)
(* propagateNodeChanges.                                                   *)
Four == 1 .. 4
FourFun == 1 .. 2
FourElements == {<<1, 1>>, <<2, 3>>}
FourInclusions == {<<1, 2>>, <<1, 3>>, <<1, 4>>, <<2, 3>>, <<2, 4>>, <<4, 2>>, <<3, 1>>}
FourConditionals == {<<1, 2, 3, 4>>, <<1, 3, 4, 2>>, <<1, 4, 1, 2>>, <<2, 2, 1, 3>>}

OneFun == {1}
NoConditionals == {}

(* The constraints CFAnalyzer adds for                                     *)
(*   g(p) { var n, x, z; p = 0; x = n; z = n; z = p; x(z); n = g; ... }    *)
(* with g, p, n, x, z as 1 .. 5, the order their solver nodes are created  *)
(* in.                                                                     *)
Five == 1 .. 5
MissedElements == {<<1, 1>>}
MissedInclusions == {<<3, 4>>, <<3, 5>>, <<2, 5>>, <<1, 3>>}
MissedConditionals == {<<1, 4, 5, 2>>}

(* f() { var a, s, t; a = 0; a = s; t = s; t = a; s = t; ... }              *)
(* with a, s, t as 1 .. 3.                                                 *)
Three == 1 .. 3
SpinInclusions == {<<2, 1>>, <<2, 3>>, <<1, 3>>, <<3, 2>>}
SpinElements == {<<1, 3>>}
=============================================================================
