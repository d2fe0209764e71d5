----------------------------- MODULE MCCompiler -----------------------------
(* The compiler on the programs of the module TestPrograms.                *)
EXTENDS Compiler

Tests == INSTANCE TestPrograms

MCInputs   == {-1, 2}
MCPrograms == Tests!SelfTests \cup Tests!Others \cup Tests!Family \cup Tests!Generics \cup Tests!PolyFamily

(* The self-contained tests run to a return of main: none of their checks  *)
(* reaches its error statement (test/system/run.sh:33).  Only the search   *)
(* for recursive functions may keep polymorphic inference from its end.    *)
SelfTestsPass ==
  source \in Tests!SelfTests =>
    \/ status \in {"compiling", "running", "arguments", "exited"}
    \/ doPoly /\ status = "recursion"
=============================================================================
