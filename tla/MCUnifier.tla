----------------------------- MODULE MCUnifier -----------------------------
(***************************************************************************)
(* Instances of Unifier for TLC.  A term is the string that prints it; the *)
(* tables below give its constructor and its arguments.                    *)
(***************************************************************************)
EXTENDS Unifier

(* Equations between function types with two arguments: with a = (a)->b    *)
(* the types are recursive, and the pair that clashes may be the second.   *)
FunVar  == {"a", "b", "c"}
FunCons == {"int", "bool", "(a)->b", "(b)->c"}
FunConstructor ==
  [c \in FunCons |->
     CASE c = "int" -> "TipInt"
       [] c = "bool" -> "TipBool"
       [] OTHER -> "TipFunction"]
FunArgs ==
  [c \in FunCons |->
     CASE c = "(a)->b" -> << "a", "b" >>
       [] c = "(b)->c" -> << "b", "c" >>
       [] OTHER -> << >>]
FunBatches ==
  {<< <<"a", "int">> >>, << <<"b", "int">> >>,
   << <<"a", "(a)->b">> >>, << <<"c", "(b)->c">> >>, << <<"a", "b">> >>,
   << <<"(a)->b", "(b)->c">> >>,
   << <<"a", "(b)->c">>, <<"a", "(a)->b">> >>,
   << <<"b", "bool">>, <<"c", "a">> >>}

NoMu == {}
NoUnfolding == [m \in {} |-> m]
=============================================================================
