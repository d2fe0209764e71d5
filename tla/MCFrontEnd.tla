----------------------------- MODULE MCFrontEnd -----------------------------
(***************************************************************************)
(* Texts for FrontEnd: every operator in every operand of every other,     *)
(* with and without parentheses; statements within statements; functions.  *)
(***************************************************************************)
EXTENDS ReadBack

InFunction(body) == <<"f", "(", ")", "{">> \o body \o <<"}">>
Returning(e)     == InFunction(<<"return">> \o e \o <<";">>)
Doing(s)         == InFunction(s \o <<"return", "0", ";">>)
Parens(e)        == <<"(">> \o e \o <<")">>

PrefixUses(e)  == {<<op>> \o e : op \in DOMAIN PrefixOps}
PostfixUses(e) == {e \o op : op \in {<<"(", "y", ")">>, <<".", "a">>, <<"[", "y", "]">>}}
InfixUses(e, ops) == {e \o <<op, "y">> : op \in ops} \cup {<<"x", op>> \o e : op \in ops}
TernaryUses(e) ==
  {e \o <<"?", "y", ":", "z">>, <<"x", "?">> \o e \o <<":", "z">>, <<"x", "?", "y", ":">> \o e}
ClosedUses(e)  ==
  {<<"f", "(">> \o e \o <<")">>, <<"x", "[">> \o e \o <<"]">>, <<"[">> \o e \o <<"]">>,
   <<"[", "y", ",">> \o e \o <<"]">>, <<"[">> \o e \o <<"of", "y", "]">>,
   <<"[", "x", "of">> \o e \o <<"]">>, <<"{", "a", ":">> \o e \o <<",", "b", ":", "y", "}">>}

OpenUses(e) == PrefixUses(e) \cup PostfixUses(e) \cup TernaryUses(e)
Uses(e) ==
  OpenUses(e) \cup ClosedUses(e) \cup InfixUses(e, {"*", "-", "<", "!=", "|", "and"})

Atoms == {<<"x">>, <<"-", "3">>}
Once  == UNION {Uses(e) : e \in Atoms}
Twice == UNION {Uses(e) \cup Uses(Parens(e)) : e \in Once}

(* The operators without parentheses in print, three deep.                 *)
OpenOnce  == OpenUses(<<"x">>) \cup {<<"x", "and", "y">>}
OpenTwice == UNION {OpenUses(Parens(e)) \cup InfixUses(Parens(e), {"==", "or"}) : e \in OpenOnce}
OpenThrice == UNION {OpenUses(Parens(e)) : e \in OpenTwice}

Leaves == {<<"input">>, <<"null">>, <<"true">>, <<"false">>, <<"f", "(", ")">>, <<"[", "]">>, <<"{", "}">>,
           <<"[", "2", "of", "2", "]">>}

Simple == {<<"x", "=", "1", ";">>, <<"x", "++", ";">>, <<"output", "x", ";">>, <<"error", "x", ";">>,
           <<"{", "}">>}
Around(s) ==
  {<<"{">> \o s \o <<"}">>, <<"{">> \o s \o <<"y", "--", ";", "}">>, <<"while", "(", "x", ")">> \o s,
   <<"if", "(", "x", ")">> \o s, <<"if", "(", "x", ")">> \o s \o <<"else", "x", "=", "2", ";">>,
   <<"if", "(", "x", ")", "x", "=", "1", ";", "else">> \o s, <<"for", "(", "x", ":", "y", ")">> \o s,
   <<"for", "(", "x", ":", "1", "..", "3", ")">> \o s,
   <<"for", "(", "x", ":", "1", "..", "9", "by", "2", ")">> \o s}
Nested       == UNION {Around(s) : s \in Simple}
NestedTwice  == UNION {Around(s) : s \in Nested}

Whole ==
  {<<"f", "(", "x", ",", "y", ")", "poly", "{", "var", "a", ",", "b", ";", "var", "c", ";",
     "a", "=", "x", ";", "b", "=", "y", ";", "return", "a", ";", "}",
     "main", "(", ")", "{", "return", "f", "(", "1", ",", "2", ")", ";", "}">>,
   <<"f", "(", "x", ")", "{", "var", "a", ";", "return", "x", ";", "}",
     "g", "(", ")", "poly", "{", "return", "f", ";", "}", "h", "(", ")", "{", "return", "g", ";", "}">>}

(* Not programs; and a program followed by what is no function.            *)
Broken ==
  {Returning(<<"x", "+">>), Returning(<<"x", "y">>), Returning(<<"[", "x", "of", "]">>), Returning(<<"{", "a", "}">>),
   Doing(<<"x", "=", "1">>), Doing(<<"while", "x", "{", "}">>), Doing(<<"if", "(", "x", ")", "else", "x", "++", ";">>),
   Doing(<<"for", "(", "x", ":", "1", "..", ")", "x", "++", ";">>), InFunction(<<>>), <<>>,
   <<"f", "(", ")", "{", "var", ";", "return", "0", ";", "}">>, Returning(<<"x">>) \o <<"g", "(">>}
Trailing == {Returning(<<"x">>) \o <<"}", "g", "(">>}

MCTexts ==
  {Returning(e) : e \in Atoms \cup Leaves \cup Once \cup Twice \cup OpenThrice}
    \cup {Doing(s) : s \in Simple \cup Nested \cup NestedTwice} \cup Whole \cup Broken \cup Trailing
=============================================================================
