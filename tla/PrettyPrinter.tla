---------------------------- MODULE PrettyPrinter ----------------------------
(***************************************************************************)
(* The endVisit methods of src/frontend/prettyprint/PrettyPrinter.cpp.     *)
(* Each finds the texts of its node's children on top of the stack         *)
(* visitResults, pops them and pushes the text of the node.                *)
(*                                                                         *)
(* A text is a sequence of tokens, with a token "\n" for the end of a line *)
(* and a token " " for each unit of indentation before one; the other      *)
(* spaces are left out.                                                    *)
(***************************************************************************)
EXTENDS TipAST

Indent(level) == [i \in 1 .. level |-> " "]

(* visitResults after k texts have been popped and one pushed; the text    *)
(* below k others.                                                         *)
Pushed(results, k, text) == Append(SubSeq(results, 1, Len(results) - k), text)
Back(results, k)         == results[Len(results) - k]

(* The last sz texts, with a delimiter after all but the last skip.        *)
JoinWithDelim(results, delim, sz, skip) ==
  FlattenSeq([i \in 1 .. sz |-> Back(results, sz - i) \o (IF i <= sz - skip THEN delim ELSE <<>>)])

Numeral(n) == IF n < 0 THEN <<"-", ToString(-n)>> ELSE <<ToString(n)>>

-----------------------------------------------------------------------------
(* Expressions.                                                            *)
PrintNumber(n, results)   == Pushed(results, 0, Numeral(n.number))
PrintBool(n, results)     == Pushed(results, 0, <<IF n.number = 1 THEN "true" ELSE "false">>)
PrintVariable(n, results) == Pushed(results, 0, <<n.name>>)
PrintInput(results)       == Pushed(results, 0, <<"input">>)
PrintNull(results)        == Pushed(results, 0, <<"null">>)

PrintBinary(n, results) ==
  Pushed(results, 2, <<"(">> \o Back(results, 1) \o <<n.name>> \o Back(results, 0) \o <<")">>)

PrintTernary(results) ==
  Pushed(results, 3,
         Back(results, 2) \o <<"?">> \o Back(results, 1) \o <<":">> \o Back(results, 0))

(* Slip: the text of the call goes on top of that of its function.         *)
PrintFunAppOnTop(n, results) ==
  LET actuals == JoinWithDelim(results, <<",">>, Len(Actuals(n)), 1)
  IN  Pushed(results, Len(Actuals(n)), Back(results, Len(Actuals(n))) \o <<"(">> \o actuals \o <<")">>)

(* The text of the function stays and is extended.                         *)
PrintFunApp(n, results) ==
  LET actuals == JoinWithDelim(results, <<",">>, Len(Actuals(n)), 1)
  IN  Pushed(results, Len(n.kids), Back(results, Len(Actuals(n))) \o <<"(">> \o actuals \o <<")">>)

PrintAlloc(results)    == Pushed(results, 1, <<"alloc">> \o Back(results, 0))
PrintRef(results)      == Pushed(results, 1, <<"&">> \o Back(results, 0))
PrintDeRef(results)    == Pushed(results, 1, <<"*">> \o Back(results, 0))
PrintNot(results)      == Pushed(results, 1, <<"(", "not">> \o Back(results, 0) \o <<")">>)

(* Slip: the operand of a minus sign without parentheses.                  *)
PrintNegBare(results)  == Pushed(results, 1, <<"-">> \o Back(results, 0))

PrintNeg(results)      == Pushed(results, 1, <<"-", "(">> \o Back(results, 0) \o <<")">>)
PrintArrayLen(results) == Pushed(results, 1, <<"#">> \o Back(results, 0))

PrintIndexing(results) ==
  Pushed(results, 2, Back(results, 1) \o <<"[">> \o Back(results, 0) \o <<"]">>)

PrintArray(n, results) ==
  Pushed(results, Len(n.kids), <<"[">> \o JoinWithDelim(results, <<",">>, Len(n.kids), 1) \o <<"]">>)

(* What is on top is the second operand, and it is written first.          *)
PrintArrayOf(results) ==
  Pushed(results, 2, <<"[">> \o Back(results, 0) \o <<"of">> \o Back(results, 1) \o <<"]">>)

PrintField(n, results) == Pushed(results, 1, <<n.name, ":">> \o Back(results, 0))

PrintRecord(n, results) ==
  Pushed(results, Len(n.kids), <<"{">> \o JoinWithDelim(results, <<",">>, Len(n.kids), 1) \o <<"}">>)

PrintAccess(n, results) == Pushed(results, 1, Back(results, 0) \o <<".", n.name>>)

-----------------------------------------------------------------------------
(* Declarations and statements: their text starts with their indentation,  *)
(* and a statement within another has its own line.                        *)
PrintDeclNode(n, results) == Pushed(results, 0, <<n.name>>)

PrintDeclStmt(n, results, level) ==
  Pushed(results, Len(n.kids),
         Indent(level) \o <<"var">> \o JoinWithDelim(results, <<",">>, Len(n.kids), 1) \o <<";">>)

PrintUpdate(n, results, level) ==
  Pushed(results, 1, Indent(level) \o Back(results, 0) \o <<n.name, ";">>)

PrintAssign(results, level) ==
  Pushed(results, 2, Indent(level) \o Back(results, 1) \o <<"=">> \o Back(results, 0) \o <<";">>)

PrintBlock(n, results, level) ==
  Pushed(results, Len(n.kids),
         Indent(level) \o <<"{", "\n">> \o JoinWithDelim(results, <<"\n">>, Len(n.kids), 0)
           \o Indent(level) \o <<"}">>)

PrintWhile(results, level) ==
  Pushed(results, 2,
         Indent(level) \o <<"while", "(">> \o Back(results, 1) \o <<")", "\n">> \o Back(results, 0))

(* A for has two to four texts before that of its body.                    *)
PrintFor(n, results, level) ==
  LET last == Len(n.kids) - 1
      iterator == CASE n.name = "each"  -> Back(results, 1)
                    [] n.name = "range" -> Back(results, 2) \o <<"..">> \o Back(results, 1)
                    [] n.name = "step"  -> Back(results, 3) \o <<"..">> \o Back(results, 2)
      increment == IF n.name = "step" THEN <<"by">> \o Back(results, 1) ELSE <<>>
  IN  Pushed(results, Len(n.kids),
             Indent(level) \o <<"for", "(">> \o Back(results, last) \o <<":">> \o iterator
               \o increment \o <<")", "\n">> \o Back(results, 0))

PrintIf(n, results, level) ==
  LET k == Len(n.kids)
      else == IF k = 3 THEN <<"\n">> \o Indent(level) \o <<"else", "\n">> \o Back(results, 0) ELSE <<>>
  IN  Pushed(results, k,
             Indent(level) \o <<"if", "(">> \o Back(results, k - 1) \o <<")", "\n">>
               \o Back(results, k - 2) \o else)

PrintArgument(keyword, results, level) ==
  Pushed(results, 1, Indent(level) \o <<keyword>> \o Back(results, 0) \o <<";">>)

(* The statements are on top, then the declarations, then the formals; the *)
(* name of the function is extended in place.                              *)
PrintFunction(n, results) ==
  LET Count(kinds) == Cardinality({i \in DOMAIN n.kids : n.kids[i].kind \in kinds})
      formals == Count({"DeclNode"}) - 1
      decls   == Count({"DeclStmt"})
      stmts   == Len(n.kids) - 1 - formals - decls
      below   == SubSeq(results, 1, Len(results) - stmts)
      name    == SubSeq(below, 1, Len(below) - decls)
  IN  Pushed(results, Len(n.kids),
             Back(name, formals) \o <<"(">> \o JoinWithDelim(name, <<",">>, formals, 1) \o <<")">>
               \o (IF n.number = 1 THEN <<"poly">> ELSE <<>>) \o <<"\n", "{", "\n">>
               \o JoinWithDelim(below, <<"\n">>, decls, 0)
               \o JoinWithDelim(results, <<"\n">>, stmts, 0) \o <<"}", "\n">>)

-----------------------------------------------------------------------------
(* endVisit of a node below the program.                                   *)
EndVisitOf(n, results, level) ==
  CASE n.kind = "Function" -> PrintFunction(n, results)
    [] n.kind = "DeclNode" -> PrintDeclNode(n, results)
    [] n.kind = "DeclStmt" -> PrintDeclStmt(n, results, level)
    [] n.kind = "Number"   -> PrintNumber(n, results)
    [] n.kind = "Bool"     -> PrintBool(n, results)
    [] n.kind = "Variable" -> PrintVariable(n, results)
    [] n.kind = "Input"    -> PrintInput(results)
    [] n.kind = "Null"     -> PrintNull(results)
    [] n.kind = "Binary"   -> PrintBinary(n, results)
    [] n.kind = "Ternary"  -> PrintTernary(results)
    [] n.kind = "FunApp"   -> PrintFunApp(n, results)
    [] n.kind = "Alloc"    -> PrintAlloc(results)
    [] n.kind = "Ref"      -> PrintRef(results)
    [] n.kind = "DeRef"    -> PrintDeRef(results)
    [] n.kind = "Not"      -> PrintNot(results)
    [] n.kind = "Neg"      -> PrintNeg(results)
    [] n.kind = "ArrayLen" -> PrintArrayLen(results)
    [] n.kind = "Indexing" -> PrintIndexing(results)
    [] n.kind = "Array"    -> PrintArray(n, results)
    [] n.kind = "ArrayOf"  -> PrintArrayOf(results)
    [] n.kind = "Field"    -> PrintField(n, results)
    [] n.kind = "Record"   -> PrintRecord(n, results)
    [] n.kind = "Access"   -> PrintAccess(n, results)
    [] n.kind = "Update"   -> PrintUpdate(n, results, level)
    [] n.kind = "Assign"   -> PrintAssign(results, level)
    [] n.kind = "Block"    -> PrintBlock(n, results, level)
    [] n.kind = "While"    -> PrintWhile(results, level)
    [] n.kind = "For"      -> PrintFor(n, results, level)
    [] n.kind = "If"       -> PrintIf(n, results, level)
    [] n.kind = "Output"   -> PrintArgument("output", results, level)
    [] n.kind = "Error"    -> PrintArgument("error", results, level)
    [] n.kind = "Return"   -> PrintArgument("return", results, level)

(* visit deepens the indentation below these, endVisit restores it.        *)
Indenting == {"Function", "Block", "While", "For", "If"}

VisitLevel(n, level) == IF n.kind \in Indenting THEN level + 1 ELSE level

EndVisitLevel(n, level) == IF n.kind \in Indenting THEN level - 1 ELSE level
=============================================================================
