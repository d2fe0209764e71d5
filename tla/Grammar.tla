------------------------------- MODULE Grammar -------------------------------
(***************************************************************************)
(* The language of src/tipg4/TIP.g4: from the tokens of a text to the tree *)
(* that the parser hands to ASTBuilder.                                    *)
(*                                                                         *)
(* The rule expr is left recursive and has 26 alternatives.  ANTLR makes a *)
(* loop of it: after an operand it takes operators whose level, 27 minus   *)
(* the number of the alternative, is at least the level asked for.  The    *)
(* last operand of an alternative is read at that level, one higher for    *)
(* the left associative operators, which ? : is too.                       *)
(*                                                                         *)
(* A reading is a tree and the position after it, 0 after a syntax error.  *)
(* Not read: a record literal at the start of a statement.                 *)
(***************************************************************************)
EXTENDS TipAST

Keywords == {"alloc", "input", "while", "for", "by", "if", "else", "var", "return", "null",
             "output", "error", "true", "false", "not", "and", "or", "of", "poly"}
Symbols  == {"*", "/", "+", "-", ">", "%", "|", "&", "--", "++", "<", ">=", "<=", "==", "!=",
             "(", ")", "[", "]", "{", "}", ",", ";", ":", "?", ".", "..", "#", "="}
Numerals == {ToString(n) : n \in 0 .. 9}

IsIdentifier(t) == t \notin Keywords \cup Symbols \cup Numerals \cup {"EOF"}

(* The lexer drops white space: line ends and units of indentation.        *)
WS == {"\n", " "}
Tokens(text) == SelectSeq(text, LAMBDA t : t \notin WS)

FunAppLevel   == 26
AccessLevel   == 25
IndexingLevel == 23
TernaryLevel  == 13

PrefixOps == [t \in {"*", "-", "&", "#", "not", "alloc"} |->
  CASE t = "*"     -> [kind |-> "DeRef",    level |-> 24]
    [] t = "-"     -> [kind |-> "Neg",      level |-> 21]
    [] t = "&"     -> [kind |-> "Ref",      level |-> 20]
    [] t = "#"     -> [kind |-> "ArrayLen", level |-> 19]
    [] t = "not"   -> [kind |-> "Not",      level |-> 18]
    [] t = "alloc" -> [kind |-> "Alloc",    level |-> 9]]

BinaryLevel ==
  [t \in {"*", "/", "%"} |-> 17] @@ [t \in {"+", "-"} |-> 16] @@ [t \in {">", "<=", ">=", "<"} |-> 15]
  @@ [t \in {"==", "!="} |-> 14] @@ [t \in {"|", "&"} |-> 3] @@ [t \in {"and", "or"} |-> 2]

-----------------------------------------------------------------------------
Got(i, t)   == [at |-> i, tree |-> t]
SyntaxError == Got(0, Node("Error", "", 0, <<>>))

(* What is read after x.                                                   *)
After(x, Rest(_)) == IF x.at = 0 THEN SyntaxError ELSE Rest(x)

Token(ts, i)   == IF i \in DOMAIN ts THEN ts[i] ELSE "EOF"
Skip(ts, i, t) == IF Token(ts, i) = t THEN i + 1 ELSE 0

ReadName(ts, i) == IF IsIdentifier(Token(ts, i)) THEN Got(i + 1, ts[i]) ELSE SyntaxError

RECURSIVE ReadExpr(_, _, _), ReadOperators(_, _, _), ReadList(_, _, _)

(* Items of one kind with commas between them; up to a closing token there *)
(* may also be none.                                                       *)
ReadItem(ts, i, kind) ==
  CASE kind = "name"  -> ReadName(ts, i)
    [] kind = "expr"  -> ReadExpr(ts, i, 0)
    [] kind = "field" -> After(ReadName(ts, i), LAMBDA x :
                           After(ReadExpr(ts, Skip(ts, x.at, ":"), 0), LAMBDA e :
                             Got(e.at, FieldExpr(x.tree, e.tree))))

ReadList(ts, i, kind) ==
  After(ReadItem(ts, i, kind), LAMBDA item :
    IF Token(ts, item.at) # "," THEN Got(item.at, <<item.tree>>)
    ELSE After(ReadList(ts, item.at + 1, kind), LAMBDA rest :
           Got(rest.at, <<item.tree>> \o rest.tree)))

ReadUpTo(close, ts, i, kind) ==
  IF Token(ts, i) = close THEN Got(i + 1, <<>>)
  ELSE After(ReadList(ts, i, kind), LAMBDA list : Got(Skip(ts, list.at, close), list.tree))

(* The operand an expression starts with.                                  *)
ReadNumber(ts, i) == CHOOSE n \in 0 .. 9 : ToString(n) = ts[i]

ReadPrefix(ts, i, op) ==
  After(ReadExpr(ts, i, op.level), LAMBDA e : Got(e.at, Node(op.kind, "", 0, <<e.tree>>)))

ReadParen(ts, i) ==
  After(ReadExpr(ts, i, 0), LAMBDA e : Got(Skip(ts, e.at, ")"), Node("Paren", "", 0, <<e.tree>>)))

ReadArrayOf(ts, i, size) ==
  After(ReadExpr(ts, i, 0), LAMBDA init : Got(Skip(ts, init.at, "]"), ArrayOfExpr(size, init.tree)))

ReadArray(ts, i) ==
  IF Token(ts, i) = "]" THEN Got(i + 1, ArrayExpr(<<>>))
  ELSE After(ReadList(ts, i, "expr"), LAMBDA list :
         IF Len(list.tree) = 1 /\ Token(ts, list.at) = "of" THEN ReadArrayOf(ts, list.at + 1, list.tree[1])
         ELSE Got(Skip(ts, list.at, "]"), ArrayExpr(list.tree)))

ReadRecord(ts, i) ==
  After(ReadUpTo("}", ts, i, "field"), LAMBDA fields : Got(fields.at, RecordExpr(fields.tree)))

ReadOperand(ts, i) ==
  LET t == Token(ts, i)
  IN  IF t = "-" /\ Token(ts, i + 1) \in Numerals
      THEN Got(i + 2, Node("NegNumber", "", ReadNumber(ts, i + 1), <<>>))
      ELSE CASE t \in DOMAIN PrefixOps -> ReadPrefix(ts, i + 1, PrefixOps[t])
             [] t \in Numerals  -> Got(i + 1, NumberExpr(ReadNumber(ts, i)))
             [] IsIdentifier(t) -> Got(i + 1, VariableExpr(t))
             [] t = "input"     -> Got(i + 1, InputExpr)
             [] t = "null"      -> Got(i + 1, NullExpr)
             [] t \in {"true", "false"} -> Got(i + 1, BoolExpr(t = "true"))
             [] t = "("         -> ReadParen(ts, i + 1)
             [] t = "["         -> ReadArray(ts, i + 1)
             [] t = "{"         -> ReadRecord(ts, i + 1)
             [] OTHER           -> SyntaxError

(* What the operators after it make of an expression read so far.          *)
ReadCall(ts, left, i) ==
  After(ReadUpTo(")", ts, i, "expr"), LAMBDA as : Got(as.at, FunAppExpr(left, as.tree)))

ReadAccess(ts, left, i) == After(ReadName(ts, i), LAMBDA x : Got(x.at, AccessExpr(left, x.tree)))

ReadIndex(ts, left, i) ==
  After(ReadExpr(ts, i, 0), LAMBDA e : Got(Skip(ts, e.at, "]"), IndexingExpr(left, e.tree)))

ReadTernary(ts, left, i) ==
  After(ReadExpr(ts, i, 0), LAMBDA then :
    After(ReadExpr(ts, Skip(ts, then.at, ":"), TernaryLevel + 1), LAMBDA else :
      Got(else.at, TernaryExpr(left, then.tree, else.tree))))

ReadBinary(ts, left, op, i) ==
  After(ReadExpr(ts, i, BinaryLevel[op] + 1), LAMBDA right :
    Got(right.at, Node(IF op \in {"|", "&"} THEN "NonShort" ELSE "Binary", op, 0, <<left, right.tree>>)))

ReadOperators(ts, left, level) ==
  LET t == Token(ts, left.at)
      i == left.at + 1
      More(e) == ReadOperators(ts, e, level)
  IN  CASE t = "(" /\ FunAppLevel >= level   -> More(ReadCall(ts, left.tree, i))
        [] t = "." /\ AccessLevel >= level   -> More(ReadAccess(ts, left.tree, i))
        [] t = "[" /\ IndexingLevel >= level -> More(ReadIndex(ts, left.tree, i))
        [] t = "?" /\ TernaryLevel >= level  -> More(ReadTernary(ts, left.tree, i))
        [] t \in DOMAIN BinaryLevel /\ BinaryLevel[t] >= level -> More(ReadBinary(ts, left.tree, t, i))
        [] OTHER -> left

ReadExpr(ts, i, level) == ReadOperators(ts, ReadOperand(ts, i), level)

-----------------------------------------------------------------------------
(* Statements.                                                             *)
RECURSIVE ReadStatement(_, _), ReadStatements(_, _)

ReadStatements(ts, i) ==
  IF Token(ts, i) \in {"}", "return"} THEN Got(i, <<>>)
  ELSE After(ReadStatement(ts, i), LAMBDA first :
         After(ReadStatements(ts, first.at), LAMBDA rest :
           Got(rest.at, <<first.tree>> \o rest.tree)))

ReadBlock(ts, i) ==
  LET ss == ReadStatements(ts, i) IN Got(Skip(ts, ss.at, "}"), BlockStmt(ss.tree))

(* A condition in parentheses.                                             *)
ReadCondition(ts, i) ==
  After(ReadParen(ts, Skip(ts, i, "(")), LAMBDA e : Got(e.at, Head(e.tree.kids)))

ReadWhile(ts, i) ==
  After(ReadCondition(ts, i), LAMBDA cond :
    LET body == ReadStatement(ts, cond.at) IN Got(body.at, WhileStmt(cond.tree, body.tree)))

(* The body, after the expressions in the head.                            *)
ReadForBody(ts, i, head) ==
  LET body == ReadStatement(ts, Skip(ts, i, ")")) IN Got(body.at, Node("For", "", 0, Append(head, body.tree)))

ReadFor(ts, i) ==
  After(ReadExpr(ts, Skip(ts, i, "("), 0), LAMBDA item :
    After(ReadExpr(ts, Skip(ts, item.at, ":"), 0), LAMBDA from :
      IF Token(ts, from.at) # ".." THEN ReadForBody(ts, from.at, <<item.tree, from.tree>>)
      ELSE After(ReadExpr(ts, from.at + 1, 0), LAMBDA to :
             IF Token(ts, to.at) # "by" THEN ReadForBody(ts, to.at, <<item.tree, from.tree, to.tree>>)
             ELSE After(ReadExpr(ts, to.at + 1, 0), LAMBDA by :
                    ReadForBody(ts, by.at, <<item.tree, from.tree, to.tree, by.tree>>)))))

(* An else belongs to the nearest if.                                      *)
ReadIf(ts, i) ==
  After(ReadCondition(ts, i), LAMBDA cond :
    After(ReadStatement(ts, cond.at), LAMBDA then :
      IF Token(ts, then.at) # "else" THEN Got(then.at, IfStmt(cond.tree, then.tree))
      ELSE LET else == ReadStatement(ts, then.at + 1)
           IN  Got(else.at, IfElse(cond.tree, then.tree, else.tree))))

ReadArgument(ts, i, kind) ==
  LET e == ReadExpr(ts, i, 0) IN Got(Skip(ts, e.at, ";"), Node(kind, "", 0, <<e.tree>>))

ReadAssignOrUpdate(ts, i) ==
  After(ReadExpr(ts, i, 0), LAMBDA l :
    LET op == Token(ts, l.at)
        r  == ReadExpr(ts, l.at + 1, 0)
    IN  CASE op = "="            -> Got(Skip(ts, r.at, ";"), AssignStmt(l.tree, r.tree))
          [] op \in {"++", "--"} -> Got(Skip(ts, l.at + 1, ";"), UpdateStmt(l.tree, op))
          [] OTHER               -> SyntaxError)

ReadStatement(ts, i) ==
  LET t == Token(ts, i)
  IN  CASE t = "{"      -> ReadBlock(ts, i + 1)
        [] t = "while"  -> ReadWhile(ts, i + 1)
        [] t = "for"    -> ReadFor(ts, i + 1)
        [] t = "if"     -> ReadIf(ts, i + 1)
        [] t = "output" -> ReadArgument(ts, i + 1, "Output")
        [] t = "error"  -> ReadArgument(ts, i + 1, "Error")
        [] OTHER        -> ReadAssignOrUpdate(ts, i)

-----------------------------------------------------------------------------
(* Functions and programs.  The rule program does not ask for the end of   *)
(* the text: what does not start another function is left unread.          *)
RECURSIVE ReadDeclarations(_, _), ReadProgram(_, _)

ReadDeclarations(ts, i) ==
  IF Token(ts, i) # "var" THEN Got(i, <<>>)
  ELSE After(ReadList(ts, i + 1, "name"), LAMBDA xs :
         After(ReadDeclarations(ts, Skip(ts, xs.at, ";")), LAMBDA rest :
           Got(rest.at, <<xs.tree>> \o rest.tree)))

(* From the opening brace on.                                              *)
ReadFunctionBody(ts, i, names, poly) ==
  After(ReadDeclarations(ts, Skip(ts, i, "{")), LAMBDA decls :
    After(ReadStatements(ts, decls.at), LAMBDA stmts :
      After(ReadArgument(ts, Skip(ts, stmts.at, "return"), "Return"), LAMBDA return :
        Got(Skip(ts, return.at, "}"),
            [names |-> names, poly |-> poly, declarations |-> decls.tree,
             statements |-> stmts.tree, returnStmt |-> return.tree]))))

ReadFunction(ts, i) ==
  After(ReadName(ts, i), LAMBDA name :
    After(ReadUpTo(")", ts, Skip(ts, name.at, "("), "name"), LAMBDA formals :
      LET names == <<name.tree>> \o formals.tree
          poly  == Token(ts, formals.at) = "poly"
      IN  ReadFunctionBody(ts, IF poly THEN formals.at + 1 ELSE formals.at, names, poly)))

ReadProgram(ts, i) ==
  After(ReadFunction(ts, i), LAMBDA first :
    IF ~IsIdentifier(Token(ts, first.at)) THEN Got(first.at, <<first.tree>>)
    ELSE After(ReadProgram(ts, first.at), LAMBDA rest :
           Got(rest.at, <<first.tree>> \o rest.tree)))
=============================================================================
