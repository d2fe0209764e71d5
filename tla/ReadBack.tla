------------------------------ MODULE ReadBack ------------------------------
(***************************************************************************)
(* The front end with its parser: a text is read by the rules of Grammar,  *)
(* and its AST is built by ASTBuilder.  What the pretty printer prints is  *)
(* a text again.                                                           *)
(***************************************************************************)
EXTENDS FrontEnd, Grammar, ASTBuilder

(* FrontEnd::parse.                                                        *)
Parses(txt) == ReadProgram(Tokens(txt), 1).at # 0
TreeOf(txt) == ProgramNode(Build(ReadProgram(Tokens(txt), 1).tree))

RECURSIVE NodesBelow(_)
NodesBelow(n) == {n} \cup UNION {NodesBelow(n.kids[i]) : i \in DOMAIN n.kids}

NodesInText(txt) == NodesBelow(TreeOf(txt))

-----------------------------------------------------------------------------
(* Texts that read back as another tree.  Of the operators only the binary *)
(* ones and "not" are printed with parentheses around them.                *)

(* The levels at which the open operands at the end of a text are read: an *)
(* operator that follows is taken into an operand when its level allows.   *)
RECURSIVE OpenOperands(_), OuterOperators(_)

OpenOperands(e) ==
  CASE e.kind \in {"DeRef", "Ref", "ArrayLen", "Alloc"} ->
         {op.level : op \in {o \in Range(PrefixOps) : o.kind = e.kind}} \cup OpenOperands(e.kids[1])
    [] e.kind = "Neg"     -> {PrefixOps["-"].level}
    [] e.kind = "Ternary" -> {TernaryLevel + 1} \cup OpenOperands(e.kids[3])
    [] OTHER -> {}

Captured(e, level) == \E open \in OpenOperands(e) : level >= open

(* The levels of the operators that follow the first operand of a text: an *)
(* operand that is read at a higher level ends before them.                *)
PostfixLevel ==
  [k \in {"FunApp", "Access", "Indexing", "Ternary"} |->
     CASE k = "FunApp" -> FunAppLevel     [] k = "Access"  -> AccessLevel
       [] k = "Indexing" -> IndexingLevel [] k = "Ternary" -> TernaryLevel]

OuterOperators(e) ==
  IF e.kind \in DOMAIN PostfixLevel THEN {PostfixLevel[e.kind]} \cup OuterOperators(e.kids[1]) ELSE {}

CutShort(e, level) == \E op \in OuterOperators(e) : op < level

(* And the operands of [E of E] are printed in the wrong order.            *)
ReadsOtherwise(n) ==
  \/ n.kind \in DOMAIN PostfixLevel /\ Captured(n.kids[1], PostfixLevel[n.kind])
  \/ n.kind = "Ternary" /\ CutShort(n.kids[3], TernaryLevel + 1)
  \/ n.kind = "Binary" /\ Captured(n.kids[1], BinaryLevel[n.name])
  \/ n.kind = "Binary" /\ CutShort(n.kids[2], BinaryLevel[n.name] + 1)
  \/ \E op \in Range(PrefixOps) : n.kind = op.kind /\ op.kind # "Neg" /\ CutShort(n.kids[1], op.level)
  \/ n.kind = "ArrayOf" /\ n.kids[1] # n.kids[2]

(* Pretty printing is the inverse of parsing: what is printed is the text  *)
(* of the same program, the marks, declarations and statements included,   *)
(* but for the expressions above, whose text is that of another program.   *)
ReadsBackOrKnown ==
  phase = "printed" =>
    (Parses(os) /\ TreeOf(os) = program
       <=> ~ \E n \in NodesBelow(program) : ReadsOtherwise(n))
=============================================================================
