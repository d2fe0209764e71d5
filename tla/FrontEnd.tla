------------------------------ MODULE FrontEnd ------------------------------
(***************************************************************************)
(* The front end on one text (src/frontend/FrontEnd.cpp): it is parsed and *)
(* its AST built, the AST is pretty printed, and drawn as a graph.         *)
(*                                                                         *)
(* Both clients go through the tree a node at a time and keep a stack that *)
(* has to stay in step with it: PrettyPrinter follows the accept calls and *)
(* keeps the texts of finished nodes; ASTVisualizer follows an iterator    *)
(* and keeps the parents of the nodes to come.                             *)
(***************************************************************************)
EXTENDS PrettyPrinter, TreeIterator

CONSTANTS
  Texts,         \* sequences of tokens
  Readable(_),   \* what the parser and ASTBuilder make of a text: whether it
  AstOf(_),      \* is that of a program, its AST, and all nodes of that (they
  NodesIn(_)     \* are defined in ReadBack)

(* Every node has the children its kind asks for; no program is in another.*)
ASSUME AstAssumption ==
  \A t \in Texts : Readable(t) =>
    LET nodes == NodesIn(t)
    IN  /\ AstOf(t) \in nodes /\ AstOf(t).kind = "Program"
        /\ \A n \in nodes : /\ n.kids \in Seq(nodes) /\ WellFormed(n)
                            /\ \A i \in DOMAIN n.kids : n.kids[i].kind # "Program"

VARIABLES
  text,          \* what is parsed
  phase,
  program,       \* the AST, a node
  at, next,      \* PrettyPrinter: the node whose accept runs and its next child
  visitResults, indentLevel, os,
  iter,          \* ASTVisualizer: its iterator, the nodes of vertexMap in the
  vertices,      \* order of their names, the stack of parents, the edges drawn
  parent, edges

printer    == <<at, next, visitResults, indentLevel, os>>
visualizer == <<iter, vertices, parent, edges>>
vars       == <<text, phase, program, printer, visualizer>>

Init ==
  /\ text \in Texts /\ phase = "text" /\ program = Nothing
  /\ at = <<>> /\ next = 1
  /\ visitResults = <<>> /\ indentLevel = 0 /\ os = <<>>
  /\ iter = <<>> /\ vertices = <<>> /\ parent = <<>> /\ edges = {}

-----------------------------------------------------------------------------
(* FrontEnd::parse.  A syntax error throws ParseError.                     *)
Parse ==
  /\ phase = "text"
  /\ Readable(text)
  /\ program' = AstOf(text)
  /\ phase' = "parsed"
  /\ UNCHANGED <<text, printer, visualizer>>

Reject ==
  /\ phase = "text"
  /\ ~Readable(text)
  /\ phase' = "rejected"
  /\ UNCHANGED <<text, program, printer, visualizer>>

-----------------------------------------------------------------------------
(* FrontEnd::prettyprint.  accept calls visit, then accept of each child,  *)
(* then endVisit.                                                          *)
PrettyPrint ==
  /\ phase = "parsed"
  /\ phase' = "printing"
  /\ UNCHANGED <<text, program, printer, visualizer>>

Current == NodeAt(program, at)

VisitNode ==
  /\ phase = "printing"
  /\ next <= Len(Current.kids)
  /\ at' = Append(at, next) /\ next' = 1
  /\ indentLevel' = VisitLevel(Current.kids[next], indentLevel)
  /\ UNCHANGED <<text, phase, program, visitResults, os, visualizer>>

EndVisit ==
  /\ phase = "printing"
  /\ next > Len(Current.kids) /\ at # <<>>
  /\ indentLevel' = EndVisitLevel(Current, indentLevel)
  /\ visitResults' = EndVisitOf(Current, visitResults, indentLevel')
  /\ at' = Front(at) /\ next' = Last(at) + 1
  /\ UNCHANGED <<text, phase, program, os, visualizer>>

EndVisitProgram ==
  /\ phase = "printing"
  /\ next > Len(Current.kids) /\ at = <<>>
  /\ os' = JoinWithDelim(visitResults, <<"\n">>, Len(program.kids), 1)
  /\ visitResults' = SubSeq(visitResults, 1, Len(visitResults) - Len(program.kids))
  /\ phase' = "printed"
  /\ UNCHANGED <<text, program, at, next, indentLevel, visualizer>>

-----------------------------------------------------------------------------
(* FrontEnd::astVisualize.  pushn pushes a node once for each child.       *)
PushN(stack, path, n) == stack \o [i \in 1 .. n |-> path]

AstVisualize ==
  /\ phase = "printed"
  /\ iter' = BeginOf(<<>>)
  /\ phase' = "drawing"
  /\ UNCHANGED <<text, program, printer, vertices, parent, edges>>

AtEnd == AreEqual(<<>>, iter, <<>>, EndOf(<<>>))

(* The loop body and ++iter.  The first node has no parent.                *)
ProcessNode ==
  /\ phase = "drawing" /\ ~AtEnd
  /\ vertices' = IF Last(iter) \in Range(vertices) THEN vertices ELSE Append(vertices, Last(iter))
  /\ LET kids == Len(NodeAt(program, Last(iter)).kids)
     IN  IF parent = <<>>
         THEN edges' = edges /\ parent' = PushN(parent, Last(iter), kids)
         ELSE /\ edges' = edges \cup {<<Last(parent), Last(iter)>>}
              /\ parent' = PushN(Front(parent), Last(iter), kids)
  /\ iter' = Advance(program, iter)
  /\ UNCHANGED <<text, phase, program, printer>>

Finish ==
  /\ phase = "drawing" /\ AtEnd
  /\ phase' = "drawn"
  /\ UNCHANGED <<text, program, printer, visualizer>>

(* Pretty printing and drawing, once the program is parsed.                *)
Run ==
  \/ PrettyPrint \/ VisitNode \/ EndVisit \/ EndVisitProgram
  \/ AstVisualize \/ ProcessNode \/ Finish

Next == Parse \/ Reject \/ Run

(* The front end is sequential: once it runs it keeps running.             *)
Spec == Init /\ [][Next]_vars /\ WF_vars(Run)

-----------------------------------------------------------------------------
(* The children that come before each step of a path, as pairs of a depth  *)
(* and a number; the depths of a path at which the text is indented.       *)
ChildrenBefore(path) == UNION {{d} \X (1 .. path[d] - 1) : d \in DOMAIN path}

IndentedOn(tree, path) == {d \in 0 .. Len(path) : NodeAt(tree, SubSeq(path, 1, d)).kind \in Indenting}

(* PrettyPrinter.h:20 "uses a LIFO protocol for storing and accessing      *)
(* values": while it runs the stack holds one text for each child finished *)
(* of each node whose accept is running, so that an endVisit finds the     *)
(* texts of its own children, and no join reads below the stack; and the   *)
(* indentation is the number of nodes being visited that indent, so that a *)
(* text ends at the margin it began at, whatever is visited in between.    *)
(* When it is done, no text is left over.                                  *)
PrinterInStep ==
  /\ phase = "printing" =>
       /\ Len(visitResults) = Cardinality(ChildrenBefore(Append(at, next)))
       /\ indentLevel = Cardinality(IndentedOn(program, at))
  /\ phase = "printed" => visitResults = <<>> /\ indentLevel = 0

(* A place is to the left of another one when the paths part, before it in *)
(* pre-order also when it is above it.                                     *)
LeftOf(p, q) == \E d \in DOMAIN p \cap DOMAIN q : p[d] < q[d] /\ SubSeq(p, 1, d - 1) = SubSeq(q, 1, d - 1)
Above(p, q)  == Len(p) < Len(q) /\ SubSeq(q, 1, Len(p)) = p
Before(p, q) == Above(p, q) \/ LeftOf(p, q)

Subtrees(path) == Range(GetSubtrees(program, path))

(* ASTVisualizer.cpp:35 "the assumption is that nodes are processed in     *)
(* pre-order": what is drawn is the tree.  The vertices are the places of  *)
(* the tree, which are the root and the children of places; they are named *)
(* in pre-order; and each but the first has an edge from its parent.       *)
GraphIsTree ==
  phase = "drawn" =>
    LET places == Range(vertices)
    IN  /\ places = {<<>>} \cup UNION {Subtrees(path) : path \in places}
        /\ \A i, j \in DOMAIN vertices : i < j => Before(vertices[i], vertices[j])
        /\ edges = {<<Front(path), path>> : path \in places \ {<<>>}}

(* Every program that is parsed gets printed and drawn: both walks through *)
(* the tree end.                                                           *)
FrontEndEnds == phase = "parsed" ~> phase = "drawn"
=============================================================================
