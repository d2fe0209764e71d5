--------------------------- MODULE FrontEndProofs ---------------------------
(***************************************************************************)
(* Proofs about FrontEnd, for every text that is a program and every AST:  *)
(* the two walks through the tree keep their stacks in step with it.       *)
(***************************************************************************)
EXTENDS FrontEnd, ProofFacts, SequenceTheorems

-----------------------------------------------------------------------------
(* Paths into a tree.                                                      *)

(* The nodes on a path are what the recursion says.                        *)
LEMMA NodesOnPathFact ==
  ASSUME NEW n, NEW p \in Seq(Nat)
  PROVE  /\ NodesOnPath(n, p)[0] = n
         /\ \A k \in 1 .. Len(p) : NodesOnPath(n, p)[k] = NodesOnPath(n, p)[k - 1].kids[p[k]]
<1> DEFINE Nodes(f, m) == f = [k \in 0 .. m |-> IF k = 0 THEN n ELSE f[k - 1].kids[p[k]]]
           P == {m \in Nat : \E f : Nodes(f, m)}
<1>1. 0 \in P
  <2>1. PICK f : f = [k \in 0 .. 0 |-> n]
    OBVIOUS
  <2>2. f = [k \in 0 .. 0 |-> IF k = 0 THEN n ELSE f[k - 1].kids[p[k]]]
    BY <2>1
  <2>3. QED
    BY <2>2
<1>2. ASSUME NEW m \in Nat, m \in P PROVE m + 1 \in P
  <2>1. PICK f : Nodes(f, m)
    BY <1>2
  <2>2. PICK g : g = [k \in 0 .. m + 1 |-> IF k = m + 1 THEN f[m].kids[p[m + 1]] ELSE f[k]]
    OBVIOUS
  <2>3. \A k \in 0 .. m + 1 : g[k] = IF k = 0 THEN n ELSE g[k - 1].kids[p[k]]
    <3>1. ASSUME NEW k \in 0 .. m + 1 PROVE g[k] = IF k = 0 THEN n ELSE g[k - 1].kids[p[k]]
      <4>1. CASE k = m + 1
        <5>1. k # 0 /\ m \in 0 .. m + 1 /\ m # m + 1 /\ k - 1 = m
          BY <4>1
        <5>2. g[m] = f[m]
          BY <2>2, <5>1
        <5>3. QED
          BY <2>2, <4>1, <5>1, <5>2
      <4>2. CASE k # m + 1
        <5>1. k \in 0 .. m
          BY <4>2
        <5>2. g[k] = f[k] /\ f[k] = IF k = 0 THEN n ELSE f[k - 1].kids[p[k]]
          BY <2>1, <2>2, <4>2, <5>1
        <5>3. k # 0 => k - 1 \in 0 .. m + 1 /\ k - 1 # m + 1
          BY <5>1
        <5>4. k # 0 => g[k - 1] = f[k - 1]
          BY <2>2, <5>3
        <5>5. QED
          BY <5>2, <5>4
      <4>3. QED
        BY <4>1, <4>2
    <3>2. QED
      BY <3>1
  <2>4. Nodes(g, m + 1)
    BY <2>2, <2>3
  <2>5. QED
    BY <2>4
<1> HIDE DEF P
<1>3. Len(p) \in P
  BY <1>1, <1>2, NatInductionOver
<1>4. \E f : Nodes(f, Len(p))
  BY <1>3 DEF P
<1>5. PICK m \in Nat : m = Len(p)
  OBVIOUS
<1>6. PICK f : f = NodesOnPath(n, p)
  OBVIOUS
<1>7. f = [k \in 0 .. m |-> IF k = 0 THEN n ELSE f[k - 1].kids[p[k]]]
  BY <1>4, <1>5, <1>6 DEF NodesOnPath
<1>8. f[0] = n
  BY <1>7
<1>9. ASSUME NEW k \in 1 .. m PROVE f[k] = f[k - 1].kids[p[k]]
  <2>1. k \in 0 .. m /\ k # 0
    OBVIOUS
  <2>2. QED
    BY <1>7, <2>1
<1>10. QED
  BY <1>5, <1>6, <1>8, <1>9

(* The empty path leads nowhere else.                                      *)
LEMMA NodeAtRoot ==
  ASSUME NEW n
  PROVE  NodeAt(n, << >>) = n
<1>1. << >> \in Seq(Nat) /\ Len(<< >>) = 0
  OBVIOUS
<1>2. NodesOnPath(n, << >>)[0] = n
  BY <1>1, NodesOnPathFact
<1>3. QED
  BY <1>1, <1>2 DEF NodeAt

(* A longer path leads to a child.                                         *)
LEMMA NodeAtChild ==
  ASSUME NEW n, NEW p \in Seq(Nat), NEW i \in Nat
  PROVE  NodeAt(n, Append(p, i)) = NodeAt(n, p).kids[i]
<1>1. PICK q : q = Append(p, i)
  OBVIOUS
<1>2. PICK m \in Nat : m = Len(p)
  OBVIOUS
<1>3. q \in Seq(Nat) /\ Len(q) = m + 1 /\ q[m + 1] = i /\ \A k \in 1 .. m : q[k] = p[k]
  BY <1>1, <1>2
<1>4. PICK f : f = NodesOnPath(n, p)
  OBVIOUS
<1>5. PICK g : g = NodesOnPath(n, q)
  OBVIOUS
<1>6. f[0] = n /\ \A k \in 1 .. m : f[k] = f[k - 1].kids[p[k]]
  BY <1>2, <1>4, NodesOnPathFact
<1>7. g[0] = n /\ \A k \in 1 .. m + 1 : g[k] = g[k - 1].kids[q[k]]
  <2>1. g[0] = n /\ \A k \in 1 .. Len(q) : g[k] = g[k - 1].kids[q[k]]
    <3>1. q \in Seq(Nat)
      BY <1>3
    <3>2. QED
      BY <1>5, <3>1, NodesOnPathFact
  <2>2. QED
    BY <1>3, <2>1
<1> DEFINE P == {k \in Nat : k <= m => g[k] = f[k]}
<1>8. 0 \in P
  BY <1>6, <1>7
<1>9. ASSUME NEW k \in Nat, k \in P PROVE k + 1 \in P
  <2>1. SUFFICES ASSUME k + 1 <= m PROVE g[k + 1] = f[k + 1]
    OBVIOUS
  <2>2. g[k] = f[k] /\ k + 1 \in 1 .. m /\ k + 1 \in 1 .. m + 1 /\ (k + 1) - 1 = k
    BY <1>9, <2>1
  <2>3. g[k + 1] = g[k].kids[q[k + 1]]
    BY <1>7, <2>2
  <2>4. f[k + 1] = f[k].kids[p[k + 1]]
    BY <1>6, <2>2
  <2>5. QED
    BY <1>3, <2>2, <2>3, <2>4
<1> HIDE DEF P
<1>10. m \in P
  BY <1>8, <1>9, NatInductionOver
<1>11. g[m] = f[m]
  BY <1>10 DEF P
<1>12. g[m + 1] = g[m].kids[q[m + 1]]
  <2>1. m + 1 \in 1 .. m + 1 /\ (m + 1) - 1 = m
    OBVIOUS
  <2>2. QED
    BY <1>7, <2>1
<1>13. NodeAt(n, q) = g[m + 1] /\ NodeAt(n, p) = f[m]
  BY <1>2, <1>3, <1>4, <1>5 DEF NodeAt
<1>14. QED
  BY <1>1, <1>3, <1>11, <1>12, <1>13

(* A path and one step more.                                               *)
LEMMA LongerPath ==
  ASSUME NEW p \in Seq(Nat), NEW i \in Nat, NEW q, q = Append(p, i)
  PROVE  /\ q \in Seq(Nat) /\ q # << >> /\ Len(q) = Len(p) + 1 /\ Len(p) \in Nat
         /\ \A d \in 1 .. Len(p) : q[d] = p[d]
         /\ q[Len(p) + 1] = i
         /\ \A d \in 0 .. Len(p) : SubSeq(q, 1, d) = SubSeq(p, 1, d)
         /\ SubSeq(q, 1, Len(p) + 1) = q /\ SubSeq(p, 1, Len(p)) = p
<1>1. PICK m \in Nat : m = Len(p)
  OBVIOUS
<1>2. q \in Seq(Nat) /\ q # << >> /\ Len(q) = m + 1 /\ q[m + 1] = i /\ \A d \in 1 .. m : q[d] = p[d]
  BY <1>1
<1>3. SubSeq(q, 1, m + 1) = q /\ SubSeq(p, 1, m) = p
  BY <1>1, <1>2, SubSeqFull
<1>4. ASSUME NEW d \in 0 .. m PROVE SubSeq(q, 1, d) = SubSeq(p, 1, d)
  <2>1. \A k \in 1 .. d : q[k] = p[k] /\ p[k] \in Nat /\ q[k] \in Nat
    BY <1>1, <1>2
  <2>2. SubSeq(q, 1, d) \in Seq(Nat) /\ Len(SubSeq(q, 1, d)) = d
        /\ \A k \in 1 .. d : SubSeq(q, 1, d)[k] = q[k]
    BY <1>1, <1>2
  <2>3. SubSeq(p, 1, d) \in Seq(Nat) /\ Len(SubSeq(p, 1, d)) = d
        /\ \A k \in 1 .. d : SubSeq(p, 1, d)[k] = p[k]
    BY <1>1, <1>2
  <2>4. QED
    BY <2>1, <2>2, <2>3, SeqEqual
<1>5. QED
  BY <1>1, <1>2, <1>3, <1>4

(* Its front and its last step.                                            *)
LEMMA LongerPathEnds ==
  ASSUME NEW p \in Seq(Nat), NEW i \in Nat
  PROVE  Front(Append(p, i)) = p /\ Last(Append(p, i)) = i
<1>1. PICK q : q = Append(p, i)
  OBVIOUS
<1>2. PICK m \in Nat : m = Len(p)
  OBVIOUS
<1>3. /\ q \in Seq(Nat) /\ Len(q) = m + 1 /\ q[m + 1] = i /\ m \in 0 .. m
      /\ \A d \in 0 .. m : SubSeq(q, 1, d) = SubSeq(p, 1, d)
      /\ SubSeq(p, 1, m) = p
  BY <1>1, <1>2, LongerPath
<1>4. Last(q) = i
  BY <1>3 DEF Last
<1>5. Front(q) = SubSeq(q, 1, m)
  BY <1>3 DEF Front
<1>6. Front(q) = p
  BY <1>3, <1>5
<1>7. QED
  BY <1>1, <1>4, <1>6

(* A path that is not empty is a path and one step more.                   *)
LEMMA ShorterPath ==
  ASSUME NEW p \in Seq(Nat), p # << >>
  PROVE  Front(p) \in Seq(Nat) /\ Last(p) \in Nat /\ p = Append(Front(p), Last(p))
<1>1. PICK q \in Seq(Nat), i \in Nat : p = Append(q, i)
  BY SequenceEmptyOrAppend
<1>2. Front(p) = q /\ Last(p) = i
  BY <1>1, LongerPathEnds
<1>3. QED
  BY <1>1, <1>2

-----------------------------------------------------------------------------
(* An AST with all its nodes, and the places in it.                        *)
Tree(n, nodes) ==
  /\ n \in nodes /\ n.kind = "Program"
  /\ \A m \in nodes : /\ m.kids \in Seq(nodes) /\ WellFormed(m)
                      /\ \A i \in DOMAIN m.kids : m.kids[i].kind # "Program"

Place(n, nodes, p) ==
  /\ p \in Seq(Nat)
  /\ \A d \in 0 .. Len(p) : NodeAt(n, SubSeq(p, 1, d)) \in nodes
  /\ \A d \in 1 .. Len(p) : p[d] \in DOMAIN NodeAt(n, SubSeq(p, 1, d - 1)).kids

(* The root is a place.                                                    *)
LEMMA PlaceRoot ==
  ASSUME NEW n, NEW nodes, Tree(n, nodes)
  PROVE  Place(n, nodes, << >>) /\ NodeAt(n, << >>) = n
<1>1. NodeAt(n, << >>) = n
  BY NodeAtRoot
<1>2. << >> \in Seq(Nat) /\ Len(<< >>) = 0 /\ SubSeq(<< >>, 1, 0) = << >>
  BY SubSeqEmpty
<1>3. \A d \in 0 .. 0 : SubSeq(<< >>, 1, d) = << >>
  BY <1>2
<1>4. \A d \in 0 .. Len(<< >>) : NodeAt(n, SubSeq(<< >>, 1, d)) \in nodes
  BY <1>1, <1>2, <1>3 DEF Tree
<1>5. 1 .. Len(<< >>) = {}
  BY <1>2
<1>6. QED
  BY <1>1, <1>2, <1>4, <1>5 DEF Place

(* At a place there is a node.                                             *)
LEMMA PlaceNode ==
  ASSUME NEW n, NEW nodes, Tree(n, nodes), NEW p, Place(n, nodes, p)
  PROVE  /\ p \in Seq(Nat) /\ NodeAt(n, p) \in nodes
         /\ NodeAt(n, p).kids \in Seq(nodes) /\ WellFormed(NodeAt(n, p))
         /\ DOMAIN NodeAt(n, p).kids = 1 .. Len(NodeAt(n, p).kids)
         /\ Len(NodeAt(n, p).kids) \in Nat
<1>1. p \in Seq(Nat) /\ Len(p) \in 0 .. Len(p) /\ SubSeq(p, 1, Len(p)) = p
  BY SubSeqFull DEF Place
<1>2. NodeAt(n, p) \in nodes
  BY <1>1 DEF Place
<1>3. NodeAt(n, p).kids \in Seq(nodes) /\ WellFormed(NodeAt(n, p))
  BY <1>2 DEF Tree
<1>4. QED
  BY <1>1, <1>2, <1>3

(* The places of the children of a node.                                   *)
LEMMA PlaceChild ==
  ASSUME NEW n, NEW nodes, Tree(n, nodes), NEW p, Place(n, nodes, p),
         NEW i \in DOMAIN NodeAt(n, p).kids
  PROVE  /\ i \in Nat
         /\ Place(n, nodes, Append(p, i)) /\ NodeAt(n, Append(p, i)) = NodeAt(n, p).kids[i]
<1>1. /\ p \in Seq(Nat) /\ i \in Nat /\ Len(p) \in Nat
      /\ NodeAt(n, p).kids \in Seq(nodes) /\ i \in 1 .. Len(NodeAt(n, p).kids)
  BY PlaceNode
<1>2. PICK q : q = Append(p, i)
  OBVIOUS
<1>3. /\ q \in Seq(Nat) /\ Len(q) = Len(p) + 1 /\ q[Len(p) + 1] = i
      /\ \A d \in 1 .. Len(p) : q[d] = p[d]
      /\ \A d \in 0 .. Len(p) : SubSeq(q, 1, d) = SubSeq(p, 1, d)
      /\ SubSeq(q, 1, Len(p) + 1) = q /\ SubSeq(p, 1, Len(p)) = p
  BY <1>1, <1>2, LongerPath
<1>4. NodeAt(n, q) = NodeAt(n, p).kids[i] /\ NodeAt(n, q) \in nodes
  BY <1>1, <1>2, NodeAtChild
<1>5. ASSUME NEW d \in 0 .. Len(q) PROVE NodeAt(n, SubSeq(q, 1, d)) \in nodes
  <2>1. d \in 0 .. Len(p) \/ d = Len(p) + 1
    BY <1>1, <1>3
  <2>2. QED
    BY <1>3, <1>4, <2>1 DEF Place
<1>6. ASSUME NEW d \in 1 .. Len(q) PROVE q[d] \in DOMAIN NodeAt(n, SubSeq(q, 1, d - 1)).kids
  <2>1. CASE d = Len(p) + 1
    <3>1. d - 1 = Len(p) /\ Len(p) \in 0 .. Len(p)
      BY <1>1, <2>1
    <3>2. SubSeq(q, 1, d - 1) = p
      BY <1>3, <3>1
    <3>3. QED
      BY <1>3, <2>1, <3>2
  <2>2. CASE d # Len(p) + 1
    <3>1. d \in 1 .. Len(p) /\ d - 1 \in 0 .. Len(p)
      BY <1>1, <1>3, <2>2
    <3>2. q[d] = p[d] /\ SubSeq(q, 1, d - 1) = SubSeq(p, 1, d - 1)
      BY <1>3, <3>1
    <3>3. QED
      BY <3>1, <3>2 DEF Place
  <2>3. QED
    BY <2>1, <2>2
<1>7. Place(n, nodes, q)
  BY <1>3, <1>5, <1>6 DEF Place
<1>8. QED
  BY <1>1, <1>2, <1>4, <1>7

(* The place of the parent of a node.                                      *)
LEMMA PlaceParent ==
  ASSUME NEW n, NEW nodes, Tree(n, nodes), NEW p, Place(n, nodes, p), p # << >>
  PROVE  /\ Place(n, nodes, Front(p)) /\ p = Append(Front(p), Last(p))
         /\ Last(p) \in DOMAIN NodeAt(n, Front(p)).kids
         /\ NodeAt(n, p) = NodeAt(n, Front(p)).kids[Last(p)] /\ NodeAt(n, p).kind # "Program"
<1>1. p \in Seq(Nat)
  BY DEF Place
<1>2. PICK q, i : q = Front(p) /\ i = Last(p)
  OBVIOUS
<1>3. q \in Seq(Nat) /\ i \in Nat /\ p = Append(q, i)
  BY <1>1, <1>2, ShorterPath
<1>4. PICK m \in Nat : m = Len(q)
  BY <1>3
<1>5. /\ Len(p) = m + 1 /\ p[m + 1] = i
      /\ \A d \in 1 .. m : p[d] = q[d]
      /\ \A d \in 0 .. m : SubSeq(p, 1, d) = SubSeq(q, 1, d)
      /\ SubSeq(q, 1, m) = q
  BY <1>3, <1>4, LongerPath
<1>6. \A d \in 0 .. m : d \in 0 .. Len(p)
  BY <1>5
<1>7. \A d \in 0 .. m : NodeAt(n, SubSeq(q, 1, d)) \in nodes
  BY <1>5, <1>6 DEF Place
<1>8. ASSUME NEW d \in 1 .. m PROVE q[d] \in DOMAIN NodeAt(n, SubSeq(q, 1, d - 1)).kids
  <2>1. d \in 1 .. Len(p) /\ d - 1 \in 0 .. m
    BY <1>5
  <2>2. p[d] = q[d] /\ SubSeq(p, 1, d - 1) = SubSeq(q, 1, d - 1)
    BY <1>5, <2>1
  <2>3. QED
    BY <2>1, <2>2 DEF Place
<1>9. Place(n, nodes, q)
  BY <1>3, <1>4, <1>7, <1>8 DEF Place
<1>10. i \in DOMAIN NodeAt(n, q).kids
  <2>1. m + 1 \in 1 .. Len(p) /\ (m + 1) - 1 = m /\ m \in 0 .. m
    BY <1>5
  <2>2. p[m + 1] \in DOMAIN NodeAt(n, SubSeq(p, 1, m)).kids
    BY <2>1 DEF Place
  <2>3. QED
    BY <1>5, <2>1, <2>2
<1>11. NodeAt(n, p) = NodeAt(n, q).kids[i]
  BY <1>3, NodeAtChild
<1>12. NodeAt(n, q) \in nodes
  BY <1>9, PlaceNode
<1>13. QED
  BY <1>2, <1>3, <1>9, <1>10, <1>11, <1>12 DEF Tree

-----------------------------------------------------------------------------
(* The pretty printer.                                                     *)

(* Every endVisit pops one text for each child and pushes one.             *)
LEMMA EndVisitPushes ==
  ASSUME NEW n, NEW results, NEW level, WellFormed(n), n.kind # "Program"
  PROVE  \E txt : EndVisitOf(n, results, level) = Pushed(results, Len(n.kids), txt)
<1>1. CASE n.kind \in {"Number", "Bool", "Variable", "Input", "Null", "DeclNode"}
  <2>1. Len(n.kids) = 0
    BY <1>1 DEF WellFormed
  <2>2. QED
    BY <1>1, <2>1 DEF EndVisitOf, PrintNumber, PrintBool, PrintVariable, PrintInput, PrintNull, PrintDeclNode
<1>2. CASE n.kind \in {"Alloc", "Ref", "DeRef", "Not", "Neg", "ArrayLen", "Field", "Access"}
  <2>1. Len(n.kids) = 1
    BY <1>2 DEF WellFormed
  <2>2. QED
    BY <1>2, <2>1 DEF EndVisitOf, PrintAlloc, PrintRef, PrintDeRef, PrintNot, PrintNeg, PrintArrayLen,
                      PrintField, PrintAccess
<1>3. CASE n.kind \in {"Update", "Output", "Error", "Return"}
  <2>1. Len(n.kids) = 1
    BY <1>3 DEF WellFormed
  <2>2. QED
    BY <1>3, <2>1 DEF EndVisitOf, PrintUpdate, PrintArgument
<1>4. CASE n.kind \in {"Binary", "Indexing", "ArrayOf", "Assign", "While"}
  <2>1. Len(n.kids) = 2
    BY <1>4 DEF WellFormed
  <2>2. QED
    BY <1>4, <2>1 DEF EndVisitOf, PrintBinary, PrintIndexing, PrintArrayOf, PrintAssign, PrintWhile
<1>5. CASE n.kind = "Ternary"
  <2>1. Len(n.kids) = 3
    BY <1>5 DEF WellFormed
  <2>2. QED
    BY <1>5, <2>1 DEF EndVisitOf, PrintTernary
<1>6. CASE n.kind \in {"If", "For", "FunApp", "Function"}
  BY <1>6 DEF EndVisitOf, PrintIf, PrintFor, PrintFunApp, PrintFunction
<1>7. CASE n.kind \in {"Array", "Record", "Block", "DeclStmt"}
  BY <1>7 DEF EndVisitOf, PrintArray, PrintRecord, PrintBlock, PrintDeclStmt
<1>8. QED
  BY <1>1, <1>2, <1>3, <1>4, <1>5, <1>6, <1>7 DEF WellFormed

(* The children before a longer path.                                      *)
LEMMA ChildrenBeforeLonger ==
  ASSUME NEW p \in Seq(Nat), NEW i \in Nat
  PROVE  /\ ChildrenBefore(Append(p, i)) = ChildrenBefore(p) \cup ({Len(p) + 1} \X (1 .. i - 1))
         /\ ChildrenBefore(p) \cap ({Len(p) + 1} \X (1 .. i - 1)) = {}
<1>1. PICK q : q = Append(p, i)
  OBVIOUS
<1>2. PICK m \in Nat : m = Len(p)
  OBVIOUS
<1>3. /\ DOMAIN q = 1 .. m + 1 /\ DOMAIN p = 1 .. m
      /\ \A d \in 1 .. m : q[d] = p[d]
      /\ q[m + 1] = i
  BY <1>1, <1>2, LongerPath
<1>4. \A d \in 1 .. m + 1 : d \in 1 .. m \/ d = m + 1
  OBVIOUS
<1>5. ASSUME NEW x PROVE x \in ChildrenBefore(p) <=> \E d \in 1 .. m : x \in {d} \X (1 .. p[d] - 1)
  BY <1>3 DEF ChildrenBefore
<1>6. ASSUME NEW x PROVE x \in ChildrenBefore(q) <=> \E d \in 1 .. m + 1 : x \in {d} \X (1 .. q[d] - 1)
  BY <1>3 DEF ChildrenBefore
<1>7. ASSUME NEW x
      PROVE  x \in ChildrenBefore(q) <=> x \in ChildrenBefore(p) \/ x \in {m + 1} \X (1 .. i - 1)
  <2>1. m + 1 \in 1 .. m + 1 /\ \A d \in 1 .. m : d \in 1 .. m + 1
    OBVIOUS
  <2>2. QED
    BY <1>3, <1>4, <1>5, <1>6, <2>1
<1>8. ChildrenBefore(p) \cap ({m + 1} \X (1 .. i - 1)) = {}
  <2>1. ASSUME NEW x \in ChildrenBefore(p), x \in {m + 1} \X (1 .. i - 1) PROVE FALSE
    <3>1. PICK d \in 1 .. m : x \in {d} \X (1 .. p[d] - 1)
      BY <1>5, <2>1
    <3>2. x[1] = d /\ x[1] = m + 1
      BY <2>1, <3>1
    <3>3. QED
      BY <3>1, <3>2
  <2>2. QED
    BY <2>1
<1>9. QED
  BY <1>1, <1>2, <1>7, <1>8

(* There are finitely many.                                                *)
LEMMA ChildrenBeforeFinite ==
  ASSUME NEW p \in Seq(Nat)
  PROVE  IsFiniteSet(ChildrenBefore(p)) /\ Cardinality(ChildrenBefore(p)) \in Nat
<1> DEFINE P == {m \in Nat : \A q \in Seq(Nat) : Len(q) = m => IsFiniteSet(ChildrenBefore(q))}
<1>1. 0 \in P
  <2>1. ASSUME NEW q \in Seq(Nat), Len(q) = 0 PROVE ChildrenBefore(q) = {}
    BY <2>1 DEF ChildrenBefore
  <2>2. QED
    BY <2>1, FS_EmptySet
<1>2. ASSUME NEW m \in Nat, m \in P PROVE m + 1 \in P
  <2>1. ASSUME NEW q \in Seq(Nat), Len(q) = m + 1 PROVE IsFiniteSet(ChildrenBefore(q))
    <3>1. q # << >>
      BY <2>1
    <3>2. PICK r \in Seq(Nat), i \in Nat : q = Append(r, i)
      BY <3>1, SequenceEmptyOrAppend
    <3>3. Len(r) = m
      BY <2>1, <3>2
    <3>4. IsFiniteSet(ChildrenBefore(r))
      BY <1>2, <3>3
    <3>5. IsFiniteSet({Len(r) + 1} \X (1 .. i - 1))
      <4>1. IsFiniteSet({Len(r) + 1})
        BY FS_Singleton
      <4>2. 1 \in Int /\ i - 1 \in Int
        OBVIOUS
      <4>3. IsFiniteSet(1 .. i - 1)
        BY <4>2, FS_Interval
      <4>4. QED
        BY <4>1, <4>3, FS_Product
    <3>6. ChildrenBefore(q) = ChildrenBefore(r) \cup ({Len(r) + 1} \X (1 .. i - 1))
      BY <3>2, ChildrenBeforeLonger
    <3>7. IsFiniteSet(ChildrenBefore(r) \cup ({Len(r) + 1} \X (1 .. i - 1)))
      BY <3>4, <3>5, FS_Union
    <3>8. QED
      BY <3>6, <3>7
  <2>2. QED
    BY <2>1
<1> HIDE DEF P
<1>3. Len(p) \in P
  BY <1>1, <1>2, NatInductionOver
<1>4. IsFiniteSet(ChildrenBefore(p))
  BY <1>3 DEF P
<1>5. QED
  BY <1>4, FS_CardinalityType

(* Each step adds those before it.                                         *)
LEMMA ChildrenBeforeCount ==
  ASSUME NEW p \in Seq(Nat), NEW i \in Nat \ {0}
  PROVE  /\ Cardinality(ChildrenBefore(p)) \in Nat
         /\ Cardinality(ChildrenBefore(Append(p, i))) = Cardinality(ChildrenBefore(p)) + i - 1
<1> DEFINE Beside == {Len(p) + 1} \X (1 .. i - 1)
<1>1. IsFiniteSet(ChildrenBefore(p)) /\ Cardinality(ChildrenBefore(p)) \in Nat
  BY ChildrenBeforeFinite
<1>2. IsFiniteSet(Beside) /\ Cardinality(Beside) = i - 1
  <2>1. IsFiniteSet({Len(p) + 1}) /\ Cardinality({Len(p) + 1}) = 1
    BY FS_Singleton
  <2>2. IsFiniteSet(1 .. i - 1) /\ Cardinality(1 .. i - 1) = i - 1
    <3>1. 1 \in Int /\ i - 1 \in Int /\ (1 > i - 1 => i - 1 = 0) /\ (i - 1) - 1 + 1 = i - 1
      OBVIOUS
    <3>2. QED
      BY <3>1, FS_Interval
  <2>3. IsFiniteSet(Beside) /\ Cardinality(Beside) = Cardinality({Len(p) + 1}) * Cardinality(1 .. i - 1)
    BY <2>1, <2>2, FS_Product
  <2>4. QED
    BY <2>1, <2>2, <2>3
<1>3. ChildrenBefore(Append(p, i)) = ChildrenBefore(p) \cup Beside /\ ChildrenBefore(p) \cap Beside = {}
  BY ChildrenBeforeLonger
<1> HIDE DEF Beside
<1>4. Cardinality(ChildrenBefore(p) \cup Beside)
        = Cardinality(ChildrenBefore(p)) + Cardinality(Beside) - Cardinality(ChildrenBefore(p) \cap Beside)
  BY <1>1, <1>2, FS_Union
<1>5. Cardinality(ChildrenBefore(p) \cap Beside) = 0
  BY <1>3, FS_EmptySet
<1>6. Cardinality(ChildrenBefore(Append(p, i))) = Cardinality(ChildrenBefore(p)) + Cardinality(Beside) - 0
  BY <1>3, <1>4, <1>5
<1>7. QED
  BY <1>1, <1>2, <1>6

(* How far the text is indented on a longer path.                          *)
LEMMA IndentedOnLonger ==
  ASSUME NEW n, NEW p \in Seq(Nat), NEW i \in Nat
  PROVE  /\ Cardinality(IndentedOn(n, p)) \in Nat
         /\ Cardinality(IndentedOn(n, Append(p, i))) =
              IF NodeAt(n, Append(p, i)).kind \in Indenting
              THEN Cardinality(IndentedOn(n, p)) + 1 ELSE Cardinality(IndentedOn(n, p))
<1>1. PICK q : q = Append(p, i)
  OBVIOUS
<1>2. PICK m \in Nat : m = Len(p)
  OBVIOUS
<1>3. /\ Len(q) = m + 1 /\ SubSeq(q, 1, m + 1) = q
      /\ \A d \in 0 .. m : SubSeq(q, 1, d) = SubSeq(p, 1, d)
  BY <1>1, <1>2, LongerPath
<1>4. PICK S : S = IndentedOn(n, p)
  OBVIOUS
<1>5. S = {d \in 0 .. m : NodeAt(n, SubSeq(p, 1, d)).kind \in Indenting}
  BY <1>2, <1>4 DEF IndentedOn
<1>6. IsFiniteSet(S) /\ Cardinality(S) \in Nat /\ m + 1 \notin S
  <2>1. IsFiniteSet(0 .. m)
    BY FS_Interval
  <2>2. S \subseteq 0 .. m
    BY <1>5
  <2>3. IsFiniteSet(S)
    BY <2>1, <2>2, FS_Subset
  <2>4. QED
    BY <2>2, <2>3, FS_CardinalityType
<1>7. IndentedOn(n, q) = {d \in 0 .. m + 1 : NodeAt(n, SubSeq(q, 1, d)).kind \in Indenting}
  BY <1>3 DEF IndentedOn
<1>8. \A d : d \in 0 .. m + 1 <=> d \in 0 .. m \/ d = m + 1
  OBVIOUS
<1>9. IndentedOn(n, q) = IF NodeAt(n, q).kind \in Indenting THEN S \cup {m + 1} ELSE S
  BY <1>3, <1>5, <1>7, <1>8
<1>10. IsFiniteSet(S \cup {m + 1}) /\ Cardinality(S \cup {m + 1}) = Cardinality(S) + 1
  BY <1>6, FS_AddElement
<1>11. QED
  BY <1>1, <1>4, <1>6, <1>9, <1>10

(* It is not at all at the root, a program.                                *)
LEMMA IndentedOnRoot ==
  ASSUME NEW n, n.kind = "Program"
  PROVE  Cardinality(IndentedOn(n, << >>)) = 0
<1>1. SubSeq(<< >>, 1, 0) = << >> /\ Len(<< >>) = 0
  BY SubSeqEmpty
<1>2. \A d \in 0 .. Len(<< >>) : NodeAt(n, SubSeq(<< >>, 1, d)) = n
  <2>1. \A d \in 0 .. Len(<< >>) : SubSeq(<< >>, 1, d) = << >>
    BY <1>1
  <2>2. NodeAt(n, << >>) = n
    BY NodeAtRoot
  <2>3. QED
    BY <2>1, <2>2
<1>3. n.kind \notin Indenting
  BY DEF Indenting
<1>4. IndentedOn(n, << >>) = {}
  BY <1>2, <1>3 DEF IndentedOn
<1>5. QED
  BY <1>4, FS_EmptySet

(* Popping k texts and pushing one.                                        *)
LEMMA PushedFacts ==
  ASSUME NEW S, NEW results \in Seq(S), NEW k \in Nat, k <= Len(results), NEW txt
  PROVE  /\ Pushed(results, k, txt) \in Seq(S \cup {txt})
         /\ Len(Pushed(results, k, txt)) = Len(results) - k + 1
<1>1. Len(results) \in Nat /\ DOMAIN results = 1 .. Len(results)
  OBVIOUS
<1>2. PICK l \in Nat : l = Len(results)
  BY <1>1
<1>3. l - k \in Nat
  BY <1>2
<1>4. PICK m \in Nat : m = Len(results) - k
  BY <1>2, <1>3
<1>5. \A i \in 1 .. m : i \in 1 .. Len(results)
  BY <1>4
<1>6. \A i \in 1 .. m : results[i] \in S \cup {txt}
  BY <1>5
<1>7. SubSeq(results, 1, m) \in Seq(S \cup {txt}) /\ Len(SubSeq(results, 1, m)) = m
  BY <1>4, <1>6, SubSeqProperties
<1>8. PICK t : t = SubSeq(results, 1, m)
  OBVIOUS
<1>9. Append(t, txt) \in Seq(S \cup {txt}) /\ Len(Append(t, txt)) = m + 1
  BY <1>7, <1>8
<1>10. QED
  BY <1>4, <1>8, <1>9 DEF Pushed

-----------------------------------------------------------------------------
(* The invariant.                                                          *)
HasProgram == phase \notin {"text", "rejected"}
IsDrawing  == phase \in {"drawing", "drawn"}
IsPlace(path) == Place(program, NodesIn(text), path)

(* The AST is that of the text.                                            *)
ProgramRead ==
  /\ text \in Texts
  /\ phase \in {"text", "rejected", "parsed", "printing", "printed", "drawing", "drawn"}
  /\ HasProgram => Readable(text) /\ program = AstOf(text)

(* The printer is at a child of a place, or after the last one.            *)
PrinterThere ==
  /\ phase \in {"text", "rejected", "parsed"} =>
       at = << >> /\ next = 1 /\ visitResults = << >> /\ indentLevel = 0
  /\ phase = "printing" => /\ IsPlace(at) /\ next \in 1 .. Len(Current.kids) + 1
                           /\ \E S : visitResults \in Seq(S)
  /\ PrinterInStep

(* Vertices have their children among the places seen, places their        *)
(* parents among the vertices.                                             *)
Connected ==
  LET V == ToSet(vertices)
      I == ToSet(iter)
  IN  /\ << >> \in V \cup I
      /\ \A p \in V : Subtrees(p) \subseteq V \cup I
      /\ \A p \in V \cup I : IsPlace(p) /\ (p # << >> => Front(p) \in V)
      /\ edges = {<<Front(p), p>> : p \in V \ {<< >>}}

(* What was drawn comes before what is to be drawn, and the stack holds    *)
(* that with its first place on top.                                       *)
InOrder ==
  /\ \A i, j \in DOMAIN vertices : i < j => Before(vertices[i], vertices[j])
  /\ \A i \in DOMAIN vertices : \A j \in DOMAIN iter : Before(vertices[i], iter[j])
  /\ \A i, j \in DOMAIN iter : i < j => LeftOf(iter[j], iter[i])

(* The parents on the stack are those of what is to be drawn.              *)
ParentsOf ==
  \/ iter = <<<< >>>> /\ vertices = << >> /\ parent = << >>
  \/ /\ Len(parent) = Len(iter)
     /\ \A i \in DOMAIN iter : iter[i] # << >> /\ parent[i] = Front(iter[i])

DrawnSoFar ==
  /\ iter \in Seq(Seq(Nat)) /\ vertices \in Seq(Seq(Nat)) /\ parent \in Seq(Seq(Nat))
  /\ ~IsDrawing => iter = << >> /\ vertices = << >> /\ parent = << >> /\ edges = {}
  /\ IsDrawing => Connected /\ InOrder /\ ParentsOf
  /\ phase = "drawn" => iter = << >>

FrontEndInv == ProgramRead /\ PrinterThere /\ DrawnSoFar

-----------------------------------------------------------------------------
(* Pre-order.                                                              *)

(* What comes before a place comes before its children, what is to the     *)
(* right of it is to the right of them.                                    *)
LEMMA OrderLonger ==
  ASSUME NEW p \in Seq(Nat), NEW q \in Seq(Nat), NEW i \in Nat
  PROVE  /\ Before(p, q) => Before(p, Append(q, i))
         /\ LeftOf(p, q) => LeftOf(Append(p, i), q)
<1>1. PICK m \in Nat : m = Len(p) /\ DOMAIN p = 1 .. m
  OBVIOUS
<1>2. PICK n \in Nat : n = Len(q) /\ DOMAIN q = 1 .. n
  OBVIOUS
<1>3. PICK r : r = Append(q, i)
  OBVIOUS
<1>4. /\ Len(r) = n + 1 /\ DOMAIN r = 1 .. n + 1
      /\ \A d \in 1 .. n : r[d] = q[d]
      /\ \A d \in 0 .. n : SubSeq(r, 1, d) = SubSeq(q, 1, d)
  BY <1>2, <1>3, LongerPath
<1>5. PICK s : s = Append(p, i)
  OBVIOUS
<1>6. /\ DOMAIN s = 1 .. m + 1
      /\ \A d \in 1 .. m : s[d] = p[d]
      /\ \A d \in 0 .. m : SubSeq(s, 1, d) = SubSeq(p, 1, d)
  BY <1>1, <1>5, LongerPath
<1>7. Above(p, q) => Above(p, r)
  <2>1. SUFFICES ASSUME Above(p, q) PROVE Above(p, r)
    OBVIOUS
  <2>2. m < n /\ SubSeq(q, 1, m) = p
    BY <1>1, <1>2, <2>1 DEF Above
  <2>3. m \in 0 .. n /\ m < n + 1
    BY <2>2
  <2>4. QED
    BY <1>1, <1>4, <2>2, <2>3 DEF Above
<1>8. LeftOf(p, q) => LeftOf(p, r) /\ LeftOf(s, q)
  <2>1. SUFFICES ASSUME LeftOf(p, q) PROVE LeftOf(p, r) /\ LeftOf(s, q)
    OBVIOUS
  <2>2. PICK d \in (1 .. m) \cap (1 .. n) : p[d] < q[d] /\ SubSeq(p, 1, d - 1) = SubSeq(q, 1, d - 1)
    BY <1>1, <1>2, <2>1 DEF LeftOf
  <2>3. d \in 1 .. m + 1 /\ d \in 1 .. n + 1 /\ d - 1 \in 0 .. m /\ d - 1 \in 0 .. n
    OBVIOUS
  <2>4. r[d] = q[d] /\ s[d] = p[d]
    BY <1>4, <1>6
  <2>5. SubSeq(r, 1, d - 1) = SubSeq(q, 1, d - 1) /\ SubSeq(s, 1, d - 1) = SubSeq(p, 1, d - 1)
    BY <1>4, <1>6, <2>3
  <2>6. LeftOf(p, r)
    BY <1>1, <1>4, <2>2, <2>3, <2>4, <2>5 DEF LeftOf
  <2>7. LeftOf(s, q)
    BY <1>2, <1>6, <2>2, <2>3, <2>4, <2>5 DEF LeftOf
  <2>8. QED
    BY <2>6, <2>7
<1>9. QED
  BY <1>3, <1>5, <1>7, <1>8 DEF Before

(* A place comes before its children, each child before the next, and no   *)
(* place before itself.                                                    *)
LEMMA OrderOfChildren ==
  ASSUME NEW p \in Seq(Nat), NEW i \in Nat, NEW j \in Nat
  PROVE  /\ Before(p, Append(p, i))
         /\ i < j => LeftOf(Append(p, i), Append(p, j))
         /\ ~Before(p, p)
<1>1. PICK m \in Nat : m = Len(p) /\ DOMAIN p = 1 .. m
  OBVIOUS
<1>2. PICK q : q = Append(p, i)
  OBVIOUS
<1>3. PICK r : r = Append(p, j)
  OBVIOUS
<1>4. /\ Len(q) = m + 1 /\ DOMAIN q = 1 .. m + 1 /\ q[m + 1] = i
      /\ SubSeq(p, 1, m) = p /\ \A d \in 0 .. m : SubSeq(q, 1, d) = SubSeq(p, 1, d)
  BY <1>1, <1>2, LongerPath
<1>5. /\ DOMAIN r = 1 .. m + 1 /\ r[m + 1] = j
      /\ \A d \in 0 .. m : SubSeq(r, 1, d) = SubSeq(p, 1, d)
  BY <1>1, <1>3, LongerPath
<1>6. m \in 0 .. m /\ (m + 1) - 1 = m /\ m + 1 \in (1 .. m + 1) \cap (1 .. m + 1) /\ m < m + 1
  OBVIOUS
<1>7. SubSeq(q, 1, m) = p /\ SubSeq(r, 1, m) = p
  BY <1>4, <1>5, <1>6
<1>8. Before(p, q)
  BY <1>1, <1>4, <1>6, <1>7 DEF Before, Above
<1>9. i < j => LeftOf(q, r)
  BY <1>4, <1>5, <1>6, <1>7 DEF LeftOf
<1>10. ~Before(p, p)
  <2>1. ~Above(p, p)
    BY <1>1 DEF Above
  <2>2. ~LeftOf(p, p)
    <3>1. \A d \in 1 .. m : p[d] \in Nat
      BY <1>1
    <3>2. QED
      BY <1>1, <3>1 DEF LeftOf
  <2>3. QED
    BY <2>1, <2>2 DEF Before
<1>11. QED
  BY <1>2, <1>3, <1>8, <1>9, <1>10

-----------------------------------------------------------------------------
(* The visualizer.                                                         *)

(* The subtrees of a node are at its children.                             *)
LEMMA SubtreesFact ==
  ASSUME NEW p
  PROVE  Subtrees(p) = {Append(p, i) : i \in DOMAIN NodeAt(program, p).kids}
BY DEF Subtrees, GetSubtrees, Range

(* The stack once its top has given way to its children.                   *)
LEMMA AdvanceFact ==
  ASSUME NEW stack \in Seq(Seq(Nat)), stack # << >>,
         NEW n \in Nat, DOMAIN NodeAt(program, Last(stack)).kids = 1 .. n
  PROVE  LET s == Advance(program, stack)
             m == Len(stack)
         IN  /\ s \in Seq(Seq(Nat)) /\ Len(s) = m - 1 + n
             /\ \A k \in 1 .. m - 1 + n :
                  s[k] = IF k < m THEN stack[k] ELSE Append(Last(stack), m + n - k)
<1>1. PICK m \in Nat \ {0} : m = Len(stack)
  BY FrontAndLast
<1>2. PICK p \in Seq(Nat) : p = Last(stack)
  BY FrontAndLast
<1>3. PICK f : f = Front(stack)
  OBVIOUS
<1>4. f \in Seq(Seq(Nat)) /\ Len(f) = m - 1 /\ \A k \in 1 .. m - 1 : f[k] = stack[k]
  BY <1>1, <1>3, FrontAndLast
<1>5. PICK g : g = [i \in 1 .. n |-> Append(p, i)]
  OBVIOUS
<1>6. g = GetSubtrees(program, Last(stack))
  BY <1>2, <1>5 DEF GetSubtrees
<1>7. g \in Seq(Seq(Nat)) /\ Len(g) = n /\ \A i \in 1 .. n : g[i] = Append(p, i)
  <2>1. \A i \in 1 .. n : Append(p, i) \in Seq(Nat)
    OBVIOUS
  <2>2. QED
    BY <1>5, <2>1
<1>8. PICK h : h = Reverse(g)
  OBVIOUS
<1>9. h = [k \in 1 .. n |-> g[(n - k) + 1]]
  BY <1>7, <1>8 DEF Reverse
<1>10. \A k \in 1 .. n : h[k] = Append(p, n + 1 - k) /\ h[k] \in Seq(Nat)
  <2>1. ASSUME NEW k \in 1 .. n PROVE h[k] = Append(p, n + 1 - k) /\ h[k] \in Seq(Nat)
    <3>1. (n - k) + 1 = n + 1 - k /\ n + 1 - k \in 1 .. n
      OBVIOUS
    <3>2. h[k] = Append(p, n + 1 - k)
      BY <1>7, <1>9, <3>1
    <3>3. QED
      BY <3>1, <3>2
  <2>2. QED
    BY <2>1
<1>11. PICK S : S = Seq(Nat)
  OBVIOUS
<1>12. h \in Seq(S) /\ Len(h) = n
  <2>1. h \in [1 .. n -> S]
    BY <1>9, <1>10, <1>11
  <2>2. h \in Seq(S)
    BY <2>1, SeqDef
  <2>3. Len(h) = n
    BY <1>9
  <2>4. QED
    BY <2>2, <2>3
<1>13. f \in Seq(S) /\ Len(f) = m - 1 /\ m - 1 \in Nat
  BY <1>1, <1>4, <1>11
<1>14. PICK s : s = f \o h
  OBVIOUS
<1>15. /\ s \in Seq(S) /\ Len(s) = m - 1 + n
       /\ \A k \in 1 .. m - 1 + n : s[k] = IF k < m THEN stack[k] ELSE Append(p, m + n - k)
  <2>1. PICK l \in Nat : l = m - 1 /\ l = Len(f)
    BY <1>13
  <2>2. /\ s \in Seq(S) /\ Len(s) = l + n
        /\ \A k \in 1 .. l + n : s[k] = IF k <= l THEN f[k] ELSE h[k - l]
    <3>1. /\ f \o h \in Seq(S) /\ Len(f \o h) = Len(f) + Len(h)
          /\ \A k \in 1 .. Len(f) + Len(h) : (f \o h)[k] = IF k <= Len(f) THEN f[k] ELSE h[k - Len(f)]
      BY <1>12, <1>13, ConcatProperties
    <3>2. QED
      BY <1>12, <1>14, <2>1, <3>1
  <2>3. ASSUME NEW k \in 1 .. l + n
        PROVE  s[k] = IF k < m THEN stack[k] ELSE Append(p, m + n - k)
    <3>1. CASE k <= l
      <4>1. k \in 1 .. m - 1 /\ k < m
        BY <2>1, <3>1
      <4>2. QED
        BY <1>4, <2>2, <3>1, <4>1
    <3>2. CASE ~(k <= l)
      <4>1. k - l \in 1 .. n /\ n + 1 - (k - l) = m + n - k /\ ~(k < m)
        BY <2>1, <3>2
      <4>2. h[k - l] = Append(p, m + n - k)
        BY <1>10, <4>1
      <4>3. QED
        BY <2>2, <3>2, <4>1, <4>2
    <3>3. QED
      BY <3>1, <3>2
  <2>4. QED
    BY <2>1, <2>2, <2>3
<1>16. s = Advance(program, stack)
  BY <1>3, <1>6, <1>8, <1>14 DEF Advance
<1>17. QED
  BY <1>1, <1>2, <1>11, <1>15, <1>16

-----------------------------------------------------------------------------
(* The steps.                                                              *)

(* The program is a tree.                                                  *)
LEMMA ProgramIsTree ==
  ASSUME ProgramRead, HasProgram
  PROVE  Tree(program, NodesIn(text)) /\ program.kind = "Program"
BY AstAssumption DEF ProgramRead, Tree

(* Printing and drawing keep the text and its program.                     *)
LEMMA RunKeepsProgram ==
  ASSUME Run
  PROVE  UNCHANGED <<text, program>> /\ HasProgram /\ HasProgram'
BY DEF Run, PrettyPrint, VisitNode, EndVisit, EndVisitProgram, AstVisualize, ProcessNode, Finish, HasProgram

(* The steps keep what is known of the program.                            *)
LEMMA ProgramReadKept ==
  ASSUME ProgramRead, [Next]_vars
  PROVE  ProgramRead'
<1>1. CASE Parse
  BY <1>1 DEF ProgramRead, Parse
<1>2. CASE Reject
  BY <1>2 DEF ProgramRead, HasProgram, Reject
<1>3. CASE Run
  <2>1. UNCHANGED <<text, program>> /\ HasProgram
    BY <1>3, RunKeepsProgram
  <2>2. phase' \in {"printing", "printed", "drawing", "drawn"} \/ phase' = phase
    BY <1>3 DEF Run, PrettyPrint, VisitNode, EndVisit, EndVisitProgram, AstVisualize, ProcessNode, Finish
  <2>3. QED
    BY <2>1, <2>2 DEF ProgramRead
<1>4. CASE UNCHANGED vars
  BY <1>4 DEF ProgramRead, HasProgram, vars
<1>5. QED
  BY <1>1, <1>2, <1>3, <1>4 DEF Next

(* At a place, what the printer has to know to be in step: there are texts *)
(* enough.                                                                 *)
LEMMA PrinterTexts ==
  ASSUME ProgramRead, PrinterThere, phase = "printing"
  PROVE  /\ Tree(program, NodesIn(text)) /\ IsPlace(at) /\ HasProgram
         /\ at \in Seq(Nat) /\ next \in Nat \ {0} /\ Len(Current.kids) \in Nat
         /\ DOMAIN Current.kids = 1 .. Len(Current.kids) /\ WellFormed(Current)
         /\ Cardinality(ChildrenBefore(at)) \in Nat
         /\ Len(visitResults) = Cardinality(ChildrenBefore(at)) + next - 1
         /\ Cardinality(IndentedOn(program, at)) \in Nat
         /\ indentLevel = Cardinality(IndentedOn(program, at))
<1>1. HasProgram /\ Tree(program, NodesIn(text)) /\ IsPlace(at)
  BY ProgramIsTree DEF HasProgram, PrinterThere
<1>2. /\ at \in Seq(Nat) /\ Len(Current.kids) \in Nat
      /\ DOMAIN Current.kids = 1 .. Len(Current.kids) /\ WellFormed(Current)
  BY <1>1, PlaceNode DEF IsPlace, Current
<1>3. next \in Nat \ {0}
  BY <1>2 DEF PrinterThere
<1>4. /\ Cardinality(ChildrenBefore(at)) \in Nat
      /\ Cardinality(ChildrenBefore(Append(at, next))) = Cardinality(ChildrenBefore(at)) + next - 1
  BY <1>2, <1>3, ChildrenBeforeCount
<1>5. Cardinality(IndentedOn(program, at)) \in Nat
  BY <1>2, IndentedOnLonger
<1>6. /\ Len(visitResults) = Cardinality(ChildrenBefore(Append(at, next)))
      /\ indentLevel = Cardinality(IndentedOn(program, at))
  BY DEF PrinterThere, PrinterInStep
<1>7. QED
  BY <1>1, <1>2, <1>3, <1>4, <1>5, <1>6

(* The printer starts in step, with no texts.                              *)
LEMMA PrettyPrintInStep ==
  ASSUME ProgramRead, PrinterThere, PrettyPrint
  PROVE  PrinterThere'
<1>1. /\ UNCHANGED <<text, program, at, next, visitResults, indentLevel>>
      /\ phase = "parsed" /\ phase' = "printing"
  BY DEF PrettyPrint, printer
<1>2. at = << >> /\ next = 1 /\ visitResults = << >> /\ indentLevel = 0
  BY <1>1 DEF PrinterThere
<1>3. Tree(program, NodesIn(text)) /\ program.kind = "Program"
  BY <1>1, ProgramIsTree DEF HasProgram
<1>4. Place(program, NodesIn(text), << >>)
  BY <1>3, PlaceRoot
<1>5. IsPlace(at)'
  BY <1>1, <1>2, <1>4 DEF IsPlace
<1>6. (next \in 1 .. Len(Current.kids) + 1)'
  <2>1. PICK n \in Nat : n = Len(NodeAt(program, << >>).kids)
    BY <1>3, <1>4, PlaceNode
  <2>2. Len(Current.kids)' = n
    BY <1>1, <1>2, <2>1 DEF Current
  <2>3. QED
    BY <1>1, <1>2, <2>2
<1>7. (\E S : visitResults \in Seq(S))'
  <2>1. visitResults' \in Seq({}) /\ visitResults' = << >>
    BY <1>1, <1>2
  <2>2. QED
    BY <2>1
<1>8. Cardinality(ChildrenBefore(Append(<< >>, 1))) = 0
  <2>1. ChildrenBefore(<< >>) = {}
    BY DEF ChildrenBefore
  <2>2. Cardinality(ChildrenBefore(<< >>)) = 0
    BY <2>1, FS_EmptySet
  <2>3. Cardinality(ChildrenBefore(Append(<< >>, 1))) = Cardinality(ChildrenBefore(<< >>)) + 1 - 1
    <3>1. << >> \in Seq(Nat) /\ 1 \in Nat \ {0}
      OBVIOUS
    <3>2. QED
      BY <3>1, ChildrenBeforeCount
  <2>4. QED
    BY <2>2, <2>3
<1>9. Cardinality(IndentedOn(program, << >>)) = 0
  BY <1>3, IndentedOnRoot
<1>10. PrinterInStep'
  <2>1. Len(visitResults') = 0
    BY <1>1, <1>2
  <2>2. QED
    BY <1>1, <1>2, <1>8, <1>9, <2>1 DEF PrinterInStep
<1>11. QED
  BY <1>1, <1>5, <1>6, <1>7, <1>10 DEF PrinterThere

(* It goes to the next child: no text comes or goes.                       *)
LEMMA VisitNodeInStep ==
  ASSUME ProgramRead, PrinterThere, VisitNode
  PROVE  PrinterThere'
<1>1. /\ UNCHANGED <<text, phase, program, visitResults>> /\ phase = "printing"
      /\ next <= Len(Current.kids) /\ at' = Append(at, next) /\ next' = 1
      /\ indentLevel' = VisitLevel(Current.kids[next], indentLevel)
  BY DEF VisitNode
<1>2. /\ Tree(program, NodesIn(text)) /\ IsPlace(at)
      /\ at \in Seq(Nat) /\ next \in Nat \ {0} /\ Len(Current.kids) \in Nat
      /\ DOMAIN Current.kids = 1 .. Len(Current.kids)
  BY <1>1, PrinterTexts
<1>3. next \in DOMAIN NodeAt(program, at).kids
  <2>1. next \in 1 .. Len(Current.kids)
    BY <1>1, <1>2
  <2>2. QED
    BY <1>2, <2>1 DEF Current
<1>4. /\ Place(program, NodesIn(text), Append(at, next))
      /\ NodeAt(program, Append(at, next)) = NodeAt(program, at).kids[next]
  <2>1. Place(program, NodesIn(text), at)
    BY <1>2 DEF IsPlace
  <2>2. QED
    BY <1>2, <1>3, <2>1, PlaceChild
<1>5. IsPlace(at)'
  BY <1>1, <1>4 DEF IsPlace
<1>6. PICK p : p = Append(at, next)
  OBVIOUS
<1>7. p \in Seq(Nat)
  BY <1>2, <1>6
<1>8. (next \in 1 .. Len(Current.kids) + 1)'
  <2>1. PICK n \in Nat : n = Len(NodeAt(program, p).kids)
    BY <1>2, <1>4, <1>6, PlaceNode
  <2>2. Len(Current.kids)' = n
    BY <1>1, <1>6, <2>1 DEF Current
  <2>3. QED
    BY <1>1, <2>2
<1>9. (\E S : visitResults \in Seq(S))'
  BY <1>1 DEF PrinterThere
<1>10. Len(visitResults') = Cardinality(ChildrenBefore(Append(p, 1)))
  <2>1. /\ Cardinality(ChildrenBefore(p)) \in Nat
        /\ Cardinality(ChildrenBefore(Append(p, 1))) = Cardinality(ChildrenBefore(p)) + 1 - 1
    <3>1. 1 \in Nat \ {0}
      OBVIOUS
    <3>2. QED
      BY <1>7, <3>1, ChildrenBeforeCount
  <2>2. Len(visitResults) = Cardinality(ChildrenBefore(p))
    BY <1>1, <1>6 DEF PrinterThere, PrinterInStep
  <2>3. QED
    BY <1>1, <2>1, <2>2
<1>11. indentLevel' = Cardinality(IndentedOn(program, p))
  <2>1. Current.kids[next] = NodeAt(program, p)
    BY <1>4, <1>6 DEF Current
  <2>2. /\ Cardinality(IndentedOn(program, at)) \in Nat
        /\ Cardinality(IndentedOn(program, p)) =
             IF NodeAt(program, p).kind \in Indenting
             THEN Cardinality(IndentedOn(program, at)) + 1 ELSE Cardinality(IndentedOn(program, at))
    BY <1>2, <1>6, IndentedOnLonger
  <2>3. indentLevel = Cardinality(IndentedOn(program, at))
    BY <1>1, PrinterTexts
  <2>4. QED
    BY <1>1, <2>1, <2>2, <2>3 DEF VisitLevel
<1>12. PrinterInStep'
  BY <1>1, <1>6, <1>10, <1>11 DEF PrinterInStep
<1>13. QED
  BY <1>1, <1>5, <1>8, <1>9, <1>12 DEF PrinterThere

(* A node's children give way to it: their texts to its own.               *)
LEMMA EndVisitInStep ==
  ASSUME ProgramRead, PrinterThere, EndVisit
  PROVE  PrinterThere'
<1>1. /\ UNCHANGED <<text, phase, program>> /\ phase = "printing"
      /\ next > Len(Current.kids) /\ at # << >>
      /\ indentLevel' = EndVisitLevel(Current, indentLevel)
      /\ visitResults' = EndVisitOf(Current, visitResults, indentLevel')
      /\ at' = Front(at) /\ next' = Last(at) + 1
  BY DEF EndVisit
<1>2. /\ Tree(program, NodesIn(text)) /\ IsPlace(at)
      /\ at \in Seq(Nat) /\ next \in Nat \ {0} /\ Len(Current.kids) \in Nat /\ WellFormed(Current)
      /\ Cardinality(ChildrenBefore(at)) \in Nat
      /\ Len(visitResults) = Cardinality(ChildrenBefore(at)) + next - 1
  BY <1>1, PrinterTexts
<1>3. PICK p, i : p = Front(at) /\ i = Last(at)
  OBVIOUS
<1>4. /\ Place(program, NodesIn(text), p) /\ at = Append(p, i)
      /\ i \in DOMAIN NodeAt(program, p).kids /\ Current.kind # "Program"
  BY <1>1, <1>2, <1>3, PlaceParent DEF IsPlace, Current
<1>5. PICK n \in Nat : n = Len(NodeAt(program, p).kids) /\ DOMAIN NodeAt(program, p).kids = 1 .. n
  BY <1>2, <1>4, PlaceNode
<1>6. i \in 1 .. n /\ i \in Nat \ {0} /\ i + 1 \in Nat \ {0} /\ p \in Seq(Nat)
  BY <1>4, <1>5 DEF Place
<1>7. IsPlace(at)'
  BY <1>1, <1>3, <1>4 DEF IsPlace
<1>8. (next \in 1 .. Len(Current.kids) + 1)'
  <2>1. Len(Current.kids)' = n
    BY <1>1, <1>3, <1>5 DEF Current
  <2>2. QED
    BY <1>1, <1>3, <1>6, <2>1
<1>9. PICK k \in Nat : k = Len(Current.kids) /\ next = k + 1
  <2>1. next <= Len(Current.kids) + 1
    BY <1>1, <1>2 DEF PrinterThere
  <2>2. QED
    BY <1>1, <1>2, <2>1
<1>10. PICK c \in Nat : c = Cardinality(ChildrenBefore(p))
  BY <1>6, ChildrenBeforeCount
<1>11. Cardinality(ChildrenBefore(at)) = c + i - 1 /\ Cardinality(ChildrenBefore(Append(p, i + 1))) = c + i
  <2>1. Cardinality(ChildrenBefore(Append(p, i))) = c + i - 1
    BY <1>6, <1>10, ChildrenBeforeCount
  <2>2. Cardinality(ChildrenBefore(Append(p, i + 1))) = c + (i + 1) - 1
    BY <1>6, <1>10, ChildrenBeforeCount
  <2>3. QED
    BY <1>4, <1>6, <2>1, <2>2
<1>12. PICK S : visitResults \in Seq(S)
  BY <1>1 DEF PrinterThere
<1>13. PICK txt : visitResults' = Pushed(visitResults, k, txt)
  BY <1>1, <1>2, <1>4, <1>9, EndVisitPushes
<1>14. Len(visitResults) = c + i - 1 + k
  BY <1>2, <1>6, <1>9, <1>11
<1>15. k <= Len(visitResults)
  BY <1>6, <1>14
<1>16. visitResults' \in Seq(S \cup {txt}) /\ Len(visitResults') = Len(visitResults) - k + 1
  BY <1>12, <1>13, <1>15, PushedFacts
<1>17. Len(visitResults') = Cardinality(ChildrenBefore(Append(p, i + 1)))
  BY <1>6, <1>11, <1>14, <1>16
<1>18. indentLevel' = Cardinality(IndentedOn(program, p))
  <2>1. /\ Cardinality(IndentedOn(program, p)) \in Nat
        /\ Cardinality(IndentedOn(program, at)) =
             IF Current.kind \in Indenting
             THEN Cardinality(IndentedOn(program, p)) + 1 ELSE Cardinality(IndentedOn(program, p))
    BY <1>4, <1>6, IndentedOnLonger DEF Current
  <2>2. indentLevel = Cardinality(IndentedOn(program, at))
    BY <1>1, PrinterTexts
  <2>3. QED
    BY <1>1, <2>1, <2>2 DEF EndVisitLevel
<1>19. PrinterInStep'
  BY <1>1, <1>3, <1>17, <1>18 DEF PrinterInStep
<1>20. (\E T : visitResults \in Seq(T))'
  BY <1>16
<1>21. QED
  BY <1>1, <1>7, <1>8, <1>19, <1>20 DEF PrinterThere

(* The texts of the functions are the last.                                *)
LEMMA EndVisitProgramInStep ==
  ASSUME ProgramRead, PrinterThere, EndVisitProgram
  PROVE  PrinterThere'
<1>1. /\ UNCHANGED <<text, program, indentLevel>> /\ phase = "printing" /\ phase' = "printed"
      /\ next > Len(Current.kids) /\ at = << >>
      /\ visitResults' = SubSeq(visitResults, 1, Len(visitResults) - Len(program.kids))
  BY DEF EndVisitProgram
<1>2. /\ Tree(program, NodesIn(text)) /\ HasProgram
      /\ next \in Nat \ {0} /\ Len(Current.kids) \in Nat
      /\ Len(visitResults) = Cardinality(ChildrenBefore(at)) + next - 1
      /\ indentLevel = Cardinality(IndentedOn(program, at))
  BY <1>1, PrinterTexts
<1>3. Current = program
  BY <1>1, NodeAtRoot DEF Current
<1>4. next = Len(program.kids) + 1 /\ Len(program.kids) \in Nat
  <2>1. next <= Len(Current.kids) + 1
    BY <1>1, <1>2 DEF PrinterThere
  <2>2. QED
    BY <1>1, <1>2, <1>3, <2>1
<1>5. Cardinality(ChildrenBefore(at)) = 0
  <2>1. ChildrenBefore(at) = {}
    BY <1>1 DEF ChildrenBefore
  <2>2. QED
    BY <2>1, FS_EmptySet
<1>6. Len(visitResults) - Len(program.kids) = 0
  BY <1>2, <1>4, <1>5
<1>7. visitResults' = << >>
  BY <1>1, <1>6, SubSeqEmpty
<1>8. indentLevel' = 0
  <2>1. Cardinality(IndentedOn(program, << >>)) = 0
    BY <1>2, ProgramIsTree, IndentedOnRoot
  <2>2. QED
    BY <1>1, <1>2, <2>1
<1>9. QED
  BY <1>1, <1>7, <1>8 DEF PrinterThere, PrinterInStep

(* The steps keep the printer in step.                                     *)
LEMMA PrinterKept ==
  ASSUME ProgramRead, PrinterThere, [Next]_vars
  PROVE  PrinterThere'
<1>1. CASE Parse \/ Reject
  BY <1>1 DEF Parse, Reject, printer, PrinterThere, PrinterInStep
<1>2. CASE PrettyPrint
  BY <1>2, PrettyPrintInStep
<1>3. CASE VisitNode
  BY <1>3, VisitNodeInStep
<1>4. CASE EndVisit
  BY <1>4, EndVisitInStep
<1>5. CASE EndVisitProgram
  BY <1>5, EndVisitProgramInStep
<1>6. CASE AstVisualize \/ ProcessNode \/ Finish
  BY <1>6 DEF AstVisualize, ProcessNode, Finish, PrinterThere, PrinterInStep
<1>7. CASE UNCHANGED vars
  BY <1>7 DEF vars, printer, PrinterThere, PrinterInStep, IsPlace, Current
<1>8. QED
  BY <1>1, <1>2, <1>3, <1>4, <1>5, <1>6, <1>7 DEF Next, Run

(* Drawing starts at the root.                                             *)
LEMMA AstVisualizeInOrder ==
  ASSUME ProgramRead, DrawnSoFar, AstVisualize
  PROVE  DrawnSoFar'
<1>1. /\ UNCHANGED <<text, program, vertices, parent, edges>>
      /\ phase = "printed" /\ phase' = "drawing" /\ iter' = <<<< >>>>
  BY DEF AstVisualize, BeginOf
<1>2. vertices = << >> /\ parent = << >> /\ edges = {}
  BY <1>1 DEF DrawnSoFar, IsDrawing
<1>3. Place(program, NodesIn(text), << >>)
  <2>1. HasProgram
    BY <1>1 DEF HasProgram
  <2>2. QED
    BY <2>1, ProgramIsTree, PlaceRoot
<1>4. iter' \in Seq(Seq(Nat)) /\ ToSet(iter') = {<< >>} /\ DOMAIN iter' = 1 .. 1 /\ iter'[1] = << >>
  <2>1. PICK r : r = << >> /\ r \in Seq(Nat)
    <3>1. << >> \in Seq(Nat)
      OBVIOUS
    <3>2. QED
      BY <3>1, Zenon
  <2>2. PICK S : S = Seq(Nat)
    OBVIOUS
  <2>3. <<r>> \in Seq(S) /\ DOMAIN <<r>> = 1 .. 1 /\ <<r>>[1] = r
    BY <2>1, <2>2
  <2>4. ToSet(<<r>>) = {r}
    BY <2>3 DEF ToSet
  <2>5. QED
    BY <1>1, <2>1, <2>2, <2>3, <2>4
<1>5. vertices' \in Seq(Seq(Nat)) /\ parent' \in Seq(Seq(Nat)) /\ ToSet(vertices') = {} /\ DOMAIN vertices' = {}
  BY <1>1, <1>2 DEF ToSet
<1>6. Connected'
  BY <1>1, <1>2, <1>3, <1>4, <1>5 DEF Connected, IsPlace
<1>7. InOrder'
  <2>1. \A i, j \in 1 .. 1 : ~(i < j)
    OBVIOUS
  <2>2. QED
    BY <1>4, <1>5, <2>1 DEF InOrder
<1>8. ParentsOf'
  BY <1>1, <1>2 DEF ParentsOf
<1>9. QED
  BY <1>1, <1>4, <1>5, <1>6, <1>7, <1>8 DEF DrawnSoFar, IsDrawing

(* What is known of the top of the stack.                                  *)
LEMMA TopOfStack ==
  ASSUME ProgramRead, DrawnSoFar, ProcessNode, NEW p, p = Last(iter),
         NEW n, n = Len(NodeAt(program, p).kids), NEW m, m = Len(iter)
  PROVE  /\ n \in Nat /\ m \in Nat \ {0} /\ p \in Seq(Nat) /\ p = iter[m] /\ m \in DOMAIN iter
         /\ IsPlace(p) /\ DOMAIN NodeAt(program, p).kids = 1 .. n
         /\ Tree(program, NodesIn(text))
<1>1. /\ phase = "drawing" /\ iter \in Seq(Seq(Nat)) /\ Connected
      /\ iter' = Advance(program, iter) /\ ~AtEnd
  BY DEF DrawnSoFar, IsDrawing, ProcessNode
<1>2. iter # << >>
  BY <1>1 DEF AtEnd, AreEqual, EndOf
<1>3. HasProgram /\ Tree(program, NodesIn(text))
  BY <1>1, ProgramIsTree DEF HasProgram
<1>4. m \in Nat \ {0} /\ p \in Seq(Nat) /\ p = iter[m] /\ m \in DOMAIN iter
  <2>1. m \in Nat \ {0} /\ p \in Seq(Nat) /\ p = iter[m]
    BY <1>1, <1>2, FrontAndLast
  <2>2. m \in 1 .. m
    BY <2>1
  <2>3. DOMAIN iter = 1 .. m
    BY <1>1
  <2>4. QED
    BY <2>1, <2>2, <2>3
<1>5. IsPlace(p)
  BY <1>1, <1>4 DEF Connected, ToSet
<1>6. n \in Nat /\ DOMAIN NodeAt(program, p).kids = 1 .. n
  BY <1>3, <1>5, PlaceNode DEF IsPlace
<1>7. QED
  BY <1>3, <1>4, <1>5, <1>6

(* And of the stack after it.                                              *)
LEMMA StackAfter ==
  ASSUME ProgramRead, DrawnSoFar, ProcessNode
  PROVE  LET p == Last(iter)
             n == Len(NodeAt(program, p).kids)
             m == Len(iter)
         IN  /\ iter' \in Seq(Seq(Nat)) /\ Len(iter') = m - 1 + n
             /\ \A k \in 1 .. m - 1 + n : iter'[k] = IF k < m THEN iter[k] ELSE Append(p, m + n - k)
<1>1. PICK n, m : n = Len(NodeAt(program, Last(iter)).kids) /\ m = Len(iter)
  OBVIOUS
<1>2. n \in Nat /\ DOMAIN NodeAt(program, Last(iter)).kids = 1 .. n /\ m # 0
  BY <1>1, TopOfStack
<1>3. iter \in Seq(Seq(Nat)) /\ iter # << >> /\ iter' = Advance(program, iter)
  BY <1>1, <1>2 DEF DrawnSoFar, ProcessNode
<1>4. QED
  BY <1>1, <1>2, <1>3, AdvanceFact

(* The top is a new vertex.                                                *)
LEMMA TopIsNew ==
  ASSUME ProgramRead, DrawnSoFar, ProcessNode
  PROVE  vertices' = Append(vertices, Last(iter))
<1>1. PICK p, m : p = Last(iter) /\ m = Len(iter)
  OBVIOUS
<1>2. p \in Seq(Nat) /\ p = iter[m] /\ m \in DOMAIN iter
  BY <1>1, TopOfStack
<1>3. \A i \in DOMAIN vertices : Before(vertices[i], p)
  BY <1>2 DEF DrawnSoFar, IsDrawing, InOrder, ProcessNode
<1>4. ~Before(p, p)
  BY <1>2, OrderOfChildren
<1>5. p \notin Range(vertices)
  BY <1>3, <1>4 DEF Range
<1>6. QED
  BY <1>1, <1>5 DEF ProcessNode

(* The places before and after a node is processed.                        *)
LEMMA PlacesAfter ==
  ASSUME ProgramRead, DrawnSoFar, ProcessNode, NEW p, p = Last(iter)
  PROVE  /\ vertices' \in Seq(Seq(Nat)) /\ ToSet(vertices') = ToSet(vertices) \cup {p}
         /\ \A q : q \in ToSet(iter) <=> q = p \/ \E k \in 1 .. Len(iter) - 1 : q = iter[k]
         /\ \A q : q \in ToSet(iter') <=> q \in Subtrees(p) \/ \E k \in 1 .. Len(iter) - 1 : q = iter[k]
<1>1. PICK n, m : n = Len(NodeAt(program, p).kids) /\ m = Len(iter)
  OBVIOUS
<1>2. /\ n \in Nat /\ m \in Nat \ {0} /\ p \in Seq(Nat) /\ p = iter[m]
      /\ DOMAIN NodeAt(program, p).kids = 1 .. n
      /\ iter' \in Seq(Seq(Nat)) /\ Len(iter') = m - 1 + n
      /\ \A k \in 1 .. m - 1 + n : iter'[k] = IF k < m THEN iter[k] ELSE Append(p, m + n - k)
  <2>1. /\ n \in Nat /\ m \in Nat \ {0} /\ p \in Seq(Nat) /\ p = iter[m]
        /\ DOMAIN NodeAt(program, p).kids = 1 .. n
    BY <1>1, TopOfStack
  <2>2. /\ iter' \in Seq(Seq(Nat)) /\ Len(iter') = m - 1 + n
        /\ \A k \in 1 .. m - 1 + n : iter'[k] = IF k < m THEN iter[k] ELSE Append(p, m + n - k)
    BY <1>1, StackAfter
  <2>3. QED
    BY <2>1, <2>2
<1>3. vertices \in Seq(Seq(Nat)) /\ iter \in Seq(Seq(Nat))
  BY DEF DrawnSoFar
<1>4. vertices' \in Seq(Seq(Nat)) /\ ToSet(vertices') = ToSet(vertices) \cup {p}
  <2>1. PICK S : S = Seq(Nat)
    OBVIOUS
  <2>2. vertices \in Seq(S) /\ p \in S /\ vertices' = Append(vertices, p)
    BY <1>2, <1>3, <2>1, TopIsNew
  <2>3. Append(vertices, p) \in Seq(S) /\ ToSet(Append(vertices, p)) = ToSet(vertices) \cup {p}
    BY <2>2, ToSetAppend
  <2>4. QED
    BY <2>1, <2>2, <2>3
<1>5. ASSUME NEW q
      PROVE  q \in ToSet(iter) <=> q = p \/ \E k \in 1 .. m - 1 : q = iter[k]
  <2>1. DOMAIN iter = 1 .. m
    BY <1>1, <1>3
  <2>2. \A k : k \in 1 .. m <=> k = m \/ k \in 1 .. m - 1
    BY <1>2
  <2>3. q \in ToSet(iter) <=> \E k \in 1 .. m : q = iter[k]
    BY <2>1 DEF ToSet
  <2>4. QED
    BY <1>2, <2>2, <2>3
<1>6. ASSUME NEW q
      PROVE  q \in ToSet(iter') <=> q \in Subtrees(p) \/ \E k \in 1 .. m - 1 : q = iter[k]
  <2>1. DOMAIN iter' = 1 .. m - 1 + n
    BY <1>2
  <2>2. q \in ToSet(iter') <=> \E k \in 1 .. m - 1 + n : q = iter'[k]
    BY <2>1 DEF ToSet
  <2>3. Subtrees(p) = {Append(p, i) : i \in 1 .. n}
    BY <1>2, SubtreesFact
  <2>4. ASSUME NEW k \in 1 .. m - 1 + n, q = iter'[k]
        PROVE  q \in Subtrees(p) \/ \E j \in 1 .. m - 1 : q = iter[j]
    <3>1. CASE k < m
      <4>1. k \in 1 .. m - 1 /\ q = iter[k]
        BY <1>2, <2>4, <3>1
      <4>2. QED
        BY <4>1
    <3>2. CASE ~(k < m)
      <4>1. m + n - k \in 1 .. n
        BY <1>2, <3>2
      <4>2. iter'[k] = Append(p, m + n - k)
        BY <1>2, <3>2
      <4>3. QED
        BY <2>3, <2>4, <4>1, <4>2
    <3>3. QED
      BY <3>1, <3>2
  <2>5. ASSUME NEW j \in 1 .. m - 1, q = iter[j] PROVE \E k \in 1 .. m - 1 + n : q = iter'[k]
    <3>1. j \in 1 .. m - 1 + n /\ j < m
      BY <1>2
    <3>2. QED
      BY <1>2, <2>5, <3>1
  <2>6. ASSUME q \in Subtrees(p) PROVE \E k \in 1 .. m - 1 + n : q = iter'[k]
    <3>1. PICK i \in 1 .. n : q = Append(p, i)
      BY <2>3, <2>6
    <3>2. PICK k \in 1 .. m - 1 + n : k = m + n - i /\ ~(k < m) /\ m + n - k = i
      BY <1>2
    <3>3. iter'[k] = Append(p, m + n - k)
      BY <1>2, <3>2
    <3>4. QED
      BY <3>1, <3>2, <3>3
  <2>7. QED
    BY <2>2, <2>4, <2>5, <2>6
<1>7. QED
  BY <1>1, <1>4, <1>5, <1>6

(* The parents on the stack without the top one, and the edge to the top.  *)
LEMMA TopOfParents ==
  ASSUME ProgramRead, DrawnSoFar, ProcessNode
  PROVE  LET p == Last(iter)
             n == Len(NodeAt(program, p).kids)
             m == Len(iter)
         IN  /\ \E b \in Seq(Seq(Nat)) :
                  /\ parent' = PushN(b, p, n) /\ Len(b) = m - 1
                  /\ \A k \in 1 .. m - 1 : iter[k] # << >> /\ b[k] = Front(iter[k])
             /\ edges' = edges \cup {<<Front(q), q>> : q \in {p} \ {<< >>}}
<1>1. PICK p, n, m : p = Last(iter) /\ n = Len(NodeAt(program, p).kids) /\ m = Len(iter)
  OBVIOUS
<1>2. m \in Nat \ {0} /\ p \in Seq(Nat) /\ p = iter[m] /\ n \in Nat /\ m \in DOMAIN iter
  BY <1>1, TopOfStack
<1>3. ParentsOf /\ parent \in Seq(Seq(Nat)) /\ iter \in Seq(Seq(Nat))
  BY DEF DrawnSoFar, IsDrawing, ProcessNode
<1>4. DOMAIN iter = 1 .. m
  BY <1>1, <1>3
<1>5. CASE parent = << >>
  <2>1. iter = <<<< >>>>
    <3>1. Len(parent) = 0
      BY <1>5
    <3>2. QED
      BY <1>1, <1>2, <1>3, <3>1 DEF ParentsOf
  <2>2. m = 1 /\ p = << >>
    BY <1>1, <1>2, <2>1
  <2>3. parent' = PushN(parent, p, n) /\ edges' = edges
    BY <1>1, <1>5 DEF ProcessNode
  <2>4. Len(parent) = m - 1 /\ \A k \in 1 .. m - 1 : FALSE
    BY <1>5, <2>2
  <2>5. edges' = edges \cup {<<Front(q), q>> : q \in {p} \ {<< >>}}
    BY <2>2, <2>3
  <2>6. QED
    BY <1>1, <1>3, <2>3, <2>4, <2>5
<1>6. CASE parent # << >>
  <2>1. Len(parent) = m /\ \A i \in 1 .. m : iter[i] # << >> /\ parent[i] = Front(iter[i])
    BY <1>1, <1>3, <1>4, <1>6 DEF ParentsOf
  <2>2. PICK b : b = Front(parent)
    OBVIOUS
  <2>3. b \in Seq(Seq(Nat)) /\ Len(b) = m - 1 /\ Last(parent) = parent[m] /\ \A k \in 1 .. m - 1 : b[k] = parent[k]
    <3>1. /\ b \in Seq(Seq(Nat)) /\ Len(b) = Len(parent) - 1 /\ Last(parent) = parent[Len(parent)]
          /\ \A k \in 1 .. Len(parent) - 1 : b[k] = parent[k]
      BY <1>3, <1>6, <2>2, FrontAndLast
    <3>2. QED
      BY <2>1, <3>1
  <2>4. \A k \in 1 .. m - 1 : k \in 1 .. m
    BY <1>2
  <2>5. \A k \in 1 .. m - 1 : iter[k] # << >> /\ b[k] = Front(iter[k])
    BY <2>1, <2>3, <2>4
  <2>6. parent' = PushN(b, p, n) /\ edges' = edges \cup {<<Last(parent), p>>}
    BY <1>1, <1>6, <2>2 DEF ProcessNode
  <2>7. Last(parent) = Front(p) /\ p # << >>
    BY <1>2, <1>4, <2>1, <2>3
  <2>8. edges' = edges \cup {<<Front(q), q>> : q \in {p} \ {<< >>}}
    BY <2>6, <2>7
  <2>9. QED
    BY <1>1, <2>3, <2>5, <2>6, <2>8
<1>7. QED
  BY <1>1, <1>5, <1>6

(* PushN pushes n times.                                                   *)
LEMMA PushNFact ==
  ASSUME NEW b \in Seq(Seq(Nat)), NEW p \in Seq(Nat), NEW n \in Nat
  PROVE  /\ PushN(b, p, n) \in Seq(Seq(Nat)) /\ Len(PushN(b, p, n)) = Len(b) + n
         /\ \A k \in 1 .. Len(b) + n : PushN(b, p, n)[k] = IF k <= Len(b) THEN b[k] ELSE p
<1>1. PICK S : S = Seq(Nat)
  OBVIOUS
<1>2. b \in Seq(S) /\ p \in S
  BY <1>1
<1>3. PICK c : c = [i \in 1 .. n |-> p]
  OBVIOUS
<1>4. c \in Seq(S) /\ Len(c) = n /\ \A i \in 1 .. n : c[i] = p
  BY <1>2, <1>3
<1>5. PICK l \in Nat : l = Len(b)
  BY <1>2
<1>6. PICK t : t = PushN(b, p, n)
  OBVIOUS
<1>7. t = b \o c
  BY <1>3, <1>6 DEF PushN
<1>8. /\ t \in Seq(S) /\ Len(t) = l + n
      /\ \A k \in 1 .. l + n : t[k] = IF k <= l THEN b[k] ELSE c[k - l]
  BY <1>2, <1>4, <1>5, <1>7, ConcatProperties
<1>9. \A k \in 1 .. l + n : ~(k <= l) => k - l \in 1 .. n
  BY <1>5
<1>10. QED
  BY <1>1, <1>4, <1>5, <1>6, <1>8, <1>9

(* The parents stay in step with the stack.                                *)
LEMMA ParentsKept ==
  ASSUME ProgramRead, DrawnSoFar, ProcessNode
  PROVE  ParentsOf' /\ parent' \in Seq(Seq(Nat))
<1>1. PICK p, n, m : p = Last(iter) /\ n = Len(NodeAt(program, p).kids) /\ m = Len(iter)
  OBVIOUS
<1>2. n \in Nat /\ m \in Nat \ {0} /\ p \in Seq(Nat)
  BY <1>1, TopOfStack
<1>3. PICK b \in Seq(Seq(Nat)) :
        /\ parent' = PushN(b, p, n) /\ Len(b) = m - 1
        /\ \A k \in 1 .. m - 1 : iter[k] # << >> /\ b[k] = Front(iter[k])
  BY <1>1, TopOfParents
<1>4. /\ parent' \in Seq(Seq(Nat)) /\ Len(parent') = m - 1 + n
      /\ \A k \in 1 .. m - 1 + n : parent'[k] = IF k <= m - 1 THEN b[k] ELSE p
  <2>1. PICK t : t = PushN(b, p, n)
    OBVIOUS
  <2>2. /\ t \in Seq(Seq(Nat)) /\ Len(t) = Len(b) + n
        /\ \A k \in 1 .. Len(b) + n : t[k] = IF k <= Len(b) THEN b[k] ELSE p
    BY <1>2, <2>1, PushNFact
  <2>3. QED
    BY <1>3, <2>1, <2>2
<1>5. /\ iter' \in Seq(Seq(Nat)) /\ Len(iter') = m - 1 + n
      /\ \A k \in 1 .. m - 1 + n : iter'[k] = IF k < m THEN iter[k] ELSE Append(p, m + n - k)
  BY <1>1, StackAfter
<1>6. ASSUME NEW k \in 1 .. m - 1 + n
      PROVE  iter'[k] # << >> /\ parent'[k] = Front(iter'[k])
  <2>1. CASE k < m
    <3>1. k \in 1 .. m - 1 /\ k <= m - 1
      BY <1>2, <2>1
    <3>2. iter'[k] = iter[k] /\ parent'[k] = b[k]
      BY <1>4, <1>5, <2>1, <3>1
    <3>3. QED
      BY <1>3, <3>1, <3>2
  <2>2. CASE ~(k < m)
    <3>1. PICK i \in Nat : i = m + n - k
      BY <1>2
    <3>2. ~(k <= m - 1)
      BY <1>2, <2>2
    <3>3. iter'[k] = Append(p, i) /\ parent'[k] = p
      BY <1>4, <1>5, <2>2, <3>1, <3>2
    <3>4. Append(p, i) # << >>
      <4>1. PICK q : q = Append(p, i)
        OBVIOUS
      <4>2. q # << >>
        BY <1>2, <3>1, <4>1, LongerPath
      <4>3. QED
        BY <4>1, <4>2
    <3>5. Front(Append(p, i)) = p
      BY <1>2, <3>1, LongerPathEnds
    <3>6. QED
      BY <3>3, <3>4, <3>5
  <2>3. QED
    BY <2>1, <2>2
<1>7. DOMAIN iter' = 1 .. m - 1 + n
  BY <1>5
<1>8. QED
  BY <1>4, <1>5, <1>6, <1>7 DEF ParentsOf

(* What is drawn stays connected with what is to be drawn.                 *)
LEMMA ConnectedKept ==
  ASSUME ProgramRead, DrawnSoFar, ProcessNode
  PROVE  Connected'
<1>1. PICK p, n, m : p = Last(iter) /\ n = Len(NodeAt(program, p).kids) /\ m = Len(iter)
  OBVIOUS
<1>2. /\ n \in Nat /\ p \in Seq(Nat) /\ IsPlace(p) /\ DOMAIN NodeAt(program, p).kids = 1 .. n
      /\ Tree(program, NodesIn(text))
  BY <1>1, TopOfStack
<1>3. PICK F : F = {iter[k] : k \in 1 .. m - 1}
  OBVIOUS
<1>4. PICK V, I, E : V = ToSet(vertices) /\ I = ToSet(iter) /\ E = edges
  OBVIOUS
<1>5. /\ ToSet(vertices') = V \cup {p} /\ I = F \cup {p} /\ ToSet(iter') = F \cup Subtrees(p)
  <2>1. /\ ToSet(vertices') = ToSet(vertices) \cup {p}
        /\ \A q : q \in ToSet(iter) <=> q = p \/ \E k \in 1 .. m - 1 : q = iter[k]
        /\ \A q : q \in ToSet(iter') <=> q \in Subtrees(p) \/ \E k \in 1 .. m - 1 : q = iter[k]
    BY <1>1, PlacesAfter
  <2>2. QED
    BY <1>3, <1>4, <2>1
<1>6. /\ << >> \in V \cup I
      /\ \A q \in V : Subtrees(q) \subseteq V \cup I
      /\ \A q \in V \cup I : IsPlace(q) /\ (q # << >> => Front(q) \in V)
      /\ E = {<<Front(q), q>> : q \in V \ {<< >>}}
  BY <1>4 DEF DrawnSoFar, IsDrawing, ProcessNode, Connected
<1>7. edges' = E \cup {<<Front(q), q>> : q \in {p} \ {<< >>}}
  BY <1>1, <1>4, TopOfParents
<1>8. UNCHANGED <<text, program>>
  BY DEF ProcessNode
<1>9. ASSUME NEW q PROVE Subtrees(q)' = Subtrees(q) /\ IsPlace(q)' = IsPlace(q)
  BY <1>8 DEF Subtrees, GetSubtrees, IsPlace
<1>10. ASSUME NEW q \in Subtrees(p) PROVE IsPlace(q) /\ Front(q) = p
  <2>1. PICK i \in DOMAIN NodeAt(program, p).kids : q = Append(p, i)
    BY SubtreesFact
  <2>2. i \in Nat
    BY <1>2
  <2>3. IsPlace(q)
    BY <1>2, <2>1, PlaceChild DEF IsPlace
  <2>4. QED
    BY <1>2, <2>1, <2>2, <2>3, LongerPathEnds
<1>11. << >> \in ToSet(vertices') \cup ToSet(iter')
  BY <1>5, <1>6
<1>12. \A q \in ToSet(vertices') : Subtrees(q) \subseteq ToSet(vertices') \cup ToSet(iter')
  BY <1>5, <1>6
<1>13. \A q \in ToSet(vertices') \cup ToSet(iter') : IsPlace(q) /\ (q # << >> => Front(q) \in ToSet(vertices'))
  BY <1>5, <1>6, <1>10
<1>14. edges' = {<<Front(q), q>> : q \in ToSet(vertices') \ {<< >>}}
  BY <1>5, <1>6, <1>7
<1>15. QED
  BY <1>9, <1>11, <1>12, <1>13, <1>14 DEF Connected

(* Vertices and stack stay in pre-order.                                   *)
LEMMA InOrderKept ==
  ASSUME ProgramRead, DrawnSoFar, ProcessNode
  PROVE  InOrder'
<1>1. PICK p, n, m : p = Last(iter) /\ n = Len(NodeAt(program, p).kids) /\ m = Len(iter)
  OBVIOUS
<1>2. n \in Nat /\ m \in Nat \ {0} /\ p \in Seq(Nat) /\ p = iter[m]
  BY <1>1, TopOfStack
<1>3. iter \in Seq(Seq(Nat)) /\ vertices \in Seq(Seq(Nat)) /\ InOrder
  BY DEF DrawnSoFar, IsDrawing, ProcessNode
<1>4. DOMAIN iter = 1 .. m /\ \A k \in 1 .. m : iter[k] \in Seq(Nat)
  BY <1>1, <1>3
<1>5. PICK l \in Nat : l = Len(vertices) /\ DOMAIN vertices = 1 .. l
  BY <1>3
<1>6. PICK w : w = vertices'
  OBVIOUS
<1>7. /\ DOMAIN w = 1 .. l + 1 /\ w[l + 1] = p /\ \A i \in 1 .. l : w[i] = vertices[i]
  <2>1. w = Append(vertices, p)
    BY <1>1, <1>6, TopIsNew
  <2>2. QED
    BY <1>3, <1>5, <2>1
<1>8. \A i \in 1 .. l : vertices[i] \in Seq(Nat)
  BY <1>3, <1>5
<1>9. PICK s : s = iter'
  OBVIOUS
<1>10. /\ s \in Seq(Seq(Nat)) /\ Len(s) = m - 1 + n
       /\ \A k \in 1 .. m - 1 + n : s[k] = IF k < m THEN iter[k] ELSE Append(p, m + n - k)
  BY <1>1, <1>9, StackAfter
<1>11. DOMAIN s = 1 .. m - 1 + n
  BY <1>10
<1>12. /\ \A i, j \in 1 .. l : i < j => Before(vertices[i], vertices[j])
       /\ \A i \in 1 .. l : \A j \in 1 .. m : Before(vertices[i], iter[j])
       /\ \A i, j \in 1 .. m : i < j => LeftOf(iter[j], iter[i])
  BY <1>3, <1>4, <1>5 DEF InOrder
<1>13. m \in 1 .. m /\ \A k \in 1 .. m - 1 + n : k < m => k \in 1 .. m
  BY <1>2
<1>14. ASSUME NEW k \in 1 .. m - 1 + n, ~(k < m)
       PROVE  m + n - k \in Nat
  BY <1>2, <1>14
<1>15. ASSUME NEW i \in 1 .. l + 1, NEW j \in 1 .. l + 1, i < j PROVE Before(w[i], w[j])
  <2>1. i \in 1 .. l /\ (j \in 1 .. l \/ j = l + 1)
    BY <1>15
  <2>2. CASE j \in 1 .. l
    BY <1>7, <1>12, <1>15, <2>1, <2>2
  <2>3. CASE j = l + 1
    BY <1>2, <1>7, <1>12, <1>13, <2>1, <2>3
  <2>4. QED
    BY <2>1, <2>2, <2>3
<1>16. ASSUME NEW i \in 1 .. l + 1, NEW j \in 1 .. m - 1 + n PROVE Before(w[i], s[j])
  <2>1. CASE i \in 1 .. l /\ j < m
    <3>1. w[i] = vertices[i] /\ s[j] = iter[j] /\ j \in 1 .. m
      BY <1>7, <1>10, <1>13, <2>1
    <3>2. QED
      BY <1>12, <2>1, <3>1
  <2>2. CASE i \in 1 .. l /\ ~(j < m)
    <3>1. PICK c \in Nat : c = m + n - j
      BY <1>14, <2>2
    <3>2. w[i] = vertices[i] /\ s[j] = Append(p, c) /\ w[i] \in Seq(Nat)
      BY <1>7, <1>8, <1>10, <2>2, <3>1
    <3>3. Before(w[i], p)
      BY <1>2, <1>12, <1>13, <2>2, <3>2
    <3>4. QED
      BY <1>2, <3>2, <3>3, OrderLonger
  <2>3. CASE i = l + 1 /\ j < m
    <3>1. w[i] = iter[m] /\ s[j] = iter[j] /\ j \in 1 .. m
      BY <1>2, <1>7, <1>10, <1>13, <2>3
    <3>2. LeftOf(iter[m], iter[j])
      BY <1>12, <1>13, <2>3, <3>1
    <3>3. QED
      BY <3>1, <3>2 DEF Before
  <2>4. CASE i = l + 1 /\ ~(j < m)
    <3>1. PICK c \in Nat : c = m + n - j
      BY <1>14, <2>4
    <3>2. w[i] = p /\ s[j] = Append(p, c)
      BY <1>7, <1>10, <2>4, <3>1
    <3>3. QED
      BY <1>2, <3>2, OrderOfChildren
  <2>5. QED
    BY <2>1, <2>2, <2>3, <2>4
<1>17. ASSUME NEW i \in 1 .. m - 1 + n, NEW j \in 1 .. m - 1 + n, i < j PROVE LeftOf(s[j], s[i])
  <2>1. CASE j < m
    <3>1. i < m
      BY <1>2, <1>17, <2>1
    <3>2. s[i] = iter[i] /\ s[j] = iter[j] /\ i \in 1 .. m /\ j \in 1 .. m
      BY <1>10, <1>13, <2>1, <3>1
    <3>3. QED
      BY <1>12, <1>17, <3>2
  <2>2. CASE i < m /\ ~(j < m)
    <3>1. PICK c \in Nat : c = m + n - j
      BY <1>14, <2>2
    <3>2. s[i] = iter[i] /\ s[j] = Append(p, c) /\ i \in 1 .. m
      BY <1>10, <1>13, <2>2, <3>1
    <3>3. LeftOf(p, iter[i]) /\ iter[i] \in Seq(Nat)
      BY <1>2, <1>4, <1>12, <1>13, <2>2, <3>2
    <3>4. QED
      BY <1>2, <3>1, <3>2, <3>3, OrderLonger
  <2>3. CASE ~(i < m) /\ ~(j < m)
    <3>1. PICK c \in Nat : c = m + n - j
      BY <1>14, <2>3
    <3>2. PICK d \in Nat : d = m + n - i
      BY <1>14, <2>3
    <3>3. s[i] = Append(p, d) /\ s[j] = Append(p, c)
      BY <1>10, <2>3, <3>1, <3>2
    <3>4. c < d
      BY <1>2, <1>17, <3>1, <3>2
    <3>5. QED
      BY <1>2, <3>3, <3>4, OrderOfChildren
  <2>4. QED
    BY <1>2, <1>17, <2>1, <2>2, <2>3
<1>18. QED
  BY <1>6, <1>7, <1>9, <1>11, <1>15, <1>16, <1>17 DEF InOrder

(* The steps keep what is drawn in order.                                  *)
LEMMA DrawnKept ==
  ASSUME ProgramRead, DrawnSoFar, [Next]_vars
  PROVE  DrawnSoFar'
<1>1. CASE Parse \/ Reject \/ PrettyPrint \/ VisitNode \/ EndVisit \/ EndVisitProgram
  <2>1. UNCHANGED <<iter, vertices, parent, edges>>
    BY <1>1 DEF Parse, Reject, PrettyPrint, VisitNode, EndVisit, EndVisitProgram, visualizer
  <2>2. ~IsDrawing /\ ~IsDrawing' /\ phase' # "drawn"
    BY <1>1 DEF Parse, Reject, PrettyPrint, VisitNode, EndVisit, EndVisitProgram, IsDrawing
  <2>3. QED
    BY <2>1, <2>2 DEF DrawnSoFar
<1>2. CASE AstVisualize
  BY <1>2, AstVisualizeInOrder
<1>3. CASE ProcessNode
  <2>1. phase = "drawing" /\ phase' = "drawing"
    BY <1>3 DEF ProcessNode
  <2>2. Connected' /\ InOrder'
    BY <1>3, ConnectedKept, InOrderKept
  <2>3. ParentsOf' /\ parent' \in Seq(Seq(Nat))
    BY <1>3, ParentsKept
  <2>4. iter' \in Seq(Seq(Nat)) /\ vertices' \in Seq(Seq(Nat))
    BY <1>3, StackAfter, PlacesAfter
  <2>5. QED
    BY <2>1, <2>2, <2>3, <2>4 DEF DrawnSoFar, IsDrawing
<1>4. CASE Finish \/ UNCHANGED vars
  <2>1. UNCHANGED <<text, program, iter, vertices, parent, edges>>
    BY <1>4 DEF Finish, vars, visualizer
  <2>2. IsDrawing' = IsDrawing /\ (phase' = "drawn" => phase = "drawn" \/ iter = << >>)
    BY <1>4 DEF Finish, vars, IsDrawing, AtEnd, AreEqual, EndOf
  <2>3. Connected => Connected'
    BY <2>1 DEF Connected, Subtrees, GetSubtrees, IsPlace
  <2>4. (InOrder => InOrder') /\ (ParentsOf => ParentsOf')
    BY <2>1 DEF InOrder, ParentsOf
  <2>5. QED
    BY <2>1, <2>2, <2>3, <2>4 DEF DrawnSoFar
<1>5. QED
  BY <1>1, <1>2, <1>3, <1>4 DEF Next, Run

-----------------------------------------------------------------------------
(* The theorems.                                                           *)

(* FrontEndInv is inductive.                                               *)
LEMMA FrontEndInvariant ==
  Spec => []FrontEndInv
<1>1. Init => FrontEndInv
  <2>1. ASSUME Init PROVE ProgramRead
    BY <2>1 DEF Init, ProgramRead, HasProgram
  <2>2. ASSUME Init PROVE PrinterThere
    BY <2>2 DEF Init, PrinterThere, PrinterInStep
  <2>3. ASSUME Init PROVE DrawnSoFar
    <3>1. << >> \in Seq(Seq(Nat))
      OBVIOUS
    <3>2. QED
      BY <2>3, <3>1 DEF Init, DrawnSoFar, IsDrawing
  <2>4. QED
    BY <2>1, <2>2, <2>3 DEF FrontEndInv
<1>2. FrontEndInv /\ [Next]_vars => FrontEndInv'
  BY ProgramReadKept, PrinterKept, DrawnKept DEF FrontEndInv
<1>3. QED
  BY <1>1, <1>2, PTL DEF Spec

(* The printer's stack and its indentation are in step with the place it   *)
(* is at, in every program (PrettyPrinter.h:20).                           *)
THEOREM PrinterInStepInvariant ==
  Spec => []PrinterInStep
<1>1. FrontEndInv => PrinterInStep
  BY DEF FrontEndInv, PrinterThere
<1>2. QED
  BY <1>1, FrontEndInvariant, PTL

(* What is drawn is the tree, in pre-order (ASTVisualizer.cpp:35), of every*)
(* program: the iterator skips no node and repeats none.                   *)
THEOREM GraphIsTreeInvariant ==
  Spec => []GraphIsTree
<1>1. FrontEndInv => GraphIsTree
  <2>1. SUFFICES ASSUME FrontEndInv, phase = "drawn" PROVE GraphIsTree
    BY DEF GraphIsTree
  <2>2. /\ Connected /\ InOrder /\ iter = << >> /\ HasProgram
        /\ Tree(program, NodesIn(text))
    <3>1. HasProgram
      BY <2>1 DEF HasProgram
    <3>2. QED
      BY <2>1, <3>1, ProgramIsTree DEF FrontEndInv, DrawnSoFar, IsDrawing
  <2>3. PICK V : V = Range(vertices)
    OBVIOUS
  <2>4. V = ToSet(vertices) /\ ToSet(iter) = {}
    BY <2>2, <2>3 DEF Range, ToSet
  <2>5. /\ << >> \in V /\ \A p \in V : Subtrees(p) \subseteq V
        /\ \A p \in V : IsPlace(p) /\ (p # << >> => Front(p) \in V)
        /\ edges = {<<Front(p), p>> : p \in V \ {<< >>}}
    BY <2>2, <2>4 DEF Connected
  <2>6. ASSUME NEW p \in V, p # << >> PROVE p \in Subtrees(Front(p))
    <3>1. PICK q, i : q = Front(p) /\ i = Last(p)
      OBVIOUS
    <3>2. p = Append(q, i) /\ i \in DOMAIN NodeAt(program, q).kids
      BY <2>2, <2>5, <2>6, <3>1, PlaceParent DEF IsPlace
    <3>3. QED
      BY <3>1, <3>2, SubtreesFact
  <2>7. V = {<< >>} \cup UNION {Subtrees(p) : p \in V}
    BY <2>5, <2>6
  <2>8. \A i, j \in DOMAIN vertices : i < j => Before(vertices[i], vertices[j])
    BY <2>2 DEF InOrder
  <2>9. QED
    BY <2>3, <2>5, <2>7, <2>8 DEF GraphIsTree
<1>2. QED
  BY <1>1, FrontEndInvariant, PTL

=============================================================================
