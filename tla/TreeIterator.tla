---------------------------- MODULE TreeIterator ----------------------------
(***************************************************************************)
(* The pre-order iterator over syntax trees (src/frontend/iterators).  A   *)
(* SyntaxTree is known by its root, which is known by its path from the    *)
(* root of the iterated tree.  An iterator is the stack of the subtrees it *)
(* still has to go through, the last being the top.                        *)
(***************************************************************************)
EXTENDS TipAST

(* SyntaxTree::begin and end.                                              *)
BeginOf(root) == <<root>>
EndOf(root)   == <<>>

(* SyntaxTree::getSubtrees.                                                *)
GetSubtrees(tree, path) == [i \in DOMAIN NodeAt(tree, path).kids |-> Append(path, i)]

(* Slip: the subtrees are pushed in the order of the children.             *)
AdvanceForward(tree, stack) ==
  IF stack = <<>> THEN stack ELSE Front(stack) \o GetSubtrees(tree, Last(stack))

(* Slip: a leaf is not popped.                                             *)
AdvanceStuck(tree, stack) ==
  CASE stack = <<>> -> stack
    [] stack # <<>> /\ GetSubtrees(tree, Last(stack)) = <<>> -> stack
    [] OTHER -> Front(stack) \o Reverse(GetSubtrees(tree, Last(stack)))

(* operator++: the top gives way to its subtrees, the first one on top.    *)
Advance(tree, stack) ==
  IF stack = <<>> THEN stack ELSE Front(stack) \o Reverse(GetSubtrees(tree, Last(stack)))

(* are_equal: "at the same point in the traversal process", decided by the *)
(* iterated trees, the sizes of the stacks and their tops.                 *)
AreEqual(lhsTree, lhs, rhsTree, rhs) ==
  /\ lhsTree = rhsTree
  /\ Len(lhs) = Len(rhs)
  /\ lhs # <<>> /\ rhs # <<>> => Last(lhs) = Last(rhs)
=============================================================================
