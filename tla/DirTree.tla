------------------------------ MODULE DirTree -------------------------------
(***************************************************************************)
(* What the directory operations promise: a tree of named nodes.  An edge  *)
(* says that directory dir lists node under name, and what the node is.    *)
(*                                                                         *)
(* Every operation starts at the root, so it touches attached directories  *)
(* only.  A rename takes its node out of the tree and puts it back         *)
(* elsewhere; one that fails in between leaves the node, with all that is  *)
(* below it, out of the tree for good.                                     *)
(***************************************************************************)
EXTENDS Naturals

CONSTANTS Root, Nodes,
          Dir          \* the mode of a node that is a directory

VARIABLES tree,     \* the set of edges
          moving    \* the node a rename has taken out, or Nobody

vars == <<tree, moving>>

Nobody == [node |-> 0, mode |-> 0]

\* The root and every directory under it: the least set of nodes that has the
\* root and the directories listed by a directory of the set.
Attached ==
  {i \in Nodes : \A S \in SUBSET Nodes :
      (Root \in S /\ \A e \in tree : e.dir \in S /\ e.mode = Dir => e.node \in S)
        => i \in S}

FreeName(d, n) == \A e \in tree : ~ (e.dir = d /\ e.name = n)
Unlisted(i) == i # Root /\ \A e \in tree : e.node # i
Leaf(i) == \A e \in tree : e.dir # i

Init == tree = {} /\ moving = Nobody

Create(e) ==
  /\ e.dir \in Attached /\ FreeName(e.dir, e.name)
  /\ e.node \in Nodes /\ Unlisted(e.node) /\ Leaf(e.node)
  /\ tree' = tree \cup {e}
  /\ UNCHANGED moving

Delete(e) ==
  /\ e.dir \in Attached /\ Leaf(e.node)
  /\ tree' = tree \ {e}
  /\ UNCHANGED moving

Detach(e) ==
  /\ e.dir \in Attached /\ moving = Nobody
  /\ tree' = tree \ {e}
  /\ moving' = [node |-> e.node, mode |-> e.mode]

Attach(e) ==
  /\ e.dir \in Attached /\ FreeName(e.dir, e.name)
  /\ moving = [node |-> e.node, mode |-> e.mode]
  /\ tree' = tree \cup {e}
  /\ moving' = Nobody

Abandon == moving # Nobody /\ moving' = Nobody /\ UNCHANGED tree

Format == tree' = {} /\ moving' = Nobody

\* An edge that differs before and after tells which edge a step is about.
Next ==
  \/ \E e \in tree' \ tree : Create(e) \/ Attach(e)
  \/ \E e \in tree \ tree' : Delete(e) \/ Detach(e)
  \/ Abandon
  \/ Format

Spec == Init /\ [][Next]_vars
=============================================================================
