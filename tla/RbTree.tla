------------------------------- MODULE RbTree --------------------------------
(***************************************************************************)
(* net/rbtree.c: the red-black tree that maps a connection's file          *)
(* descriptor to its conn structure, used by one caller at a time (the way *)
(* tests/test_rbtree.c uses it).                                           *)
(*                                                                         *)
(* The heap is kept pointer by pointer.  A node is named by its key: the   *)
(* code never has two nodes of one key, and a node's key and data are set  *)
(* once, by rb_new_node.  One action is one iteration of a loop of the     *)
(* code, or the straight-line code between two loops.  The code's mirrored *)
(* left and right branches are one action with a side.                     *)
(***************************************************************************)
EXTENDS Integers

CONSTANTS Keys,   \* the file descriptors
          NULL    \* the null pointer

ASSUME KeysAssumption == Keys \subseteq Nat /\ NULL \notin Keys

RED   == "RED"
BLACK == "BLACK"

Side == {"left", "right"}
Pointer == Keys \cup {NULL}

VARIABLES
  tree,    \* the heap and the caller's root pointer
  pc,      \* where the running call is; "idle" between calls
  op,      \* the running call
  key,     \* its argument
  node,    \* the local variables node and
  parent,  \*   parent of the functions of rbtree.c
  answer   \* what the last call returned, if it was an rb_search (see ConnIndex)

vars == <<tree, pc, op, key, node, parent, answer>>

Opposite(s) == IF s = "left" THEN "right" ELSE "left"

\* if (x) x->f = v
SetIfNode(f, x, v) == IF x = NULL THEN f ELSE [f EXCEPT ![x] = v]

IsBlack(t, n) == n # NULL => t.color[n] = BLACK

\* The link that led to n (from p, or the root pointer) leads to x.
ReplaceChild(t, p, n, x) ==
  IF p = NULL THEN [t EXCEPT !.root = x]
  ELSE IF t.child["left"][p] = n THEN [t EXCEPT !.child["left"][p] = x]
  ELSE [t EXCEPT !.child["right"][p] = x]

\* Mutant: the subtree that changes sides keeps its parent pointer.
rb_rotate_NoAdopt(t, n, s) ==
  LET o == Opposite(s)
      up == t.child[o][n]
      p == t.parent[n]
      turned == [t EXCEPT !.child[o][n] = t.child[s][up],
                          !.child[s][up] = n,
                          !.parent = [@ EXCEPT ![up] = p, ![n] = up]]
  IN  ReplaceChild(turned, p, n, up)

\* rb_rotate_left and rb_rotate_right: n goes down on side s.
rb_rotate(t, n, s) ==
  LET o == Opposite(s)
      up == t.child[o][n]
      moved == t.child[s][up]
      p == t.parent[n]
      turned == [t EXCEPT !.child[o][n] = moved,
                          !.child[s][up] = n,
                          !.parent = [SetIfNode(@, moved, n) EXCEPT ![up] = p, ![n] = up]]
  IN  ReplaceChild(turned, p, n, up)

Return == /\ pc' = "idle"
          /\ op' = "none"
          /\ key' = NULL
          /\ node' = NULL
          /\ parent' = NULL

------------------------------------------------------------------------------
Init ==
  /\ tree = [nodes |-> {}, root |-> NULL,
             child |-> [s \in Side |-> [k \in Keys |-> NULL]],
             parent |-> [k \in Keys |-> NULL],
             color |-> [k \in Keys |-> RED]]
  /\ pc = "idle"
  /\ op = "none"
  /\ key = NULL
  /\ node = NULL
  /\ parent = NULL
  /\ answer = <<>>

\* rb_insert, rb_search and rb_erase all begin with rb_search_auxiliary.
Call(o, k) ==
  /\ pc = "idle"
  /\ pc' = "search"
  /\ op' = o
  /\ key' = k
  /\ node' = tree.root
  /\ parent' = NULL
  /\ answer' = <<>>
  /\ UNCHANGED tree

\* One iteration of rb_search_auxiliary that goes on to a child.
rb_search_auxiliary ==
  /\ pc = "search"
  /\ node # NULL
  /\ node # key
  /\ parent' = node
  /\ node' = tree.child[IF node > key THEN "left" ELSE "right"][node]
  /\ UNCHANGED <<tree, pc, op, key, answer>>

\* Mutant: the answer is taken from the saved parent.
rb_search_Parent ==
  /\ pc = "search"
  /\ op = "search"
  /\ node \in {NULL, key}
  /\ answer' = <<key, parent # NULL>>
  /\ Return
  /\ UNCHANGED tree

rb_search ==
  /\ pc = "search"
  /\ op = "search"
  /\ node \in {NULL, key}
  /\ answer' = <<key, node = key>>
  /\ Return
  /\ UNCHANGED tree

\* rb_insert of a key that is there, rb_erase of one that is not.
NothingToDo ==
  /\ pc = "search"
  /\ \/ op = "insert" /\ node = key
     \/ op = "erase" /\ node = NULL
  /\ Return
  /\ UNCHANGED <<tree, answer>>

------------------------------------------------------------------------------
(* rb_insert *)

NewNode(t, k, p) ==
  [t EXCEPT !.nodes = @ \cup {k}, !.parent[k] = p, !.color[k] = RED,
            !.child["left"][k] = NULL, !.child["right"][k] = NULL]

\* Mutant: the new node is linked on the wrong side.
rb_insert_WrongSide ==
  /\ pc = "search"
  /\ op = "insert"
  /\ node = NULL
  /\ tree' = LET t == NewNode(tree, key, parent)
             IN  IF parent = NULL THEN [t EXCEPT !.root = key]
                 ELSE [t EXCEPT !.child[IF parent < key THEN "left" ELSE "right"][parent] = key]
  /\ node' = key
  /\ pc' = "insert_rebalance"
  /\ UNCHANGED <<op, key, parent, answer>>

\* parent->key > key ? parent->left = node : parent->right = node
rb_insert ==
  /\ pc = "search"
  /\ op = "insert"
  /\ node = NULL
  /\ tree' = LET t == NewNode(tree, key, parent)
             IN  IF parent = NULL THEN [t EXCEPT !.root = key]
                 ELSE [t EXCEPT !.child[IF parent > key THEN "left" ELSE "right"][parent] = key]
  /\ node' = key
  /\ pc' = "insert_rebalance"
  /\ UNCHANGED <<op, key, parent, answer>>

\* while ((parent = node->parent) && parent->color == RED)
RedParent == tree.parent[node] # NULL /\ tree.color[tree.parent[node]] = RED

\* The side of the grandparent that the parent is on.
ParentSide == LET p == tree.parent[node]
              IN  IF tree.child["left"][tree.parent[p]] = p THEN "left" ELSE "right"

Uncle == tree.child[Opposite(ParentSide)][tree.parent[tree.parent[node]]]

\* The uncle is red: recolour and go on from the grandparent.
InsertRecolor ==
  /\ pc = "insert_rebalance"
  /\ RedParent
  /\ ~IsBlack(tree, Uncle)
  /\ LET p == tree.parent[node]
         g == tree.parent[p]
     IN  /\ tree' = [tree EXCEPT !.color[Uncle] = BLACK, !.color[p] = BLACK, !.color[g] = RED]
         /\ node' = g
  /\ UNCHANGED <<pc, op, key, parent, answer>>

\* The uncle is black: an inner node is first turned into an outer one, then
\* the grandparent goes down.
InsertRotate ==
  /\ pc = "insert_rebalance"
  /\ RedParent
  /\ IsBlack(tree, Uncle)
  /\ LET p == tree.parent[node]
         g == tree.parent[p]
         s == ParentSide
         inner == tree.child[Opposite(s)][p] = node
         t == IF inner THEN rb_rotate(tree, p, s) ELSE tree
         top == IF inner THEN node ELSE p
     IN  /\ tree' = rb_rotate([t EXCEPT !.color[top] = BLACK, !.color[g] = RED], g, Opposite(s))
         /\ node' = IF inner THEN p ELSE node
  /\ UNCHANGED <<pc, op, key, parent, answer>>

\* root->color = BLACK; return root
InsertDone ==
  /\ pc = "insert_rebalance"
  /\ ~RedParent
  /\ tree' = [tree EXCEPT !.color[tree.root] = BLACK]
  /\ Return
  /\ UNCHANGED answer

------------------------------------------------------------------------------
(* rb_erase *)

\* free(old)
FreeNode(t, k) ==
  [t EXCEPT !.nodes = @ \ {k}, !.parent[k] = NULL, !.color[k] = RED,
            !.child["left"][k] = NULL, !.child["right"][k] = NULL]

\* if (color == BLACK) rb_erase_rebalance(child, parent, root)
RebalanceIf(color, child, p) ==
  IF color = BLACK
  THEN /\ pc' = "erase_rebalance"
       /\ node' = child
       /\ parent' = p
       /\ UNCHANGED <<op, key>>
  ELSE Return

TwoChildren(n) == \A s \in Side : tree.child[s][n] # NULL

\* A node with two children: its successor is looked for in its right subtree.
FindSuccessor ==
  /\ pc = "search"
  /\ op = "erase"
  /\ node = key
  /\ TwoChildren(key)
  /\ node' = tree.child["right"][key]
  /\ pc' = "successor"
  /\ UNCHANGED <<tree, op, key, parent, answer>>

\* Mutant: the loop does not advance.
SuccessorStep_Stay ==
  /\ pc = "successor"
  /\ tree.child["left"][node] # NULL
  /\ UNCHANGED vars

\* while ((left = node->left) != NULL) node = left
SuccessorStep ==
  /\ pc = "successor"
  /\ tree.child["left"][node] # NULL
  /\ node' = tree.child["left"][node]
  /\ UNCHANGED <<tree, pc, op, key, parent, answer>>

\* The successor is unlinked and put in the place of the erased node.
EraseWithSuccessor ==
  /\ pc = "successor"
  /\ tree.child["left"][node] = NULL
  /\ LET child == tree.child["right"][node]
         p == tree.parent[node]
         cut == ReplaceChild([tree EXCEPT !.parent = SetIfNode(@, child, p)], p, node, child)
         put == [cut EXCEPT !.parent[node] = cut.parent[key],
                            !.color[node] = cut.color[key],
                            !.child["left"][node] = cut.child["left"][key],
                            !.child["right"][node] = cut.child["right"][key]]
         linked == ReplaceChild(put, put.parent[key], key, node)
         adopted == [linked EXCEPT !.parent =
                       SetIfNode([@ EXCEPT ![cut.child["left"][key]] = node],
                                 cut.child["right"][key], node)]
     IN  /\ tree' = FreeNode(adopted, key)
         /\ RebalanceIf(tree.color[node], child, IF p = key THEN node ELSE p)
  /\ UNCHANGED answer

\* A node with at most one child is replaced by that child.
EraseNode ==
  /\ pc = "search"
  /\ op = "erase"
  /\ node = key
  /\ key # NULL
  /\ ~TwoChildren(key)
  /\ LET child == IF tree.child["left"][key] = NULL
                  THEN tree.child["right"][key] ELSE tree.child["left"][key]
         p == tree.parent[key]
         cut == ReplaceChild([tree EXCEPT !.parent = SetIfNode(@, child, p)], p, key, child)
     IN  /\ tree' = FreeNode(cut, key)
         /\ RebalanceIf(tree.color[key], child, p)
  /\ UNCHANGED answer

\* Mutant: the loop does not stop at the root.
Deficient_AtRoot == IsBlack(tree, node)

\* while ((!node || node->color == BLACK) && node != root)
Deficient == IsBlack(tree, node) /\ node # tree.root

DeficientSide == IF tree.child["left"][parent] = node THEN "left" ELSE "right"

\* Every iteration first turns a red sibling into a black one.
BlackSibling ==
  LET s == DeficientSide
      other == tree.child[Opposite(s)][parent]
  IN  IF tree.color[other] = RED
      THEN rb_rotate([tree EXCEPT !.color[other] = BLACK, !.color[parent] = RED], parent, s)
      ELSE tree

Sibling == BlackSibling.child[Opposite(DeficientSide)][parent]

BlackNephews == \A s \in Side : IsBlack(BlackSibling, BlackSibling.child[s][Sibling])

\* Both nephews are black: the deficit moves up to the parent.
EraseRecolor ==
  /\ pc = "erase_rebalance"
  /\ Deficient
  /\ BlackNephews
  /\ tree' = [BlackSibling EXCEPT !.color[Sibling] = RED]
  /\ node' = parent
  /\ parent' = BlackSibling.parent[parent]
  /\ UNCHANGED <<pc, op, key, answer>>

\* Mutant: the sibling does not take over the parent's colour.
EraseRotate_NoColor ==
  /\ pc = "erase_rebalance"
  /\ Deficient
  /\ ~BlackNephews
  /\ LET s == DeficientSide
         o == Opposite(s)
         near == BlackSibling.child[s][Sibling]
         t == IF IsBlack(BlackSibling, BlackSibling.child[o][Sibling])
              THEN rb_rotate([BlackSibling EXCEPT !.color = [SetIfNode(@, near, BLACK) EXCEPT ![Sibling] = RED]],
                             Sibling, o)
              ELSE BlackSibling
         other == t.child[o][parent]
         colored == [t EXCEPT !.color = SetIfNode([@ EXCEPT ![parent] = BLACK], t.child[o][other], BLACK)]
         turned == rb_rotate(colored, parent, s)
     IN  tree' = [turned EXCEPT !.color[turned.root] = BLACK]
  /\ Return
  /\ UNCHANGED answer

\* A nephew is red: the outer one is made red, and the parent goes down; the
\* loop is left with node = root, which is blackened.
EraseRotate ==
  /\ pc = "erase_rebalance"
  /\ Deficient
  /\ ~BlackNephews
  /\ LET s == DeficientSide
         o == Opposite(s)
         near == BlackSibling.child[s][Sibling]
         t == IF IsBlack(BlackSibling, BlackSibling.child[o][Sibling])
              THEN rb_rotate([BlackSibling EXCEPT !.color = [SetIfNode(@, near, BLACK) EXCEPT ![Sibling] = RED]],
                             Sibling, o)
              ELSE BlackSibling
         other == t.child[o][parent]
         colored == [t EXCEPT !.color = SetIfNode([@ EXCEPT ![other] = t.color[parent], ![parent] = BLACK],
                                                  t.child[o][other], BLACK)]
         turned == rb_rotate(colored, parent, s)
     IN  tree' = [turned EXCEPT !.color[turned.root] = BLACK]
  /\ Return
  /\ UNCHANGED answer

\* if (node) node->color = BLACK; return root
EraseDone ==
  /\ pc = "erase_rebalance"
  /\ ~Deficient
  /\ tree' = [tree EXCEPT !.color = SetIfNode(@, node, BLACK)]
  /\ Return
  /\ UNCHANGED answer

------------------------------------------------------------------------------
Step == \/ rb_search_auxiliary \/ rb_search \/ NothingToDo
        \/ rb_insert \/ InsertRecolor \/ InsertRotate \/ InsertDone
        \/ FindSuccessor \/ SuccessorStep \/ EraseWithSuccessor \/ EraseNode
        \/ EraseRecolor \/ EraseRotate \/ EraseDone

Next == \/ \E k \in Keys, o \in {"insert", "search", "erase"} : Call(o, k)
        \/ Step

\* A call that has begun is run to its end by the thread that made it.
Spec == Init /\ [][Next]_vars /\ WF_vars(Step)
------------------------------------------------------------------------------
(* Properties *)

\* Links agree in both directions and lead only to nodes that have not been
\* freed: after every rotation and every unlinking, a child's parent pointer
\* leads back to the node it hangs from, exactly one link leads to a node, and
\* only the root has no parent.  No pointer of the tree dangles after free(old).
LinksAgree ==
  /\ tree.root \in tree.nodes \cup {NULL}
  /\ \A n \in tree.nodes :
       /\ \A s \in Side : LET c == tree.child[s][n] IN
            c # NULL => /\ c \in tree.nodes
                        /\ tree.parent[c] = n
                        /\ c # tree.child[Opposite(s)][n]
       /\ LET p == tree.parent[n] IN
            IF p = NULL THEN n = tree.root
            ELSE p \in tree.nodes /\ \E s \in Side : tree.child[s][p] = n

\* The nodes reachable from n by child links.
Subtree[n \in Pointer] ==
  IF n = NULL THEN {}
  ELSE {n} \cup Subtree[tree.child["left"][n]] \cup Subtree[tree.child["right"][n]]

\* Every allocated node stays reachable from the root, and at its place in the
\* order of the keys, in the middle of a rebalancing as well: the rotations and
\* the replacement by the successor never lose or misplace a connection.
SearchTree ==
  /\ Subtree[tree.root] = tree.nodes
  /\ \A n \in tree.nodes :
       /\ \A m \in Subtree[tree.child["left"][n]] : m < n
       /\ \A m \in Subtree[tree.child["right"][n]] : n < m

\* The number of black nodes on the way down the left side from n.
BlackHeight[n \in Pointer] ==
  IF n = NULL THEN 0
  ELSE BlackHeight[tree.child["left"][n]] + (IF tree.color[n] = BLACK THEN 1 ELSE 0)

\* When a call has returned, no red node has a red child, the root is black and
\* every way down meets as many black nodes as any other: the loops of
\* rb_insert_rebalance and rb_erase_rebalance repair what the call disturbed.
RedBlack ==
  pc = "idle" =>
    /\ IsBlack(tree, tree.root)
    /\ \A n \in tree.nodes :
         /\ tree.color[n] = RED => \A s \in Side : IsBlack(tree, tree.child[s][n])
         /\ BlackHeight[tree.child["left"][n]] = BlackHeight[tree.child["right"][n]]

\* The pointers that the rebalancing loops follow without a test are not null:
\* the grandparent of a node with a red parent, the sibling of a deficient node.
NoNullDereference ==
  /\ pc = "insert_rebalance" /\ RedParent => tree.parent[tree.parent[node]] # NULL
  /\ pc = "erase_rebalance" /\ Deficient =>
       parent # NULL /\ tree.child[Opposite(DeficientSide)][parent] # NULL

\* Every call returns: the search, the two rebalancing loops and the walk to
\* the successor all end.
CallsReturn == pc # "idle" ~> pc = "idle"

\* The tree implements the index: a search finds a key exactly when it was
\* inserted and not erased since, whatever was rotated in between.
Index == INSTANCE ConnIndex WITH members <- tree.nodes
ImplementsIndex == Index!Spec
==============================================================================
