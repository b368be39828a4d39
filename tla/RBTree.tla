------------------------------- MODULE RBTree -------------------------------
(***************************************************************************)
(* The red-black tree of src/util/src/rbtree.c, which the scheduler's      *)
(* run queue is written for: nodes with parent pointers, entries with      *)
(* equal keys allowed.                                                     *)
(*                                                                         *)
(* A tree is a record of functions from nodes; NULL is a node of its own,  *)
(* never in the tree.  entries is not in the code: it is what was inserted *)
(* and not deleted.                                                        *)
(***************************************************************************)
EXTENDS Integers, Sequences, FiniteSets

CONSTANTS
  TreeNodes,  \* the bound on nodes, 1 .. TreeNodes
  TreeKeys    \* the keys used

VARIABLES
  tree,       \* the tree
  entries     \* the entries it should hold

treeVars == <<tree, entries>>

Null == 0
Red == "red"
Black == "black"
Nodes == 0 .. TreeNodes

RbNew ==
  [root |-> Null,
   left |-> [x \in Nodes |-> Null], right |-> [x \in Nodes |-> Null],
   parent |-> [x \in Nodes |-> Null], color |-> [x \in Nodes |-> Black],
   key |-> [x \in Nodes |-> 0]]

TreeInit ==
  /\ tree = RbNew
  /\ entries = {}

Other(side) == IF side = "left" THEN "right" ELSE "left"
Paint(t, x, c) == IF x = Null THEN t ELSE [t EXCEPT !.color[x] = c]
IsBlack(t, x) == x = Null \/ t.color[x] = Black
SideOf(t, x) == IF x = t.left[t.parent[x]] THEN "left" ELSE "right"

(* What u's parent, or the root, points to becomes v; v's parent follows. *)
Transplant(t, u, v) ==
  LET p  == t.parent[u]
      t1 == IF p = Null THEN [t EXCEPT !.root = v] ELSE [t EXCEPT ![SideOf(t, u)][p] = v]
  IN  IF v = Null THEN t1 ELSE [t1 EXCEPT !.parent[v] = p]

(* left_rotate and right_rotate: x goes down on the given side. *)
RotateDropChild(t, x, side) ==
  LET y  == t[Other(side)][x]
      t1 == [t EXCEPT ![Other(side)][x] = Null]
      t2 == Transplant(t1, x, y)
  IN  [t2 EXCEPT ![side][y] = x, !.parent[x] = y]

Rotate(t, x, side) ==
  LET y  == t[Other(side)][x]
      b  == t[side][y]
      t1 == [t EXCEPT ![Other(side)][x] = b]
      t2 == IF b = Null THEN t1 ELSE [t1 EXCEPT !.parent[b] = x]
      t3 == Transplant(t2, x, y)
  IN  [t3 EXCEPT ![side][y] = x, !.parent[x] = y]

(* fix_insert, whose two halves mirror each other. *)
RECURSIVE FixInsert(_, _)
FixInsert(t, z) ==
  LET p    == t.parent[z]
      g    == t.parent[p]
      side == SideOf(t, p)
      y    == t[Other(side)][g]
      inner == z = t[Other(side)][p]
      t1   == IF inner THEN Rotate(t, p, side) ELSE t
      p1   == IF inner THEN z ELSE p
  IN  IF z = t.root \/ t.color[p] # Red
      THEN Paint(t, t.root, Black)
      ELSE IF ~IsBlack(t, y)
      THEN FixInsert(Paint(Paint(Paint(t, p, Black), y, Black), g, Red), g)
      ELSE FixInsert(Rotate(Paint(Paint(t1, p1, Black), g, Red), g, Other(side)),
                     IF inner THEN p ELSE z)

RECURSIVE InsertPlace(_, _, _, _)
InsertPlace(t, x, y, key) ==
  IF x = Null THEN y
  ELSE InsertPlace(t, IF key < t.key[x] THEN t.left[x] ELSE t.right[x], x, key)

RbInsert(t, z, key) ==
  LET y  == InsertPlace(t, t.root, Null, key)
      t1 == [t EXCEPT !.key[z] = key, !.color[z] = Red, !.parent[z] = y,
                      !.left[z] = Null, !.right[z] = Null]
      t2 == IF y = Null THEN [t1 EXCEPT !.root = z]
            ELSE IF key < t.key[y] THEN [t1 EXCEPT !.left[y] = z]
            ELSE [t1 EXCEPT !.right[y] = z]
  IN  FixInsert(t2, z)

RECURSIVE Search(_, _, _)
Search(t, x, key) ==
  IF x = Null \/ t.key[x] = key THEN x
  ELSE Search(t, IF key < t.key[x] THEN t.left[x] ELSE t.right[x], key)

RECURSIVE Outermost(_, _, _)
Outermost(t, x, side) == IF t[side][x] = Null THEN x ELSE Outermost(t, t[side][x], side)

(* delete_fixup, whose two halves mirror each other. *)
RECURSIVE DeleteFixup(_, _, _)
DeleteFixup(t, x, xp) ==
  LET side == IF x = t.left[xp] THEN "left" ELSE "right"
      far  == Other(side)
      w0   == t[far][xp]
      t1   == IF t.color[w0] = Red
              THEN Rotate(Paint(Paint(t, w0, Black), xp, Red), xp, side) ELSE t
      w1   == t1[far][xp]
      near == t1[side][w1]
      t2   == IF IsBlack(t1, t1[far][w1])
              THEN Rotate(Paint(Paint(t1, near, Black), w1, Red), w1, far) ELSE t1
      w2   == t2[far][xp]
      t3   == Paint(Paint(Paint(t2, w2, t2.color[xp]), xp, Black), t2[far][w2], Black)
      t4   == Rotate(t3, xp, side)
  IN  IF x = t.root \/ ~IsBlack(t, x) THEN Paint(t, x, Black)
      ELSE IF IsBlack(t1, near) /\ IsBlack(t1, t1[far][w1])
      THEN DeleteFixup(Paint(t1, w1, Red), xp, t1.parent[xp])
      ELSE Paint(t4, t4.root, Black)

(* z has two children: y, the least node to the right, takes its place.    *)
(* The fix-up is told that the place y left is below y's new parent.       *)
DeleteInner(t, z) ==
  LET y  == Outermost(t, t.right[z], "left")
      x  == t.right[y]
      t1 == IF t.parent[y] = z
            THEN IF x = Null THEN t ELSE [t EXCEPT !.parent[x] = y]
            ELSE LET s == Transplant(t, y, x)
                 IN  [s EXCEPT !.right[y] = s.right[z], !.parent[s.right[z]] = y]
      t2 == Transplant(t1, z, y)
      t3 == [t2 EXCEPT !.left[y] = t2.left[z], !.parent[t2.left[z]] = y, !.color[y] = t.color[z]]
  IN  IF t.color[y] = Black THEN DeleteFixup(t3, x, t3.parent[y]) ELSE t3

DeleteOuter(t, z) ==
  LET x == IF t.left[z] = Null THEN t.right[z] ELSE t.left[z]
      s == Transplant(t, z, x)
  IN  IF t.color[z] = Black THEN DeleteFixup(s, x, t.parent[z]) ELSE s

RbDelete(t, key) ==
  LET z == Search(t, t.root, key)
      s == IF z = Null THEN t
           ELSE IF Null \in {t.left[z], t.right[z]} THEN DeleteOuter(t, z)
           ELSE DeleteInner(t, z)
  IN  [s EXCEPT !.left[z] = Null, !.right[z] = Null, !.parent[z] = Null,
                !.color[z] = Black, !.key[z] = 0]

-----------------------------------------------------------------------------
Unused == {x \in 1 .. TreeNodes : \A e \in entries : e.node # x}

TreeInsert(key) ==
  LET z == CHOOSE x \in Unused : \A y \in Unused : x <= y
  IN  /\ Unused # {}
      /\ tree' = RbInsert(tree, z, key)
      /\ entries' = entries \cup {[key |-> key, node |-> z]}

(* Deletable keeps to the nodes that rb_delete can take out: when a node   *)
(* has two children and the node y that replaces it is black without a     *)
(* red child, delete_fixup is given the wrong parent of x, and at the root *)
(* it follows a null pointer.                                              *)
Deletable(t, z) ==
  LET y == Outermost(t, t.right[z], "left")
  IN  \/ Null \in {t.left[z], t.right[z]}
      \/ t.color[y] = Red
      \/ ~IsBlack(t, t.right[y])

TreeDelete(key) ==
  LET z == Search(tree, tree.root, key)
  IN  /\ z = Null \/ Deletable(tree, z)
      /\ tree' = RbDelete(tree, key)
      /\ entries' = {e \in entries : e.node # z}

RbClear ==
  /\ entries # {}
  /\ tree' = RbNew
  /\ entries' = {}

TreeNext ==
  \/ \E key \in TreeKeys : TreeInsert(key) \/ TreeDelete(key)
  \/ RbClear

TreeSpec == TreeInit /\ [][TreeNext]_treeVars

-----------------------------------------------------------------------------
RECURSIVE Walk(_, _)
Walk(t, x) == IF x = Null THEN << >> ELSE Walk(t, t.left[x]) \o <<x>> \o Walk(t, t.right[x])

RECURSIVE BlackDepths(_, _)
BlackDepths(t, x) ==
  IF x = Null THEN {0}
  ELSE {d + IF t.color[x] = Black THEN 1 ELSE 0 :
          d \in BlackDepths(t, t.left[x]) \cup BlackDepths(t, t.right[x])}

RbFind(t, key) == Search(t, t.root, key)

(* rb_min, rb_max and their forms that give the key or the value *)
RbMin(t) == IF t.root = Null THEN Null ELSE Outermost(t, t.root, "left")
RbMax(t) == IF t.root = Null THEN Null ELSE Outermost(t, t.root, "right")

(* After any inserts, deletes and clears the nodes on the walk from the    *)
(* root are the entries that were inserted and not deleted, in key order,  *)
(* with the parent pointers of that shape; no red node has a red child and *)
(* every path has as many black nodes, so that a search stays logarithmic; *)
(* rb_find answers for exactly the keys present, rb_min and rb_max with    *)
(* the least and the greatest.                                             *)
TreeHoldsItsEntries ==
  LET walk == Walk(tree, tree.root)
      keys == {e.key : e \in entries}
  IN  /\ {[key |-> tree.key[walk[k]], node |-> walk[k]] : k \in DOMAIN walk} = entries
      /\ Len(walk) = Cardinality(entries)
      /\ \A j, k \in DOMAIN walk : j < k => tree.key[walk[j]] <= tree.key[walk[k]]
      /\ \A k \in DOMAIN walk, side \in {"left", "right"} :
           LET c == tree[side][walk[k]]
           IN  c # Null => /\ tree.parent[c] = walk[k]
                           /\ tree.color[walk[k]] = Black \/ tree.color[c] = Black
      /\ IsBlack(tree, tree.root) /\ tree.parent[tree.root] = Null
      /\ Cardinality(BlackDepths(tree, tree.root)) = 1
      /\ \A key \in TreeKeys : RbFind(tree, key) # Null <=> key \in keys
      /\ IF entries = {} THEN RbMin(tree) = Null /\ RbMax(tree) = Null
         ELSE /\ {tree.key[RbMin(tree)], tree.key[RbMax(tree)]} \subseteq keys
              /\ \A key \in keys : tree.key[RbMin(tree)] <= key /\ key <= tree.key[RbMax(tree)]
=============================================================================
