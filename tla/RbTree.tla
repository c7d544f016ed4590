------------------------------- MODULE RbTree --------------------------------
(***************************************************************************)
(* ds::RbTree (src/ds/rb_tree.h): a red-black tree of heap-allocated       *)
(* RbNode objects linked by left_, right_ and parent_.  The nodes are ids  *)
(* from the pool Nodes (the heap objects new RbNode may return); nd maps   *)
(* each to its fields.  Every public method is one step, its fix-up loops  *)
(* recursive operators over a tree record [root, nd].                      *)
(***************************************************************************)
EXTENDS Integers, FiniteSets, TLC

CONSTANTS Keys,   \* key_t: numbers, compared with < and >
          Vals,   \* val_t
          Nodes,  \* heap objects for RbNodes, as many as Keys
          NIL

RED == "red"
BLACK == "black"
LEFT == "left"
RIGHT == "right"
STRAIGHT == "straight"
ANGLED == "angled"

VARIABLES root,     \* root_
          nd,       \* the RbNode objects: [key, val, color, left, right, parent]
          used,     \* the allocated ones (num_keys_, which nothing reads, is left out)
          ret,      \* the value the last call returned (Read's val_out)
          fault     \* a call dereferenced a null root_

vars == <<root, nd, used, ret, fault>>

Tree == [root |-> root, nd |-> nd]

NewNode(k, v, c, p) ==
    [key |-> k, val |-> v, color |-> c, left |-> NIL, right |-> NIL, parent |-> p]

-----------------------------------------------------------------------------
(* RbNode's navigation helpers.  A nullptr node counts as BLACK, as in     *)
(* "uncle ? uncle->color_ : BLACK".                                        *)
Par(t, n) == t.nd[n].parent
Color(t, n) == IF n = NIL THEN BLACK ELSE t.nd[n].color
Paint(t, n, c) == [t EXCEPT !.nd[n].color = c]

InvertDir(d) == IF d = LEFT THEN RIGHT ELSE LEFT
GetChild(t, n, d) == t.nd[n][d]
GetDir(t, n) == IF n = t.nd[Par(t, n)].left THEN LEFT ELSE RIGHT
GetOrientation(t, n) ==
    IF GetDir(t, Par(t, n)) = GetDir(t, n) THEN STRAIGHT ELSE ANGLED

GetUncle(t, n) ==
    IF Par(t, n) = NIL \/ Par(t, Par(t, n)) = NIL THEN NIL
    ELSE GetChild(t, Par(t, Par(t, n)), InvertDir(GetDir(t, Par(t, n))))

GetSibling(t, n) ==
    IF Par(t, n) = NIL THEN NIL ELSE GetChild(t, Par(t, n), InvertDir(GetDir(t, n)))

GetNephew(t, n, o) ==
    LET s == GetSibling(t, n)
    IN  IF s = NIL THEN NIL
        ELSE GetChild(t, s, IF o = STRAIGHT THEN GetDir(t, s) ELSE InvertDir(GetDir(t, s)))

(* Rotate without node->dir_side->parent_ = node.                         *)
RotateKeepingChildParent(t, dir, n) ==
    LET a == InvertDir(dir)
        np == t.nd[n][a]
        p == Par(t, n)
        nd1 == [t.nd EXCEPT ![n][a] = t.nd[np][dir], ![n].parent = np, ![np].parent = p,
                            ![np][dir] = n]
    IN  [root |-> IF p = NIL THEN np ELSE t.root,
         nd   |-> IF p = NIL THEN nd1
                  ELSE [nd1 EXCEPT ![p][IF t.nd[p].left = n THEN LEFT ELSE RIGHT] = np]]

(* Rotate(dir, node): node's child on the other side (new_par) takes its  *)
(* place; new_par's dir-side child c moves under node.  The four objects  *)
(* are distinct, so the assignments commute.                              *)
Rotate(t, dir, n) ==
    LET a  == InvertDir(dir)
        np == t.nd[n][a]
        c  == t.nd[np][dir]
        p  == Par(t, n)
        nd1 == [t.nd EXCEPT ![n][a] = c, ![n].parent = np, ![np].parent = p, ![np][dir] = n]
        nd2 == IF c = NIL THEN nd1 ELSE [nd1 EXCEPT ![c].parent = n]
    IN  [root |-> IF p = NIL THEN np ELSE t.root,
         nd   |-> IF p = NIL THEN nd2
                  ELSE [nd2 EXCEPT ![p][IF t.nd[p].left = n THEN LEFT ELSE RIGHT] = np]]

-----------------------------------------------------------------------------
(* RbNode::Find, Min, Max.                                                *)
RECURSIVE Find(_, _, _)
Find(t, n, k) ==
    IF k < t.nd[n].key
    THEN IF t.nd[n].left = NIL THEN NIL ELSE Find(t, t.nd[n].left, k)
    ELSE IF k > t.nd[n].key
    THEN IF t.nd[n].right = NIL THEN NIL ELSE Find(t, t.nd[n].right, k)
    ELSE n

RECURSIVE Min(_, _)
Min(t, n) == IF t.nd[n].left = NIL THEN n ELSE Min(t, t.nd[n].left)

RECURSIVE Max(_, _)
Max(t, n) == IF t.nd[n].right = NIL THEN n ELSE Max(t, t.nd[n].right)

(* The objects ~RbNode deletes: the node and, recursively, its children.  *)
RECURSIVE Subtree(_, _)
Subtree(t, n) ==
    IF n = NIL THEN {} ELSE {n} \cup Subtree(t, t.nd[n].left) \cup Subtree(t, t.nd[n].right)

(* RbNode::BstInsert from node n: link object new as a RED leaf, or NIL   *)
(* when the key is present.                                               *)
RECURSIVE BstInsert(_, _, _, _, _)
BstInsert(t, n, k, v, new) ==
    LET d == IF k < t.nd[n].key THEN LEFT ELSE RIGHT
    IN  IF k = t.nd[n].key THEN [t |-> t, n |-> NIL]
        ELSE IF t.nd[n][d] # NIL THEN BstInsert(t, t.nd[n][d], k, v, new)
        ELSE [t |-> [t EXCEPT !.nd[n][d] = new, !.nd[new] = NewNode(k, v, RED, n)],
              n |-> new]

(* RbNode::BstDelete of the node found: a node with a left subtree takes  *)
(* the key and value of its in-order predecessor, else one with a right   *)
(* subtree those of its successor; the node returned is the one to unlink.*)
BstDeleteAt(t, n, d) ==
    IF d = n THEN [t |-> t, d |-> n]
    ELSE [t |-> [t EXCEPT !.nd[n].key = t.nd[d].key, !.nd[n].val = t.nd[d].val], d |-> d]

BstDelete(t, n) ==
    BstDeleteAt(t, n, IF t.nd[n].left # NIL THEN Max(t, t.nd[n].left)
                      ELSE IF t.nd[n].right # NIL THEN Min(t, t.nd[n].right)
                      ELSE n)

-----------------------------------------------------------------------------
(* PostInsertFix's loop while problem_node's parent is RED: case 1 (red   *)
(* uncle) recolours and moves up; case 2 (angled) rotates the parent away *)
(* and continues from it; case 3 recolours and rotates the grandparent.   *)
InsertCase3(t, x) ==
    LET p == Par(t, x)
    IN  Rotate(Paint(Paint(t, p, BLACK), Par(t, p), RED), InvertDir(GetDir(t, p)), Par(t, p))

InsertCase23(t, x) ==
    IF GetOrientation(t, x) = ANGLED
    THEN InsertCase3(Rotate(t, InvertDir(GetDir(t, x)), Par(t, x)), Par(t, x))
    ELSE InsertCase3(t, x)

RECURSIVE InsertLoop(_, _)
InsertLoop(t, x) ==
    IF Par(t, x) = NIL \/ Color(t, Par(t, x)) # RED THEN t
    ELSE IF Color(t, GetUncle(t, x)) = RED
    THEN InsertLoop(Paint(Paint(Paint(t, Par(t, x), BLACK), GetUncle(t, x), BLACK),
                          Par(t, Par(t, x)), RED),
                    Par(t, Par(t, x)))
    ELSE InsertLoop(InsertCase23(t, x),
                    IF GetOrientation(t, x) = ANGLED THEN Par(t, x) ELSE x)

(* PostInsertFix without the final root_->color_ = BLACK.                 *)
PostInsertFixKeepingRoot(t, x) == InsertLoop(t, x)

PostInsertFix(t, x) == LET t1 == InsertLoop(t, x) IN Paint(t1, t1.root, BLACK)

(* PreDeletionFix's loop while problem_node is a BLACK non-root: black     *)
(* sibling with black nephews (case 1) recolours and moves up; red inner  *)
(* nephew only (case 2) rotates the sibling; red outer nephew (case 3)    *)
(* rotates the parent and ends at root_; red sibling (case 4) rotates the *)
(* parent towards problem_node.  Then problem_node is painted BLACK.       *)
DeleteCase3(t, x) ==
    LET p == Par(t, x)
        t1 == Paint(Paint(Paint(t, GetSibling(t, x), Color(t, p)), p, BLACK),
                    GetNephew(t, x, STRAIGHT), BLACK)
    IN  Rotate(t1, GetDir(t, x), p)

RECURSIVE DeleteLoop(_, _)
DeleteLoop(t, x) ==
    LET s   == GetSibling(t, x)
        inC == Color(t, GetNephew(t, x, ANGLED))
        outC == Color(t, GetNephew(t, x, STRAIGHT))
    IN  IF x = t.root \/ Color(t, x) # BLACK THEN Paint(t, x, BLACK)
        ELSE IF Color(t, s) = RED
        THEN DeleteLoop(Rotate(Paint(Paint(t, s, BLACK), Par(t, x), RED), GetDir(t, x), Par(t, x)), x)
        ELSE IF inC = BLACK /\ outC = BLACK
        THEN DeleteLoop(Paint(t, s, RED), Par(t, x))
        ELSE IF inC = RED /\ outC = BLACK
        THEN DeleteLoop(Rotate(Paint(Paint(t, s, RED), GetNephew(t, x, ANGLED), BLACK),
                               GetDir(t, s), s), x)
        ELSE LET t1 == DeleteCase3(t, x) IN DeleteLoop(t1, t1.root)

PreDeletionFix(t, x) == DeleteLoop(t, x)

-----------------------------------------------------------------------------
SetTree(t) == root' = t.root /\ nd' = t.nd

Init ==
    /\ root = NIL
    /\ nd = [n \in Nodes |-> NewNode(CHOOSE k \in Keys : TRUE, CHOOSE v \in Vals : TRUE, BLACK, NIL)]
    /\ used = {} /\ ret = FALSE /\ fault = FALSE

(* The object new RbNode returns, when a key is added.                    *)
FreeNodes == Nodes \ used

(* Insert: BstInsert from root_ (false for a present key), or a BLACK     *)
(* root; then PostInsertFix.  A present key is found before any object   *)
(* is taken, as BstInsert returns nullptr on its search path.            *)
Insert(k, v) ==
    /\ ~fault
    /\ IF root # NIL /\ Find(Tree, root, k) # NIL
       THEN ret' = FALSE /\ UNCHANGED <<root, nd, used>>
       ELSE \E new \in FreeNodes :
              /\ IF root # NIL
                 THEN \E r \in {BstInsert(Tree, root, k, v, new)} : SetTree(PostInsertFix(r.t, r.n))
                 ELSE SetTree(PostInsertFix([root |-> new,
                                             nd |-> [nd EXCEPT ![new] = NewNode(k, v, BLACK, NIL)]],
                                            new))
              /\ used' = used \cup {new}
              /\ ret' = TRUE
    /\ UNCHANGED fault

(* Read handing back the node instead of key_node->val_.                 *)
ReadReturningNode(k) ==
    /\ ~fault /\ root # NIL
    /\ ret' = Find(Tree, root, k)
    /\ UNCHANGED <<root, nd, used, fault>>

(* Read and Update: root_->Find(key).                                     *)
Read(k) ==
    /\ ~fault /\ root # NIL
    /\ ret' = IF Find(Tree, root, k) = NIL THEN FALSE ELSE nd[Find(Tree, root, k)].val
    /\ UNCHANGED <<root, nd, used, fault>>

Update(k, v) ==
    /\ ~fault /\ root # NIL
    /\ \E n \in {Find(Tree, root, k)} :
          /\ nd' = IF n = NIL THEN nd ELSE [nd EXCEPT ![n].val = v]
          /\ ret' = (n # NIL)
    /\ UNCHANGED <<root, used, fault>>

(* Delete: BstDelete; the root leaf is deleted, any other node to delete  *)
(* gets PreDeletionFix when BLACK, is unlinked from its parent and        *)
(* deleted, which deletes its children too.                              *)
Unlink(t, d) == [t EXCEPT !.nd[Par(t, d)][GetDir(t, d)] = NIL]

DeleteNode(t, d) ==
    IF d = t.root THEN [root |-> NIL, nd |-> t.nd]
    ELSE Unlink(IF Color(t, d) = BLACK THEN PreDeletionFix(t, d) ELSE t, d)

Delete(k) ==
    /\ ~fault /\ root # NIL
    /\ \E n \in {Find(Tree, root, k)} :
          IF n = NIL THEN ret' = FALSE /\ UNCHANGED <<root, nd, used>>
          ELSE \E r \in {BstDelete(Tree, n)} :
                 /\ SetTree(DeleteNode(r.t, r.d))
                 /\ used' = used \ Subtree(r.t, r.d)
                 /\ ret' = TRUE
    /\ UNCHANGED fault

(* Read, Update and Delete call root_->Find or root_->BstDelete without   *)
(* testing root_: on an empty tree they dereference nullptr.              *)
NullRoot ==
    /\ ~fault /\ root = NIL
    /\ fault' = TRUE
    /\ UNCHANGED <<root, nd, used, ret>>

Next ==
    \/ \E k \in Keys, v \in Vals : Insert(k, v) \/ Update(k, v)
    \/ \E k \in Keys : Read(k) \/ Delete(k)
    \/ NullRoot

Spec == Init /\ [][Next]_vars

-----------------------------------------------------------------------------
(* Properties, checked by the configurations of this module.             *)

(* The tree's nodes, from root_ down.                                     *)
InTree == IF root = NIL THEN {} ELSE Subtree(Tree, root)

(* Every field holds a node, a key, a value or a colour, and the result a *)
(* boolean or a value.                                                    *)
TypeOK ==
    /\ root \in Nodes \cup {NIL}
    /\ nd \in [Nodes -> [key : Keys, val : Vals, color : {RED, BLACK},
                         left : Nodes \cup {NIL}, right : Nodes \cup {NIL},
                         parent : Nodes \cup {NIL}]]
    /\ used \subseteq Nodes
    /\ ret \in BOOLEAN \cup Vals
    /\ fault \in BOOLEAN

(* Callers of Read, Update and Delete that never call them on an empty    *)
(* tree (the class has no emptiness test; a caller counts its inserts).   *)
CheckedNext ==
    \/ \E k \in Keys, v \in Vals : Insert(k, v) \/ Update(k, v)
    \/ \E k \in Keys : Read(k) \/ Delete(k)

CheckedSpec == Init /\ [][CheckedNext]_vars

(* The pointer structure is a binary search tree: the allocated objects   *)
(* are exactly those reachable from root_, each child's parent_ is its    *)
(* parent and root_'s is nullptr, and every key of a left (right) subtree *)
(* is smaller (larger) than its node's.  Rotate and the unlinking in      *)
(* Delete rewrite up to six pointers per step.                             *)
WellLinked ==
    /\ used = InTree
    /\ root # NIL => Par(Tree, root) = NIL
    /\ \A n \in InTree :
          /\ \A d \in {LEFT, RIGHT} : nd[n][d] # NIL => Par(Tree, nd[n][d]) = n
          /\ \A m \in Subtree(Tree, nd[n].left) : nd[m].key < nd[n].key
          /\ \A m \in Subtree(Tree, nd[n].right) : nd[m].key > nd[n].key

(* The number of BLACK nodes on every path from n down to a nullptr, or   *)
(* -1 when two paths differ.                                              *)
RECURSIVE BlackHeight(_)
BlackHeight(n) ==
    IF n = NIL THEN 0
    ELSE LET l == BlackHeight(nd[n].left)
             r == BlackHeight(nd[n].right)
         IN  IF l < 0 \/ l # r THEN -1 ELSE l + (IF nd[n].color = BLACK THEN 1 ELSE 0)

(* The red-black properties that PostInsertFix and PreDeletionFix must    *)
(* restore after every Insert and Delete: root_ is BLACK, no RED node has *)
(* a RED child, and every path has the same number of BLACK nodes.        *)
RedBlack ==
    /\ Color(Tree, root) = BLACK
    /\ \A n \in InTree : nd[n].color = RED =>
          Color(Tree, nd[n].left) = BLACK /\ Color(Tree, nd[n].right) = BLACK
    /\ BlackHeight(root) >= 0

(* The keys and values the tree holds, as a map.                          *)
AbsMap == [k \in {nd[n].key : n \in InTree} |->
              nd[CHOOSE n \in InTree : nd[n].key = k].val]

Dict == INSTANCE Dictionary WITH map <- AbsMap, res <- ret

(* RbTree behaves as the map its interface comments describe: Insert,     *)
(* Read, Update and Delete add, return, change and remove exactly the     *)
(* key they are given and return what the map says.                      *)
ImplementsDictionary == Dict!Spec

(* Freed RbNode objects are never read again (Insert overwrites an object *)
(* it takes), so states that differ only in them have the same futures.  *)
TreeView ==
    <<root, [n \in Nodes |-> IF n \in used THEN nd[n] ELSE NIL], used, ret, fault>>

Symm == Permutations(Nodes) \cup Permutations(Vals)
=============================================================================
