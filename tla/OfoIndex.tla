------------------------------ MODULE OfoIndex ------------------------------
(***************************************************************************)
(* The two indexes of a socket's out-of-order queue: the red-black tree of *)
(* rbtree.c and the list of tcp_ofo.c.  Node n is the segment whose        *)
(* sequence number is n above the begin of the window; sequence numbers    *)
(* wrap.  One step is one pass of a rebalancing loop.                      *)
(***************************************************************************)
EXTENDS Integers, Sequences, SequencesExt

CONSTANTS
    N,          \* sequence numbers of the window that may be keys
    Base,       \* sequence number before the window
    Width       \* bits of a sequence number

\* What a configuration satisfies:
\*   N \in Nat \ {0} /\ Width \in Nat \ {0} /\ N < 2 ^ (Width - 1) /\ Base \in 0..(2 ^ Width - 1)

VARIABLES
    tree,       \* root, and of each node parent, children and colour
    list,       \* ofo .. ofo_tail
    pc,         \* "idle", "insert" or "erase": the loop that runs
    at, above,  \* node and parent of the loop
    rekey,      \* node to insert once the erased one is out, or Nil
    keys        \* history: the segments that are queued

vars == <<tree, list, pc, at, above, rekey, keys>>

Nil == 0
Nodes == 1..N
Sides == {"left", "right"}
Opposite(s) == IF s = "left" THEN "right" ELSE "left"

----------------------------------------------------------------------------
\* Nodes and rotations.

Detached == [parent |-> Nil, left |-> Nil, right |-> Nil, red |-> TRUE]
Black(t, n) == n = Nil \/ ~t.node[n].red
Paint(t, n, red) == IF n = Nil THEN t ELSE [t EXCEPT !.node[n].red = red]
SideOf(t, n) == IF n = t.node[t.node[n].parent].left THEN "left" ELSE "right"

\* The link that leads to old leads to new (rb_transplant; part of a rotation).
Relink(t, old, new) ==
    LET p == t.node[old].parent
        u == IF p = Nil THEN [t EXCEPT !.root = new]
             ELSE [t EXCEPT !.node[p][SideOf(t, old)] = new]
    IN  IF new = Nil THEN u ELSE [u EXCEPT !.node[new].parent = p]

\* rb_rotate_left is Rotate(t, n, "left"), rb_rotate_right its mirror image.
Rotate(t, n, s) ==
    LET o == Opposite(s)
        up == t.node[n][o]
        moved == t.node[up][s]
        u == [t EXCEPT !.node[n][o] = moved]
        v == Relink(IF moved = Nil THEN u ELSE [u EXCEPT !.node[moved].parent = n], n, up)
    IN  [v EXCEPT !.node[up][s] = n, !.node[n].parent = up]

----------------------------------------------------------------------------
\* Search and traversal.

SeqNo(n) == (Base + n) % 2 ^ Width
\* Seeded fault: sequence numbers compared as plain numbers.
SeqLtPlain(a, b) == a < b
SeqLt(a, b) == (a - b) % 2 ^ Width >= 2 ^ (Width - 1)

\* The vacant link of tcp_ofo_tree_insert: parent and side.
Vacancy(t, n) ==
    LET down[m \in Nodes] ==
            LET s == IF SeqLt(SeqNo(n), SeqNo(m)) THEN "left" ELSE "right"
            IN  IF t.node[m][s] = Nil THEN <<m, s>> ELSE down[t.node[m][s]]
    IN  down[t.root]

\* tcp_ofo_lower_bound.
LowerBound(t, n) ==
    LET from[m \in Nodes \cup {Nil}] ==
            IF m = Nil THEN Nil
            ELSE IF SeqLt(SeqNo(m), SeqNo(n)) THEN from[t.node[m].right]
            ELSE LET less == from[t.node[m].left] IN IF less = Nil THEN m ELSE less
    IN  from[t.root]

\* rb_minimum is Extreme(t, n, "left"), rb_maximum Extreme(t, n, "right").
Extreme(t, n, s) ==
    LET end[m \in Nodes] == IF t.node[m][s] = Nil THEN m ELSE end[t.node[m][s]]
    IN  IF n = Nil THEN Nil ELSE end[n]

\* rb_next is Neighbour(t, n, "right"), rb_prev Neighbour(t, n, "left").
Neighbour(t, n, s) ==
    LET climb[m \in Nodes] == LET p == t.node[m].parent
                              IN  IF p # Nil /\ m = t.node[p][s] THEN climb[p] ELSE p
    IN  IF t.node[n][s] # Nil THEN Extreme(t, t.node[n][s], Opposite(s)) ELSE climb[n]

----------------------------------------------------------------------------
\* Insertion.

Init ==
    /\ tree = [root |-> Nil, node |-> [n \in Nodes |-> Detached]]
    /\ list = <<>> /\ pc = "idle" /\ at = Nil /\ above = Nil /\ rekey = Nil /\ keys = {}

\* rb_link_node.
Link(t, n) ==
    IF t.root = Nil THEN [t EXCEPT !.root = n, !.node[n] = Detached]
    ELSE LET v == Vacancy(t, n)
         IN  [t EXCEPT !.node[n] = [Detached EXCEPT !.parent = v[1]], !.node[v[1]][v[2]] = n]

\* tcp_ofo_list_insert_before, at the place tcp_ofo_queue_insert found in the tree.
ListInsert(n) ==
    LET before == LowerBound(tree, n)
    IN  IF before = Nil THEN Append(list, n)
        ELSE InsertAt(list, CHOOSE i \in DOMAIN list : list[i] = before, n)

Insert(n) ==
    /\ pc = "idle" /\ n \notin keys
    /\ tree' = Link(tree, n) /\ list' = ListInsert(n) /\ keys' = keys \cup {n}
    /\ pc' = "insert" /\ at' = n
    /\ UNCHANGED <<above, rekey>>

\* One pass of rb_insert_color with a red parent: the node to go on with and
\* the tree.
Recolour(t, parent, uncle, grand) == Paint(Paint(Paint(t, parent, FALSE), uncle, FALSE), grand, TRUE)
Raise(t, n, s) ==
    LET inner == n = t.node[t.node[n].parent][Opposite(s)]
        low == IF inner THEN t.node[n].parent ELSE n
        u == IF inner THEN Rotate(t, low, s) ELSE t
        parent == u.node[low].parent
        grand == u.node[parent].parent
    IN  [at |-> low, tree |-> Rotate(Paint(Paint(u, parent, FALSE), grand, TRUE), grand, Opposite(s))]
InsertPass(t, n) ==
    LET parent == t.node[n].parent
        grand == t.node[parent].parent
        s == SideOf(t, parent)
        uncle == t.node[grand][Opposite(s)]
    IN  IF ~Black(t, uncle) THEN [at |-> grand, tree |-> Recolour(t, parent, uncle, grand)]
        ELSE Raise(t, n, s)

\* rb_insert_color.
InsertLoops == at # tree.root /\ tree.node[tree.node[at].parent].red
InsertColor ==
    /\ pc = "insert"
    /\ IF InsertLoops
       THEN /\ tree' = InsertPass(tree, at).tree /\ at' = InsertPass(tree, at).at
            /\ UNCHANGED pc
       ELSE tree' = Paint(tree, tree.root, FALSE) /\ at' = Nil /\ pc' = "idle"
    /\ UNCHANGED <<list, above, rekey, keys>>

----------------------------------------------------------------------------
\* Removal.

\* Taking a node out of the tree: the tree, the replacement, its parent, and
\* whether a black node is gone.
Unhook(t, n, child) ==
    [tree |-> Relink(t, n, child), at |-> child, above |-> t.node[n].parent, black |-> ~t.node[n].red]
UnhookInner(t, n) ==
    LET next == Extreme(t, t.node[n].right, "left")
        child == t.node[next].right
        direct == t.node[next].parent = n
        u == IF direct THEN t
             ELSE [Relink(t, next, child) EXCEPT !.node[next].right = t.node[n].right,
                                                 !.node[t.node[n].right].parent = next]
        v == Relink(u, n, next)
    IN  [tree |-> [v EXCEPT !.node[next].left = t.node[n].left,
                            !.node[t.node[n].left].parent = next,
                            !.node[next].red = t.node[n].red],
         at |-> child, above |-> IF direct THEN next ELSE t.node[next].parent,
         black |-> ~t.node[next].red]
Unhooked(t, n) ==
    CASE t.node[n].left = Nil -> Unhook(t, n, t.node[n].right)
      [] t.node[n].left # Nil /\ t.node[n].right = Nil -> Unhook(t, n, t.node[n].left)
      [] OTHER -> UnhookInner(t, n)

\* rb_erase up to the fix-up, with rb_node_init, which the fix-up does not see.
Erase(n, then, newList, newKeys) ==
    LET u == Unhooked(tree, n)
    IN  /\ tree' = [u.tree EXCEPT !.node[n] = Detached]
        /\ pc' = IF u.black THEN "erase" ELSE IF then = Nil THEN "idle" ELSE "again"
        /\ at' = (IF u.black THEN u.at ELSE Nil) /\ above' = (IF u.black THEN u.above ELSE Nil)
        /\ rekey' = then /\ list' = newList /\ keys' = newKeys

\* tcp_ofo_unlink.
Unlink(n) == pc = "idle" /\ n \in keys /\ Erase(n, Nil, SelectSeq(list, LAMBDA m : m # n), keys \ {n})

\* tcp_ofo_rekey_after_trim: the rest of a segment, whose end does not move,
\* keeps its place in the list.
Rekey(n, m) ==
    /\ pc = "idle" /\ n \in keys /\ n < m /\ keys \cap (n + 1)..m = {}
    /\ Erase(n, m, [i \in DOMAIN list |-> IF list[i] = n THEN m ELSE list[i]], (keys \ {n}) \cup {m})
Reinsert ==
    /\ pc = "again"
    /\ tree' = Link(tree, rekey) /\ pc' = "insert" /\ at' = rekey /\ rekey' = Nil
    /\ UNCHANGED <<list, above, keys>>

\* One pass of rb_erase_fixup.
Up(t, n) == [tree |-> t, at |-> n, above |-> t.node[n].parent]
Borrow(t, p, s) ==
    LET o == Opposite(s)
        w == t.node[p][o]
        outer == Black(t, t.node[w][o])
        u == IF outer THEN Rotate(Paint(Paint(t, t.node[w][s], FALSE), w, TRUE), w, o) ELSE t
        x == u.node[p][o]
        v == Rotate(Paint(Paint(Paint(u, x, u.node[p].red), p, FALSE), u.node[x][o], FALSE), p, s)
    IN  [tree |-> v, at |-> v.root, above |-> Nil]
ErasePass(t, n, p) ==
    LET s == IF n = t.node[p].left THEN "left" ELSE "right"
        o == Opposite(s)
        old == t.node[p][o]
        u == IF Black(t, old) THEN t ELSE Rotate(Paint(Paint(t, old, FALSE), p, TRUE), p, s)
        w == u.node[p][o]
    IN  IF w = Nil THEN Up(u, p)
        ELSE IF Black(u, u.node[w].left) /\ Black(u, u.node[w].right) THEN Up(Paint(u, w, TRUE), p)
        ELSE Borrow(u, p, s)

\* rb_erase_fixup.
EraseLoops == at # tree.root /\ Black(tree, at)
EraseFixup ==
    /\ pc = "erase"
    /\ IF EraseLoops
       THEN LET p == ErasePass(tree, at, above)
            IN  tree' = p.tree /\ at' = p.at /\ above' = p.above /\ UNCHANGED pc
       ELSE /\ tree' = Paint(tree, at, FALSE) /\ at' = Nil /\ above' = Nil
            /\ pc' = IF rekey = Nil THEN "idle" ELSE "again"
    /\ UNCHANGED <<list, rekey, keys>>

Next ==
    \/ \E n \in Nodes : Insert(n) \/ Unlink(n)
    \/ \E n, m \in Nodes : Rekey(n, m)
    \/ Reinsert \/ InsertColor \/ EraseFixup

Spec == Init /\ [][Next]_vars

----------------------------------------------------------------------------
(* Properties *)

\* Links lead to nodes, and an operation leaves nothing for the next one.
TypeOK ==
    /\ tree.root \in Nodes \cup {Nil}
    /\ tree.node \in [Nodes -> [parent : Nodes \cup {Nil}, left : Nodes \cup {Nil},
                                right : Nodes \cup {Nil}, red : BOOLEAN]]
    /\ pc \in {"idle", "insert", "erase", "again"} /\ keys \subseteq Nodes
    /\ {at, above, rekey} \subseteq Nodes \cup {Nil}
    /\ pc = "idle" => {at, above, rekey} = {Nil}

\* Between operations the queued segments are exactly the nodes that parent
\* and child links connect to the root, and every other node is detached
\* (rb_link_node, rb_erase).
Linked ==
    pc = "idle" =>
        /\ \A n \in keys : LET p == tree.node[n].parent
                           IN  IF p = Nil THEN tree.root = n ELSE p \in keys /\ n \in {tree.node[p].left, tree.node[p].right}
        /\ \A n \in keys, s \in Sides : LET c == tree.node[n][s] IN c # Nil => tree.node[c].parent = n
        /\ \A n \in Nodes \ keys : tree.node[n] = Detached
        /\ keys = {} => tree.root = Nil

\* Between operations the tree and the list have the same order: the list's
\* head and tail are the tree's first and last node, and the neighbours of a
\* node in the list are those rb_next and rb_prev find by climbing
\* (tcp_ofo_list_insert_before, tcp_ofo_rekey_after_trim, rb_next, rb_prev).
SameOrder ==
    pc = "idle" =>
        /\ ToSet(list) = keys /\ Len(list) = Cardinality(keys)
        /\ list # <<>> => Extreme(tree, tree.root, "left") = Head(list)
                          /\ Extreme(tree, tree.root, "right") = Last(list)
        /\ \A i \in DOMAIN list :
               /\ Neighbour(tree, list[i], "right") = (IF i = Len(list) THEN Nil ELSE list[i + 1])
               /\ Neighbour(tree, list[i], "left") = (IF i = 1 THEN Nil ELSE list[i - 1])

\* Searching the tree finds the first segment at or above any sequence number
\* of the window, wrapped or not (tcp_ofo_lower_bound).
SearchRight ==
    pc = "idle" =>
        \A n \in Nodes : LowerBound(tree, n) =
            (IF keys \cap n..N = {} THEN Nil ELSE CHOOSE m \in keys \cap n..N : keys \cap n..(m - 1) = {})

\* Between operations the tree is balanced: the root is black, no red node has
\* a red child, and all paths down have as many black nodes
\* (rb_insert_color, rb_erase_fixup).
Balanced ==
    pc = "idle" =>
        LET height[n \in Nodes \cup {Nil}] ==
                IF n = Nil THEN 0 ELSE height[tree.node[n].left] + (IF Black(tree, n) THEN 1 ELSE 0)
        IN  /\ Black(tree, tree.root)
            /\ \A n \in keys : /\ height[tree.node[n].left] = height[tree.node[n].right]
                               /\ tree.node[n].red => Black(tree, tree.node[n].left) /\ Black(tree, tree.node[n].right)
=============================================================================
