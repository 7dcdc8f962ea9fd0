---------------------------- MODULE IntervalTree ----------------------------
(***************************************************************************)
(* mwr::interval_tree: an AVL tree of closed intervals ordered by their    *)
(* start, in which every node knows the least start and the greatest end   *)
(* of its subtree.                                                         *)
(*                                                                         *)
(* The code works on nodes with pointers in both directions; so does the   *)
(* model.  A heap holds the root pointer and the nodes; what the code      *)
(* passes by reference (ivtnode*&) is a place: the root, or a child field  *)
(* of a node.  A function that changes the tree is an operator from heaps  *)
(* to heaps.                                                               *)
(***************************************************************************)
EXTENDS Integers, Sequences, FiniteSets, FiniteSetsExt

CONSTANTS
    Nodes,      \* the memory nodes are allocated from
    nullptr,
    Last,       \* intervals are over the points 0..Last
    IntervalsOf(_) \* the intervals a given node may be created with

Points == 0..Last
Intervals == {iv \in [lo : Points, hi : Points] : iv.lo <= iv.hi}

ASSUME IntervalTreeAssumption ==
    /\ IsFiniteSet(Nodes)
    /\ nullptr \notin Nodes
    /\ Last \in Nat
    /\ \A n \in Nodes : IntervalsOf(n) \subseteq Intervals

VARIABLES
    tree,       \* the heap: root and nodes
    m_size,
    live        \* the nodes that are allocated

vars == <<tree, m_size, live>>

ivtnode(iv) ==
    [lo |-> iv.lo, hi |-> iv.hi, min |-> iv.lo, max |-> iv.hi, height |-> 1,
     parent |-> nullptr, left |-> nullptr, right |-> nullptr]

Freed == ivtnode([lo |-> 0, hi |-> 0])

Pointers == Nodes \cup {nullptr}

TypeOK ==
    /\ tree.root \in Pointers
    /\ tree.node \in [Nodes ->
            [lo : Points, hi : Points, min : Points, max : Points,
             height : 1..Cardinality(Nodes),
             parent : Pointers, left : Pointers, right : Pointers]]
    /\ m_size \in 0..Cardinality(Nodes)
    /\ live \in SUBSET Nodes

Init ==
    /\ tree = [root |-> nullptr, node |-> [n \in Nodes |-> Freed]]
    /\ m_size = 0
    /\ live = {}

-----------------------------------------------------------------------------
(* Nodes and places.                                                       *)

overlaps(s0, e0, s1, e1) == s0 <= e1 /\ s1 <= e0

Children(h, n) == {h.node[n].left, h.node[n].right} \ {nullptr}

ivt_min(h, n) == Min({h.node[n].lo} \cup {h.node[c].min : c \in Children(h, n)})

\* A wrong maximum that relies on the order of the starts: the right child.
ivt_maxRight(h, n) ==
    Max({h.node[n].hi} \cup {h.node[c].max : c \in {h.node[n].right} \ {nullptr}})

ivt_max(h, n) == Max({h.node[n].hi} \cup {h.node[c].max : c \in Children(h, n)})

ivt_height(h, n) == 1 + Max({0} \cup {h.node[c].height : c \in Children(h, n)})

StoredHeight(h, n) == IF n = nullptr THEN 0 ELSE h.node[n].height

ivt_balance(h, n) ==
    IF n = nullptr THEN 0
    ELSE StoredHeight(h, h.node[n].left) - StoredHeight(h, h.node[n].right)

RootPlace == [of |-> nullptr, field |-> "root"]
Left(n) == [of |-> n, field |-> "left"]
Right(n) == [of |-> n, field |-> "right"]

At(h, place) ==
    IF place = RootPlace THEN h.root ELSE h.node[place.of][place.field]

Put(h, place, n) ==
    IF place = RootPlace THEN [h EXCEPT !.root = n]
    ELSE [h EXCEPT !.node[place.of][place.field] = n]

\* The place that points to n.
ivt_ref(h, n) ==
    LET p == h.node[n].parent IN
    IF p = nullptr THEN RootPlace
    ELSE IF n = h.node[p].left THEN Left(p) ELSE Right(p)

-----------------------------------------------------------------------------
(* Walking the tree.                                                       *)

RECURSIVE ivt_first(_, _), ivt_last(_, _)

ivt_first(h, n) ==
    IF n # nullptr /\ h.node[n].left # nullptr
    THEN ivt_first(h, h.node[n].left) ELSE n

ivt_last(h, n) ==
    IF n # nullptr /\ h.node[n].right # nullptr
    THEN ivt_last(h, h.node[n].right) ELSE n

\* The nearest ancestor that n is not on the given side of.
RECURSIVE Climb(_, _, _)
Climb(h, n, side) ==
    LET p == h.node[n].parent IN
    IF p # nullptr /\ n = h.node[p][side] THEN Climb(h, p, side) ELSE p

ivt_next(h, n) ==
    IF n = nullptr THEN nullptr
    ELSE IF h.node[n].right # nullptr THEN ivt_first(h, h.node[n].right)
    ELSE Climb(h, n, "right")

ivt_prev(h, n) ==
    IF n = nullptr THEN nullptr
    ELSE IF h.node[n].left # nullptr THEN ivt_last(h, h.node[n].left)
    ELSE Climb(h, n, "left")

-----------------------------------------------------------------------------
(* Changing the tree.                                                      *)

ivt_refresh(h, n) ==
    IF n = nullptr THEN h
    ELSE [h EXCEPT !.node[n].height = ivt_height(h, n),
                   !.node[n].min = ivt_min(h, n),
                   !.node[n].max = ivt_max(h, n)]

ivt_transplant(h, place, n, parent) ==
    LET g == Put(h, place, n) IN
    IF n = nullptr THEN g ELSE [g EXCEPT !.node[n].parent = parent]

ivt_rotate_left(h, place) ==
    LET oldroot == At(h, place)
        newroot == h.node[oldroot].right
        subtree == h.node[newroot].left
        h1 == ivt_transplant(h, place, newroot, h.node[oldroot].parent)
        h2 == ivt_transplant(h1, Left(newroot), oldroot, newroot)
        h3 == ivt_transplant(h2, Right(oldroot), subtree, oldroot)
    IN ivt_refresh(ivt_refresh(h3, oldroot), newroot)

ivt_rotate_right(h, place) ==
    LET oldroot == At(h, place)
        newroot == h.node[oldroot].left
        subtree == h.node[newroot].right
        h1 == ivt_transplant(h, place, newroot, h.node[oldroot].parent)
        h2 == ivt_transplant(h1, Right(newroot), oldroot, newroot)
        h3 == ivt_transplant(h2, Left(oldroot), subtree, oldroot)
    IN ivt_refresh(ivt_refresh(h3, oldroot), newroot)

ivt_rotate_left_right(h, place) ==
    ivt_rotate_right(ivt_rotate_left(h, Left(At(h, place))), place)

ivt_rotate_right_left(h, place) ==
    ivt_rotate_left(ivt_rotate_right(h, Right(At(h, place))), place)

\* A wrong rebalancing that only knows single rotations.
ivt_rebalanceSingle(h, place) ==
    LET n == At(h, place)
        g == ivt_refresh(h, n)
        b == ivt_balance(g, n)
    IN IF b > 1 THEN ivt_rotate_right(g, place)
       ELSE IF b < -1 THEN ivt_rotate_left(g, place) ELSE g

ivt_rebalance(h, place) ==
    LET n == At(h, place)
        g == ivt_refresh(h, n)
        b == ivt_balance(g, n)
    IN CASE b > 1  -> IF ivt_balance(g, g.node[n].left) < 0
                      THEN ivt_rotate_left_right(g, place)
                      ELSE ivt_rotate_right(g, place)
         [] b < -1 -> IF ivt_balance(g, g.node[n].right) > 0
                      THEN ivt_rotate_right_left(g, place)
                      ELSE ivt_rotate_left(g, place)
         [] OTHER  -> g

RECURSIVE ivt_insert(_, _, _, _)
ivt_insert(h, place, n, parent) ==
    LET root == At(h, place) IN
    IF root = nullptr
    THEN ivt_transplant(h, place, n, parent)
    ELSE ivt_rebalance(
            ivt_insert(h, IF h.node[n].lo <= h.node[root].lo
                          THEN Left(root) ELSE Right(root), n, root),
            place)

\* The loop at the end of ivt_remove, from n up to the root.
RECURSIVE RebalanceUp(_, _)
RebalanceUp(h, n) ==
    IF n = nullptr THEN h
    ELSE RebalanceUp(ivt_rebalance(h, ivt_ref(h, n)), h.node[n].parent)

\* n has two children: its predecessor takes its place.
RemoveInner(h, n) ==
    LET prev == ivt_prev(h, n)
        left == h.node[n].left
        h1 == IF prev = left THEN h
              ELSE LET g == ivt_transplant(h, ivt_ref(h, prev),
                                h.node[prev].left, h.node[prev].parent)
                       g1 == [g EXCEPT !.node[prev].left = g.node[n].left]
                   IN [g1 EXCEPT !.node[g1.node[prev].left].parent = prev]
        h2 == ivt_transplant(h1, ivt_ref(h1, n), prev, h1.node[n].parent)
        right == h2.node[n].right
        h3 == [h2 EXCEPT !.node[prev].right = right]
    IN RebalanceUp([h3 EXCEPT !.node[right].parent = prev],
                   IF prev = left THEN prev ELSE h.node[prev].parent)

ivt_remove(h, n) ==
    LET left == h.node[n].left
        right == h.node[n].right
        p == h.node[n].parent
    IN IF left # nullptr /\ right # nullptr
       THEN RemoveInner(h, n)
       ELSE RebalanceUp(ivt_transplant(h, ivt_ref(h, n),
                            IF left = nullptr THEN right ELSE left, p),
                        p)

-----------------------------------------------------------------------------
(* Queries.                                                                *)

RECURSIVE ivt_overlaps(_, _, _, _)
ivt_overlaps(h, n, start, end) ==
    /\ n # nullptr
    /\ overlaps(h.node[n].min, h.node[n].max, start, end)
    /\ \/ overlaps(h.node[n].lo, h.node[n].hi, start, end)
       \/ ivt_overlaps(h, h.node[n].left, start, end)
       \/ ivt_overlaps(h, h.node[n].right, start, end)

\* The nodes fn is called with, in order.
RECURSIVE ivt_for_each(_, _, _, _)
ivt_for_each(h, n, start, end) ==
    IF n = nullptr \/ ~overlaps(h.node[n].min, h.node[n].max, start, end)
    THEN <<>>
    ELSE (IF overlaps(h.node[n].lo, h.node[n].hi, start, end)
          THEN <<n>> ELSE <<>>)
         \o ivt_for_each(h, h.node[n].left, start, end)
         \o ivt_for_each(h, h.node[n].right, start, end)

\* The number of nodes below n, or -1 if one of them fails a check.
RECURSIVE ivt_validate(_, _, _)
ivt_validate(h, n, parent) ==
    IF n = nullptr THEN 0
    ELSE LET l == ivt_validate(h, h.node[n].left, n)
             r == ivt_validate(h, h.node[n].right, n)
         IN IF /\ l >= 0 /\ r >= 0
               /\ h.node[n].parent = parent
               /\ h.node[n].min = ivt_min(h, n)
               /\ h.node[n].max = ivt_max(h, n)
               /\ ivt_balance(h, n) \in -1..1
            THEN l + r + 1
            ELSE -1

\* begin() to end().
RECURSIVE IterateFrom(_, _)
IterateFrom(h, n) ==
    IF n = nullptr THEN <<>> ELSE <<n>> \o IterateFrom(h, ivt_next(h, n))

-----------------------------------------------------------------------------
(* The operations that change the tree.                                    *)

insert(n, iv) ==
    /\ n \notin live
    /\ tree' = ivt_insert([tree EXCEPT !.node[n] = ivtnode(iv)], RootPlace, n,
                          nullptr)
    /\ m_size' = m_size + 1
    /\ live' = live \cup {n}

\* A wrong remove that moves the interval of the predecessor and frees that.
removeByCopy(n) ==
    /\ n \in live
    /\ LET prev == ivt_prev(tree, n)
           inner == Cardinality(Children(tree, n)) = 2
           victim == IF inner THEN prev ELSE n
           h == IF inner THEN [tree EXCEPT !.node[n].lo = tree.node[prev].lo,
                                           !.node[n].hi = tree.node[prev].hi]
                ELSE tree
       IN /\ tree' = [ivt_remove(h, victim) EXCEPT !.node[victim] = Freed]
          /\ live' = live \ {victim}
    /\ m_size' = m_size - 1

remove(n) ==
    /\ n \in live
    /\ tree' = [ivt_remove(tree, n) EXCEPT !.node[n] = Freed]
    /\ live' = live \ {n}
    /\ m_size' = m_size - 1

clear ==
    /\ tree' = [root |-> nullptr, node |-> [n \in Nodes |-> Freed]]
    /\ live' = {}
    /\ m_size' = 0

Next ==
    \/ \E n \in Nodes : \E iv \in IntervalsOf(n) : insert(n, iv)
    \/ \E n \in Nodes : remove(n)
    \/ clear

Spec == Init /\ [][Next]_vars

-----------------------------------------------------------------------------
(* Properties.                                                             *)

RECURSIVE Depth(_)
Depth(n) == IF n = nullptr THEN 0
            ELSE 1 + Max({Depth(tree.node[n].left), Depth(tree.node[n].right)})

\* After every insert and remove, what validate() checks holds: parent
\* pointers, the least start and greatest end of every subtree, the balance of
\* every node and the size.  Every allocated node is still in the tree, and the
\* heights that rebalancing trusts are the real ones, which validate() does not
\* check: after any rotation, at any level, in the right order.
Validates ==
    /\ TypeOK
    /\ ivt_validate(tree, tree.root, nullptr) = m_size
    /\ m_size = Cardinality(live)
    /\ \A n \in live : tree.node[n].height = Depth(n)

\* begin() to end() meets every node once, in the order of the starts, although
\* equal starts may be on either side of each other.
IteratesInOrder ==
    LET s == IterateFrom(tree, ivt_first(tree, tree.root)) IN
    /\ Len(s) = Cardinality(live)
    /\ {s[i] : i \in DOMAIN s} = live
    /\ \A i \in 1..(Len(s) - 1) : tree.node[s[i]].lo <= tree.node[s[i + 1]].lo

\* Iteration and queries see exactly what is in the tree: for_each and
\* find_overlaps find every interval that shares a point with the query, once,
\* and no other, and overlaps() says whether there is one, so that no subtree
\* is pruned wrongly.
QueriesAreExact ==
    /\ IteratesInOrder
    /\ \A q \in Intervals :
        LET found == ivt_for_each(tree, tree.root, q.lo, q.hi)
            wanted == {n \in live : \E p \in q.lo..q.hi :
                            tree.node[n].lo <= p /\ p <= tree.node[n].hi}
        IN /\ Len(found) = Cardinality(wanted)
           /\ {found[i] : i \in DOMAIN found} = wanted
           /\ ivt_overlaps(tree, tree.root, q.lo, q.hi) <=> wanted # {}

\* An iterator stays good until its own element is removed: whatever else is
\* inserted, removed and rotated, its node keeps its interval.
IteratorsStayValid ==
    [][\A n \in live \cap live' :
        /\ tree'.node[n].lo = tree.node[n].lo
        /\ tree'.node[n].hi = tree.node[n].hi]_vars
=============================================================================
