---------------------------- MODULE MCTreeSearch ----------------------------
(***************************************************************************)
(* A healthy tree of three levels, one of two and a single leaf, and every *)
(* tree that differs from the first in one child pointer, in the height or *)
(* kind of one node, in the order of the keys of one node, or lacks one.   *)
(***************************************************************************)
EXTENDS TreeSearch

Leaf(ks, top) == [kind |-> "leaf", height |-> 1, keys |-> ks, kids |-> ks, hi |-> top]
Index(h, ks, cs, top) == [kind |-> "index", height |-> h, keys |-> ks, kids |-> cs, hi |-> top]

Tall ==
  [ treeDepth |-> 3, rootNode |-> 1, totalNodes |-> 8,
    nodes |-> << Index(3, <<2, 6>>, <<2, 3>>, 12),
                 Index(2, <<2, 4>>, <<4, 5>>, 6),
                 Index(2, <<6, 9>>, <<6, 7>>, 12),
                 Leaf(<<2, 3>>, 4), Leaf(<<4>>, 6),
                 Leaf(<<6, 7>>, 9), Leaf(<<9, 11>>, 12) >> ]

Flat ==
  [ treeDepth |-> 2, rootNode |-> 1, totalNodes |-> 4,
    nodes |-> << Index(2, <<2, 6>>, <<2, 3>>, 12), Leaf(<<2, 3, 5>>, 6), Leaf(<<6, 9>>, 12) >> ]

Single ==
  [ treeDepth |-> 1, rootNode |-> 1, totalNodes |-> 2, nodes |-> << Leaf(<<2, 3, 5, 7, 9>>, 12) >> ]

Empty == [ treeDepth |-> 0, rootNode |-> 0, totalNodes |-> 1, nodes |-> <<>> ]

Redirected ==
  { [Tall EXCEPT !.rootNode = 0] } \cup { [Tall EXCEPT !.nodes[n].kids[i] = kid] : n \in 1..3, i \in 1..2, kid \in 0..9 }

Misbuilt ==
  { [Tall EXCEPT !.nodes[n].height = h] : n \in 1..7, h \in 0..4 }
    \cup { [Tall EXCEPT !.nodes[n].kind = k] : n \in 1..7, k \in {"leaf", "index", "map"} }

Unsorted ==
  { [Tall EXCEPT !.nodes[n].keys = Reverse(@)] : n \in 1..7 }

Unreadable ==
  { [Tall EXCEPT !.nodes = [n \in (1..7) \ {lost} |-> Tall.nodes[n]]] : lost \in 1..7 }

Deeper == { [Tall EXCEPT !.treeDepth = d] : d \in 1..4 }

MCTrees == {Tall, Flat, Single, Empty} \cup Redirected \cup Misbuilt \cup Unsorted \cup Unreadable \cup Deeper
MCHealthyTrees == {Tall, Flat, Single}
=============================================================================
