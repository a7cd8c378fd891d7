---------------------------- MODULE MCBTreeNodes ----------------------------
(***************************************************************************)
(* A tree of ten nodes whose bitmap takes records of two, one and two      *)
(* bytes, two bits a byte.  Map node 2 lies within the bits of the header  *)
(* node, map node 8 beyond what is loaded when it is needed.  Nodes 3 and  *)
(* 7 are marked unused; node 5 is in use but does not hold a node.  Nodes  *)
(* 1 and 7 are index nodes, 3 and 9 leaves with records of every type that *)
(* the tree has, names of no, one and two units among them.                *)
(***************************************************************************)
EXTENDS NodeRecords

MCMapRecords ==
  << [node |-> 0, bits |-> <<1, 1, 1, 0>>],
     [node |-> 2, bits |-> <<1, 1>>],
     [node |-> 8, bits |-> <<1, 0, 1, 1>>] >>

MCHealthy == (0..9) \ {5}

R(name, value) == [name |-> name, value |-> value]

Node(kind, records) == [kind |-> kind, records |-> records]

Tree(index, leaf) ==
  [n \in MCHealthy |->
     CASE n = 0        -> Node("header", <<>>)
       [] n \in {2, 8} -> Node("map", <<>>)
       [] n \in {1, 7} -> Node("index", index)
       [] OTHER        -> Node("leaf", leaf)]

MCContents ==
  [t \in {"catalog", "extents", "attributes", "hotfiles"} |->
     CASE t = "catalog" ->
            Tree(<<R(0, "child"), R(2, "child")>>,
                 <<R(0, "thread"), R(1, "file"), R(2, "folder"), R(2, "thread"), R(1, "unknown")>>)
       [] t = "extents" ->
            Tree(<<R(0, "child")>>, <<R(0, "extents"), R(0, "badkey")>>)
       [] t = "attributes" ->
            Tree(<<R(1, "child")>>, <<R(1, "data"), R(2, "fork"), R(0, "more")>>)
       [] OTHER ->
            Tree(<<R(0, "child")>>, <<R(0, "unknown")>>)]
=============================================================================
