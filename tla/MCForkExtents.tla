--------------------------- MODULE MCForkExtents ---------------------------
(***************************************************************************)
(* Two descriptors to a record.  Forks that need no record of the tree,    *)
(* one, and two; a fork with a record missing, one whose record begins too *)
(* early, one with a record that is not full, and one before all keys;     *)
(* volumes with these records in a leaf or under index nodes, with an      *)
(* extents file of one or of three extents.                               *)
(***************************************************************************)
EXTENDS ForkExtents

D(s, c) == [startBlock |-> s, blockCount |-> c]
F(n, es, t) == [cnid |-> n, extents |-> es, totalBlocks |-> t]
R(n, b, es) == [cnid |-> n, startBlock |-> b, extents |-> es]

Small == F(16, <<D(10, 2), D(0, 0)>>, 2)
Gap   == F(17, <<D(0, 0), D(14, 3)>>, 5)
Two   == F(18, <<D(20, 1), D(30, 2)>>, 9)
Early == F(19, <<D(40, 2), D(50, 2)>>, 6)
Bare  == F(20, <<D(60, 1), D(62, 1)>>, 4)
Loose == F(21, <<D(80, 1), D(82, 1)>>, 4)
First == F(4, <<D(70, 1), D(72, 1)>>, 4)

Records ==
  << R(17, 3, <<D(16, 2), D(0, 0)>>),
     R(18, 3, <<D(24, 2), D(26, 1)>>), R(18, 6, <<D(28, 1), D(33, 2)>>),
     R(19, 3, <<D(54, 2), D(0, 0)>>),
     R(21, 2, <<D(84, 1), D(0, 0)>>), R(21, 3, <<D(86, 1), D(0, 0)>>) >>

Narrow == F(3, <<D(1, 2), D(0, 0)>>, 2)
Wide   == F(3, <<D(1, 1), D(4, 1)>>, 3)

MCVolumes ==
  [ extentsFile : {Narrow, Wide}, records : {Records, <<>>, SubSeq(Records, 2, 6)}, tall : {TRUE, FALSE} ]

MCUserForks == {Small, Gap, Two, Early, Bare, Loose, First, Narrow, Wide}
=============================================================================
