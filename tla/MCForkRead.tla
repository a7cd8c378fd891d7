----------------------------- MODULE MCForkRead -----------------------------
(***************************************************************************)
(* Blocks of three bytes.  A fork in one extent, forks in two and three    *)
(* extents that lie in order or out of order on the volume, a fork whose   *)
(* last blocks are in no extent, an empty one, and one whose size is not   *)
(* the size of its blocks.  Each is read through its stream: ranges of up  *)
(* to thirteen bytes at two places in a row, and whole, in chunks of six.  *)
(***************************************************************************)
EXTENDS ForkStream

E(l, s, c) == [logicalStart |-> l, startBlock |-> s, blockCount |-> c]
F(es, t, s) == [extents |-> es, totalBlocks |-> t, logicalSize |-> s]

Whole == { F(<<E(0, 5, 4)>>, 4, 12), F(<<E(0, 5, 4)>>, 4, 10) }

Fragmented ==
  { F(<<E(0, 5, 1), E(1, 9, 3)>>, 4, 12),
    F(<<E(0, 9, 2), E(2, 3, 2)>>, 4, 11),
    F(<<E(0, 2, 1), E(1, 9, 1), E(2, 5, 2)>>, 4, 12) }

Damaged ==
  { F(<<E(0, 5, 2)>>, 4, 12), F(<<>>, 0, 0), F(<<>>, 0, 4), F(<<E(0, 5, 2)>>, 2, 12) }

MCForks == Whole \cup Fragmented \cup Damaged
MCHealthyForks == Whole \cup Fragmented
=============================================================================
