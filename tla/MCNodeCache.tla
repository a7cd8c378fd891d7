---------------------------- MODULE MCNodeCache ----------------------------
(* Three nodes, two buffer contents, and a limit that the third node hits. *)
EXTENDS NodeCache
=============================================================================
