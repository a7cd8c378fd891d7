----------------------------- MODULE TreeSearch -----------------------------
(***************************************************************************)
(* btree_search (hfs/btree/btree.c): the descent from the root of a B-tree *)
(* to the leaf record of a key.  The tree comes from the disk and may be   *)
(* damaged: a child pointer may lead anywhere, a node may have the wrong   *)
(* kind or height, keys may be out of order.  Nodes may fail to load.      *)
(*                                                                         *)
(* A tree is a record [treeDepth, rootNode, totalNodes, nodes], with the   *)
(* nodes that are in use and can be read; a node is a record [kind,        *)
(* height, keys, kids, hi]; the kids of a leaf mean nothing, and hi, which *)
(* is not on the disk, bounds the keys below the node.                     *)
(* Records are numbered from 1 here.  What btree_search_node returns on a  *)
(* sorted node is the Position proved for SearchNode; on an unsorted one   *)
(* it may return any record of the node.                                   *)
(***************************************************************************)
EXTENDS Integers, Sequences, SequencesExt, FiniteSetsExt

CONSTANTS
  Trees,        \* the trees on disk
  SearchKeys

\* treeDepth is an unsigned 16-bit field, height an 8-bit one; keys are numbers,
\* of which only the order matters.
ASSUME TreesAssumption ==
  \A t \in Trees :
    /\ t.treeDepth \in Nat
    /\ \A n \in DOMAIN t.nodes :
         t.nodes[n].height \in Nat /\ t.nodes[n].keys \in Seq(Int) /\ t.nodes[n].hi \in Int

ASSUME SearchKeysAssumption == SearchKeys \subseteq Int

VARIABLES
  tree, searchKey,
  level, currentNode,
  history,      \* the nodes visited, top down
  pc,           \* "visit", "returned" or "aborted"
  answer        \* [found, node, index]; node is 0 where the code leaves NULL

vars == <<tree, searchKey, level, currentNode, history, pc, answer>>

Node(n) == tree.nodes[n]
Present(n) == n \in DOMAIN tree.nodes /\ n < tree.totalNodes

Sorted(keys) == \A i, j \in DOMAIN keys : i < j => keys[i] < keys[j]

Matches(keys, k) == {i \in DOMAIN keys : keys[i] = k}
Smaller(keys, k) == {i \in DOMAIN keys : keys[i] < k}

MutantPositionAfter(keys, k) ==
  IF Matches(keys, k) # {} THEN Matches(keys, k)
  ELSE IF Sorted(keys) THEN {IF Smaller(keys, k) = DOMAIN keys THEN Len(keys) ELSE Max(Smaller(keys, k) \cup {0}) + 1}
  ELSE DOMAIN keys

\* btree_search_node: the match, else the last smaller record, else the first.
Positions(keys, k) ==
  IF ~Sorted(keys) THEN DOMAIN keys
  ELSE IF Matches(keys, k) # {} THEN Matches(keys, k)
  ELSE IF Smaller(keys, k) = {} THEN {1}
  ELSE {i \in Smaller(keys, k) : \A j \in Smaller(keys, k) : j <= i}

-----------------------------------------------------------------------------

NoAnswer == [found |-> FALSE, node |-> 0, index |-> 0]

Init ==
  /\ tree \in Trees
  /\ searchKey \in SearchKeys
  /\ level = tree.treeDepth
  /\ currentNode = tree.rootNode
  /\ history = <<>>
  /\ pc = IF tree.treeDepth = 0 THEN "returned" ELSE "visit"
  /\ answer = NoAnswer

Fixed == UNCHANGED <<tree, searchKey>>

\* The check against the number of nodes, one too lenient, and the check for
\* a node visited before, or node 0, for 0 is in the places not yet filled.  The
\* latter compares eight bytes where a number has four, so whether it notices
\* depends on what lies behind them.
Runaway ==
  /\ pc = "visit"
  /\ \/ currentNode > tree.totalNodes
     \/ currentNode = 0 \/ \E i \in DOMAIN history : history[i] = currentNode
  /\ pc' = "aborted"
  /\ UNCHANGED <<level, currentNode, history, answer>> /\ Fixed

\* The node is out of range, unused or unreadable: not found, and no node.
NotLoaded ==
  /\ pc = "visit"
  /\ currentNode <= tree.totalNodes
  /\ ~Present(currentNode)
  /\ pc' = "returned"
  /\ answer' = NoAnswer
  /\ UNCHANGED <<level, currentNode, history>> /\ Fixed

MutantExpectedIgnoresHeight(n) ==
  Node(n).kind = IF level = 1 THEN "leaf" ELSE "index"

Expected(n) ==
  /\ Node(n).height = level
  /\ Node(n).kind = IF level = 1 THEN "leaf" ELSE "index"

MutantMisplacedRetries ==
  /\ pc = "visit"
  /\ Present(currentNode)
  /\ ~Expected(currentNode)
  /\ UNCHANGED vars

\* A node of the wrong height or kind ends the program.
Misplaced ==
  /\ pc = "visit"
  /\ Present(currentNode)
  /\ ~Expected(currentNode)
  /\ pc' = "aborted"
  /\ UNCHANGED <<level, currentNode, history, answer>> /\ Fixed

\* The leaf: its record and whether it matches are the result.
Land ==
  /\ pc = "visit"
  /\ Present(currentNode) /\ Expected(currentNode)
  /\ Node(currentNode).kind = "leaf"
  /\ \E i \in Positions(Node(currentNode).keys, searchKey) :
       answer' = [ found |-> Node(currentNode).keys[i] = searchKey,
                   node  |-> currentNode, index |-> i ]
  /\ history' = Append(history, currentNode)
  /\ pc' = "returned"
  /\ UNCHANGED <<level, currentNode>> /\ Fixed

\* An index node: follow the record, unless it leads to node 0 or its key is
\* greater than the search key, both of which end the program.
Descend ==
  /\ pc = "visit"
  /\ Present(currentNode) /\ Expected(currentNode)
  /\ Node(currentNode).kind = "index"
  /\ \E i \in Positions(Node(currentNode).keys, searchKey) :
       LET kid == Node(currentNode).kids[i]
           ok  == kid # 0 /\ Node(currentNode).keys[i] <= searchKey
       IN /\ pc' = IF ok THEN "visit" ELSE "aborted"
          /\ currentNode' = kid
          /\ level' = IF ok THEN level - 1 ELSE level
  /\ history' = Append(history, currentNode)
  /\ UNCHANGED answer /\ Fixed

Next == Runaway \/ NotLoaded \/ Misplaced \/ Land \/ Descend

Spec == Init /\ [][Next]_vars

\* The search is a loop without waiting.
FairSpec == Spec /\ WF_vars(Next)

-----------------------------------------------------------------------------
(***************************************************************************)
(* Properties                                                              *)
(***************************************************************************)

\* The nodes that an index node leads to.
Kids(n) == {Node(n).kids[i] : i \in DOMAIN Node(n).keys}

\* A healthy tree: sorted nodes, heights that go down by one from the root, every
\* other node under an index node, and each child holding the keys from its index
\* key up to the next one (hi bounds a node).
WellFormed ==
  /\ tree.treeDepth > 0
  /\ Present(tree.rootNode) /\ Node(tree.rootNode).height = tree.treeDepth
  /\ \A n \in DOMAIN tree.nodes \ {tree.rootNode} :
       \E p \in DOMAIN tree.nodes : Node(p).kind = "index" /\ n \in Kids(p)
  /\ \A n \in DOMAIN tree.nodes :
       LET keys == Node(n).keys IN
       /\ Node(n).height <= tree.treeDepth
       /\ Len(keys) > 0 /\ Sorted(keys) /\ keys[Len(keys)] < Node(n).hi
       /\ Node(n).kind = IF Node(n).height = 1 THEN "leaf" ELSE "index"
       /\ Node(n).kind = "index" =>
            \A i \in DOMAIN keys :
              LET kid == Node(n).kids[i] IN
              /\ Present(kid) /\ kid # 0
              /\ Node(kid).height = Node(n).height - 1
              /\ Node(kid).keys[1] = keys[i]
              /\ Node(kid).hi = IF i < Len(keys) THEN keys[i + 1] ELSE Node(n).hi

LeafKeys ==
  UNION {ToSet(Node(n).keys) : n \in {m \in DOMAIN tree.nodes : Node(m).kind = "leaf"}}

\* In a healthy tree, a search that ends on a leaf has found the record of the
\* key if any leaf has it, and else the record with the greatest key below it
\* in the whole tree: the choice made at the root is never regretted.
Lands ==
  WellFormed /\ pc = "returned" /\ answer.node # 0 =>
    LET key == Node(answer.node).keys[answer.index]
        below == {k \in LeafKeys : k <= searchKey}
    IN /\ answer.found <=> searchKey \in LeafKeys
       /\ below # {} => key = Max(below)

\* No node is searched twice on the way down, however the child pointers of a
\* damaged tree lead around, and whether or not the recursion check notices.
NoRevisit == \A i, j \in DOMAIN history : history[i] = history[j] => i = j

\* Every search of every tree, healthy or not, returns or ends the program.
Ends == <>(pc # "visit")

\* btree.c:487 "Either index is the node, or the insertion point where it would
\* go": a search of a healthy tree comes back with a place for the key.
SearchReturns == WellFormed => pc # "aborted"
=============================================================================
