-------------------------- MODULE TreeSearch_proof --------------------------
(* The descent visits no node twice, in any tree, damaged or not, and ends on *)
(* the record that is asked for in every healthy one.                         *)
EXTENDS TreeSearch, TLAPS

\* The path so far: each node on it has the height its depth calls for, and the
\* level counts what is left.  Nothing is assumed of the child pointers.
Path ==
  /\ tree \in Trees
  /\ history \in Seq(DOMAIN tree.nodes)
  /\ \A i \in 1..Len(history) : Node(history[i]).height = tree.treeDepth + 1 - i
  /\ pc = "visit" => level = tree.treeDepth - Len(history)

\* What appending one node does to a path.
LEMMA AppendNode ==
  ASSUME NEW S, NEW s \in Seq(S), NEW n \in S
  PROVE  /\ Append(s, n) \in Seq(S)
         /\ Len(Append(s, n)) = Len(s) + 1
         /\ Len(s) \in Nat
         /\ \A i \in 1..(Len(s) + 1) :
              \/ i \in 1..Len(s) /\ Append(s, n)[i] = s[i]
              \/ i = Len(s) + 1 /\ Append(s, n)[i] = n
  OBVIOUS

LEMMA InitPath == Init => Path
<1> SUFFICES ASSUME Init PROVE Path
  OBVIOUS
<1>1. tree \in Trees /\ history = <<>> /\ level = tree.treeDepth
  BY DEF Init
<1>2. history \in Seq(DOMAIN tree.nodes) /\ Len(history) = 0
  BY <1>1
<1>3. tree.treeDepth \in Nat
  BY <1>1, TreesAssumption
<1> QED
  BY <1>1, <1>2, <1>3 DEF Path

\* A node that is present and expected extends the path.
LEMMA Extended ==
  ASSUME Path, pc = "visit", Present(currentNode), Expected(currentNode),
         tree' = tree, history' = Append(history, currentNode)
  PROVE  /\ history' \in Seq(DOMAIN tree'.nodes)
         /\ Len(history') = Len(history) + 1
         /\ \A i \in 1..Len(history') : tree'.nodes[history'[i]].height = tree'.treeDepth + 1 - i
<1>1. currentNode \in DOMAIN tree.nodes /\ Node(currentNode).height = level
  BY DEF Present, Expected
<1>2. history \in Seq(DOMAIN tree.nodes) /\ level = tree.treeDepth - Len(history)
  BY DEF Path
<1>3. tree.treeDepth \in Nat
  BY TreesAssumption DEF Path
<1>4. /\ history' \in Seq(DOMAIN tree.nodes)
      /\ Len(history') = Len(history) + 1 /\ Len(history) \in Nat
      /\ \A i \in 1..(Len(history) + 1) :
           \/ i \in 1..Len(history) /\ history'[i] = history[i]
           \/ i = Len(history) + 1 /\ history'[i] = currentNode
  BY <1>1, <1>2, AppendNode
<1>5. ASSUME NEW i \in 1..Len(history')
      PROVE  tree.nodes[history'[i]].height = tree.treeDepth + 1 - i
  <2>1. CASE i \in 1..Len(history) /\ history'[i] = history[i]
    BY <2>1 DEF Path, Node
  <2>2. CASE i = Len(history) + 1 /\ history'[i] = currentNode
    <3>1. tree.nodes[history'[i]].height = tree.treeDepth - Len(history)
      BY <2>2, <1>1, <1>2 DEF Node
    <3>2. tree.treeDepth - Len(history) = tree.treeDepth + 1 - i
      BY <2>2, <1>3, <1>4
    <3> QED
      BY <3>1, <3>2
  <2> QED
    BY <2>1, <2>2, <1>4
<1> QED
  BY <1>4, <1>5

LEMMA NextPath == Path /\ [Next]_vars => Path'
<1> SUFFICES ASSUME Path, [Next]_vars PROVE Path'
  OBVIOUS
<1>1. ASSUME tree' = tree, history' = history, pc' = "visit" => pc = "visit" /\ level' = level
      PROVE  Path'
  BY <1>1 DEF Path, Node
<1>2. CASE Runaway
  BY <1>2, <1>1 DEF Runaway, Fixed
<1>3. CASE NotLoaded
  BY <1>3, <1>1 DEF NotLoaded, Fixed
<1>4. CASE Misplaced
  BY <1>4, <1>1 DEF Misplaced, Fixed
<1>5. CASE Land
  <2>1. /\ pc = "visit" /\ Present(currentNode) /\ Expected(currentNode)
        /\ tree' = tree /\ history' = Append(history, currentNode) /\ pc' = "returned"
    BY <1>5 DEF Land, Fixed
  <2>2. tree' \in Trees
    BY <2>1 DEF Path
  <2> QED
    BY <2>1, <2>2, Extended DEF Path, Node
<1>6. CASE Descend
  <2>1. /\ pc = "visit" /\ Present(currentNode) /\ Expected(currentNode)
        /\ tree' = tree /\ history' = Append(history, currentNode)
        /\ pc' = "visit" => level' = level - 1
    BY <1>6 DEF Descend, Fixed
  <2>2. tree' \in Trees /\ level = tree.treeDepth - Len(history)
    BY <2>1 DEF Path
  <2>3. tree.treeDepth \in Nat /\ Len(history) \in Nat
    BY TreesAssumption DEF Path
  <2>4. Len(history') = Len(history) + 1
    BY <2>1, Extended
  <2>5. (pc = "visit" => level = tree.treeDepth - Len(history))'
    BY <2>1, <2>2, <2>3, <2>4
  <2> QED
    BY <2>1, <2>2, <2>5, Extended DEF Path, Node
<1>7. CASE UNCHANGED vars
  BY <1>7, <1>1 DEF vars
<1> QED
  BY <1>2, <1>3, <1>4, <1>5, <1>6, <1>7 DEF Next

\* The path of every search of every tree has the heights its depth calls for.
THEOREM PathHolds == Spec => []Path
  BY InitPath, NextPath, PTL DEF Spec

\* btree_search visits no node twice, wherever the child pointers of a damaged
\* tree lead: the check of the heights makes the recursion check superfluous.
THEOREM NoRevisitHolds == Spec => []NoRevisit
<1>1. Path => NoRevisit
  <2> SUFFICES ASSUME Path, NEW i \in DOMAIN history, NEW j \in DOMAIN history,
                      history[i] = history[j]
      PROVE i = j
    BY DEF NoRevisit
  <2>1. /\ DOMAIN history = 1..Len(history) /\ Len(history) \in Nat
        /\ tree.treeDepth \in Nat
    BY TreesAssumption DEF Path
  <2>2. /\ Node(history[i]).height = tree.treeDepth + 1 - i
        /\ Node(history[j]).height = tree.treeDepth + 1 - j
    BY <2>1 DEF Path
  <2> QED
    BY <2>1, <2>2
<1> QED
  BY PathHolds, <1>1, PTL

-----------------------------------------------------------------------------
(***************************************************************************)
(* The choice made at the root is never regretted.                         *)
(***************************************************************************)

First(n) == Node(n).keys[1]

\* Of the nodes of its height, n is the one to look in: the others end before it
\* begins, at or before the search key, or begin behind the search key.
RightNode(n) ==
  \A m \in DOMAIN tree.nodes :
    Node(m).height = Node(n).height /\ m # n =>
      \/ Node(m).hi <= First(n) /\ First(n) <= searchKey
      \/ searchKey < First(m)

\* The search of a healthy tree is at such a node on every level, and its answer
\* is the Position in the last.
Descent ==
  /\ tree \in Trees /\ searchKey \in SearchKeys
  /\ WellFormed =>
       /\ pc = "visit" => RightNode(currentNode)
       /\ pc = "returned" /\ answer.node # 0 =>
            /\ answer.node \in DOMAIN tree.nodes /\ Node(answer.node).kind = "leaf"
            /\ RightNode(answer.node)
            /\ answer.index \in Positions(Node(answer.node).keys, searchKey)
            /\ answer.found <=> Node(answer.node).keys[answer.index] = searchKey

\* What btree_search_node says of a sorted node: behind the record it returns
\* every key is greater than the one searched for, and a match is not missed.
LEMMA PositionIs ==
  ASSUME NEW keys \in Seq(Int), NEW k \in Int, Len(keys) > 0, Sorted(keys),
         NEW i \in Positions(keys, k)
  PROVE  /\ i \in DOMAIN keys
         /\ keys[i] <= k => \A j \in DOMAIN keys : j > i => k < keys[j]
         /\ k < keys[i] => \A j \in DOMAIN keys : k < keys[j]
         /\ \A j \in DOMAIN keys : keys[j] = k => keys[i] = k
<1>1. DOMAIN keys = 1..Len(keys) /\ Len(keys) \in Nat /\ \A j \in DOMAIN keys : keys[j] \in Int
  OBVIOUS
<1>2. \A j, l \in DOMAIN keys : j < l => keys[j] < keys[l]
  BY DEF Sorted
<1>3. CASE Matches(keys, k) # {}
  <2>1. i \in DOMAIN keys /\ keys[i] = k
    BY <1>3 DEF Positions, Matches
  <2> QED
    BY <2>1, <1>1, <1>2
<1>4. CASE Matches(keys, k) = {} /\ Smaller(keys, k) = {}
  <2>1. \A j \in DOMAIN keys : k < keys[j]
    BY <1>1, <1>4 DEF Matches, Smaller
  <2>2. i = 1 /\ 1 \in DOMAIN keys
    BY <1>1, <1>4 DEF Positions
  <2> QED
    BY <2>1, <2>2, <1>1
<1>5. CASE Matches(keys, k) = {} /\ Smaller(keys, k) # {}
  <2>1. i \in Smaller(keys, k) /\ \A j \in Smaller(keys, k) : j <= i
    BY <1>5 DEF Positions
  <2>2. i \in DOMAIN keys /\ keys[i] < k
    BY <2>1 DEF Smaller
  <2>3. \A j \in DOMAIN keys : j > i => k < keys[j]
    BY <1>1, <1>5, <2>1, <2>2 DEF Matches, Smaller
  <2>4. \A j \in DOMAIN keys : keys[j] # k
    BY <1>5 DEF Matches
  <2> QED
    BY <2>2, <2>3, <2>4, <1>1
<1> QED
  BY <1>3, <1>4, <1>5

\* What WellFormed says of one node, in the form the steps use.
LEMMA NodeIs ==
  ASSUME tree \in Trees, WellFormed, NEW n \in DOMAIN tree.nodes
  PROVE  /\ Node(n).keys \in Seq(Int) /\ Node(n).hi \in Int
         /\ Node(n).height \in Nat /\ Node(n).height <= tree.treeDepth
         /\ tree.treeDepth \in Nat
         /\ Len(Node(n).keys) > 0 /\ Sorted(Node(n).keys)
         /\ DOMAIN Node(n).keys = 1..Len(Node(n).keys)
         /\ 1 \in DOMAIN Node(n).keys
         /\ \A i \in DOMAIN Node(n).keys :
              /\ Node(n).keys[i] \in Int
              /\ First(n) <= Node(n).keys[i] /\ Node(n).keys[i] < Node(n).hi
         /\ Node(n).kind = IF Node(n).height = 1 THEN "leaf" ELSE "index"
<1>1. /\ Node(n).keys \in Seq(Int) /\ Node(n).hi \in Int /\ Node(n).height \in Nat
      /\ tree.treeDepth \in Nat
  BY TreesAssumption DEF Node
<1>2. /\ Node(n).height <= tree.treeDepth
      /\ Len(Node(n).keys) > 0 /\ Sorted(Node(n).keys)
      /\ Node(n).keys[Len(Node(n).keys)] < Node(n).hi
      /\ Node(n).kind = IF Node(n).height = 1 THEN "leaf" ELSE "index"
  BY DEF WellFormed
<1> DEFINE keys == Node(n).keys
<1>3. /\ DOMAIN keys = 1..Len(keys) /\ Len(keys) \in Nat /\ \A i \in DOMAIN keys : keys[i] \in Int
      /\ 1 \in DOMAIN keys /\ Len(keys) \in DOMAIN keys
  BY <1>1, <1>2
<1>4. \A i \in DOMAIN keys : keys[1] <= keys[i] /\ keys[i] <= keys[Len(keys)]
  BY <1>2, <1>3 DEF Sorted
<1> QED
  BY <1>1, <1>2, <1>3, <1>4 DEF First

\* A child holds the keys from its index key up to the next one, and so lies
\* within its parent and beside its siblings.
LEMMA KidIs ==
  ASSUME tree \in Trees, WellFormed, NEW n \in DOMAIN tree.nodes, Node(n).kind = "index",
         NEW i \in DOMAIN Node(n).keys
  PROVE  /\ Node(n).kids[i] \in DOMAIN tree.nodes
         /\ Node(Node(n).kids[i]).height = Node(n).height - 1
         /\ First(Node(n).kids[i]) = Node(n).keys[i]
         /\ Node(Node(n).kids[i]).hi <= Node(n).hi
         /\ \A j \in DOMAIN Node(n).keys : i < j => Node(Node(n).kids[i]).hi <= Node(n).keys[j]
<1> DEFINE kid == Node(n).kids[i]
<1>1. /\ kid \in DOMAIN tree.nodes /\ Node(kid).height = Node(n).height - 1
      /\ First(kid) = Node(n).keys[i]
      /\ Node(kid).hi = IF i < Len(Node(n).keys) THEN Node(n).keys[i + 1] ELSE Node(n).hi
  BY DEF WellFormed, Present, First
<1>2. /\ DOMAIN Node(n).keys = 1..Len(Node(n).keys) /\ Node(n).keys \in Seq(Int)
      /\ Node(n).hi \in Int
      /\ \A j \in DOMAIN Node(n).keys : Node(n).keys[j] \in Int /\ Node(n).keys[j] < Node(n).hi
      /\ \A j, l \in DOMAIN Node(n).keys : j < l => Node(n).keys[j] < Node(n).keys[l]
  BY NodeIs DEF Sorted
<1> HIDE DEF kid
<1>3. /\ Node(kid).hi <= Node(n).hi
      /\ \A j \in DOMAIN Node(n).keys : i < j => Node(kid).hi <= Node(n).keys[j]
  <2>1. CASE i < Len(Node(n).keys)
    <3>1. Node(kid).hi = Node(n).keys[i + 1] /\ i + 1 \in DOMAIN Node(n).keys
      BY <1>1, <1>2, <2>1
    <3>2. Node(kid).hi <= Node(n).hi
      BY <1>2, <3>1
    <3>3. ASSUME NEW j \in DOMAIN Node(n).keys, i < j PROVE Node(kid).hi <= Node(n).keys[j]
      <4>1. j = i + 1 \/ i + 1 < j
        BY <1>2, <3>3
      <4> QED
        BY <4>1, <3>1, <1>2
    <3> QED
      BY <3>2, <3>3
  <2>2. CASE ~(i < Len(Node(n).keys))
    BY <1>1, <1>2, <2>2
  <2> QED
    BY <2>1, <2>2
<1> QED
  BY <1>1, <1>3, Zenon DEF kid

\* The root is the only node of its height.
LEMMA RootIsRight ==
  ASSUME tree \in Trees, WellFormed
  PROVE  RightNode(tree.rootNode)
<1> SUFFICES ASSUME NEW m \in DOMAIN tree.nodes, m # tree.rootNode,
                    Node(m).height = Node(tree.rootNode).height
             PROVE  FALSE
  BY DEF RightNode
<1>1. Node(m).height = tree.treeDepth
  BY DEF WellFormed
<1>2. PICK p \in DOMAIN tree.nodes : Node(p).kind = "index" /\ m \in Kids(p)
  BY DEF WellFormed
<1>3. PICK i \in DOMAIN Node(p).keys : m = Node(p).kids[i]
  BY <1>2 DEF Kids
<1>4. Node(m).height = Node(p).height - 1
  BY <1>2, <1>3, KidIs
<1>5. Node(p).height <= tree.treeDepth /\ Node(p).height \in Nat /\ tree.treeDepth \in Nat
  BY NodeIs
<1> QED
  BY <1>1, <1>4, <1>5

\* The child that btree_search follows is the right one of its height, because
\* its parent was.
LEMMA KidIsRight ==
  ASSUME tree \in Trees, searchKey \in Int, WellFormed,
         NEW n \in DOMAIN tree.nodes, Node(n).kind = "index", RightNode(n),
         NEW i \in Positions(Node(n).keys, searchKey), Node(n).keys[i] <= searchKey
  PROVE  RightNode(Node(n).kids[i])
<1> DEFINE kid == Node(n).kids[i]
<1>1. /\ i \in DOMAIN Node(n).keys
      /\ \A j \in DOMAIN Node(n).keys : j > i => searchKey < Node(n).keys[j]
  BY NodeIs, PositionIs
<1>2. /\ kid \in DOMAIN tree.nodes /\ Node(kid).height = Node(n).height - 1
      /\ First(kid) = Node(n).keys[i]
  BY <1>1, KidIs
<1> HIDE DEF kid
<1> SUFFICES ASSUME NEW m \in DOMAIN tree.nodes, Node(m).height = Node(kid).height, m # kid
             PROVE  \/ Node(m).hi <= First(kid) /\ First(kid) <= searchKey
                    \/ searchKey < First(m)
  BY DEF RightNode, kid
<1>3. m # tree.rootNode
  <2>1. /\ Node(n).height <= tree.treeDepth /\ Node(n).height \in Nat /\ tree.treeDepth \in Nat
    BY NodeIs
  <2>2. Node(tree.rootNode).height = tree.treeDepth
    BY DEF WellFormed
  <2> QED
    BY <2>1, <2>2, <1>2
<1>4. PICK p \in DOMAIN tree.nodes : Node(p).kind = "index" /\ m \in Kids(p)
  BY <1>3 DEF WellFormed
<1>5. PICK j \in DOMAIN Node(p).keys : m = Node(p).kids[j]
  BY <1>4 DEF Kids
<1>6. /\ Node(m).height = Node(p).height - 1 /\ First(m) = Node(p).keys[j]
      /\ Node(m).hi <= Node(p).hi
      /\ \A l \in DOMAIN Node(p).keys : j < l => Node(m).hi <= Node(p).keys[l]
  BY <1>4, <1>5, KidIs
<1>7. CASE p = n
  <2>1. j # i /\ j \in Int /\ i \in Int
    BY <1>1, <1>5, <1>7, NodeIs DEF kid
  <2>2. CASE j < i
    BY <2>2, <1>1, <1>2, <1>6, <1>7
  <2>3. CASE j > i
    BY <2>3, <1>1, <1>5, <1>6, <1>7
  <2> QED
    BY <2>1, <2>2, <2>3
<1>8. CASE p # n
  <2>1. Node(p).height = Node(n).height
    <3>1. Node(p).height \in Nat /\ Node(n).height \in Nat
      BY NodeIs
    <3>2. Node(p).height - 1 = Node(n).height - 1
      BY <1>2, <1>6
    <3> QED
      BY <3>1, <3>2
  <2>2. \/ Node(p).hi <= First(n) /\ First(n) <= searchKey
        \/ searchKey < First(p)
    BY <2>1, <1>8 DEF RightNode
  <2>3. /\ First(n) <= Node(n).keys[i] /\ First(n) \in Int /\ Node(n).keys[i] \in Int
        /\ First(p) <= Node(p).keys[j] /\ First(p) \in Int /\ Node(p).keys[j] \in Int
        /\ Node(p).hi \in Int /\ Node(m).hi \in Int
    BY <1>1, <1>5, NodeIs DEF First
  <2> QED
    BY <2>2, <2>3, <1>2, <1>6
<1> QED
  BY <1>7, <1>8

\* Every step keeps the search at the right node of its level.
LEMMA NextDescent == Descent /\ [Next]_vars => Descent'
<1> SUFFICES ASSUME Descent, [Next]_vars PROVE Descent'
  OBVIOUS
<1>1. tree' = tree /\ searchKey' = searchKey
  BY DEF Next, Runaway, NotLoaded, Misplaced, Land, Descend, Fixed, vars
<1>2. /\ tree' \in Trees /\ searchKey' \in SearchKeys
      /\ WellFormed' <=> WellFormed
      /\ \A n : RightNode(n)' <=> RightNode(n)
      /\ \A n : Node(n)' = Node(n)
  BY <1>1 DEF Descent, WellFormed, RightNode, First, Node, Present, Kids
<1> SUFFICES ASSUME WellFormed
             PROVE  /\ pc' = "visit" => RightNode(currentNode')
                    /\ pc' = "returned" /\ answer'.node # 0 =>
                         /\ answer'.node \in DOMAIN tree.nodes /\ Node(answer'.node).kind = "leaf"
                         /\ RightNode(answer'.node)
                         /\ answer'.index \in Positions(Node(answer'.node).keys, searchKey)
                         /\ answer'.found <=> Node(answer'.node).keys[answer'.index] = searchKey
  BY <1>1, <1>2 DEF Descent
<1>3. CASE Runaway \/ Misplaced
  BY <1>3 DEF Runaway, Misplaced
<1>4. CASE NotLoaded
  BY <1>4 DEF NotLoaded, NoAnswer
<1>5. CASE Land
  <2>1. /\ pc = "visit" /\ pc' = "returned" /\ currentNode \in DOMAIN tree.nodes
        /\ Node(currentNode).kind = "leaf"
    BY <1>5 DEF Land, Present
  <2>2. PICK i \in Positions(Node(currentNode).keys, searchKey) :
          answer' = [ found |-> Node(currentNode).keys[i] = searchKey,
                      node  |-> currentNode, index |-> i ]
    BY <1>5 DEF Land
  <2> QED
    BY <2>1, <2>2 DEF Descent
<1>6. CASE Descend
  <2>1. /\ pc = "visit" /\ currentNode \in DOMAIN tree.nodes /\ Node(currentNode).kind = "index"
    BY <1>6 DEF Descend, Present
  <2>2. PICK i \in Positions(Node(currentNode).keys, searchKey) :
          /\ pc' = "visit" => Node(currentNode).keys[i] <= searchKey
          /\ pc' \in {"visit", "aborted"}
          /\ currentNode' = Node(currentNode).kids[i]
    BY <1>6 DEF Descend
  <2>3. RightNode(currentNode) /\ searchKey \in Int
    BY <2>1, SearchKeysAssumption DEF Descent
  <2>4. pc' = "visit" => RightNode(currentNode')
    BY <2>1, <2>2, <2>3, KidIsRight DEF Descent
  <2> QED
    BY <2>2, <2>4
<1>7. CASE UNCHANGED vars
  BY <1>7 DEF vars, Descent
<1> QED
  BY <1>3, <1>4, <1>5, <1>6, <1>7 DEF Next

\* Every search of a healthy tree goes down through the right node of each level.
THEOREM DescentHolds == Spec => []Descent
<1>1. Init => Descent
  BY RootIsRight DEF Init, Descent, NoAnswer
<1> QED
  BY <1>1, NextDescent, PTL DEF Spec

\* The record that the search of a healthy tree ends on is that of the key if any
\* leaf has one, and else the one with the greatest key below it.
THEOREM LandsHolds == Spec => []Lands
<1>1. Descent => Lands
  <2> SUFFICES ASSUME Descent, WellFormed, pc = "returned", answer.node # 0
               PROVE  LET key == Node(answer.node).keys[answer.index]
                          below == {k \in LeafKeys : k <= searchKey}
                      IN /\ answer.found <=> searchKey \in LeafKeys
                         /\ below # {} => key = Max(below)
    BY DEF Lands
  <2> DEFINE n == answer.node
             i == answer.index
             key == Node(n).keys[i]
             below == {k \in LeafKeys : k <= searchKey}
  <2>1. /\ tree \in Trees /\ n \in DOMAIN tree.nodes /\ Node(n).kind = "leaf" /\ RightNode(n)
        /\ i \in Positions(Node(n).keys, searchKey) /\ (answer.found <=> key = searchKey)
        /\ searchKey \in Int
    BY SearchKeysAssumption DEF Descent
  <2> HIDE DEF n, i
  <2>2. /\ i \in DOMAIN Node(n).keys /\ key \in Int /\ First(n) \in Int /\ First(n) <= key
        /\ key <= searchKey => \A j \in DOMAIN Node(n).keys : j > i => searchKey < Node(n).keys[j]
        /\ searchKey < key => \A j \in DOMAIN Node(n).keys : searchKey < Node(n).keys[j]
        /\ \A j \in DOMAIN Node(n).keys : Node(n).keys[j] = searchKey => key = searchKey
    <3>1. /\ Node(n).keys \in Seq(Int) /\ Len(Node(n).keys) > 0 /\ Sorted(Node(n).keys)
          /\ First(n) \in Int
          /\ \A j \in DOMAIN Node(n).keys : Node(n).keys[j] \in Int /\ First(n) <= Node(n).keys[j]
      BY <2>1, NodeIs DEF First
    <3>2. /\ i \in DOMAIN Node(n).keys
          /\ key <= searchKey => \A j \in DOMAIN Node(n).keys : j > i => searchKey < Node(n).keys[j]
          /\ searchKey < key => \A j \in DOMAIN Node(n).keys : searchKey < Node(n).keys[j]
          /\ \A j \in DOMAIN Node(n).keys : Node(n).keys[j] = searchKey => key = searchKey
      BY <2>1, <3>1, PositionIs, Zenon
    <3> QED
      BY <3>1, <3>2, Zenon
  <2>3. First(n) <= searchKey => key <= searchKey
    BY <2>1, <2>2, NodeIs DEF First
  <2>4. key \in LeafKeys
    BY <2>1, <2>2 DEF LeafKeys, ToSet
  <2>5. ASSUME NEW k \in LeafKeys, k <= searchKey
        PROVE  k <= key /\ key <= searchKey /\ (k = searchKey => key = searchKey)
    <3>1. PICK m \in DOMAIN tree.nodes :
            Node(m).kind = "leaf" /\ \E j \in DOMAIN Node(m).keys : k = Node(m).keys[j]
      BY DEF LeafKeys, ToSet
    <3>2. PICK j \in DOMAIN Node(m).keys : k = Node(m).keys[j]
      BY <3>1
    <3>3. k \in Int /\ First(m) <= k /\ k < Node(m).hi /\ Node(m).hi \in Int /\ First(m) \in Int
      BY <2>1, <3>2, NodeIs DEF First
    <3>4. CASE m = n
      <4>1. key <= searchKey
        BY <2>1, <2>2, <3>2, <3>3, <3>4, <2>5
      <4>2. ~(j > i)
        BY <4>1, <2>1, <2>2, <3>2, <3>3, <3>4, <2>5
      <4>3. k <= key
        <5>1. /\ j \in DOMAIN Node(n).keys /\ i \in DOMAIN Node(n).keys
              /\ DOMAIN Node(n).keys = 1..Len(Node(n).keys) /\ k = Node(n).keys[j]
          BY <2>1, <2>2, <3>2, <3>4, NodeIs
        <5>2. j = i \/ (j < i /\ Node(n).keys[j] < Node(n).keys[i])
          BY <4>2, <5>1, <2>1, NodeIs DEF Sorted
        <5> QED
          BY <5>1, <5>2, <2>2, <3>3
      <4> QED
        BY <4>1, <4>3, <2>2, <3>2, <3>4
    <3>5. CASE m # n
      <4>1. Node(m).height = Node(n).height
        BY <2>1, <3>1, NodeIs
      <4>2. Node(m).hi <= First(n) /\ First(n) <= searchKey
        BY <2>1, <4>1, <3>3, <3>5, <2>5 DEF RightNode
      <4> QED
        BY <4>2, <2>1, <2>2, <2>3, <3>3
    <3> QED
      BY <3>4, <3>5
  <2>6. answer.found <=> searchKey \in LeafKeys
    <3>1. searchKey \in LeafKeys => key = searchKey
      BY <2>1, <2>5
    <3> HIDE DEF key
    <3> QED
      BY <2>1, <2>4, <3>1, Zenon
  <2>7. below # {} => key \in below /\ \A k \in below : key >= k
    BY <2>1, <2>2, <2>4, <2>5
  <2>8. \A k \in below : k \in Int
    BY <2>1, NodeIs DEF LeafKeys, ToSet
  <2> HIDE DEF key, below
  <2>9. below # {} => Max(below) = key
    <3> SUFFICES ASSUME below # {} PROVE Max(below) = key
      OBVIOUS
    <3>1. \A k \in below : (\A l \in below : k >= l) => k = key
      BY <2>7, <2>8
    <3> QED
      BY <2>7, <3>1 DEF Max
  <2> QED
    BY <2>6, <2>9 DEF key, below, n, i
<1> QED
  BY DescentHolds, <1>1, PTL
=============================================================================
