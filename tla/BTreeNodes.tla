----------------------------- MODULE BTreeNodes -----------------------------
(***************************************************************************)
(* Fetching the nodes of one B-tree (hfs/btree/btree.c): btree_get_node,   *)
(* the node bitmap it consults (BTIsNodeUsed), the cache in between and    *)
(* the check that a buffer holds a node (swap_BTreeNode).                  *)
(*                                                                         *)
(* Loading the bitmap needs nodes of the tree it describes: the header     *)
(* node and then a chain of map nodes, each fetched by btree_get_node,     *)
(* which asks BTIsNodeUsed again.  The flag _loadingBitmap keeps that      *)
(* recursion from starting a second load.                                  *)
(*                                                                         *)
(* The cache is the LruCache that NodeCache implements.  A node's bytes    *)
(* are not modelled, only whether they form a node; the default build has  *)
(* NDEBUG set, so the asserts are not part of the model.                   *)
(***************************************************************************)
EXTENDS Naturals, Sequences, SequencesExt

CONSTANTS
  TotalNodes,    \* headerRecord.totalNodes
  MapRecords,    \* the bitmap on disk: sequence of [node, bits], header node first
  BitsPerByte,   \* 8
  Healthy,       \* the nodes whose bytes pass swap_BTreeNode
  Wanted,        \* the node numbers callers ask for
  CacheSlots,    \* nodes the cache keeps
  NULL

ASSUME BTreeAssumption ==
  /\ TotalNodes \in Nat \ {0}
  /\ BitsPerByte \in Nat \ {0, 1}
  /\ MapRecords \in Seq([node : Nat, bits : Seq({0, 1})])
  /\ Len(MapRecords) >= 1 /\ MapRecords[1].node = 0
  /\ \A i \in DOMAIN MapRecords : Len(MapRecords[i].bits) % BitsPerByte = 0
  /\ Healthy \subseteq 0..(TotalNodes - 1)
  /\ CacheSlots \in Nat \ {0}
  /\ Wanted \subseteq Nat
  /\ NULL \notin Seq({0, 1})

VARIABLES
  readable,       \* whether every read of the fork brings the whole node
  nodeBitmap,     \* the bits loaded so far, or NULL
  loadingBitmap,  \* _loadingBitmap
  cached,         \* sequence of [node, data], most recently used first
  request,        \* nodeNumber of the outer call
  link,           \* the map record to be loaded next
  pc,             \* where the outer call is
  outcome         \* how the last call ended

vars == <<readable, nodeBitmap, loadingBitmap, cached, request, link, pc, outcome>>

nodeBitmapSize == IF nodeBitmap = NULL THEN 0 ELSE Len(nodeBitmap) \div BitsPerByte

Ended(rc) == [node |-> request, rc |-> rc]

-----------------------------------------------------------------------------

MutantBlockUsedByByte(n) ==
  LET idx == n \div BitsPerByte IN
  CASE idx > nodeBitmapSize -> {FALSE}
    [] idx = nodeBitmapSize -> BOOLEAN
    [] OTHER -> {\E b \in 1..BitsPerByte : nodeBitmap[idx * BitsPerByte + b] = 1}

\* BTIsBlockUsed: the possible answers.  The test against the length lets the
\* first byte behind the buffer through, whose content is anything.
BTIsBlockUsed(n) ==
  LET idx == n \div BitsPerByte IN
  CASE idx > nodeBitmapSize -> {FALSE}
    [] idx = nodeBitmapSize -> BOOLEAN
    [] OTHER -> {nodeBitmap[n + 1] = 1}

MutantBlindYesNever(n) == FALSE

\* While the bitmap is loading, a node beyond what is loaded counts as used.
BlindYes(n) == loadingBitmap /\ n > nodeBitmapSize

-----------------------------------------------------------------------------

\* The entries that stay when another is put before them.
Newest(s) == SubSeq(s, 1, IF Len(s) < CacheSlots THEN Len(s) ELSE CacheSlots)

Held == {cached[i].node : i \in DOMAIN cached}

Place(n) == CHOOSE i \in DOMAIN cached : cached[i].node = n

Swapped(n, data) == IF n \in Healthy /\ data = "full" THEN "ok" ELSE "invalid"

\* One fetch through the cache: a hit copies the cached bytes, and makes the
\* entry the most recent one; a miss reads the fork.  Only a read of the whole
\* node is put into the cache; a shorter one goes on with the zeros behind it
\* and is refused for its sentinel.
Hits(n) ==
  { [rc |-> Swapped(n, cached[Place(n)].data),
     cached |-> <<cached[Place(n)]>> \o RemoveAt(cached, Place(n))] }

Stored(n, data) == Newest(<<[node |-> n, data |-> data]>> \o cached)

MutantMissesCacheShortReads(n) ==
  { [rc |-> Swapped(n, "full"), cached |-> Stored(n, "full")] }
  \cup IF ~readable
       THEN { [rc |-> "unread", cached |-> cached],
              [rc |-> Swapped(n, "short"), cached |-> Stored(n, "short")] }
       ELSE {}

Misses(n) ==
  { [rc |-> Swapped(n, "full"), cached |-> Stored(n, "full")] }
  \cup IF ~readable
       THEN { [rc |-> "unread", cached |-> cached],
              [rc |-> Swapped(n, "short"), cached |-> cached] }
       ELSE {}

Fetches(n) == IF n \in Held THEN Hits(n) ELSE Misses(n)

-----------------------------------------------------------------------------

\* A tree starts without a bitmap; creating the extents tree asks for node 0
\* at once, to have it loaded.
Init ==
  /\ readable \in BOOLEAN
  /\ nodeBitmap = NULL
  /\ cached = <<>>
  /\ request = 0
  /\ link = 1
  /\ outcome = [node |-> 0, rc |-> "none"]
  /\ \/ pc = "idle" /\ loadingBitmap = FALSE
     \/ pc = "header" /\ loadingBitmap = TRUE

\* btree_get_node up to the point where it has to wait for the bitmap.
CallBeyondTree(n) ==
  /\ pc = "idle"
  /\ n >= TotalNodes
  /\ request' = n
  /\ outcome' = [node |-> n, rc |-> "range"]
  /\ UNCHANGED <<readable, nodeBitmap, loadingBitmap, cached, link, pc>>

Call(n) ==
  /\ pc = "idle"
  /\ n < TotalNodes
  /\ request' = n
  /\ IF n = 0 \/ BlindYes(n)
     THEN /\ pc' = "node"
          /\ UNCHANGED loadingBitmap
     ELSE IF nodeBitmap = NULL
     THEN /\ pc' = "header"
          /\ loadingBitmap' = TRUE
     ELSE /\ pc' = "check"
          /\ UNCHANGED loadingBitmap
  /\ UNCHANGED <<readable, nodeBitmap, cached, link, outcome>>

\* The header node failed to load: the answer is no, the flag stays set.
LoadHeaderFails ==
  /\ pc = "header"
  /\ \E f \in Fetches(0) :
       /\ f.rc # "ok"
       /\ cached' = f.cached
  /\ pc' = "idle"
  /\ outcome' = Ended("unused")
  /\ UNCHANGED <<readable, nodeBitmap, loadingBitmap, request, link>>

MutantLoadHeaderClearsFlag ==
  /\ pc = "header"
  /\ \E f \in Fetches(0) :
       /\ f.rc = "ok"
       /\ cached' = f.cached
  /\ nodeBitmap' = MapRecords[1].bits
  /\ link' = 2
  /\ pc' = IF Len(MapRecords) > 1 THEN "map" ELSE "check"
  /\ loadingBitmap' = FALSE
  /\ UNCHANGED <<readable, request, outcome>>

\* The bitmap of the header node; it is complete if no map node follows.
LoadHeader ==
  /\ pc = "header"
  /\ \E f \in Fetches(0) :
       /\ f.rc = "ok"
       /\ cached' = f.cached
  /\ nodeBitmap' = MapRecords[1].bits
  /\ link' = 2
  /\ IF Len(MapRecords) > 1
     THEN pc' = "map" /\ UNCHANGED loadingBitmap
     ELSE pc' = "check" /\ loadingBitmap' = FALSE
  /\ UNCHANGED <<readable, request, outcome>>

\* What BTIsNodeUsed answers when the load asks for a node of its own chain.
MapNodeUsed(n) == IF BlindYes(n) THEN {TRUE} ELSE BTIsBlockUsed(n)

\* A map node that cannot be loaded ends the program.
LoadMapFails ==
  /\ pc = "map"
  /\ LET n == MapRecords[link].node IN
       \/ n >= TotalNodes /\ UNCHANGED cached
       \/ n < TotalNodes /\ FALSE \in MapNodeUsed(n) /\ UNCHANGED cached
       \/ /\ n < TotalNodes /\ TRUE \in MapNodeUsed(n)
          /\ \E f \in Fetches(n) : f.rc # "ok" /\ cached' = f.cached
  /\ pc' = "aborted"
  /\ outcome' = Ended("aborted")
  /\ UNCHANGED <<readable, nodeBitmap, loadingBitmap, request, link>>

LoadMap ==
  /\ pc = "map"
  /\ LET n == MapRecords[link].node IN
       /\ n < TotalNodes
       /\ TRUE \in MapNodeUsed(n)
       /\ \E f \in Fetches(n) : f.rc = "ok" /\ cached' = f.cached
  /\ nodeBitmap' = nodeBitmap \o MapRecords[link].bits
  /\ link' = link + 1
  /\ IF link < Len(MapRecords)
     THEN pc' = "map" /\ UNCHANGED loadingBitmap
     ELSE pc' = "check" /\ loadingBitmap' = FALSE
  /\ UNCHANGED <<readable, request, outcome>>

\* The bit of the requested node.  Node 0 is only asked for by the creation
\* of the extents tree, which ignores the answer.
Check ==
  /\ pc = "check"
  /\ \E used \in BTIsBlockUsed(request) :
       IF request = 0
       THEN pc' = "idle" /\ outcome' = Ended("loaded")
       ELSE IF used
       THEN pc' = "node" /\ UNCHANGED outcome
       ELSE pc' = "idle" /\ outcome' = Ended("unused")
  /\ UNCHANGED <<readable, nodeBitmap, loadingBitmap, cached, request, link>>

FetchNode ==
  /\ pc = "node"
  /\ \E f \in Fetches(request) :
       /\ cached' = f.cached
       /\ outcome' = Ended(f.rc)
  /\ pc' = "idle"
  /\ UNCHANGED <<readable, nodeBitmap, loadingBitmap, request, link>>

Next ==
  \/ \E n \in Wanted : CallBeyondTree(n) \/ Call(n)
  \/ LoadHeaderFails \/ LoadHeader
  \/ LoadMapFails \/ LoadMap
  \/ Check
  \/ FetchNode

Spec == Init /\ [][Next]_vars

-----------------------------------------------------------------------------
(***************************************************************************)
(* Properties                                                              *)
(***************************************************************************)

Bits == FlattenSeq([i \in DOMAIN MapRecords |-> MapRecords[i].bits])

\* The header node failed to load once and the flag was left set: from then on
\* BTIsNodeUsed answers yes for every node.
Blind == loadingBitmap /\ nodeBitmap = NULL

\* A node that the disk marks unused is handed out only if the header node
\* failed to load before (btree_get_node, BTIsNodeUsed).
UnusedOnlyWhenBlind ==
  pc = "idle" /\ outcome.rc = "ok" /\ outcome.node # 0
    /\ outcome.node + 1 \in DOMAIN Bits /\ Bits[outcome.node + 1] = 0
  => Blind

\* Once the load is over the bitmap is that of all map nodes, and while it is
\* not over the flag is set: no answer outside the load comes from a part.
BitmapComplete ==
  /\ nodeBitmap # NULL /\ ~loadingBitmap => nodeBitmap = Bits
  /\ pc \in {"header", "map"} => loadingBitmap

\* The cache holds whole nodes only, so that a node whose read fell short is
\* read again by the next call.
CacheHoldsWholeNodes == \A i \in DOMAIN cached : cached[i].data = "full"

\* The bitmap has a bit for every node, and marks the nodes that hold it as used;
\* these can all be taken for nodes.
SoundMap ==
  /\ TotalNodes <= Len(Bits)
  /\ \A i \in DOMAIN MapRecords :
       /\ MapRecords[i].node \in Healthy
       /\ i > 1 => MapRecords[i].node > 0 /\ Bits[MapRecords[i].node + 1] = 1

\* With a readable fork and a sound map, the recursion of the load into
\* BTIsNodeUsed never stops the program and no node in use is refused, although
\* the bits of the later map nodes are loaded by those nodes themselves.
UsedNodesLoad ==
  readable /\ SoundMap =>
    /\ pc # "aborted"
    /\ outcome.rc = "unused" => outcome.node = 0 \/ Bits[outcome.node + 1] = 0
    /\ outcome.rc = "invalid" => outcome.node \notin Healthy
=============================================================================
