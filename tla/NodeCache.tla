----------------------------- MODULE NodeCache -----------------------------
(***************************************************************************)
(* hfs/btree/cache.c: the buffer cache of a B-tree.  Every record is on a  *)
(* doubly linked list, most recently used first, behind a head record that *)
(* holds no data, and in a search tree over the keys (tsearch/tfind).  The *)
(* model keeps the addresses of the records, so that a list entry or a     *)
(* tree entry that outlives its record can be told from one that does not. *)
(***************************************************************************)
EXTENDS Naturals, Sequences, SequencesExt, FiniteSets

CONSTANTS
  Keys,        \* ckey_t: node numbers; 0 is the header node
  Buffers,     \* the contents a caller stores
  MaxRecords,  \* num_records of cache_init
  Addresses,   \* where ALLOC may put a record
  NULL,        \* no address
  Free         \* the content of an address that holds no record

ASSUME MaxRecordsAssumption == MaxRecords \in Nat
ASSUME AddressesAssumption  == IsFiniteSet(Addresses) /\ Cardinality(Addresses) > MaxRecords + 1
ASSUME KeysAssumption       == 0 \in Keys

ASSUME NullAssumption == NULL \notin Addresses

Records == [key : Keys, data : Buffers]

ASSUME FreeAssumption == Free \notin Records

VARIABLES
  heap,         \* address -> CacheRecord, or Free
  list,         \* addresses on the linked list behind the head record
  index,        \* key -> address in the search tree, or NULL
  recordCount,  \* record_count
  headFrees,    \* how often the head record has been freed
  answer        \* what the last call returned

vars == <<heap, list, index, recordCount, headFrees, answer>>

Open == headFrees = 0

Unlink(s, r) == RemoveAt(s, CHOOSE i \in DOMAIN s : s[i] = r)

-----------------------------------------------------------------------------

\* Slips that cache.c could contain, each used to show that a property below
\* depends on the code it is about.
MutantRemovedStaysInTree(c, r) ==
  [ heap  |-> [c.heap EXCEPT ![r] = Free],
    list  |-> Unlink(c.list, r),
    index |-> c.index,
    count |-> IF c.count > 0 THEN c.count - 1 ELSE 0 ]

MutantRemovedStaysCounted(c, r) ==
  [ heap  |-> [c.heap EXCEPT ![r] = Free],
    list  |-> Unlink(c.list, r),
    index |-> [c.index EXCEPT ![c.heap[r].key] = NULL],
    count |-> c.count ]

\* cache_record_remove_: the record leaves the count, the tree (which is
\* searched by key, not by address), the list and the heap.
Removed(c, r) ==
  [ heap  |-> [c.heap EXCEPT ![r] = Free],
    list  |-> Unlink(c.list, r),
    index |-> [c.index EXCEPT ![c.heap[r].key] = NULL],
    count |-> IF c.count > 0 THEN c.count - 1 ELSE 0 ]

\* cache_rem
Without(c, k) == IF c.index[k] = NULL THEN c ELSE Removed(c, c.index[k])

\* cache_record_new_: the new record goes behind the head; the record at the
\* tail goes away if the count was already over the limit before.
WithRoom(c) ==
  IF c.count > MaxRecords THEN Removed(c, Last(c.list)) ELSE c

\* The rest of cache_set, once the old record of the key is gone.
Inserted(c, k, b, r) ==
  LET room == WithRoom(c) IN
  [ heap  |-> [room.heap EXCEPT ![r] = [key |-> k, data |-> b]],
    list  |-> <<r>> \o room.list,
    index |-> [room.index EXCEPT ![k] = r],
    count |-> room.count + 1 ]

Current == [heap |-> heap, list |-> list, index |-> index, count |-> recordCount]

Become(c) ==
  /\ heap' = c.heap
  /\ list' = c.list
  /\ index' = c.index
  /\ recordCount' = c.count

-----------------------------------------------------------------------------

\* cache_init
Init ==
  /\ heap = [a \in Addresses |-> Free]
  /\ list = <<>>
  /\ index = [k \in Keys |-> NULL]
  /\ recordCount = 0
  /\ headFrees = 0
  /\ answer = [call |-> "init"]

MutantGetHitKeepsOrder(k) ==
  /\ Open
  /\ index[k] # NULL
  /\ answer' = [call |-> "get", key |-> k, found |-> TRUE, data |-> heap[index[k]].data]
  /\ UNCHANGED <<heap, list, index, recordCount, headFrees>>

\* cache_get: a record that is found moves to the front of the list.
GetHit(k) ==
  /\ Open
  /\ index[k] # NULL
  /\ list' = <<index[k]>> \o Unlink(list, index[k])
  /\ answer' = [call |-> "get", key |-> k, found |-> TRUE, data |-> heap[index[k]].data]
  /\ UNCHANGED <<heap, index, recordCount, headFrees>>

GetMiss(k) ==
  /\ Open
  /\ index[k] = NULL
  /\ answer' = [call |-> "get", key |-> k, found |-> FALSE]
  /\ UNCHANGED <<heap, list, index, recordCount, headFrees>>

\* cache_set, with every allocation succeeding.  The record is allocated
\* after cache_rem has freed the old one, so its address may be used again.
Set(k, b) ==
  /\ Open
  /\ LET c == Without(Current, k) IN
       \E r \in Addresses :
         /\ c.heap[r] = Free
         /\ Become(Inserted(c, k, b, r))
  /\ answer' = [call |-> "set", key |-> k]
  /\ UNCHANGED headFrees

Rem(k) ==
  /\ Open
  /\ Become(Without(Current, k))
  /\ answer' = [call |-> "rem", key |-> k]
  /\ UNCHANGED headFrees

\* cache_destroy.  The loop starts at the head record, whose key is 0, and
\* stops at the record that has no successor; then the head is removed once
\* more, through the pointer the loop has already freed.
Destroy ==
  /\ Open
  /\ IF list = <<>>
     THEN /\ headFrees' = 1
          /\ UNCHANGED <<heap, list, index>>
     ELSE LET last == Last(list) IN
          /\ headFrees' = 2
          /\ heap' = [a \in Addresses |-> IF a = last THEN heap[a] ELSE Free]
          /\ list' = <<last>>
          /\ index' = [k \in Keys |-> IF k # 0 /\ index[k] = last THEN last ELSE NULL]
  /\ recordCount' = 0
  /\ answer' = [call |-> "destroy"]

Next ==
  \/ \E k \in Keys : GetHit(k) \/ GetMiss(k) \/ Rem(k)
  \/ \E k \in Keys, b \in Buffers : Set(k, b)
  \/ Destroy

Spec == Init /\ [][Next]_vars

-----------------------------------------------------------------------------
(***************************************************************************)
(* Properties                                                              *)
(***************************************************************************)

Linked == {list[i] : i \in DOMAIN list}

\* The three views of the cache agree: an address is allocated exactly if it
\* is linked, linked once, and found in the tree under the key its record
\* carries.  No removal leaves a tree entry to a freed record, and no record
\* becomes unreachable (cache_record_remove_, cache_set).
ViewsAgree ==
  Open =>
    /\ Linked = {a \in Addresses : heap[a] # Free}
    /\ \A i, j \in DOMAIN list : list[i] = list[j] => i = j
    /\ \A k \in Keys, a \in Addresses :
         index[k] = a <=> heap[a] # Free /\ heap[a].key = k

\* record_count is the number of linked records, whatever sequence of sets,
\* removals and evictions happened: eviction decides by it alone.
CountExact == Open => recordCount = Len(list)

\* The pointer structure behaves as the least-recently-used map of LruCache:
\* a hit returns the buffer stored last under the key, and only the entry
\* used longest ago is ever forgotten to make room.
Lru == INSTANCE LruCache WITH
  Capacity <- MaxRecords + 1,
  entries  <- IF Open THEN [i \in DOMAIN list |-> heap[list[i]]] ELSE <<>>,
  answer   <- answer

ImplementsLru == Lru!Spec
=============================================================================
