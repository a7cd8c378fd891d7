----------------------------- MODULE SearchNode -----------------------------
(***************************************************************************)
(* btree_search_node (hfs/btree/btree.c): the binary search for a key      *)
(* among the records of one B-tree node.  It returns the record that has   *)
(* the key or, when there is none, the record just before the place where  *)
(* the key would go; index nodes are descended through that record.        *)
(*                                                                         *)
(* Records are numbered from 0, as in the code.  Only the order of keys    *)
(* matters, so a key is an integer and keyCompare the order of integers.   *)
(* found is 0 or 1, as the code assigns it.                                *)
(***************************************************************************)
EXTENDS Integers

CONSTANTS
  KeySpace,    \* the keys that occur
  MaxRecords   \* most records in a node

ASSUME KeySpaceAssumption == KeySpace \subseteq Int
\* btree_get_node asserts numRecords > 0
ASSUME MaxRecordsAssumption == MaxRecords \in Nat \ {0}

VARIABLES
  numRecords,  \* node->nodeDescriptor->numRecords
  keys,        \* record number -> key of that record
  searchKey,
  low, high, recNum, result, found,
  pc           \* "loop" or "done"

vars == <<numRecords, keys, searchKey, low, high, recNum, result, found, pc>>
node == <<numRecords, keys, searchKey>>

RecNums == 0..(numRecords - 1)

\* keyCompare(k1, k2): -1, 0 or 1.
keyCompare(k1, k2) == IF k1 < k2 THEN -1 ELSE IF k1 > k2 THEN 1 ELSE 0

\* The records of a healthy node are in strictly ascending order.
Sorted == \A i, j \in RecNums : i < j => keys[i] < keys[j]

-----------------------------------------------------------------------------

MutantLoopSkipsLast ==
  /\ pc = "loop" /\ low < high
  /\ LET mid == (low + high) \div 2
         cmp == keyCompare(searchKey, keys[mid])
     IN /\ recNum' = mid
        /\ result' = cmp
        /\ high' = IF cmp < 0 THEN mid - 1 ELSE high
        /\ low' = IF cmp > 0 THEN mid + 1 ELSE low
        /\ found' = IF cmp = 0 THEN 1 ELSE 0
        /\ pc' = IF cmp = 0 THEN "matched" ELSE "loop"
  /\ UNCHANGED node

MutantLoopKeepsMid ==
  /\ pc = "loop" /\ low <= high
  /\ LET mid == (low + high) \div 2
         cmp == keyCompare(searchKey, keys[mid])
     IN /\ recNum' = mid
        /\ result' = cmp
        /\ high' = IF cmp < 0 THEN mid - 1 ELSE high
        /\ low' = IF cmp > 0 THEN mid ELSE low
        /\ found' = IF cmp = 0 THEN 1 ELSE 0
        /\ pc' = IF cmp = 0 THEN "matched" ELSE "loop"
  /\ UNCHANGED node

MutantReturnAlwaysBacksUp ==
  /\ pc = "matched" \/ (pc = "loop" /\ low > high)
  /\ recNum' = IF found = 0 /\ recNum # 0 THEN recNum - 1 ELSE recNum
  /\ pc' = "done"
  /\ UNCHANGED <<node, low, high, result, found>>

\* Any node with at least one record, whether or not its keys are in order.
Init ==
  /\ numRecords \in 1..MaxRecords
  /\ keys \in [0..(numRecords - 1) -> KeySpace]
  /\ searchKey \in KeySpace
  /\ low = 0
  /\ high = numRecords - 1
  /\ recNum = 0
  /\ result = 0
  /\ found = 0
  /\ pc = "loop"

\* One round of the loop: compare with the middle record, drop the half that
\* cannot hold the key, leave the loop on a match.
Probe ==
  /\ pc = "loop" /\ low <= high
  /\ LET mid == (low + high) \div 2
         cmp == keyCompare(searchKey, keys[mid])
     IN /\ recNum' = mid
        /\ result' = cmp
        /\ high' = IF cmp < 0 THEN mid - 1 ELSE high
        /\ low' = IF cmp > 0 THEN mid + 1 ELSE low
        /\ found' = IF cmp = 0 THEN 1 ELSE 0
        /\ pc' = IF cmp = 0 THEN "matched" ELSE "loop"
  /\ UNCHANGED node

\* After the loop: back up one if the last record compared was the greater.
Return ==
  /\ pc = "matched" \/ (pc = "loop" /\ low > high)
  /\ recNum' = IF found = 0 /\ recNum # 0 /\ result < 0 THEN recNum - 1 ELSE recNum
  /\ pc' = "done"
  /\ UNCHANGED <<node, low, high, result, found>>

Next == Probe \/ Return

Spec == Init /\ [][Next]_vars

\* The search is a plain loop: it runs until it returns.
FairSpec == Spec /\ WF_vars(Next)

-----------------------------------------------------------------------------
(***************************************************************************)
(* Properties                                                              *)
(***************************************************************************)

\* Every variable has its type on every node, keys in order or not: low and
\* high stay next to the records and the number returned is that of a record,
\* which btree_search then reads without a check of its own.
TypeOK ==
  /\ numRecords \in 1..MaxRecords
  /\ keys \in [RecNums -> KeySpace]
  /\ searchKey \in KeySpace
  /\ low \in 0..numRecords
  /\ high \in -1..(numRecords - 1)
  /\ recNum \in RecNums
  /\ result \in {-1, 0, 1}
  /\ found \in {0, 1}
  /\ pc \in {"loop", "matched", "done"}

\* On a sorted node, the search reports a match exactly if the key is there,
\* and then returns its record; otherwise it returns the last record with a
\* smaller key, or record 0 when every key is greater.
Position ==
  pc = "done" /\ Sorted =>
    /\ found = 1 <=> \E i \in RecNums : keys[i] = searchKey
    /\ found = 1 => keys[recNum] = searchKey
    /\ found = 0 /\ keys[0] < searchKey =>
         /\ keys[recNum] < searchKey
         /\ \A i \in RecNums : i > recNum => searchKey < keys[i]
    /\ found = 0 /\ searchKey < keys[0] => recNum = 0

\* Every search returns, on every node.
Returns == <>(pc = "done")

\* What each round of the loop preserves: on a sorted node, everything below
\* low is smaller than the key and everything above high greater.
LoopInv ==
  /\ found = 1 => keys[recNum] = searchKey
  /\ Sorted /\ found = 0 =>
       /\ \A i \in RecNums : i < low => keys[i] < searchKey
       /\ \A i \in RecNums : i > high => searchKey < keys[i]

\* The record compared last is next to the border that the comparison moved,
\* and the borders cross by one at most.
LastProbe ==
  /\ pc = "matched" => found = 1
  /\ pc = "loop" =>
       /\ found = 0
       /\ low <= high + 1
       /\ result = 0 => low = 0 /\ high = numRecords - 1
       /\ result < 0 => high = recNum - 1
       /\ result > 0 => low = recNum + 1

\* The inductive invariant behind Position.
Inductive == TypeOK /\ LoopInv /\ LastProbe /\ Position
=============================================================================
