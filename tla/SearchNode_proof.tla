-------------------------- MODULE SearchNode_proof --------------------------
(* btree_search_node returns the right record of any sorted node. *)
EXTENDS SearchNode, TLAPS

USE KeySpaceAssumption, MaxRecordsAssumption

\* The middle of a nonempty range lies in the range.
LEMMA Middle ==
  ASSUME NEW l \in Int, NEW h \in Int, l <= h
  PROVE  /\ (l + h) \div 2 \in Int
         /\ l <= (l + h) \div 2
         /\ (l + h) \div 2 <= h
  OBVIOUS

\* keyCompare tells exactly how two keys are ordered.
LEMMA Compare ==
  ASSUME NEW a \in Int, NEW b \in Int
  PROVE  /\ keyCompare(a, b) \in {-1, 0, 1}
         /\ keyCompare(a, b) < 0 <=> a < b
         /\ keyCompare(a, b) > 0 <=> b < a
         /\ keyCompare(a, b) = 0 <=> a = b
  BY DEF keyCompare

LEMMA InitInductive == Init => Inductive
<1> SUFFICES ASSUME Init PROVE Inductive
  OBVIOUS
<1>1. numRecords \in Nat /\ numRecords > 0
  BY DEF Init
<1>2. TypeOK
  BY <1>1 DEF Init, TypeOK, RecNums
<1>3. LoopInv
  BY <1>1 DEF Init, LoopInv, RecNums
<1>4. LastProbe
  BY <1>1 DEF Init, LastProbe
<1>5. Position
  BY DEF Init, Position
<1> QED
  BY <1>2, <1>3, <1>4, <1>5 DEF Inductive

\* What the type invariant says about the numbers, in the form the solver uses.
LEMMA Types ==
  ASSUME TypeOK
  PROVE  /\ numRecords \in Nat /\ numRecords > 0
         /\ low \in Int /\ 0 <= low /\ low <= numRecords
         /\ high \in Int /\ -1 <= high /\ high < numRecords
         /\ recNum \in RecNums /\ recNum \in Int
         /\ \A i \in RecNums : i \in Int /\ keys[i] \in Int
         /\ 0 \in RecNums
         /\ searchKey \in Int
         /\ result \in Int
         /\ found = 0 \/ found = 1
<1>1. numRecords \in Nat /\ numRecords > 0
  BY DEF TypeOK
<1>2. /\ low \in Int /\ 0 <= low /\ low <= numRecords
      /\ high \in Int /\ -1 <= high /\ high < numRecords
  BY <1>1 DEF TypeOK
<1>3. recNum \in RecNums /\ recNum \in Int /\ 0 \in RecNums
  BY <1>1 DEF TypeOK, RecNums
<1>4. \A i \in RecNums : i \in Int /\ keys[i] \in Int
  <2>1. \A i \in RecNums : keys[i] \in KeySpace
    BY DEF TypeOK
  <2>2. \A i \in RecNums : i \in Int
    BY <1>1 DEF RecNums
  <2> QED
    BY <2>1, <2>2
<1>5. searchKey \in Int /\ result \in Int
  BY DEF TypeOK
<1>6. found = 0 \/ found = 1
  BY DEF TypeOK
<1> QED
  BY <1>1, <1>2, <1>3, <1>4, <1>5, <1>6

LEMMA ProbeInductive == Inductive /\ Probe => Inductive'
<1> SUFFICES ASSUME Inductive, Probe PROVE Inductive'
  OBVIOUS
<1> DEFINE mid == (low + high) \div 2
           cmp == keyCompare(searchKey, keys[mid])
<1>0. TypeOK /\ LoopInv /\ LastProbe
  BY DEF Inductive
<1>1. /\ recNum' = mid /\ result' = cmp /\ found' = IF cmp = 0 THEN 1 ELSE 0
      /\ high' = IF cmp < 0 THEN mid - 1 ELSE high
      /\ low' = IF cmp > 0 THEN mid + 1 ELSE low
      /\ pc' = IF cmp = 0 THEN "matched" ELSE "loop"
      /\ pc = "loop" /\ low <= high
      /\ numRecords' = numRecords /\ keys' = keys /\ searchKey' = searchKey
  BY DEF Probe, node
<1>2. found = 0
  BY <1>0, <1>1 DEF LastProbe
<1>3. mid \in Int /\ low <= mid /\ mid <= high
  BY <1>0, <1>1, Types, Middle
<1> HIDE DEF mid
<1>4. mid \in RecNums /\ keys[mid] \in Int
  BY <1>0, <1>3, Types DEF RecNums
<1>5. /\ cmp \in {-1, 0, 1}
      /\ cmp < 0 <=> searchKey < keys[mid]
      /\ cmp > 0 <=> keys[mid] < searchKey
      /\ cmp = 0 <=> searchKey = keys[mid]
  BY <1>0, <1>4, Types, Compare
<1> HIDE DEF cmp
<1>c. \/ /\ cmp = -1 /\ searchKey < keys[mid]
           /\ high' = mid - 1 /\ low' = low /\ found' = 0 /\ pc' = "loop"
       \/ /\ cmp = 0 /\ searchKey = keys[mid]
           /\ high' = high /\ low' = low /\ found' = 1 /\ pc' = "matched"
       \/ /\ cmp = 1 /\ keys[mid] < searchKey
           /\ high' = high /\ low' = mid + 1 /\ found' = 0 /\ pc' = "loop"
  <2>1. CASE cmp = -1
    BY <2>1, <1>1, <1>2, <1>5
  <2>2. CASE cmp = 0
    BY <2>2, <1>1, <1>5
  <2>3. CASE cmp = 1
    BY <2>3, <1>1, <1>2, <1>5
  <2> QED
    BY <2>1, <2>2, <2>3, <1>5
<1>6. TypeOK'
  <2>1. /\ low' \in 0..numRecords /\ high' \in -1..(numRecords - 1)
    BY <1>0, <1>3, <1>c, Types
  <2> QED
    BY <2>1, <1>0, <1>1, <1>4, <1>5 DEF TypeOK, RecNums
<1>7. LoopInv'
  <2>1. (found = 1 => keys[recNum] = searchKey)'
    BY <1>1, <1>c
  <2>2. ASSUME Sorted', found' = 0, NEW i \in RecNums'
        PROVE  (i < low' => keys'[i] < searchKey') /\ (i > high' => searchKey' < keys'[i])
    <3>1. Sorted /\ i \in RecNums
      BY <2>2, <1>1 DEF Sorted, RecNums
    <3>2. i \in Int /\ keys[i] \in Int /\ searchKey \in Int
      BY <3>1, <1>0, Types
    <3>3. (i < low => keys[i] < searchKey) /\ (i > high => searchKey < keys[i])
      BY <3>1, <1>0, <1>2 DEF LoopInv
    <3>4. (i < mid => keys[i] < keys[mid]) /\ (mid < i => keys[mid] < keys[i])
      BY <3>1, <1>4 DEF Sorted
    <3>5. cmp = -1 \/ cmp = 1
      BY <2>2, <1>c
    <3>6. CASE cmp = -1
      <4>1. low' = low /\ high' = mid - 1 /\ searchKey < keys[mid]
        BY <3>6, <1>c
      <4>2. i > mid - 1 => i = mid \/ mid < i
        BY <3>2, <1>3
      <4> QED
        BY <4>1, <4>2, <3>2, <3>3, <3>4, <1>1, <1>3, <1>4
    <3>7. CASE cmp = 1
      <4>1. low' = mid + 1 /\ high' = high /\ keys[mid] < searchKey
        BY <3>7, <1>c
      <4>2. i < mid + 1 => i = mid \/ i < mid
        BY <3>2, <1>3
      <4> QED
        BY <4>1, <4>2, <3>2, <3>3, <3>4, <1>1, <1>3, <1>4
    <3> QED
      BY <3>5, <3>6, <3>7
  <2> QED
    BY <2>1, <2>2 DEF LoopInv
<1>8. LastProbe'
  <2>1. pc = "loop" /\ found = 0 /\ low \in Int /\ high \in Int /\ low <= high
    BY <1>0, <1>1, <1>2, Types
  <2>2. recNum' = mid /\ result' = cmp
    BY <1>1
  <2> QED
    BY <2>1, <2>2, <1>3, <1>c DEF LastProbe
<1>9. Position'
  BY <1>1 DEF Position
<1> QED
  BY <1>6, <1>7, <1>8, <1>9 DEF Inductive

LEMMA ReturnInductive == Inductive /\ Return => Inductive'
<1> SUFFICES ASSUME Inductive, Return PROVE Inductive'
  OBVIOUS
<1>0. TypeOK /\ LoopInv /\ LastProbe
  BY DEF Inductive
<1>1. /\ pc' = "done" /\ found' = found /\ low' = low /\ high' = high /\ result' = result
      /\ recNum' = IF found = 0 /\ recNum # 0 /\ result < 0 THEN recNum - 1 ELSE recNum
      /\ numRecords' = numRecords /\ keys' = keys /\ searchKey' = searchKey
  BY DEF Return, node
<1>2. TypeOK'
  <2>1. recNum' \in RecNums
    BY <1>0, <1>1, Types DEF RecNums
  <2> QED
    BY <2>1, <1>0, <1>1 DEF TypeOK, RecNums
<1>3. found = 1 => recNum' = recNum
  BY <1>1
<1>4. LoopInv'
  <2>1. RecNums' = RecNums /\ (Sorted' <=> Sorted)
    BY <1>1 DEF RecNums, Sorted
  <2> QED
    BY <2>1, <1>0, <1>1, <1>3 DEF LoopInv
<1>5. LastProbe'
  BY <1>1 DEF LastProbe
<1>6. ASSUME Sorted
      PROVE  /\ found = 1 <=> \E i \in RecNums : keys[i] = searchKey
             /\ found = 1 => keys[recNum'] = searchKey
             /\ found = 0 /\ keys[0] < searchKey =>
                  /\ keys[recNum'] < searchKey
                  /\ \A i \in RecNums : i > recNum' => searchKey < keys[i]
             /\ found = 0 /\ searchKey < keys[0] => recNum' = 0
  <2>1. CASE found = 1
    BY <2>1, <1>0, <1>3, Types DEF LoopInv
  <2>2. CASE found = 0
    <3>1. pc = "loop" /\ low > high /\ low <= high + 1
      BY <2>2, <1>0, Types DEF Return, LastProbe
    <3>2. low = high + 1
      BY <3>1, <1>0, Types
    <3>3. /\ \A i \in RecNums : i < low => keys[i] < searchKey
          /\ \A i \in RecNums : i > high => searchKey < keys[i]
      BY <1>6, <2>2, <1>0 DEF LoopInv
    <3>4. \A i \in RecNums : i < low \/ i > high
      BY <3>2, <1>0, Types
    <3>5. \A i \in RecNums : keys[i] # searchKey
      BY <3>3, <3>4, <1>0, Types
    <3>6. recNum' = IF high < 0 THEN 0 ELSE high
      <4>1. CASE result < 0
        BY <4>1, <3>1, <1>0, <1>1, <2>2, Types DEF LastProbe, RecNums
      <4>2. CASE result > 0
        BY <4>2, <3>1, <3>2, <1>0, <1>1, <2>2, Types DEF LastProbe, RecNums
      <4>3. CASE result = 0
        BY <4>3, <3>1, <1>0, Types DEF LastProbe
      <4> QED
        BY <4>1, <4>2, <4>3, <1>0, Types
    <3>7. CASE high < 0
      <4>1. recNum' = 0 /\ searchKey < keys[0]
        BY <3>3, <3>6, <3>7, <1>0, Types
      <4> QED
        BY <4>1, <2>2, <3>5, <1>0, Types
    <3>8. CASE high >= 0
      <4>1. recNum' = high /\ high \in RecNums /\ high < low
        BY <3>2, <3>6, <3>8, <1>0, Types DEF RecNums
      <4>2. keys[high] < searchKey /\ keys[0] < searchKey
        BY <4>1, <3>2, <3>3, <3>8, <1>0, Types
      <4> QED
        BY <4>1, <4>2, <2>2, <3>3, <3>5, <1>0, Types
    <3> QED
      BY <3>7, <3>8, <1>0, Types
  <2> QED
    BY <2>1, <2>2, <1>0, Types
<1>7. Position'
  <2>1. RecNums' = RecNums /\ (Sorted' <=> Sorted)
    BY <1>1 DEF RecNums, Sorted
  <2> QED
    BY <2>1, <1>1, <1>6 DEF Position
<1> QED
  BY <1>2, <1>4, <1>5, <1>7 DEF Inductive

\* Inductive holds throughout every search of every node.
THEOREM InductiveHolds == Spec => []Inductive
<1>1. Inductive /\ [Next]_vars => Inductive'
  <2> SUFFICES ASSUME Inductive, [Next]_vars PROVE Inductive'
    OBVIOUS
  <2>1. CASE Probe
    BY <2>1, ProbeInductive
  <2>2. CASE Return
    BY <2>2, ReturnInductive
  <2>3. CASE UNCHANGED vars
    BY <2>3 DEF Inductive, TypeOK, LoopInv, LastProbe, Position, Sorted, RecNums, vars
  <2> QED
    BY <2>1, <2>2, <2>3 DEF Next
<1> QED
  BY InitInductive, <1>1, PTL DEF Spec

\* btree_search_node never leaves the records of the node, sorted or not.
THEOREM TypeCorrect == Spec => []TypeOK
<1>1. Inductive => TypeOK
  BY DEF Inductive
<1> QED
  BY InductiveHolds, <1>1, PTL

\* btree_search_node returns the matching record of a sorted node, or the
\* record just before the place of the key: for every number of records and
\* every set of keys.
THEOREM PositionCorrect == Spec => []Position
<1>1. Inductive => Position
  BY DEF Inductive
<1> QED
  BY InductiveHolds, <1>1, PTL
=============================================================================
