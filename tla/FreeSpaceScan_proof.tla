------------------------ MODULE FreeSpaceScan_proof ------------------------
(* The scan of the allocation bitmap loses no block, on volumes of any size. *)
EXTENDS FreeSpaceScan, FiniteSetTheorems, TLAPS

USE SizesAssumption

\* What stays true at every step, strong enough to follow from the step before:
\* the types, the count of the blocks passed, the run that is open, and how
\* long the open extent is once the last block has closed the one before.
Inductive ==
  /\ TypeOK
  /\ Conservation
  /\ OpenRun
  /\ i = totalBlocks /\ i > 0 => current.length = 1
  /\ pc = "report" => i = totalBlocks

\* The parts of the type invariant, in the form the solver uses.
LEMMA Types ==
  ASSUME TypeOK
  PROVE  /\ totalBlocks \in Nat /\ logicalSize \in Nat /\ offset \in Nat
         /\ offset <= logicalSize
         /\ i \in Nat /\ i <= totalBlocks
         /\ totalUsed \in Nat /\ totalFree \in Nat /\ totalExtents \in Nat
         /\ current = [start |-> current.start, length |-> current.length, used |-> current.used]
         /\ current.start \in Nat /\ current.length \in Nat /\ current.used \in {0, 1}
         /\ \A b \in Blocks : b \in Int /\ used[b] \in {0, 1}
<1>1. /\ totalBlocks \in Nat /\ logicalSize \in Nat
  BY DEF TypeOK
<1>2. /\ offset \in Nat /\ offset <= logicalSize
      /\ i \in Nat /\ i <= totalBlocks
      /\ totalUsed \in Nat /\ totalFree \in Nat /\ totalExtents \in Nat
  BY <1>1 DEF TypeOK
<1>3. /\ current = [start |-> current.start, length |-> current.length, used |-> current.used]
      /\ current.start \in Nat /\ current.length \in Nat /\ current.used \in {0, 1}
  BY DEF TypeOK
<1>4. \A b \in Blocks : b \in Int /\ used[b] \in {0, 1}
  BY <1>1 DEF TypeOK, Blocks
<1> QED
  BY <1>1, <1>2, <1>3, <1>4

LEMMA InitInductive == Init => Inductive
<1> SUFFICES ASSUME Init PROVE Inductive
  OBVIOUS
<1>1. totalBlocks \in Nat /\ current.length = 0
  BY DEF Init
<1>2. TypeOK
  BY <1>1 DEF Init, TypeOK, Blocks
<1>3. Conservation /\ OpenRun
  BY <1>1 DEF Init, Conservation, OpenRun, Blocks
<1> QED
  BY <1>1, <1>2, <1>3 DEF Inductive, Init

LEMMA ReadInductive == Inductive /\ (ReadChunk \/ ReadNothing) => Inductive'
<1> SUFFICES ASSUME Inductive, ReadChunk \/ ReadNothing PROVE Inductive'
  OBVIOUS
<1>0. TypeOK /\ Conservation /\ OpenRun
  BY DEF Inductive
<1>1. /\ totalBlocks' = totalBlocks /\ logicalSize' = logicalSize /\ used' = used
      /\ i' = i /\ totalUsed' = totalUsed /\ totalFree' = totalFree
      /\ totalExtents' = totalExtents /\ current' = current
      /\ pc' \in {"read", "scan", "nothing"}
  BY DEF ReadChunk, ReadNothing, file, totals
<1>2. offset' \in 0..logicalSize
  <2>1. CASE ReadChunk
    BY <2>1, <1>0, Types DEF ReadChunk, Left
  <2>2. CASE ReadNothing
    BY <2>2, <1>0, Types DEF ReadNothing
  <2> QED
    BY <2>1, <2>2
<1>3. TypeOK'
  BY <1>0, <1>1, <1>2 DEF TypeOK, Blocks
<1>4. Conservation' /\ OpenRun'
  BY <1>0, <1>1 DEF Conservation, OpenRun, Blocks
<1> QED
  BY <1>1, <1>3, <1>4 DEF Inductive

LEMMA ExtendInductive == Inductive /\ Extend => Inductive'
<1> SUFFICES ASSUME Inductive, Extend PROVE Inductive'
  OBVIOUS
<1>0. TypeOK /\ Conservation /\ OpenRun
  BY DEF Inductive
<1>1. /\ totalBlocks' = totalBlocks /\ logicalSize' = logicalSize /\ used' = used
      /\ offset' = offset /\ pc' = pc /\ pc = "scan"
      /\ totalUsed' = totalUsed /\ totalFree' = totalFree /\ totalExtents' = totalExtents
      /\ i' = i + 1 /\ i < totalBlocks /\ i # totalBlocks - 1
      /\ used[i] = current.used
  BY DEF Extend, file
<1>2. /\ current'.length = current.length + 1
      /\ current'.start = current.start /\ current'.used = current.used
      /\ current' \in [start : Nat, length : Nat, used : {0, 1}]
  BY <1>0, Types DEF Extend
<1>3. TypeOK'
  <2>1. i' \in 0..totalBlocks
    BY <1>0, <1>1, Types
  <2> QED
    BY <2>1, <1>0, <1>1, <1>2 DEF TypeOK, Blocks
<1>4. Conservation'
  BY <1>0, <1>1, <1>2, Types DEF Conservation
<1>5. OpenRun'
  <2>1. current'.length <= i'
    BY <1>0, <1>1, <1>2, Types DEF OpenRun
  <2>2. ASSUME NEW b \in Blocks', i' - current'.length <= b, b < i'
        PROVE  used'[b] = current'.used
    <3>1. b \in Blocks /\ b \in Int
      BY <2>2, <1>0, <1>1, Types DEF Blocks
    <3>2. i - current.length <= b /\ (b < i \/ b = i)
      BY <2>2, <3>1, <1>0, <1>1, <1>2, Types
    <3> QED
      BY <3>1, <3>2, <1>0, <1>1, <1>2 DEF OpenRun
  <2> QED
    BY <2>1, <2>2 DEF OpenRun
<1>6. ~(i' = totalBlocks') /\ pc' # "report"
  BY <1>0, <1>1, Types
<1> QED
  BY <1>3, <1>4, <1>5, <1>6 DEF Inductive

LEMMA CloseInductive == Inductive /\ Close => Inductive'
<1> SUFFICES ASSUME Inductive, Close PROVE Inductive'
  OBVIOUS
<1>0. TypeOK /\ Conservation /\ OpenRun
  BY DEF Inductive
<1>1. /\ totalBlocks' = totalBlocks /\ logicalSize' = logicalSize /\ used' = used
      /\ offset' = offset /\ pc' = pc /\ pc = "scan"
      /\ totalExtents' = totalExtents + 1
      /\ totalUsed' = totalUsed + IF current.used = 1 THEN current.length ELSE 0
      /\ totalFree' = totalFree + IF current.used = 0 THEN current.length ELSE 0
      /\ i' = i + 1 /\ i < totalBlocks
      /\ current' = [start |-> i, length |-> 1, used |-> used[i]]
  BY DEF Close, file
<1>2. i \in Blocks /\ used[i] \in {0, 1}
  BY <1>0, <1>1, Types DEF Blocks
<1>3. /\ current'.length = 1 /\ current'.used = used[i]
      /\ current' \in [start : Nat, length : Nat, used : {0, 1}]
  BY <1>0, <1>1, <1>2, Types
<1>4. /\ totalUsed' \in Nat /\ totalFree' \in Nat /\ totalExtents' \in Nat
      /\ totalUsed' + totalFree' = totalUsed + totalFree + current.length
  BY <1>0, <1>1, Types
<1>5. TypeOK'
  <2>1. i' \in 0..totalBlocks
    BY <1>0, <1>1, Types
  <2> QED
    BY <2>1, <1>0, <1>1, <1>3, <1>4 DEF TypeOK, Blocks
<1>6. Conservation'
  BY <1>0, <1>1, <1>3, <1>4, Types DEF Conservation
<1>7. OpenRun'
  <2>1. current'.length <= i'
    BY <1>0, <1>1, <1>3, Types
  <2>2. ASSUME NEW b \in Blocks', i' - current'.length <= b, b < i'
        PROVE  used'[b] = current'.used
    <3>1. b \in Int
      BY <2>2, <1>0, <1>1, Types DEF Blocks
    <3>2. b = i
      BY <2>2, <3>1, <1>0, <1>1, <1>3, Types
    <3> QED
      BY <3>2, <1>1, <1>3
  <2> QED
    BY <2>1, <2>2 DEF OpenRun
<1> QED
  BY <1>1, <1>3, <1>5, <1>6, <1>7 DEF Inductive

LEMMA ReportInductive == Inductive /\ Report => Inductive'
<1> SUFFICES ASSUME Inductive, Report PROVE Inductive'
  OBVIOUS
<1>0. TypeOK /\ Conservation /\ OpenRun
  BY DEF Inductive
<1>1. /\ totalBlocks' = totalBlocks /\ logicalSize' = logicalSize /\ used' = used
      /\ offset' = offset /\ pc' = "report"
      /\ i' = i /\ i >= totalBlocks /\ totalUsed' = totalUsed /\ totalFree' = totalFree
      /\ totalExtents' = totalExtents /\ current' = current
  BY DEF Report, file, totals
<1>2. TypeOK' /\ Conservation' /\ OpenRun'
  BY <1>0, <1>1 DEF TypeOK, Conservation, OpenRun, Blocks
<1>3. i' = totalBlocks'
  BY <1>0, <1>1, Types
<1> QED
  BY <1>1, <1>2, <1>3 DEF Inductive

\* Inductive holds throughout every scan of every volume.
THEOREM InductiveHolds == Spec => []Inductive
<1>1. Inductive /\ [Next]_vars => Inductive'
  <2> SUFFICES ASSUME Inductive, [Next]_vars PROVE Inductive'
    OBVIOUS
  <2>1. CASE ReadChunk \/ ReadNothing
    BY <2>1, ReadInductive
  <2>2. CASE Extend
    BY <2>2, ExtendInductive
  <2>3. CASE Close
    BY <2>3, CloseInductive
  <2>4. CASE Report
    BY <2>4, ReportInductive
  <2>5. CASE UNCHANGED vars
    BY <2>5 DEF vars, file, totals, Inductive, TypeOK, Conservation, OpenRun, Blocks
  <2> QED
    BY <2>1, <2>2, <2>3, <2>4, <2>5 DEF Next
<1> QED
  BY InitInductive, <1>1, PTL DEF Spec

\* The scan of free_space.c keeps its types: no read leaves the buffer for the
\* allocation file, whatever its size and that of a chunk.
THEOREM TypeCorrect == Spec => []TypeOK
<1>1. Inductive => TypeOK
  BY DEF Inductive
<1> QED
  BY InductiveHolds, <1>1, PTL

\* No block is lost or counted twice while the scan of free_space.c runs.
THEOREM ConservationHolds == Spec => []Conservation
<1>1. Inductive => Conservation
  BY DEF Inductive
<1> QED
  BY InductiveHolds, <1>1, PTL

\* The extent showFreeSpace has open is always one run of equal state.
THEOREM OpenRunHolds == Spec => []OpenRun
<1>1. Inductive => OpenRun
  BY DEF Inductive
<1> QED
  BY InductiveHolds, <1>1, PTL

\* Whatever the volume and its bitmap, the totals showFreeSpace prints leave
\* out exactly one block.
THEOREM ReportMissesLastHolds == Spec => []ReportMissesLast
<1>1. Inductive => ReportMissesLast
  <2> SUFFICES ASSUME Inductive, pc = "report", totalBlocks > 0
      PROVE totalUsed + totalFree = totalBlocks - 1
    BY DEF ReportMissesLast
  <2>1. i = totalBlocks /\ current.length = 1
    BY DEF Inductive
  <2>2. totalUsed + totalFree + current.length = i /\ TypeOK
    BY DEF Inductive, Conservation
  <2> QED
    BY <2>1, <2>2, Types
<1> QED
  BY InductiveHolds, <1>1, PTL
-----------------------------------------------------------------------------
(***************************************************************************)
(* The totals against a direct count.                                      *)
(***************************************************************************)

\* One block more: it counts for its own state and none other.
LEMMA CountNext ==
  ASSUME NEW s \in {0, 1}, NEW n \in Nat
  PROVE  /\ Count(s, n) \in Nat
         /\ Count(s, n + 1) = Count(s, n) + (IF used[n] = s THEN 1 ELSE 0)
<1> DEFINE S(m) == {b \in 0..(m - 1) : used[b] = s}
<1>1. IsFiniteSet(S(n)) /\ Cardinality(S(n)) \in Nat
  <2>1. IsFiniteSet(0..(n - 1))
    BY FS_Interval
  <2>2. IsFiniteSet(S(n))
    BY <2>1, FS_Subset
  <2> QED
    BY <2>2, FS_CardinalityType
<1>2. n \notin S(n)
  OBVIOUS
<1>3. CASE used[n] = s
  <2>1. S(n + 1) = S(n) \cup {n}
    BY <1>3
  <2> HIDE DEF S
  <2>2. Cardinality(S(n + 1)) = Cardinality(S(n)) + 1
    BY <1>1, <1>2, <2>1, FS_AddElement
  <2> QED
    BY <1>1, <1>3, <2>2 DEF Count, S
<1>4. CASE used[n] # s
  <2>1. S(n + 1) = S(n)
    BY <1>4
  <2>2. Count(s, n + 1) = Count(s, n)
    BY <2>1, Zenon DEF Count, S
  <2> HIDE DEF S
  <2>3. Count(s, n) \in Nat
    BY <1>1 DEF Count, S
  <2> QED
    BY <1>4, <2>2, <2>3
<1> QED
  BY <1>3, <1>4

LEMMA CountNone ==
  ASSUME NEW s \in {0, 1}
  PROVE  Count(s, 0) = 0
<1>1. {b \in 0..(0 - 1) : used[b] = s} = {}
  OBVIOUS
<1> QED
  BY <1>1, FS_EmptySet DEF Count

Runs(n) == Cardinality(RunStarts(n))

\* One block more: it begins a run if it is the first or differs from the last.
LEMMA RunsNext ==
  ASSUME NEW n \in Nat
  PROVE  /\ Runs(n) \in Nat
         /\ Runs(n + 1) = Runs(n) + (IF n = 0 \/ used[n] # used[n - 1] THEN 1 ELSE 0)
<1>1. IsFiniteSet(RunStarts(n)) /\ Runs(n) \in Nat
  <2>1. IsFiniteSet(0..(n - 1))
    BY FS_Interval
  <2>2. IsFiniteSet(RunStarts(n))
    BY <2>1, FS_Subset DEF RunStarts
  <2> QED
    BY <2>2, FS_CardinalityType DEF Runs
<1>2. n \notin RunStarts(n)
  BY DEF RunStarts
<1>3. CASE n = 0 \/ used[n] # used[n - 1]
  <2>1. RunStarts(n + 1) = RunStarts(n) \cup {n}
    BY <1>3 DEF RunStarts
  <2>2. Runs(n + 1) = Runs(n) + 1
    BY <1>1, <1>2, <2>1, FS_AddElement DEF Runs
  <2> QED
    BY <1>1, <1>3, <2>2
<1>4. CASE ~(n = 0 \/ used[n] # used[n - 1])
  <2>1. RunStarts(n + 1) = RunStarts(n)
    BY <1>4 DEF RunStarts
  <2> QED
    BY <1>1, <1>4, <2>1 DEF Runs
<1> QED
  BY <1>3, <1>4

LEMMA RunsNone == Runs(0) = 0
<1>1. RunStarts(0) = {}
  BY DEF RunStarts
<1> QED
  BY <1>1, FS_EmptySet DEF Runs

\* The extent that the scan begins with is closed for nothing if block 0 is free.
Extra == IF used[0] = 0 THEN 1 ELSE 0

\* The blocks passed are counted in the totals or are those of the open extent,
\* for each state apart; the runs begun are the extents closed and the open one.
Counted ==
  /\ \A s \in {0, 1} :
       Count(s, i) = (IF s = 1 THEN totalUsed ELSE totalFree)
                       + (IF current.used = s THEN current.length ELSE 0)
  /\ i = 0 => current.length = 0 /\ current.used = 1 /\ totalExtents = 0
  /\ i > 0 => current.length > 0
  /\ i > 0 /\ i < totalBlocks => totalExtents + 1 = Runs(i) + Extra
  /\ i > 0 /\ i = totalBlocks =>
       totalExtents = IF i = 1 THEN 1 ELSE Runs(i - 1) + Extra

\* Behind the first block, the open extent has the state of the last block passed.
LEMMA OpenState ==
  ASSUME Inductive, Counted, i > 0
  PROVE  used[i - 1] = current.used
<1>1. TypeOK /\ OpenRun /\ current.length > 0
  BY DEF Inductive, Counted
<1>2. i - 1 \in Blocks /\ i - current.length <= i - 1 /\ i - 1 < i
  BY <1>1, Types DEF Blocks
<1> QED
  BY <1>1, <1>2 DEF OpenRun

LEMMA InitCounted == Init => Counted
<1> SUFFICES ASSUME Init PROVE Counted
  OBVIOUS
<1>1. /\ i = 0 /\ totalUsed = 0 /\ totalFree = 0 /\ totalExtents = 0
      /\ current.length = 0 /\ current.used = 1
  BY DEF Init
<1> QED
  BY <1>1, CountNone DEF Counted

LEMMA ExtendCounted ==
  ASSUME Inductive, Counted, Extend
  PROVE  Counted'
<1>1. /\ totalBlocks' = totalBlocks /\ used' = used
      /\ totalUsed' = totalUsed /\ totalFree' = totalFree /\ totalExtents' = totalExtents
      /\ i' = i + 1 /\ i < totalBlocks /\ i # totalBlocks - 1
      /\ used[i] = current.used
  BY DEF Extend, file
<1>2. TypeOK
  BY DEF Inductive
<1>3. current'.length = current.length + 1 /\ current'.used = current.used
  BY <1>2, Types DEF Extend
<1>4. /\ i \in Nat /\ totalBlocks \in Nat /\ i' > 0 /\ i' < totalBlocks /\ i' # 0
      /\ totalUsed \in Nat /\ totalFree \in Nat /\ totalExtents \in Nat
      /\ current.length \in Nat
  BY <1>1, <1>2, Types
<1>5. ASSUME NEW s \in {0, 1}
      PROVE  Count(s, i)' = (IF s = 1 THEN totalUsed' ELSE totalFree')
                               + (IF current'.used = s THEN current'.length ELSE 0)
  <2>1. Count(s, i)' = Count(s, i + 1)
    BY <1>1 DEF Count
  <2>2. Count(s, i + 1) = Count(s, i) + (IF current.used = s THEN 1 ELSE 0)
    BY <1>1, <1>4, CountNext
  <2>3. Count(s, i) = (IF s = 1 THEN totalUsed ELSE totalFree)
                        + (IF current.used = s THEN current.length ELSE 0)
    BY DEF Counted
  <2> QED
    BY <1>1, <1>3, <1>4, <2>1, <2>2, <2>3
<1>6. totalExtents' + 1 = Runs(i)' + Extra'
  <2>1. Runs(i)' = Runs(i + 1) /\ Extra' = Extra
    BY <1>1 DEF Runs, RunStarts, Extra
  <2>2. CASE i = 0
    <3>1. Runs(0 + 1) = 0 + 1
      BY RunsNone, RunsNext
    <3>2. Extra = 0 /\ totalExtents = 0
      BY <1>1, <2>2 DEF Counted, Extra
    <3> QED
      BY <1>1, <2>1, <2>2, <3>1, <3>2
  <2>3. CASE i # 0
    <3>1. i > 0
      BY <1>4, <2>3
    <3>2. used[i] = used[i - 1]
      BY <1>1, <3>1, OpenState
    <3>3. Runs(i + 1) = Runs(i) /\ Runs(i) \in Nat
      BY <1>4, <2>3, <3>2, RunsNext
    <3>4. totalExtents + 1 = Runs(i) + Extra
      BY <1>1, <3>1 DEF Counted
    <3> QED
      BY <1>1, <2>1, <3>3, <3>4
  <2> QED
    BY <2>2, <2>3
<1>7. current'.length > 0
  BY <1>3, <1>4
<1>8. ~(i' = totalBlocks')
  BY <1>1, <1>4
<1> QED
  BY <1>4, <1>5, <1>6, <1>7, <1>8 DEF Counted

LEMMA CloseCounted ==
  ASSUME Inductive, Counted, Close
  PROVE  Counted'
<1>1. /\ totalBlocks' = totalBlocks /\ used' = used
      /\ totalExtents' = totalExtents + 1
      /\ totalUsed' = totalUsed + IF current.used = 1 THEN current.length ELSE 0
      /\ totalFree' = totalFree + IF current.used = 0 THEN current.length ELSE 0
      /\ i' = i + 1 /\ i < totalBlocks
      /\ used[i] # current.used \/ i = totalBlocks - 1
      /\ current' = [start |-> i, length |-> 1, used |-> used[i]]
  BY DEF Close, file
<1>2. TypeOK
  BY DEF Inductive
<1>3. current'.length = 1 /\ current'.used = used[i]
  BY <1>1
<1>4. /\ i \in Nat /\ totalBlocks \in Nat /\ i' > 0 /\ i' # 0
      /\ totalUsed \in Nat /\ totalFree \in Nat /\ totalExtents \in Nat
      /\ current.length \in Nat /\ current.used \in {0, 1}
      /\ i \in Blocks /\ used[i] \in {0, 1}
  <2>1. i \in Blocks
    BY <1>1, <1>2, Types DEF Blocks
  <2> QED
    BY <1>1, <1>2, <2>1, Types
<1>5. ASSUME NEW s \in {0, 1}
      PROVE  Count(s, i)' = (IF s = 1 THEN totalUsed' ELSE totalFree')
                               + (IF current'.used = s THEN current'.length ELSE 0)
  <2>1. Count(s, i)' = Count(s, i + 1)
    BY <1>1 DEF Count
  <2>2. Count(s, i + 1) = Count(s, i) + (IF used[i] = s THEN 1 ELSE 0) /\ Count(s, i) \in Nat
    BY <1>4, CountNext
  <2>3. Count(s, i) = (IF s = 1 THEN totalUsed ELSE totalFree)
                        + (IF current.used = s THEN current.length ELSE 0)
    BY DEF Counted
  <2>4. (IF s = 1 THEN totalUsed' ELSE totalFree') = Count(s, i)
    <3>1. CASE s = 1
      BY <1>1, <2>3, <3>1
    <3>2. CASE s = 0
      BY <1>1, <2>3, <3>2
    <3> QED
      BY <3>1, <3>2
  <2>5. (IF current'.used = s THEN current'.length ELSE 0) = (IF used[i] = s THEN 1 ELSE 0)
    BY <1>3
  <2> QED
    BY <2>1, <2>2, <2>4, <2>5
<1>6. Runs(i)' = Runs(i + 1) /\ Extra' = Extra /\ Extra \in {0, 1}
      /\ Runs(i - 1)' = Runs(i)
  <2>1. i' - 1 = i
    BY <1>1, <1>4
  <2> QED
    BY <1>1, <2>1 DEF Runs, RunStarts, Extra
<1>7. i > 0 => totalExtents + 1 = Runs(i) + Extra
  BY <1>1 DEF Counted
<1>8. i = 0 => totalExtents = 0 /\ current.used = 1
  BY DEF Counted
<1>9. ASSUME i' < totalBlocks PROVE totalExtents' + 1 = Runs(i)' + Extra'
  <2>1. used[i] # current.used
    BY <1>1, <1>4, <1>9
  <2>2. CASE i = 0
    <3>1. Runs(0 + 1) = 0 + 1
      BY RunsNone, RunsNext
    <3>2. used[0] = 0
      BY <1>4, <1>8, <2>1, <2>2
    <3>3. Extra = 1
      BY <3>2 DEF Extra
    <3> QED
      BY <1>1, <1>6, <1>8, <2>2, <3>1, <3>3
  <2>3. CASE i # 0
    <3>1. i > 0
      BY <1>4, <2>3
    <3>2. used[i] # used[i - 1]
      BY <2>1, <3>1, OpenState
    <3>3. Runs(i + 1) = Runs(i) + 1 /\ Runs(i) \in Nat
      BY <1>4, <3>2, RunsNext
    <3> QED
      BY <1>1, <1>4, <1>6, <1>7, <3>1, <3>3
  <2> QED
    BY <2>2, <2>3
<1>10. totalExtents' = IF i' = 1 THEN 1 ELSE Runs(i - 1)' + Extra'
  <2>1. CASE i = 0
    BY <1>1, <1>8, <2>1
  <2>2. CASE i # 0
    <3>1. i > 0 /\ i' # 1
      BY <1>1, <1>4, <2>2
    <3> QED
      BY <1>1, <1>6, <1>7, <3>1
  <2> QED
    BY <2>1, <2>2
<1> QED
  BY <1>1, <1>3, <1>4, <1>5, <1>9, <1>10 DEF Counted

\* The other steps touch nothing that is counted.
LEMMA RestCounted ==
  ASSUME Counted, ReadChunk \/ ReadNothing \/ Report \/ UNCHANGED vars
  PROVE  Counted'
<1>1. /\ totalBlocks' = totalBlocks /\ used' = used /\ i' = i
      /\ totalUsed' = totalUsed /\ totalFree' = totalFree
      /\ totalExtents' = totalExtents /\ current' = current
  BY DEF ReadChunk, ReadNothing, Report, vars, file, totals
<1> QED
  BY <1>1 DEF Counted, Count, Runs, RunStarts, Extra

\* Counted holds throughout every scan of every volume.
THEOREM CountedHolds == Spec => []Counted
<1>1. Inductive /\ Counted /\ [Next]_vars => Counted'
  BY ExtendCounted, CloseCounted, RestCounted DEF Next
<1> QED
  BY InitCounted, InductiveHolds, <1>1, PTL DEF Spec

\* The totals that showFreeSpace prints are those of a direct count of all blocks
\* but the last, and the segments are the runs among these, with one for nothing
\* when block 0 is free: on every volume, whatever its bitmap.
THEOREM TotalsExactHolds == Spec => []TotalsExact
<1>1. Inductive /\ Counted => TotalsExact
  <2> SUFFICES ASSUME Inductive, Counted, pc = "report", totalBlocks > 0
      PROVE /\ totalUsed = Count(1, totalBlocks - 1)
            /\ totalFree = Count(0, totalBlocks - 1)
            /\ totalExtents =
                 IF totalBlocks - 1 = 0 THEN 1
                 ELSE Cardinality(RunStarts(totalBlocks - 1)) + (IF used[0] = 0 THEN 1 ELSE 0)
    BY DEF TotalsExact
  <2>1. i = totalBlocks /\ i > 0 /\ current.length = 1 /\ TypeOK
    BY DEF Inductive
  <2>2. /\ i \in Nat /\ i - 1 \in Nat /\ (i - 1) + 1 = i
        /\ totalUsed \in Nat /\ totalFree \in Nat
    BY <2>1, Types
  <2>3. used[i - 1] = current.used
    BY <2>1, OpenState
  <2>4. ASSUME NEW s \in {0, 1}
        PROVE  (IF s = 1 THEN totalUsed ELSE totalFree) = Count(s, i - 1)
    <3>1. Count(s, i - 1) \in Nat
          /\ Count(s, i) = Count(s, i - 1) + (IF current.used = s THEN 1 ELSE 0)
      BY <2>2, <2>3, CountNext
    <3>2. Count(s, i) = (IF s = 1 THEN totalUsed ELSE totalFree)
                          + (IF current.used = s THEN 1 ELSE 0)
      BY <2>1 DEF Counted
    <3> QED
      BY <2>2, <3>1, <3>2
  <2>5. totalUsed = Count(1, i - 1) /\ totalFree = Count(0, i - 1)
    BY <2>4
  <2>6. totalExtents = IF i = 1 THEN 1 ELSE Runs(i - 1) + Extra
    BY <2>1 DEF Counted
  <2>7. i = 1 <=> totalBlocks - 1 = 0
    BY <2>1, <2>2
  <2> QED
    BY <2>1, <2>5, <2>6, <2>7 DEF Runs, Extra
<1> QED
  BY <1>1, InductiveHolds, CountedHolds, PTL
=============================================================================
