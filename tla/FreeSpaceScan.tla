--------------------------- MODULE FreeSpaceScan ---------------------------
(***************************************************************************)
(* showFreeSpace (operations/free_space.c): reads the allocation file in   *)
(* chunks and then walks the allocation blocks, gathering runs of used and *)
(* of free blocks into extents and their lengths into two totals.          *)
(*                                                                         *)
(* hfs_read_fork_range cuts a read at the end of the fork and reports what *)
(* is left of the asked size, whatever the device did (see ForkRead).      *)
(* The state of a block, 1 for used, is what BTIsBlockUsed answers for it; *)
(* blocks behind the end of the file count as free.                        *)
(***************************************************************************)
EXTENDS Integers, FiniteSets

CONSTANTS
  MaxBlocks,   \* largest volume, in allocation blocks
  MaxSize,     \* largest allocation file, in bytes
  ChunkSize    \* bytes asked for in one read (128 KiB)

ASSUME SizesAssumption ==
  /\ MaxBlocks \in Nat
  /\ MaxSize \in Nat
  /\ ChunkSize \in Nat \ {0}

VARIABLES
  totalBlocks,    \* vh.totalBlocks
  logicalSize,    \* fork->logicalSize of the allocation file
  used,           \* block -> 1 if BTIsBlockUsed says so, else 0
  offset,         \* bytes of the file read so far
  i,              \* the block the scan has come to
  totalUsed, totalFree, totalExtents,
  current,        \* currentExtent: [start, length, used]
  pc              \* "read", "scan", "report" or "nothing"

file == <<totalBlocks, logicalSize, used>>
totals == <<totalUsed, totalFree, totalExtents, current>>
vars == <<file, offset, i, totals, pc>>

Blocks == 0..(totalBlocks - 1)

-----------------------------------------------------------------------------

\* The first allocation block holds boot blocks and volume header, so the scan
\* starts inside a used extent; its start is given as 1, its length as 0.
Init ==
  /\ totalBlocks \in 0..MaxBlocks
  /\ logicalSize \in 0..MaxSize
  /\ used \in [0..(totalBlocks - 1) -> {0, 1}]
  /\ offset = 0
  /\ i = 0
  /\ totalUsed = 0 /\ totalFree = 0 /\ totalExtents = 0
  /\ current = [start |-> 1, length |-> 0, used |-> 1]
  /\ pc = "read"

Left == logicalSize - offset

MutantReadChunkStays ==
  /\ pc = "read" /\ Left > 0
  /\ UNCHANGED vars

\* One read of at most ChunkSize bytes, until the file is complete.
ReadChunk ==
  /\ pc = "read" /\ Left > 0
  /\ offset' = offset + IF Left < ChunkSize THEN Left ELSE ChunkSize
  /\ pc' = IF offset' >= logicalSize THEN "scan" ELSE "read"
  /\ UNCHANGED <<file, i, totals>>

\* A file without bytes: the function returns without a word.
ReadNothing ==
  /\ pc = "read" /\ Left = 0
  /\ pc' = IF offset = 0 THEN "nothing" ELSE "scan"
  /\ UNCHANGED <<file, offset, i, totals>>

MutantExtendKeepsLength ==
  /\ pc = "scan" /\ i < totalBlocks
  /\ used[i] = current.used /\ i # totalBlocks - 1
  /\ i' = i + 1
  /\ UNCHANGED <<file, offset, totals, pc>>

MutantExtendLast ==
  /\ pc = "scan" /\ i < totalBlocks
  /\ used[i] = current.used
  /\ current' = [current EXCEPT !.length = @ + 1]
  /\ i' = i + 1
  /\ UNCHANGED <<file, offset, totalUsed, totalFree, totalExtents, pc>>

\* The block continues the current extent; the last block never does.
Extend ==
  /\ pc = "scan" /\ i < totalBlocks
  /\ used[i] = current.used /\ i # totalBlocks - 1
  /\ current' = [current EXCEPT !.length = @ + 1]
  /\ i' = i + 1
  /\ UNCHANGED <<file, offset, totalUsed, totalFree, totalExtents, pc>>

MutantCloseCountsByNewState ==
  /\ pc = "scan" /\ i < totalBlocks
  /\ used[i] # current.used \/ i = totalBlocks - 1
  /\ totalExtents' = totalExtents + 1
  /\ totalUsed' = totalUsed + IF used[i] = 1 THEN current.length ELSE 0
  /\ totalFree' = totalFree + IF used[i] = 0 THEN current.length ELSE 0
  /\ current' = [start |-> i, length |-> 1, used |-> used[i]]
  /\ i' = i + 1
  /\ UNCHANGED <<file, offset, pc>>

\* The state changes, or the volume ends: the current extent goes into the
\* totals and the block opens the next one.
Close ==
  /\ pc = "scan" /\ i < totalBlocks
  /\ used[i] # current.used \/ i = totalBlocks - 1
  /\ totalExtents' = totalExtents + 1
  /\ totalUsed' = totalUsed + IF current.used = 1 THEN current.length ELSE 0
  /\ totalFree' = totalFree + IF current.used = 0 THEN current.length ELSE 0
  /\ current' = [start |-> i, length |-> 1, used |-> used[i]]
  /\ i' = i + 1
  /\ UNCHANGED <<file, offset, pc>>

\* The statistics are printed; the extent still open is not in them.
Report ==
  /\ pc = "scan" /\ i >= totalBlocks
  /\ pc' = "report"
  /\ UNCHANGED <<file, offset, i, totals>>

Next == ReadChunk \/ ReadNothing \/ Extend \/ Close \/ Report

Spec == Init /\ [][Next]_vars

\* Two loops without waiting.
FairSpec == Spec /\ WF_vars(Next)

-----------------------------------------------------------------------------
(***************************************************************************)
(* Properties                                                              *)
(***************************************************************************)

\* Every variable has its type, on every volume and every bitmap; no chunk is
\* copied past the buffer of logicalSize bytes.
TypeOK ==
  /\ totalBlocks \in 0..MaxBlocks
  /\ logicalSize \in 0..MaxSize
  /\ used \in [Blocks -> {0, 1}]
  /\ offset \in 0..logicalSize
  /\ i \in 0..totalBlocks
  /\ totalUsed \in Nat /\ totalFree \in Nat /\ totalExtents \in Nat
  /\ current \in [start : Nat, length : Nat, used : {0, 1}]
  /\ pc \in {"read", "scan", "report", "nothing"}

\* No block is lost or counted twice: after every step of the scan, the blocks
\* passed are those in the totals and those in the extent still open.
Conservation == totalUsed + totalFree + current.length = i

\* The open extent is the run of blocks before i that have its state.
OpenRun ==
  /\ current.length <= i
  /\ \A b \in Blocks : i - current.length <= b /\ b < i => used[b] = current.used

\* What is printed falls short of the volume by exactly the last block, which is
\* in an extent that is opened and never closed.
ReportMissesLast ==
  pc = "report" /\ totalBlocks > 0 => totalUsed + totalFree = totalBlocks - 1

Count(state, n) == Cardinality({b \in 0..(n - 1) : used[b] = state})

\* The blocks among the first n where a run of equal state begins.
RunStarts(n) == {b \in 0..(n - 1) : b = 0 \/ used[b] # used[b - 1]}

\* The totals are those of all blocks but the last, for used and free apart,
\* and the segments printed are the runs among those blocks, one more when
\* block 0 is free: the extent of length 0 the scan begins with counts too.
TotalsExact ==
  pc = "report" /\ totalBlocks > 0 =>
    LET seen == totalBlocks - 1 IN
    /\ totalUsed = Count(1, seen)
    /\ totalFree = Count(0, seen)
    /\ totalExtents =
         IF seen = 0 THEN 1
         ELSE Cardinality(RunStarts(seen)) + (IF used[0] = 0 THEN 1 ELSE 0)

\* The scan ends with a report or, for an empty file, with nothing.
Reports == <>(pc \in {"report", "nothing"})
=============================================================================
