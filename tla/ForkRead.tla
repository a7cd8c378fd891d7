------------------------------ MODULE ForkRead ------------------------------
(***************************************************************************)
(* hfs_read_fork_range and hfs_read_fork (hfs/hfs_io.c): a byte range of a *)
(* fork, read in allocation blocks through the fork's list of extents.     *)
(*                                                                         *)
(* A byte is known by its position on the volume.  Zero is a byte of a     *)
(* read buffer nothing was read into, Stray one outside of it, Untouched a *)
(* byte of the caller's buffer nothing was copied to.                      *)
(***************************************************************************)
EXTENDS Integers, Sequences, FiniteSets, FiniteSetsExt

CONSTANTS
  Forks,         \* [extents, totalBlocks, logicalSize]
  BlockSize,     \* hfs->block_size
  Offsets, Sizes,
  LoopLimit      \* 2000, the fail-safe of the read loop

ASSUME SizesAssumption == BlockSize \in Nat \ {0} /\ LoopLimit \in Nat

ASSUME RangesAssumption == Offsets \subseteq Nat /\ Sizes \subseteq Nat

\* The extents are those of a list that ForkExtents makes: numbers read from the
\* disk, each extent behind the one before it (ForkExtents!Contiguous).
ASSUME ForksAssumption ==
  \A f \in Forks :
    /\ f.totalBlocks \in Nat /\ f.logicalSize \in Nat
    /\ f.extents \in Seq([logicalStart : Nat, startBlock : Nat, blockCount : Nat])
    /\ \A i, j \in DOMAIN f.extents :
         i < j => f.extents[i].logicalStart + f.extents[i].blockCount <= f.extents[j].logicalStart

Untouched == -1
Zero == -2
Stray == -3

VARIABLES
  readable,            \* whether reads of the volume bring all they are asked for
  fork, offset, size,
  request, remaining,  \* [start, count] in blocks of the fork
  outer,               \* read_buffer of hfs_read_fork_range
  inner,               \* read_buffer of hfs_read_fork
  loopCounter,
  buf,
  pc                   \* "check", "request", "loop", "copy", "done", "aborted"

ranges == <<readable, fork, offset>>
vars == <<ranges, size, request, remaining, outer, inner, loopCounter, buf, pc>>

Least(a, b) == Min({a, b})

-----------------------------------------------------------------------------
(***************************************************************************)
(* The extents of a fork: a sequence of [logicalStart, startBlock,         *)
(* blockCount].                                                            *)
(***************************************************************************)

Extents == {fork.extents[i] : i \in DOMAIN fork.extents}

range_contains(e, b) == e.logicalStart <= b /\ b <= e.logicalStart + e.blockCount - 1

Containing(b) == {e \in Extents : range_contains(e, b)}

\* extentlist_find: where a block of the fork lies, and how many follow it.
extentlist_find(b) ==
  LET e == CHOOSE x \in Containing(b) : TRUE
      skipped == b - e.logicalStart
  IN [start |-> e.startBlock + skipped, count |-> e.blockCount - skipped]

-----------------------------------------------------------------------------

Init ==
  /\ readable \in BOOLEAN
  /\ fork \in Forks
  /\ offset \in Offsets
  /\ size \in Sizes
  /\ request = [start |-> 0, count |-> 0]
  /\ remaining = request
  /\ outer = <<>> /\ inner = <<>>
  /\ loopCounter = 0
  /\ buf = [j \in 0..(size - 1) |-> Untouched]
  /\ pc = "check"

\* What the end of the fork leaves of the size.
Cut == Least(size, fork.logicalSize - offset)

\* A range behind the end of the fork, or without bytes: the result is 0.
Ignore ==
  /\ pc = "check" /\ Cut <= 0
  /\ size' = 0
  /\ pc' = "done"
  /\ UNCHANGED <<ranges, request, remaining, outer, inner, loopCounter, buf>>

byte_offset == offset % BlockSize

MutantRoundDown ==
  /\ pc = "check" /\ Cut > 0
  /\ size' = Cut
  /\ request' = [ start |-> offset \div BlockSize, count |-> size' \div BlockSize ]
  /\ outer' = [j \in 0..(request'.count * BlockSize - 1) |-> Zero]
  /\ pc' = "request"
  /\ UNCHANGED <<ranges, remaining, inner, loopCounter, buf>>

\* The range is cut at the end of the fork and rounded to blocks; one block is
\* added when the range does not end on a block boundary.
Round ==
  /\ pc = "check" /\ Cut > 0
  /\ size' = Cut
  /\ request' = [ start |-> offset \div BlockSize,
                  count |-> size' \div BlockSize
                            + IF (offset + size') % BlockSize # 0 THEN 1 ELSE 0 ]
  /\ outer' = [j \in 0..(request'.count * BlockSize - 1) |-> Zero]
  /\ pc' = "request"
  /\ UNCHANGED <<ranges, remaining, inner, loopCounter, buf>>

Bad == request.count < 1 \/ request.start > fork.totalBlocks

\* hfs_read_fork refuses the request with -1, which its caller takes for a
\* number of blocks: what is copied then is the buffer nothing was read into.
Refuse ==
  /\ pc = "request" /\ Bad
  /\ pc' = "copy"
  /\ UNCHANGED <<ranges, size, request, remaining, outer, inner, loopCounter, buf>>

\* A request that reaches the end of the fork is trimmed, to one block at least.
Trimmed ==
  IF request.start + request.count >= fork.totalBlocks
  THEN [request EXCEPT !.count = Max({fork.totalBlocks - request.start, 1})]
  ELSE request

Begin ==
  /\ pc = "request" /\ ~Bad
  /\ request' = Trimmed
  /\ remaining' = request'
  /\ inner' = [j \in 0..(request.count * BlockSize - 1) |-> Zero]
  /\ pc' = "loop"
  /\ UNCHANGED <<ranges, size, outer, loopCounter, buf>>

MutantStuckRetries ==
  /\ pc = "loop"
  /\ loopCounter >= LoopLimit \/ Containing(remaining.start) = {}
  /\ UNCHANGED vars

\* The fail-safe, and a block that is in no extent, end the program.
Stuck ==
  /\ pc = "loop"
  /\ loopCounter >= LoopLimit \/ Containing(remaining.start) = {}
  /\ loopCounter' = loopCounter + 1
  /\ pc' = "aborted"
  /\ UNCHANGED <<ranges, size, request, remaining, outer, inner, buf>>

\* How many bytes a read of the volume brings; a whole number of sectors, here
\* any number.
Transfers(count) == IF readable THEN {count * BlockSize} ELSE 0..(count * BlockSize)

MutantReadIgnoresExtentEnd ==
  /\ pc = "loop"
  /\ loopCounter < LoopLimit /\ Containing(remaining.start) # {}
  /\ loopCounter' = loopCounter + 1
  /\ LET found == extentlist_find(remaining.start)
         count == request.count
     IN \E bytes \in Transfers(count) :
          /\ inner' = [j \in DOMAIN inner |->
                         IF j < bytes THEN found.start * BlockSize + j ELSE inner[j]]
          /\ remaining' = [ start |-> remaining.start + bytes,
                            count |-> remaining.count - Least(bytes, remaining.count) ]
  /\ pc' = IF remaining'.count = 0 THEN "copy" ELSE "loop"
  /\ outer' = IF pc' = "copy"
              THEN [j \in DOMAIN outer |-> IF j < request.count * BlockSize THEN inner'[j] ELSE outer[j]]
              ELSE outer
  /\ UNCHANGED <<ranges, size, request, buf>>

\* One turn of the loop.  Every turn reads to the beginning of the buffer, and
\* the number of bytes that come is subtracted from the number of blocks left.
Read ==
  /\ pc = "loop"
  /\ loopCounter < LoopLimit /\ Containing(remaining.start) # {}
  /\ loopCounter' = loopCounter + 1
  /\ LET found == extentlist_find(remaining.start)
         count == Least(found.count, request.count)
     IN \E bytes \in Transfers(count) :
          /\ inner' = [j \in DOMAIN inner |->
                         IF j < bytes THEN found.start * BlockSize + j ELSE inner[j]]
          /\ remaining' = [ start |-> remaining.start + bytes,
                            count |-> remaining.count - Least(bytes, remaining.count) ]
  /\ pc' = IF remaining'.count = 0 THEN "copy" ELSE "loop"
  /\ outer' = IF pc' = "copy"
              THEN [j \in DOMAIN outer |-> IF j < request.count * BlockSize THEN inner'[j] ELSE outer[j]]
              ELSE outer
  /\ UNCHANGED <<ranges, size, request, buf>>

\* The range goes to the caller, and its size is the result.
Copy ==
  /\ pc = "copy"
  /\ buf' = [j \in DOMAIN buf |->
               IF j >= size THEN buf[j]
               ELSE IF byte_offset + j \in DOMAIN outer THEN outer[byte_offset + j] ELSE Stray]
  /\ pc' = "done"
  /\ UNCHANGED <<ranges, size, request, remaining, outer, inner, loopCounter>>

Next == Ignore \/ Round \/ Refuse \/ Begin \/ Stuck \/ Read \/ Copy

Spec == Init /\ [][Next]_vars

-----------------------------------------------------------------------------
(***************************************************************************)
(* Properties                                                              *)
(***************************************************************************)

\* The position on the volume of byte n of the fork.
ForkByte(n) ==
  extentlist_find(n \div BlockSize).start * BlockSize + (n % BlockSize)

BytesOf(e) == (e.startBlock * BlockSize)..((e.startBlock + e.blockCount) * BlockSize - 1)

\* A byte of the volume that reaches the caller belongs to the fork, in however
\* many pieces the fork lies and wherever reads fall short: a read never runs
\* over the end of an extent into the file behind it.
NoForeignBytes ==
  \A j \in DOMAIN buf : buf[j] >= 0 => \E e \in Extents : buf[j] \in BytesOf(e)

InOneExtent ==
  \E e \in Extents : /\ range_contains(e, request.start)
                     /\ request.start + request.count <= e.logicalStart + e.blockCount

\* The range needs one block more than is requested.
FallsShort == byte_offset + (size % BlockSize) >= BlockSize

Exact == \A j \in 0..(size - 1) : buf[j] = ForkByte(offset + j)

\* The bytes of the fork are in its blocks.
Roomy == fork.logicalSize <= fork.totalBlocks * BlockSize

\* A range in one extent comes complete and in order when the volume can be
\* read and the range does not need the missing block.
OneExtentExact ==
  pc = "done" /\ size > 0 /\ readable /\ Roomy /\ InOneExtent /\ ~FallsShort => Exact

\* hfs_io.c:273 "Keep track of what's left to get": a range of a fork in several
\* extents is complete when nothing is left to get.
SeveralExtentsExact ==
  pc = "done" /\ size > 0 /\ readable /\ ~FallsShort => Exact
=============================================================================
