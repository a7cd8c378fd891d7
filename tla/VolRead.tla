------------------------------ MODULE VolRead ------------------------------
(***************************************************************************)
(* vol_read (volumes/volume.c): a byte range of a volume, which is a       *)
(* window of a device, read in whole sectors through a buffer.             *)
(*                                                                         *)
(* A byte is known by its position on the device.  A byte of a buffer that *)
(* was never written is Zero in the read buffer, which is allocated        *)
(* cleared, and Untouched in the caller's; Stray is what lies behind the   *)
(* read buffer.                                                            *)
(***************************************************************************)
EXTENDS Integers, FiniteSets, FiniteSetsExt

CONSTANTS
  DeviceSizes, Offsets, Lengths,   \* of devices and of windows on them
  SectorSizes,
  Starts, Sizes,                   \* ranges asked for
  DeviceMayFail,                   \* whether reads fall short, seeks fail
  Word                             \* 2^64, the number of values of a size_t

ASSUME RangesAssumption ==
  /\ Offsets \subseteq Nat /\ Lengths \subseteq Nat /\ DeviceSizes \subseteq Nat
  /\ Starts \subseteq Nat /\ Sizes \subseteq Nat

ASSUME SectorsAssumption == SectorSizes \subseteq Nat \ {0}

\* The buffers are allocated: the bytes of a range, rounded to sectors, are a size_t.
ASSUME WordAssumption ==
  Word \in Nat \ {0} /\ \A s \in Sizes, b \in SectorSizes : s + b < Word

Untouched == -1
Zero == -2
Stray == -3

VARIABLES
  vol,         \* [device, offset, length, blksz]; a length of 0 is none at all
  start, size, \* the range, as asked for and then as cut
  block_count, read_buffer, read_blocks,
  buf, bytes_read,
  pc           \* "check", "fetch", "copy" or "done"

request == <<vol, start>>
vars == <<request, size, block_count, read_buffer, read_blocks, buf, bytes_read, pc>>

Least(a, b) == Min({a, b})
byte_offset == start % vol.blksz
start_block == start \div vol.blksz

-----------------------------------------------------------------------------

Init ==
  /\ vol \in [device : DeviceSizes, offset : Offsets, length : Lengths, blksz : SectorSizes]
  /\ start \in Starts
  /\ size \in Sizes
  /\ block_count = 0 /\ read_blocks = 0 /\ bytes_read = 0
  /\ read_buffer = <<>>
  /\ buf = [j \in 0..(size - 1) |-> Untouched]
  /\ pc = "check"

BeyondEnd == vol.length # 0 /\ start > vol.length

\* A range behind the end of the volume, or without bytes: nothing is read.
Ignore ==
  /\ pc = "check"
  /\ BeyondEnd \/ (vol.length = start /\ vol.length # 0) \/ size = 0
  /\ bytes_read' = 0
  /\ pc' = "done"
  /\ UNCHANGED <<request, size, block_count, read_buffer, read_blocks, buf>>

\* The size asked for, and what the end of the volume leaves of it.
Asked == Cardinality(DOMAIN buf)
Cut == IF vol.length # 0 THEN Least(Asked, vol.length - start) ELSE Asked

MutantRequestNoExtraBlock ==
  /\ pc = "check" /\ ~BeyondEnd /\ Cut > 0
  /\ size' = Cut
  /\ block_count' = size' \div vol.blksz
  /\ read_buffer' = [j \in 0..(block_count' * vol.blksz - 1) |-> Zero]
  /\ pc' = "fetch"
  /\ UNCHANGED <<request, read_blocks, buf, bytes_read>>

\* The range is cut at the end of the volume and rounded to sectors.  One
\* sector is added when the range does not end on a sector boundary.
Request ==
  /\ pc = "check" /\ ~BeyondEnd /\ Cut > 0
  /\ size' = Cut
  /\ block_count' = size' \div vol.blksz + (IF (start + size') % vol.blksz # 0 THEN 1 ELSE 0)
  /\ read_buffer' = [j \in 0..(block_count' * vol.blksz - 1) |-> Zero]
  /\ pc' = "fetch"
  /\ UNCHANGED <<request, read_blocks, buf, bytes_read>>

Position == start_block * vol.blksz + vol.offset

\* What fpread can return: the bytes up to the end of the device, fewer when
\* the device fails, -1 when the seek does.
Transfers ==
  LET most == Max({0, Least(block_count * vol.blksz, vol.device - Position)})
  IN IF DeviceMayFail THEN -1..most ELSE {most}

MutantFetchIgnoresWindow ==
  /\ pc = "fetch"
  /\ \E n \in Transfers :
       /\ read_buffer' = [j \in DOMAIN read_buffer |->
                            IF j < n THEN Position - vol.offset + j ELSE read_buffer[j]]
       /\ read_blocks' = IF n > 0 THEN n \div vol.blksz ELSE n
  /\ pc' = "copy"
  /\ UNCHANGED <<request, size, block_count, buf, bytes_read>>

\* vol_blk_get: the transfer, counted in whole sectors.
Fetch ==
  /\ pc = "fetch"
  /\ \E n \in Transfers :
       /\ read_buffer' = [j \in DOMAIN read_buffer |->
                            IF j < n THEN Position + j ELSE read_buffer[j]]
       /\ read_blocks' = IF n > 0 THEN n \div vol.blksz ELSE n
  /\ pc' = "copy"
  /\ UNCHANGED <<request, size, block_count, buf, bytes_read>>

\* The difference is unsigned: with no whole sector, or after a failed seek, it
\* wraps around and the size stays what it was.
Copied == Least((read_blocks * vol.blksz - byte_offset) % Word, size)

BufferByte(j) == IF j \in DOMAIN read_buffer THEN read_buffer[j] ELSE Stray

\* The range goes to the caller, from where it starts in the first sector.
Copy ==
  /\ pc = "copy"
  /\ size' = Copied
  /\ buf' = [j \in DOMAIN buf |->
               IF read_blocks # 0 /\ j < Copied THEN BufferByte(byte_offset + j) ELSE buf[j]]
  /\ bytes_read' = size'
  /\ pc' = "done"
  /\ UNCHANGED <<request, block_count, read_buffer, read_blocks>>

Next == Ignore \/ Request \/ Fetch \/ Copy

Spec == Init /\ [][Next]_vars

-----------------------------------------------------------------------------
(***************************************************************************)
(* Properties                                                              *)
(***************************************************************************)

\* Every variable has its type, and the count returned never exceeds what was
\* asked for, although it is computed with a difference that can wrap around.
TypeOK ==
  /\ size \in Nat /\ size <= Max({0} \cup Sizes)
  /\ block_count \in Nat
  /\ \A j \in DOMAIN read_buffer : read_buffer[j] \in Nat \cup {Zero}
  /\ \A j \in DOMAIN buf : buf[j] \in Int
  /\ bytes_read \in 0..Asked
  /\ pc \in {"check", "fetch", "copy", "done"}

\* The byte of the device that belongs at place j of the caller's buffer.
Wanted(j) == vol.offset + start + j

SeekFailed == read_blocks = -1

\* Each byte of the caller's buffer is its own byte of the volume or was left
\* alone: a short read, a device that ends early or a window that does not
\* begin on a sector never put a byte in the wrong place.  (After a failed
\* seek the buffer is filled from a read buffer nothing was read into.)
RightPlace ==
  \A j \in DOMAIN buf :
    /\ ~SeekFailed => buf[j] \in {Untouched, Wanted(j)}
    /\ buf[j] # Untouched /\ vol.length # 0 => Wanted(j) < vol.offset + vol.length

\* The range needs one sector more than is read: it begins inside a sector and
\* ends in or at the end of a sector it reaches only by what it begins behind.
FallsShort == byte_offset + (Cut % vol.blksz) >= vol.blksz

\* When every sector asked for arrives, a range that does not need the missing
\* one is read completely.
Complete ==
  pc = "done" /\ block_count > 0 /\ read_blocks = block_count /\ ~FallsShort =>
    /\ bytes_read = Cut
    /\ \A j \in 0..(Cut - 1) : buf[j] = Wanted(j)
=============================================================================
